-------------------------- MODULE MCCircuitBreaker --------------------------
EXTENDS CircuitBreaker

CONSTANTS j1, j2
=============================================================================
