-------------------------- MODULE MCSemanticSearch --------------------------
EXTENDS SemanticSearch
=============================================================================
