------------------------------- MODULE MCLists -------------------------------
EXTENDS Lists

\* Two versions of the taxonomy have step_free, one of them lift.
Keys == [a \in Attributes |-> IF a = "lift_v1" THEN "lift" ELSE "step_free"]
=============================================================================
