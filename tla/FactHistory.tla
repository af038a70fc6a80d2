----------------------------- MODULE FactHistory -----------------------------
(***************************************************************************)
(* What the datapoints table promises its readers, with no transactions,   *)
(* locks or rows: for each attribute and source an append-only history of  *)
(* values, of which the latest one is current.  A writer of one source     *)
(* publishes new values for some attributes in one atomic step.            *)
(***************************************************************************)
EXTENDS Integers

CONSTANTS Keys, Sources, None

VARIABLES
  history,  \* by <<key, source>>: the values published, by their dates
  current   \* by <<key, source>>: the value a reader sees, or None

vars == <<history, current>>

Latest(h) == IF DOMAIN h = {} THEN None
             ELSE h[CHOOSE t \in DOMAIN h : \A u \in DOMAIN h : u <= t]

\* g goes on where h ends: nothing is lost or changed, what is new is later.
Continues(g, h) ==
  /\ DOMAIN h \subseteq DOMAIN g
  /\ \A t \in DOMAIN h : /\ g[t] = h[t]
                         /\ \A u \in DOMAIN g \ DOMAIN h : t < u

Init ==
  /\ history = [s \in Keys \X Sources |-> [t \in {} |-> None]]
  /\ current = [s \in Keys \X Sources |-> None]

Publish(source) ==
  /\ DOMAIN history' = Keys \X Sources
  /\ \A s \in Keys \X Sources :
       IF s[2] = source THEN Continues(history'[s], history[s])
                        ELSE history'[s] = history[s]
  /\ current' = [s \in Keys \X Sources |-> Latest(history'[s])]

Next == \E source \in Sources : Publish(source)

Spec == Init /\ [][Next]_vars
=============================================================================
