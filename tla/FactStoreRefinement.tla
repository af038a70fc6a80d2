------------------------ MODULE FactStoreRefinement ------------------------
(***************************************************************************)
(* FactStore implements FactHistory: the committed rows of a slot, dated   *)
(* by their ids (uuid7, in the order they are minted), are its history,    *)
(* and the row with a NULL superseded_by_id is its current value.          *)
(***************************************************************************)
EXTENDS FactStore

Absent == [kind |-> "none", n |-> 0]

HistoryOf(s) ==
  [r \in { q \in Ids : Committed(q) /\ row[q].slot = s } |-> row[r].val]

\* The value list_live_datapoints returns for the slot.
CurrentOf(s) ==
  IF \E r \in Live : row[r].slot = s
  THEN row[CHOOSE r \in Live : row[r].slot = s].val
  ELSE Absent

Abstract == INSTANCE FactHistory WITH
  Sources <- {"ai_extraction", "human"},
  None    <- Absent,
  history <- [s \in Slots |-> HistoryOf(s)],
  current <- [s \in Slots |-> CurrentOf(s)]

\* Every interleaving of persist and review transactions publishes to readers
\* an append-only history per attribute and source whose latest value is the
\* live one (persist.py persist_extraction, review.py
\* _materialise_human_datapoint, db/queries/venues.py list_live_datapoints).
ImplementsHistory == Abstract!Spec
=============================================================================
