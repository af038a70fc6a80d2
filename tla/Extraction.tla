----------------------------- MODULE Extraction -----------------------------
(***************************************************************************)
(* What an extractor makes of the model's answer: _parse_response of       *)
(* src/src/axis/extraction/anthropic_provider.py, and the contract of      *)
(* extraction/schemas.py it validates against.                             *)
(*                                                                         *)
(* An answer is a sequence of entries.  Of an entry the model keeps        *)
(* whether it is an object, its key, on which side of the two thresholds   *)
(* its confidence falls, whether it satisfies the schema (valid), and      *)
(* whether its value and evidence alone do (legible): a confidence of 2 is *)
(* not valid but legible, a list as the value neither.                     *)
(***************************************************************************)
EXTENDS Naturals, Sequences, SequencesExt

CONSTANT Keys

\* Below the review threshold, between the two, from the persist threshold on.
Confidences == {"low", "doubtful", "high"}

Entry == { e \in [object : BOOLEAN, key : Keys, confidence : Confidences,
                  valid : BOOLEAN, legible : BOOLEAN] : e.valid => e.legible }

Objects(answer) == { i \in DOMAIN answer : answer[i].object }

\* Building the unknown attribute of an entry that is not valid fails once more,
\* in the handler of the first failure: extract() raises.
Illegible(answer) == \E i \in Objects(answer) : ~answer[i].legible

\* The entries by the list they go to: those of the taxonomy that are valid,
\* and the others.
Known(answer, allowed) ==
  { i \in Objects(answer) : answer[i].key \in allowed /\ answer[i].valid }

\* Mutant: only what fails its validation is kept for the curator.
UnknownMalformed(answer, allowed) == { i \in Objects(answer) : ~answer[i].valid }

Unknown(answer, allowed) == Objects(answer) \ Known(answer, allowed)
=============================================================================
