----------------------------- MODULE ReviewDesk -----------------------------
(***************************************************************************)
(* The review queue over the datapoints table: a worker's transaction      *)
(* files a candidate it is not sure of as a review item                    *)
(* (src/axis/ingestion/persist.py), and a reviewer's request accepts,      *)
(* edits or rejects it (src/axis/api/v1/review.py, resolve_review_item).   *)
(*                                                                         *)
(* The request reads the item, writes its fact through the transaction of  *)
(* FactStore, and changes the item as an object: SQLAlchemy emits that     *)
(* UPDATE, by primary key and with no look at the status, at the commit.   *)
(* Nothing the transaction does comes between that UPDATE and its COMMIT,  *)
(* so an UPDATE that waits for a rival's waits for its commit alone, and   *)
(* the two are one step here.                                              *)
(***************************************************************************)
EXTENDS FactStoreRefinement

CONSTANT Items  \* review items ever filed

VARIABLES
  item,  \* by item: [status, owner, key, val, by] where status is "unused",
         \* "added" (by owner's open transaction) or a ReviewStatus; key is
         \* Nobody for an unknown attribute, val what resolution stored
  desk   \* by reviewer: [item, action, val, overtaken], its open request;
         \* overtaken: auxiliary, its item was resolved after it was read

deskVars == <<item, desk>>
allVars  == <<vars, item, desk>>

NoItem == "no item"
ASSUME NoItemAssumption == NoItem \notin Items

Empties  == [kind |-> "none", n |-> 0]
Blank    == [status |-> "unused", owner |-> Nobody, key |-> Nobody, val |-> Empties]
Idle     == [item |-> NoItem, action |-> "reject", val |-> Empties, overtaken |-> FALSE]
Resolved == {"accepted", "edited", "rejected"}

DeskInit ==
  /\ Init
  /\ item = [i \in Items |-> Blank]
  /\ desk = [r \in Reviewers |-> Idle]

-----------------------------------------------------------------------------
(* The worker.                                                             *)

\* _persist_review_item, _persist_unknown_review_item: session.add.
File(w) ==
  /\ Skip(w)
  /\ \E i \in Items, k \in Keys \cup {Nobody}, v \in Asserted :
       /\ item[i].status = "unused"
       /\ item' = [item EXCEPT ![i] = [status |-> "added", owner |-> w,
                                       key |-> k, val |-> v]]
  /\ UNCHANGED desk

\* The candidate is below the review threshold.
DropLow(w) == Skip(w) /\ UNCHANGED deskVars

\* Items of the transaction appear with its commit, or never.
Publish(w) ==
  item' = [i \in Items |-> IF item[i].owner = w
                           THEN [item[i] EXCEPT !.status = "pending", !.owner = Nobody]
                           ELSE item[i]]
Withdraw(w) ==
  item' = [i \in Items |-> IF item[i].owner = w THEN Blank ELSE item[i]]

Assertion(c, k, v) == Keep(c, k, v) \/ AddFirst(c, k, v) \/ Supersede(c, k, v)
Flushing(c) == Retire(c) \/ InsertRow(c) \/ AddReplacement(c) \/ LastFlush(c) \/ FlushDone(c)
CutShort(c) == UniqueViolation(c) \/ DeadlockVictim(c) \/ Crash(c)

Work(w) ==
  \/ Begin(w) /\ UNCHANGED deskVars
  \/ \E k \in Keys, v \in Asserted : Assertion(w, k, v) /\ UNCHANGED deskVars
  \/ File(w)
  \/ DropLow(w)
  \/ Flushing(w) /\ UNCHANGED deskVars
  \/ Commit(w) /\ Publish(w) /\ UNCHANGED desk
  \/ (CutShort(w) \/ \E k \in Keys, v \in Asserted : BadValue(w, k, v))
       /\ Withdraw(w) /\ UNCHANGED desk

-----------------------------------------------------------------------------
(* The reviewer.                                                           *)

\* What a request asks for: an edit may lack its value.
Requests(i) ==
  { [item |-> i, action |-> "reject", val |-> Empties, overtaken |-> FALSE],
    [item |-> i, action |-> "accept", val |-> item[i].val, overtaken |-> FALSE] }
  \cup { [item |-> i, action |-> "edit", val |-> v, overtaken |-> FALSE] :
           v \in Asserted \cup {Empties} }

\* Mutant: an item is resolved whatever its status.
OpenAny(r) ==
  /\ Begin(r)
  /\ \E i \in Items : /\ item[i].status \in {"pending"} \cup Resolved
                      /\ \E d \in Requests(i) : desk' = [desk EXCEPT ![r] = d]
  /\ UNCHANGED item

\* The item is read; one that is not pending is answered 409 and ends the
\* request before it has done anything.
Open(r) ==
  /\ Begin(r)
  /\ \E i \in Items : /\ item[i].status = "pending"
                      /\ \E d \in Requests(i) : desk' = [desk EXCEPT ![r] = d]
  /\ UNCHANGED item

StatusOf(action) == CASE action = "accept" -> "accepted"
                      [] action = "edit"   -> "edited"
                      [] OTHER             -> "rejected"

Attribute(r) == item[desk[r].item].key

\* A rejection writes no fact.
Reject(r) == desk[r].action = "reject" /\ Skip(r) /\ UNCHANGED deskVars

\* Mutant: the verdict is committed before the fact is written.
MaterialiseLate(r) ==
  /\ desk[r].action # "reject"
  /\ Attribute(r) # Nobody /\ desk[r].val # Empties
  /\ Assertion(r, Attribute(r), desk[r].val)
  /\ item' = [item EXCEPT ![desk[r].item].status = StatusOf(desk[r].action),
                          ![desk[r].item].val = desk[r].val]
  /\ UNCHANGED desk

\* Accept and edit: the fact is written through the transaction.
Materialise(r) ==
  /\ desk[r].action # "reject"
  /\ Attribute(r) # Nobody /\ desk[r].val # Empties
  /\ Assertion(r, Attribute(r), desk[r].val)
  /\ UNCHANGED deskVars

Leave(r) == desk' = [desk EXCEPT ![r] = Idle] /\ UNCHANGED item

\* 400: an unknown attribute can only be rejected, an edit needs a value;
\* float() of the value raises.
Refuse(r) ==
  /\ pc[r] = "work" /\ left[r] > 0 /\ desk[r].action # "reject"
  /\ \/ (Attribute(r) = Nobody \/ desk[r].val = Empties) /\ Rollback(r)
     \/ \E k \in Keys : k = Attribute(r) /\ BadValue(r, k, desk[r].val)
  /\ Leave(r)

\* The item takes the request's verdict and value; the other open requests
\* for it have read it before.
Resolve(r) ==
  LET i == desk[r].item
  IN  /\ item' = [item EXCEPT ![i].status = StatusOf(desk[r].action),
                              ![i].val = IF desk[r].action = "reject" THEN @
                                         ELSE desk[r].val]
      /\ desk' = [s \in Reviewers |->
                    IF s = r THEN Idle
                    ELSE [desk[s] EXCEPT !.overtaken = @ \/ desk[s].item = i]]

Review(r) ==
  \/ Open(r)
  \/ Reject(r)
  \/ Materialise(r)
  \/ Refuse(r)
  \/ Flushing(r) /\ UNCHANGED deskVars
  \/ Commit(r) /\ Resolve(r)
  \/ CutShort(r) /\ Leave(r)

DeskNext == (\E w \in Workers : Work(w)) \/ (\E r \in Reviewers : Review(r))

DeskSpec == DeskInit /\ [][DeskNext]_allVars

-----------------------------------------------------------------------------
DeskTypeOK ==
  /\ TypeOK
  /\ item \in [Items -> [status : {"unused", "added", "pending"} \cup Resolved,
                         owner : Workers \cup {Nobody}, key : Keys \cup {Nobody},
                         val : Asserted \cup {Empties}]]
  /\ desk \in [Reviewers -> [item : Items \cup {NoItem},
                             action : {"accept", "edit", "reject"},
                             val : Asserted \cup {Empties}, overtaken : BOOLEAN]]

\* An item that says accepted or edited has its fact: a committed human row of
\* its attribute with its value, whatever else was resolved at the same time
\* and however the requests for it ended (review.py resolve_review_item,
\* _materialise_human_datapoint).
ResolvedHasFact ==
  \A i \in Items : item[i].status \in {"accepted", "edited"} =>
    /\ item[i].key \in Keys
    /\ \E f \in Ids : /\ Committed(f)
                      /\ row[f].slot = <<item[i].key, "human">>
                      /\ row[f].val = Coerce(TypeOf[item[i].key], item[i].val)

\* The verdict on an item is final for every request that reads it afterwards:
\* it changes again only by the hand of a reviewer who had read the item
\* before the verdict was committed (review.py resolve_review_item, the 409).
VerdictIsFinal ==
  [][\A i \in Items :
       item[i].status \in Resolved /\ item'[i] # item[i] =>
         \E r \in Reviewers : desk[r].item = i /\ desk[r].overtaken]_allVars
=============================================================================
