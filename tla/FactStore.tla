------------------------------ MODULE FactStore ------------------------------
(***************************************************************************)
(* The datapoints table and the transactions that write facts to it:       *)
(*   - a worker's persist_extraction (src/axis/ingestion/persist.py), one  *)
(*     transaction over the candidates of one extraction, provenance AI;   *)
(*   - a reviewer's _materialise_human_datapoint                           *)
(*     (src/axis/api/v1/review.py), one fact, provenance human.            *)
(* Both read the live row of their own provenance, ask the rule of         *)
(* Reconciliation, and then insert, or retire the old row, flush, and only *)
(* then insert.  The session is a unit of work with autoflush off          *)
(* (src/axis/db/base.py): a row that was added is not seen by the          *)
(* transaction's own queries before a flush.                               *)
(*                                                                         *)
(* External, modelled as the code relies on it: PostgreSQL at READ         *)
(* COMMITTED, with row locks held to the end of the transaction, the       *)
(* partial unique index uq_datapoints_live_fact, and a deadlock detector.  *)
(***************************************************************************)
EXTENDS Reconciliation, FiniteSets

CONSTANTS
  Keys,       \* the (venue, attribute) pairs
  Workers,    \* sessions of ingestion workers
  Reviewers,  \* sessions of review requests
  Asserted,   \* values candidates and reviewers may assert
  TypeOf,     \* the value type of each key's attribute
  MaxId,      \* bound: datapoint ids ever minted
  MaxCands    \* bound: candidates in one extraction

Clients == Workers \cup Reviewers
Ids     == 1..MaxId
Slots   == Keys \X {"ai_extraction", "human"}

ASSUME ClientsAssumption == Workers \cap Reviewers = {}
ASSUME BoundsAssumption  == MaxId \in Nat /\ MaxCands \in Nat \ {0}
ASSUME ValuesAssumption  == Asserted \subseteq Value /\ TypeOf \in [Keys -> ValueTypes]

VARIABLES
  row,   \* by id: [status, owner, slot, val, succ], where status is
         \*   "unused"    "minted" (uuid drawn)   "pending" (session.add)
         \*   "flushed" (INSERT done, not committed)   "committed"
         \* owner is the client that has not committed it yet, slot its
         \* <<key, provenance>>, succ its committed superseded_by_id (0: NULL)
  upd,   \* by client and id: its uncommitted UPDATE of superseded_by_id (0: none)
  pc,    \* by client: where its transaction is
  left,  \* by client: the candidates its transaction has still to handle
  old,   \* by client: the live row its SupersedeLive retires (0: none)
  new    \* by client: the id it minted for the replacement (0: none)

txVars == <<upd, pc, left, old, new>>
vars   == <<row, upd, pc, left, old, new>>

Nobody == "nobody"
ASSUME NobodyAssumption == Nobody \notin Clients

NoUpdate == [r \in Ids |-> 0]
Unused   == [status |-> "unused", owner |-> Nobody, slot |-> <<Nobody, Nobody>>,
             val |-> [kind |-> "none", n |-> 0], succ |-> 0]

Statuses == {"unused", "minted", "pending", "flushed", "committed"}
Pcs      == {"idle", "work", "retire", "insert", "commit"}

ProvOf(c) == IF c \in Workers THEN "ai_extraction" ELSE "human"

-----------------------------------------------------------------------------
(* What a query of client c sees: committed rows and its own flushed ones. *)

Sees(c, r)    == \/ row[r].status = "committed"
                 \/ row[r].status = "flushed" /\ row[r].owner = c
SuccFor(c, r) == IF upd[c][r] # 0 THEN upd[c][r] ELSE row[r].succ
LiveFor(c, s) == { r \in Ids : /\ Sees(c, r)
                               /\ row[r].slot = s
                               /\ SuccFor(c, r) = 0 }

\* _live_existing: the row is found by the client's own provenance.
Existing(c, s) ==
  IF LiveFor(c, s) = {} THEN NoFact
  ELSE LET r == CHOOSE x \in LiveFor(c, s) : TRUE
       IN  Fact(r, s[2], row[r].val)

\* What a reader outside these transactions sees (list_live_datapoints).
Live == { r \in Ids : row[r].status = "committed" /\ row[r].succ = 0 }

\* Ids are minted in time order (uuid7): the next one follows all in use.
IsNextId(n) == /\ \A m \in Ids : m >= n => row[m].status = "unused"
               /\ n > 1 => row[n - 1].status # "unused"

-----------------------------------------------------------------------------
(* Locks.  An UPDATE waits for another transaction's update of the same    *)
(* row; an INSERT waits while a rival key of the unique index belongs to a *)
(* transaction that is still open, and fails on a rival that is settled.   *)

RetireBlockers(c) == { d \in Clients \ {c} : upd[d][old[c]] # 0 }

\* The rows client c has added and not flushed, first to be inserted first.
Pending(c)    == { r \in Ids : row[r].status = "pending" /\ row[r].owner = c }
IsFirst(c, n) == n \in Pending(c) /\ \A m \in Pending(c) : n <= m

\* Mutant: the index is unique per transaction only.
RivalsOwn(c, n) == { r \in LiveFor(c, row[n].slot) : row[r].owner = c }

\* Committed and own rows that hold the index entry row n asks for.
Rivals(c, n) == LiveFor(c, row[n].slot)

InsertBlockers(c, n) ==
  { d \in Clients \ {c} :
      \/ \E r \in Ids : /\ row[r].status = "flushed"
                        /\ row[r].owner = d
                        /\ row[r].slot = row[n].slot
      \/ \E r \in Rivals(c, n) : upd[d][r] # 0 }

Blockers(c) ==
  CASE pc[c] = "retire" -> RetireBlockers(c)
    [] pc[c] = "insert" -> UNION { InsertBlockers(c, n) :
                                     n \in { m \in Pending(c) : IsFirst(c, m) } }
    [] OTHER            -> {}

\* Each member of S waits for a member and is waited for by one.
IsWaitCycle(S) ==
  \A c \in S : /\ Blockers(c) \cap S # {}
               /\ \E d \in S : c \in Blockers(d)

-----------------------------------------------------------------------------
Init ==
  /\ row  = [r \in Ids |-> Unused]
  /\ upd  = [c \in Clients |-> NoUpdate]
  /\ pc   = [c \in Clients |-> "idle"]
  /\ left = [c \in Clients |-> 0]
  /\ old  = [c \in Clients |-> 0]
  /\ new  = [c \in Clients |-> 0]

\* session_scope opens a transaction: for the candidates of one extraction,
\* or for the one fact of a resolution.
Begin(c) ==
  /\ pc[c] = "idle"
  /\ pc' = [pc EXCEPT ![c] = "work"]
  /\ \E n \in 1..(IF c \in Workers THEN MaxCands ELSE 1) :
       left' = [left EXCEPT ![c] = n]
  /\ UNCHANGED <<row, upd, old, new>>

\* Mutant: a candidate is skipped when none is left.
SkipUnguarded(c) ==
  /\ pc[c] = "work"
  /\ left' = [left EXCEPT ![c] = @ - 1]
  /\ UNCHANGED <<row, upd, pc, old, new>>

\* The next candidate writes no datapoint: below the review threshold, sent
\* to review, unknown; a reviewer's request is a rejection or refused.
Skip(c) ==
  /\ pc[c] = "work" /\ left[c] > 0
  /\ left' = [left EXCEPT ![c] = @ - 1]
  /\ UNCHANGED <<row, upd, pc, old, new>>

Row(st, c, s, v) ==
  [status |-> st, owner |-> c, slot |-> s, val |-> v, succ |-> 0]

\* The next candidate asserts v for key k; action is what the rule answers.
Decides(c, k, v, action) ==
  /\ pc[c] = "work" /\ left[c] > 0
  /\ ~CoerceFails(TypeOf[k], v)
  /\ action = Reconcile(Existing(c, <<k, ProvOf(c)>>), Fact(0, ProvOf(c), v))

Keep(c, k, v) ==
  /\ \E id \in Ids : Decides(c, k, v, NoOp(id))
  /\ left' = [left EXCEPT ![c] = @ - 1]
  /\ UNCHANGED <<row, upd, pc, old, new>>

\* InsertLive: session.add only; the INSERT waits for the next flush.
AddFirst(c, k, v) ==
  /\ Decides(c, k, v, InsertLive)
  /\ \E n \in Ids :
       /\ IsNextId(n)
       /\ row' = [row EXCEPT ![n] =
                    Row("pending", c, <<k, ProvOf(c)>>, Coerce(TypeOf[k], v))]
  /\ left' = [left EXCEPT ![c] = @ - 1]
  /\ UNCHANGED <<upd, pc, old, new>>

\* SupersedeLive: mint the replacement's id, point the old row at it, flush.
Supersede(c, k, v) ==
  \E id \in Ids, n \in Ids :
    /\ Decides(c, k, v, SupersedeLive(id))
    /\ IsNextId(n)
    /\ row' = [row EXCEPT ![n] =
                 Row("minted", c, <<k, ProvOf(c)>>, Coerce(TypeOf[k], v))]
    /\ old' = [old EXCEPT ![c] = id]
    /\ new' = [new EXCEPT ![c] = n]
    /\ pc' = [pc EXCEPT ![c] = "retire"]
    /\ left' = [left EXCEPT ![c] = @ - 1]
    /\ UNCHANGED upd

\* Mutant: the retirement is committed instead of flushed.
RetireCommitted(c) ==
  /\ pc[c] = "retire"
  /\ RetireBlockers(c) = {}
  /\ row' = [row EXCEPT ![old[c]].succ = new[c]]
  /\ pc' = [pc EXCEPT ![c] = "insert"]
  /\ UNCHANGED <<upd, left, old, new>>

\* Mutant: the old row is pointed at itself.
RetireToSelf(c) ==
  /\ pc[c] = "retire"
  /\ RetireBlockers(c) = {}
  /\ upd' = [upd EXCEPT ![c][old[c]] = old[c]]
  /\ pc' = [pc EXCEPT ![c] = "insert"]
  /\ UNCHANGED <<row, left, old, new>>

\* The flush emits the UPDATE first ...
Retire(c) ==
  /\ pc[c] = "retire"
  /\ RetireBlockers(c) = {}
  /\ upd' = [upd EXCEPT ![c][old[c]] = new[c]]
  /\ pc' = [pc EXCEPT ![c] = "insert"]
  /\ UNCHANGED <<row, left, old, new>>

\* ... then one INSERT per added row, in the order they were added.
InsertRow(c) ==
  /\ pc[c] = "insert"
  /\ \E n \in Ids :
       /\ IsFirst(c, n)
       /\ InsertBlockers(c, n) = {}
       /\ Rivals(c, n) = {}
       /\ row' = [row EXCEPT ![n].status = "flushed"]
  /\ UNCHANGED txVars

\* Mutant: the replacement is added again and again.
AddReplacementNoReset(c) ==
  /\ pc[c] = "insert" /\ Pending(c) = {} /\ new[c] # 0
  /\ row' = [row EXCEPT ![new[c]].status = "pending"]
  /\ pc' = [pc EXCEPT ![c] = "work"]
  /\ UNCHANGED <<upd, left, old, new>>

\* The flush of a SupersedeLive is over: the replacement is added.
AddReplacement(c) ==
  /\ pc[c] = "insert" /\ Pending(c) = {} /\ new[c] # 0
  /\ row' = [row EXCEPT ![new[c]].status = "pending"]
  /\ pc' = [pc EXCEPT ![c] = "work"]
  /\ old' = [old EXCEPT ![c] = 0]
  /\ new' = [new EXCEPT ![c] = 0]
  /\ UNCHANGED <<upd, left>>

\* No candidate is left: the flush that ends persist_extraction.
LastFlush(c) ==
  /\ pc[c] = "work" /\ left[c] = 0
  /\ pc' = [pc EXCEPT ![c] = "insert"]
  /\ UNCHANGED <<row, upd, left, old, new>>

FlushDone(c) ==
  /\ pc[c] = "insert" /\ Pending(c) = {} /\ new[c] = 0
  /\ pc' = [pc EXCEPT ![c] = "commit"]
  /\ UNCHANGED <<row, upd, left, old, new>>

Ends(c) ==
  /\ upd'  = [upd EXCEPT ![c] = NoUpdate]
  /\ pc'   = [pc EXCEPT ![c] = "idle"]
  /\ left' = [left EXCEPT ![c] = 0]
  /\ old'  = [old EXCEPT ![c] = 0]
  /\ new'  = [new EXCEPT ![c] = 0]

Commit(c) ==
  /\ pc[c] = "commit"
  /\ row' = [r \in Ids |->
               IF row[r].owner = c
               THEN [row[r] EXCEPT !.status = "committed", !.owner = Nobody,
                                   !.succ = SuccFor(c, r)]
               ELSE [row[r] EXCEPT !.succ = SuccFor(c, r)]]
  /\ Ends(c)

Rollback(c) ==
  /\ row' = [r \in Ids |-> IF row[r].owner = c THEN Unused ELSE row[r]]
  /\ Ends(c)

\* _value_columns raises ValueError; nothing catches it before session_scope.
BadValue(c, k, v) ==
  /\ pc[c] = "work" /\ left[c] > 0
  /\ CoerceFails(TypeOf[k], v)
  /\ Rollback(c)

\* IntegrityError from uq_datapoints_live_fact.
UniqueViolation(c) ==
  /\ pc[c] = "insert"
  /\ \E n \in Ids : /\ IsFirst(c, n)
                    /\ InsertBlockers(c, n) = {}
                    /\ Rivals(c, n) # {}
  /\ Rollback(c)

\* PostgreSQL ends one transaction of a cycle of waits.
DeadlockVictim(c) ==
  /\ \E S \in SUBSET Clients : c \in S /\ IsWaitCycle(S)
  /\ Rollback(c)

\* The process dies, the job times out, the request is cancelled, the
\* connection drops.
Crash(c) == pc[c] # "idle" /\ Rollback(c)

\* What the transaction of c does once begun, unless it is cut short.
Step(c) ==
  \/ Skip(c) \/ Retire(c) \/ InsertRow(c) \/ AddReplacement(c)
  \/ LastFlush(c) \/ FlushDone(c) \/ Commit(c)
  \/ UniqueViolation(c) \/ DeadlockVictim(c)
  \/ \E k \in Keys, v \in Asserted :
       Keep(c, k, v) \/ AddFirst(c, k, v) \/ Supersede(c, k, v) \/ BadValue(c, k, v)

Next == \E c \in Clients : Begin(c) \/ Step(c) \/ Crash(c)

Spec == Init /\ [][Next]_vars

\* A worker or a request keeps running, and the database wakes a waiter when
\* the transaction it waits for ends: a lock that is free again and again is
\* at last obtained.
Fairness ==
  \A c \in Clients : /\ WF_vars(Step(c))
                     /\ SF_vars(Retire(c))
                     /\ SF_vars(InsertRow(c) \/ UniqueViolation(c))

FairSpec == Spec /\ Fairness

-----------------------------------------------------------------------------
Rows == [status : Statuses, owner : Clients \cup {Nobody},
         slot : Slots \cup {<<Nobody, Nobody>>},
         val : [kind : {"bool", "num", "numeral", "word", "none"}, n : Int],
         succ : 0..MaxId]

TypeOK ==
  /\ row  \in [Ids -> Rows]
  /\ upd  \in [Clients -> [Ids -> 0..MaxId]]
  /\ pc   \in [Clients -> Pcs]
  /\ left \in [Clients -> 0..MaxCands]
  /\ old  \in [Clients -> 0..MaxId]
  /\ new  \in [Clients -> 0..MaxId]

Committed(r) == row[r].status = "committed"

\* A lookup never meets two live rows, whatever other transactions have
\* committed or left open since this one began: scalar_one_or_none of
\* _live_existing (persist.py) never raises MultipleResultsFound.
LookupIsUnique ==
  \A c \in Clients, s \in Slots :
    \A r1, r2 \in LiveFor(c, s) : r1 = r2

\* At most one live row per venue, attribute and provenance is committed
\* (the promise of db/models/datapoint.py, "live datapoint").
OneLive == \A r1, r2 \in Live : row[r1].slot = row[r2].slot => r1 = r2

\* superseded_by_id forms one forward chain per slot: it names a committed
\* row of the same slot, minted later, and no row is named twice (persist.py
\* _apply_action, review.py _materialise_human_datapoint).
ChainIsLinear ==
  \A r \in Ids : row[r].succ # 0 =>
    /\ Committed(row[r].succ)
    /\ row[row[r].succ].slot = row[r].slot
    /\ row[r].succ > r
    /\ \A q \in Ids : row[q].succ = row[r].succ => q = r

\* The audit trail is append-only: a committed row keeps its slot and value,
\* and once superseded keeps its successor, though a concurrent UPDATE of the
\* same row is granted as soon as the first one commits.
HistoryKept ==
  [][\A r \in Ids : Committed(r) =>
       /\ row'[r].status = "committed"
       /\ row'[r].slot = row[r].slot
       /\ row'[r].val = row[r].val
       /\ row[r].succ # 0 => row'[r].succ = row[r].succ]_vars

\* No AI fact is live beside a live human fact that contradicts it.
HumanOutranks ==
  \A r, h \in Live :
    /\ row[r].slot[1] = row[h].slot[1]
    /\ row[r].slot[2] = "ai_extraction" /\ row[h].slot[2] = "human"
    => row[r].val = row[h].val

\* Every transaction that is begun ends: waits for locks do not last.
TransactionsEnd == \A c \in Clients : pc[c] # "idle" ~> pc[c] = "idle"
=============================================================================
