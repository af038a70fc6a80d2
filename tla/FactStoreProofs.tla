--------------------------- MODULE FactStoreProofs ---------------------------
(***************************************************************************)
(* Theorems about FactStore and the review queue over it for every set of  *)
(* keys, clients, items and values and every bound, and about the rule of  *)
(* Reconciliation as FactStore applies it.                                 *)
(***************************************************************************)
EXTENDS ReviewDesk, FiniteSetTheorems, TLAPS

USE NobodyAssumption, BoundsAssumption, ValuesAssumption

\* What a column stores of a value it accepts is a value (_value_columns).
LEMMA CoerceType ==
  ASSUME NEW type \in ValueTypes, NEW v \in Value, ~CoerceFails(type, v)
  PROVE  Coerce(type, v) \in Value
<1>1. \A x \in Int : Round6(x) \in Int
  BY DEF Round6
<1>2. One \in Int
  BY DEF One
<1>3. CASE type = "bool"
  BY <1>3 DEF Coerce, AsBool, Bool, Value
<1>4. CASE type = "numeric"
  BY <1>1, <1>2, <1>4 DEF Coerce, AsNumeric, CoerceFails, Num, Value
<1>5. CASE type = "enum"
  BY <1>5 DEF Coerce, AsEnum, Word, Numeral, Value
<1>. QED  BY <1>3, <1>4, <1>5 DEF ValueTypes

\* A new row of a client is a row.
LEMMA RowType ==
  ASSUME NEW c \in Clients, NEW k \in Keys, NEW v \in Asserted,
         NEW st \in {"minted", "pending"}, ~CoerceFails(TypeOf[k], v)
  PROVE  Row(st, c, <<k, ProvOf(c)>>, Coerce(TypeOf[k], v)) \in Rows
<1>1. Coerce(TypeOf[k], v) \in Value
  BY CoerceType
<1>2. <<k, ProvOf(c)>> \in Slots
  BY DEF Slots, ProvOf
<1>. QED  BY <1>1, <1>2 DEF Row, Rows, Value, Statuses

LEMMA UnusedType == Unused \in Rows
  BY DEF Unused, Rows, Statuses

\* A row stays a row when its status moves on.
LEMMA StatusType ==
  ASSUME NEW x \in Rows, NEW st \in Statuses
  PROVE  [x EXCEPT !.status = st] \in Rows
  BY DEF Rows

\* A committed row is a row.
LEMMA CommittedType ==
  ASSUME NEW x \in Rows, NEW i \in 0..MaxId
  PROVE  /\ [x EXCEPT !.succ = i] \in Rows
         /\ [x EXCEPT !.status = "committed", !.owner = Nobody, !.succ = i] \in Rows
  BY DEF Rows, Statuses

LEMMA EndsType ==
  ASSUME TypeOK, NEW c \in Clients, Ends(c)
  PROVE  /\ upd'  \in [Clients -> [Ids -> 0..MaxId]]
         /\ pc'   \in [Clients -> Pcs]
         /\ left' \in [Clients -> 0..MaxCands]
         /\ old'  \in [Clients -> 0..MaxId]
         /\ new'  \in [Clients -> 0..MaxId]
<1>1. NoUpdate \in [Ids -> 0..MaxId]
  BY DEF NoUpdate
<1>. QED  BY <1>1 DEF Ends, TypeOK, Pcs

LEMMA RollbackType ==
  ASSUME TypeOK, NEW c \in Clients, Rollback(c)
  PROVE  TypeOK'
<1>1. row' \in [Ids -> Rows]
  BY UnusedType DEF Rollback, TypeOK
<1>. QED  BY <1>1, EndsType DEF Rollback, TypeOK

LEMMA TypeInit == Init => TypeOK
  BY UnusedType DEF Init, TypeOK, NoUpdate, Pcs

LEMMA TypeStep == TypeOK /\ [Next]_vars => TypeOK'
<1>. SUFFICES ASSUME TypeOK, [Next]_vars
              PROVE  TypeOK'
  OBVIOUS
<1>1. CASE UNCHANGED vars
  BY <1>1 DEF vars, TypeOK
<1>2. ASSUME NEW c \in Clients, Begin(c)
      PROVE  TypeOK'
  BY <1>2 DEF Begin, TypeOK, Pcs
<1>3. ASSUME NEW c \in Clients, Skip(c)
      PROVE  TypeOK'
  BY <1>3 DEF Skip, TypeOK
<1>4. ASSUME NEW c \in Clients, NEW k \in Keys, NEW v \in Asserted, Keep(c, k, v)
      PROVE  TypeOK'
  BY <1>4 DEF Keep, Decides, TypeOK
<1>5. ASSUME NEW c \in Clients, NEW k \in Keys, NEW v \in Asserted, AddFirst(c, k, v)
      PROVE  TypeOK'
  <2>1. row' \in [Ids -> Rows]
    BY <1>5, RowType DEF AddFirst, Decides, TypeOK
  <2>2. left' \in [Clients -> 0..MaxCands]
    BY <1>5 DEF AddFirst, Decides, TypeOK
  <2>. QED  BY <1>5, <2>1, <2>2 DEF AddFirst, TypeOK
<1>6. ASSUME NEW c \in Clients, NEW k \in Keys, NEW v \in Asserted, Supersede(c, k, v)
      PROVE  TypeOK'
  <2>1. row' \in [Ids -> Rows]
    BY <1>6, RowType DEF Supersede, Decides, TypeOK
  <2>2. left' \in [Clients -> 0..MaxCands]
    BY <1>6 DEF Supersede, Decides, TypeOK
  <2>3. /\ old' \in [Clients -> 0..MaxId]
        /\ new' \in [Clients -> 0..MaxId]
        /\ pc' \in [Clients -> Pcs]
        /\ upd' = upd
    BY <1>6 DEF Supersede, TypeOK, Ids, Pcs
  <2>. QED  BY <2>1, <2>2, <2>3 DEF TypeOK
<1>7. ASSUME NEW c \in Clients, Retire(c)
      PROVE  TypeOK'
  BY <1>7 DEF Retire, TypeOK, Pcs
<1>8. ASSUME NEW c \in Clients, InsertRow(c)
      PROVE  TypeOK'
  <2>1. PICK n \in Ids : row' = [row EXCEPT ![n].status = "flushed"]
    BY <1>8 DEF InsertRow
  <2>2. row' \in [Ids -> Rows]
    BY <2>1, StatusType DEF TypeOK, Statuses
  <2>. QED  BY <1>8, <2>2 DEF InsertRow, txVars, TypeOK
<1>9. ASSUME NEW c \in Clients, AddReplacement(c)
      PROVE  TypeOK'
  <2>1. row' \in [Ids -> Rows]
    BY <1>9, StatusType DEF AddReplacement, TypeOK, Statuses
  <2>. QED  BY <1>9, <2>1 DEF AddReplacement, TypeOK, Pcs
<1>10. ASSUME NEW c \in Clients, LastFlush(c) \/ FlushDone(c)
       PROVE  TypeOK'
  BY <1>10 DEF LastFlush, FlushDone, TypeOK, Pcs
<1>11. ASSUME NEW c \in Clients, Commit(c)
       PROVE  TypeOK'
  <2>1. \A r \in Ids : SuccFor(c, r) \in 0..MaxId
    BY DEF SuccFor, TypeOK, Rows
  <2>2. row' \in [Ids -> Rows]
    BY <1>11, <2>1, CommittedType DEF Commit, TypeOK
  <2>. QED  BY <1>11, <2>2, EndsType DEF Commit, TypeOK
<1>12. ASSUME NEW c \in Clients, Rollback(c)
       PROVE  TypeOK'
  BY <1>12, RollbackType
<1>. QED
  BY <1>1, <1>2, <1>3, <1>4, <1>5, <1>6, <1>7, <1>8, <1>9, <1>10, <1>11, <1>12
  DEF Next, Step, BadValue, UniqueViolation, DeadlockVictim, Crash

\* Every transaction of the fact store keeps its state well typed (persist.py,
\* review.py).
THEOREM TypeCorrect == Spec => []TypeOK
<1>. QED  BY TypeInit, TypeStep, PTL DEF Spec

-----------------------------------------------------------------------------
(* The live fact is unique.  OneLive alone is not inductive: a commit makes *)
(* rows visible that were inserted long before.  What the unique index     *)
(* guarantees while transactions are open has to be carried along:         *)
(*   OneWriter   inserted, uncommitted rows of a slot belong to one client, *)
(*               which has retired all of them but one;                    *)
(*   Reserved    a client with such a row has retired every live committed *)
(*               row of the slot.                                          *)

InFlight == {"minted", "pending", "flushed"}

Owned == \A r \in Ids : /\ row[r].status \in InFlight => row[r].owner \in Clients
                        /\ row[r].status \notin InFlight => row[r].owner = Nobody

\* The id held by a SupersedeLive in progress is the only minted row of its
\* client, and a client about to commit has nothing left to insert.
Held ==
  /\ \A c \in Clients : new[c] # 0 =>
       row[new[c]].status = "minted" /\ row[new[c]].owner = c
  /\ \A r \in Ids : row[r].status = "minted" => new[row[r].owner] = r
  /\ \A c \in Clients : /\ pc[c] \in {"idle", "work", "commit"} => new[c] = 0
                        /\ pc[c] = "retire" => new[c] # 0
                        /\ pc[c] = "commit" => Pending(c) = {}

Inserted(r)  == row[r].status = "flushed"
RetiredBy(r) == SuccFor(row[r].owner, r) # 0

OneWriter ==
  \A q1, q2 \in Ids :
    Inserted(q1) /\ Inserted(q2) /\ row[q1].slot = row[q2].slot =>
      /\ row[q1].owner = row[q2].owner
      /\ RetiredBy(q1) \/ RetiredBy(q2) \/ q1 = q2

Reserved ==
  \A r, q \in Ids :
    /\ Committed(r) /\ row[r].succ = 0
    /\ Inserted(q) /\ ~RetiredBy(q)
    /\ row[r].slot = row[q].slot
    => upd[row[q].owner][r] # 0

IndexInv == TypeOK /\ Owned /\ Held /\ OneWriter /\ Reserved /\ OneLive

\* A step that touches neither rows nor updates.
LEMMA FrameStep ==
  ASSUME IndexInv, row' = row, upd' = upd
  PROVE  Owned' /\ OneWriter' /\ Reserved' /\ OneLive'
<1>1. Owned' /\ OneWriter'
  BY DEF IndexInv, Owned, OneWriter, Inserted, RetiredBy, SuccFor
<1>2. Reserved' /\ OneLive'
  BY DEF IndexInv, Reserved, OneLive, Live, Inserted, RetiredBy, SuccFor, Committed
<1>. QED  BY <1>1, <1>2

\* A step that only brings an unused id into use, not yet inserted.
LEMMA NewRowStep ==
  ASSUME IndexInv, upd' = upd, NEW c \in Clients, NEW n \in Ids,
         row[n].status = "unused",
         row'[n].status \in {"minted", "pending"},
         row'[n].owner = c,
         \A r \in Ids \ {n} : row'[r] = row[r]
  PROVE  Owned' /\ OneWriter' /\ Reserved' /\ OneLive'
<1>1. Owned'
  BY DEF IndexInv, Owned, InFlight
<1>2. \A r \in Ids : Inserted(r)' => Inserted(r) /\ row'[r] = row[r]
  BY DEF Inserted
<1>3. \A r \in Ids : Committed(r)' => Committed(r) /\ row'[r] = row[r]
  BY DEF Committed
<1>4. OneWriter'
  BY <1>2 DEF IndexInv, OneWriter, RetiredBy, SuccFor
<1>5. Reserved'
  BY <1>2, <1>3 DEF IndexInv, Reserved, RetiredBy, SuccFor
<1>6. OneLive'
  BY <1>3 DEF IndexInv, OneLive, Live, Committed
<1>. QED  BY <1>1, <1>4, <1>5, <1>6

LEMMA RollbackStep ==
  ASSUME IndexInv, NEW c \in Clients, Rollback(c)
  PROVE  IndexInv'
<1>1. TypeOK'
  BY RollbackType DEF IndexInv
<1>2. \A r \in Ids : /\ row[r].owner = c => row'[r] = Unused
                     /\ row[r].owner # c => row'[r] = row[r]
  BY DEF Rollback
<1>. \A r \in Ids : row'[r].status \in InFlight =>
       row'[r] = row[r] /\ row[r].owner \in Clients \ {c}
  <2>. SUFFICES ASSUME NEW r \in Ids, row'[r].status \in InFlight
                PROVE  row'[r] = row[r] /\ row[r].owner \in Clients \ {c}
    OBVIOUS
  <2>1. Unused.status \notin InFlight
    BY DEF Unused, InFlight
  <2>2. row[r].owner # c /\ row'[r] = row[r]
    BY <1>2, <2>1
  <2>3. row[r].status \in InFlight
    BY <2>2
  <2>4. row[r].owner \in Clients
    BY <2>3 DEF IndexInv, Owned
  <2>. QED  BY <2>2, <2>4
<1>3. \A d \in Clients \ {c} : upd'[d] = upd[d] /\ new'[d] = new[d] /\ pc'[d] = pc[d]
  BY DEF Rollback, Ends, IndexInv, TypeOK
<1>4. new'[c] = 0 /\ pc'[c] = "idle"
  BY DEF Rollback, Ends, IndexInv, TypeOK
<1>5. Owned'
  BY <1>2 DEF IndexInv, Owned, InFlight, Unused
<1>6. \A r \in Ids : Inserted(r)' => /\ Inserted(r) /\ row'[r] = row[r]
                                     /\ row[r].owner \in Clients \ {c}
  BY DEF Inserted, InFlight
<1>7. \A r \in Ids : Committed(r)' => Committed(r) /\ row'[r] = row[r]
  BY <1>2 DEF Committed, Unused
<1>8. Held'
  <2>1. ASSUME NEW d \in Clients, new'[d] # 0
        PROVE  row'[new'[d]].status = "minted" /\ row'[new'[d]].owner = d
    <3>1. d # c /\ new'[d] = new[d] /\ new[d] \in Ids
      BY <2>1, <1>3, <1>4 DEF IndexInv, TypeOK, Ids
    <3>. QED  BY <3>1, <2>1, <1>2 DEF IndexInv, Held
  <2>2. ASSUME NEW r \in Ids, row'[r].status = "minted"
        PROVE  new'[row'[r].owner] = r
    <3>1. row'[r] = row[r] /\ row[r].owner \in Clients \ {c}
      BY <2>2 DEF InFlight
    <3>. QED  BY <3>1, <2>2, <1>3 DEF IndexInv, Held
  <2>3. ASSUME NEW d \in Clients
        PROVE  /\ pc'[d] \in {"idle", "work", "commit"} => new'[d] = 0
               /\ pc'[d] = "retire" => new'[d] # 0
               /\ pc'[d] = "commit" => Pending(d)' = {}
    <3>1. CASE d = c
      BY <3>1, <1>4
    <3>2. CASE d # c
      <4>1. Pending(d)' \subseteq Pending(d)
        BY <1>2 DEF Pending, Unused
      <4>. QED  BY <3>2, <4>1, <1>3 DEF IndexInv, Held
    <3>. QED  BY <3>1, <3>2
  <2>. QED  BY <2>1, <2>2, <2>3 DEF Held
<1>9. OneWriter'
  BY <1>3, <1>6 DEF IndexInv, OneWriter, RetiredBy, SuccFor
<1>10. Reserved'
  BY <1>3, <1>6, <1>7 DEF IndexInv, Reserved, RetiredBy, SuccFor
<1>11. OneLive'
  BY <1>7 DEF IndexInv, OneLive, Live, Committed
<1>. QED  BY <1>1, <1>5, <1>8, <1>9, <1>10, <1>11 DEF IndexInv

\* The INSERT of a row: no other client has one in the slot, and the client
\* has retired every live row it sees there.
LEMMA InsertStep ==
  ASSUME IndexInv, NEW c \in Clients, InsertRow(c)
  PROVE  Owned' /\ Held' /\ OneWriter' /\ Reserved' /\ OneLive'
<1>1. PICK n \in Ids : /\ IsFirst(c, n)
                       /\ InsertBlockers(c, n) = {}
                       /\ Rivals(c, n) = {}
                       /\ row' = [row EXCEPT ![n].status = "flushed"]
  BY DEF InsertRow
<1>2. upd' = upd /\ new' = new /\ pc' = pc
  BY DEF InsertRow, txVars
<1>3. row[n].status = "pending" /\ row[n].owner = c /\ row[n] \in Rows
  BY <1>1 DEF IsFirst, Pending, IndexInv, TypeOK
<1>4. /\ row'[n].status = "flushed" /\ row'[n].owner = c
      /\ row'[n].slot = row[n].slot /\ row'[n].succ = row[n].succ
  BY <1>1, <1>3 DEF Rows, IndexInv, TypeOK
<1>5. \A r \in Ids \ {n} : row'[r] = row[r]
  BY <1>1 DEF IndexInv, TypeOK
<1>6. Owned'
  BY <1>3, <1>4, <1>5 DEF IndexInv, Owned, InFlight
<1>7. Held'
  <2>1. ASSUME NEW d \in Clients, new'[d] # 0
        PROVE  row'[new'[d]].status = "minted" /\ row'[new'[d]].owner = d
    <3>1. new[d] \in Ids \ {n}
      BY <2>1, <1>2, <1>3 DEF IndexInv, Held, TypeOK, Ids
    <3>. QED  BY <2>1, <3>1, <1>2, <1>5 DEF IndexInv, Held
  <2>2. ASSUME NEW r \in Ids, row'[r].status = "minted"
        PROVE  new'[row'[r].owner] = r
    <3>1. r # n
      BY <2>2, <1>4
    <3>. QED  BY <2>2, <3>1, <1>2, <1>5 DEF IndexInv, Held
  <2>3. ASSUME NEW d \in Clients
        PROVE  /\ pc'[d] \in {"idle", "work", "commit"} => new'[d] = 0
               /\ pc'[d] = "retire" => new'[d] # 0
               /\ pc'[d] = "commit" => Pending(d)' = {}
    <3>1. Pending(d)' \subseteq Pending(d)
      BY <1>4, <1>5 DEF Pending
    <3>. QED  BY <3>1, <1>2 DEF IndexInv, Held
  <2>. QED  BY <2>1, <2>2, <2>3 DEF Held
<1>8. \A q \in Ids : Inserted(q) /\ row[q].slot = row[n].slot =>
        row[q].owner = c /\ RetiredBy(q)
  <2>. SUFFICES ASSUME NEW q \in Ids, Inserted(q), row[q].slot = row[n].slot
                PROVE  row[q].owner = c /\ RetiredBy(q)
    OBVIOUS
  <2>1. row[q].owner \in Clients
    BY DEF Inserted, IndexInv, Owned, InFlight
  <2>2. row[q].owner = c
    BY <2>1, <1>1 DEF InsertBlockers, Inserted
  <2>3. q \notin LiveFor(c, row[n].slot)
    BY <1>1 DEF Rivals
  <2>. QED  BY <2>1, <2>2, <2>3 DEF LiveFor, Sees, Inserted, RetiredBy, SuccFor
<1>9. \A r \in Ids : Committed(r) /\ row[r].succ = 0 /\ row[r].slot = row[n].slot =>
        upd[c][r] # 0
  BY <1>1 DEF Rivals, LiveFor, Sees, SuccFor, Committed
<1>10. OneWriter'
  <2>. SUFFICES ASSUME NEW q1 \in Ids, NEW q2 \in Ids, Inserted(q1)', Inserted(q2)',
                       row'[q1].slot = row'[q2].slot
                PROVE  /\ row'[q1].owner = row'[q2].owner
                       /\ RetiredBy(q1)' \/ RetiredBy(q2)' \/ q1 = q2
    BY DEF OneWriter
  <2>1. CASE q1 = n /\ q2 = n
    BY <2>1
  <2>2. CASE q1 = n /\ q2 # n
    BY <2>2, <1>2, <1>4, <1>5, <1>8 DEF Inserted, RetiredBy, SuccFor
  <2>3. CASE q1 # n /\ q2 = n
    BY <2>3, <1>2, <1>4, <1>5, <1>8 DEF Inserted, RetiredBy, SuccFor
  <2>4. CASE q1 # n /\ q2 # n
    BY <2>4, <1>2, <1>5 DEF IndexInv, OneWriter, Inserted, RetiredBy, SuccFor
  <2>. QED  BY <2>1, <2>2, <2>3, <2>4
<1>11. Reserved'
  <2>. SUFFICES ASSUME NEW r \in Ids, NEW q \in Ids,
                       Committed(r)', row'[r].succ = 0,
                       Inserted(q)', ~RetiredBy(q)', row'[r].slot = row'[q].slot
                PROVE  upd'[row'[q].owner][r] # 0
    BY DEF Reserved
  <2>1. r # n /\ row'[r] = row[r]
    BY <1>4, <1>5 DEF Committed
  <2>2. CASE q = n
    BY <2>1, <2>2, <1>2, <1>4, <1>9 DEF Committed
  <2>3. CASE q # n
    BY <2>1, <2>3, <1>2, <1>5 DEF IndexInv, Reserved, Committed, Inserted, RetiredBy, SuccFor
  <2>. QED  BY <2>2, <2>3
<1>12. OneLive'
  BY <1>4, <1>5 DEF IndexInv, OneLive, Live
<1>. QED  BY <1>6, <1>7, <1>10, <1>11, <1>12

\* The replacement is added to the session once its predecessor is retired.
LEMMA AddReplacementStep ==
  ASSUME IndexInv, NEW c \in Clients, AddReplacement(c)
  PROVE  Owned' /\ Held' /\ OneWriter' /\ Reserved' /\ OneLive'
<1>. DEFINE n == new[c]
<1>1. n \in Ids /\ row[n].status = "minted" /\ row[n].owner = c /\ row[n] \in Rows
  BY DEF AddReplacement, IndexInv, Held, TypeOK, Ids
<1>2. /\ row'[n].status = "pending" /\ row'[n].owner = c
  BY <1>1 DEF AddReplacement, Rows, IndexInv, TypeOK
<1>3. \A r \in Ids \ {n} : row'[r] = row[r]
  BY <1>1 DEF AddReplacement, IndexInv, TypeOK
<1>4. upd' = upd /\ new'[c] = 0 /\ pc'[c] = "work"
  BY DEF AddReplacement, IndexInv, TypeOK
<1>5. \A d \in Clients \ {c} : new'[d] = new[d] /\ pc'[d] = pc[d]
  BY DEF AddReplacement, IndexInv, TypeOK
<1>6. Owned'
  BY <1>1, <1>2, <1>3 DEF IndexInv, Owned, InFlight
<1>7. Held'
  <2>1. ASSUME NEW d \in Clients, new'[d] # 0
        PROVE  row'[new'[d]].status = "minted" /\ row'[new'[d]].owner = d
    <3>1. d # c /\ new'[d] = new[d] /\ new[d] \in Ids
      BY <2>1, <1>4, <1>5 DEF IndexInv, TypeOK, Ids
    <3>2. row[new[d]].status = "minted" /\ row[new[d]].owner = d
      BY <2>1, <3>1 DEF IndexInv, Held
    <3>3. new[d] # n
      BY <3>1, <3>2, <1>1
    <3>. QED  BY <3>1, <3>2, <3>3, <1>3
  <2>2. ASSUME NEW r \in Ids, row'[r].status = "minted"
        PROVE  new'[row'[r].owner] = r
    <3>1. r # n /\ row'[r] = row[r]
      BY <2>2, <1>2, <1>3
    <3>2. new[row[r].owner] = r
      BY <2>2, <3>1 DEF IndexInv, Held
    <3>3. row[r].owner \in Clients \ {c}
      BY <2>2, <3>1, <3>2 DEF IndexInv, Owned, InFlight
    <3>. QED  BY <3>1, <3>2, <3>3, <1>5
  <2>3. ASSUME NEW d \in Clients
        PROVE  /\ pc'[d] \in {"idle", "work", "commit"} => new'[d] = 0
               /\ pc'[d] = "retire" => new'[d] # 0
               /\ pc'[d] = "commit" => Pending(d)' = {}
    <3>1. CASE d = c
      BY <3>1, <1>4
    <3>2. CASE d # c
      <4>1. Pending(d)' = Pending(d)
        BY <3>2, <1>1, <1>2, <1>3 DEF Pending
      <4>. QED  BY <3>2, <4>1, <1>5 DEF IndexInv, Held
    <3>. QED  BY <3>1, <3>2
  <2>. QED  BY <2>1, <2>2, <2>3 DEF Held
<1>8. \A r \in Ids : Inserted(r)' => Inserted(r) /\ row'[r] = row[r]
  BY <1>2, <1>3 DEF Inserted
<1>9. \A r \in Ids : Committed(r)' => Committed(r) /\ row'[r] = row[r]
  BY <1>2, <1>3 DEF Committed
<1>10. OneWriter'
  BY <1>4, <1>8 DEF IndexInv, OneWriter, RetiredBy, SuccFor
<1>11. Reserved'
  BY <1>4, <1>8, <1>9 DEF IndexInv, Reserved, RetiredBy, SuccFor
<1>12. OneLive'
  BY <1>9 DEF IndexInv, OneLive, Live, Committed
<1>. QED  BY <1>6, <1>7, <1>10, <1>11, <1>12

\* What a commit does: the inserted rows and the retirements are published
\* together.
LEMMA CommitDoes ==
  ASSUME IndexInv, NEW c \in Clients, Commit(c)
  PROVE  /\ \A r \in Ids : row[r].owner = c => Inserted(r)
         /\ \A r \in Ids : /\ row'[r].slot = row[r].slot
                           /\ row'[r].val = row[r].val
                           /\ row'[r].succ = SuccFor(c, r)
                           /\ row[r].owner = c => /\ row'[r].status = "committed"
                                                  /\ row'[r].owner = Nobody
                           /\ row[r].owner # c => /\ row'[r].status = row[r].status
                                                  /\ row'[r].owner = row[r].owner
         /\ \A d \in Clients \ {c} : upd'[d] = upd[d] /\ new'[d] = new[d] /\ pc'[d] = pc[d]
         /\ new'[c] = 0 /\ pc'[c] = "idle"
<1>1. \A r \in Ids : row[r].owner = c => Inserted(r)
  <2>. SUFFICES ASSUME NEW r \in Ids, row[r].owner = c
                PROVE  Inserted(r)
    OBVIOUS
  <2>1. row[r].status \in InFlight
    BY NobodyAssumption DEF IndexInv, Owned
  <2>2. new[c] = 0 /\ Pending(c) = {}
    BY DEF Commit, IndexInv, Held
  <2>3. row[r].status # "minted"
    BY <2>2 DEF IndexInv, Held, Ids
  <2>4. row[r].status # "pending"
    BY <2>2 DEF Pending
  <2>. QED  BY <2>1, <2>3, <2>4 DEF InFlight, Inserted
<1>. DEFINE done(r) == [row[r] EXCEPT !.status = "committed", !.owner = Nobody,
                                      !.succ = SuccFor(c, r)]
            kept(r) == [row[r] EXCEPT !.succ = SuccFor(c, r)]
<1>2. \A r \in Ids : row'[r] = IF row[r].owner = c THEN done(r) ELSE kept(r)
  BY DEF Commit
<1>3. \A r \in Ids : /\ done(r).slot = row[r].slot /\ done(r).val = row[r].val
                     /\ done(r).succ = SuccFor(c, r)
                     /\ done(r).status = "committed"
                     /\ done(r).owner = Nobody
                     /\ kept(r).slot = row[r].slot /\ kept(r).val = row[r].val
                     /\ kept(r).succ = SuccFor(c, r)
                     /\ kept(r).status = row[r].status
                     /\ kept(r).owner = row[r].owner
  <2>. SUFFICES ASSUME NEW r \in Ids
                PROVE  /\ done(r).slot = row[r].slot /\ done(r).val = row[r].val
                       /\ done(r).succ = SuccFor(c, r)
                       /\ done(r).status = "committed"
                       /\ done(r).owner = Nobody
                       /\ kept(r).slot = row[r].slot /\ kept(r).val = row[r].val
                       /\ kept(r).succ = SuccFor(c, r)
                       /\ kept(r).status = row[r].status
                       /\ kept(r).owner = row[r].owner
    OBVIOUS
  <2>1. row[r] \in Rows
    BY DEF IndexInv, TypeOK
  <2>. QED  BY <2>1 DEF Rows
<1>. HIDE DEF done, kept
<1>4. \A r \in Ids : /\ row'[r].slot = row[r].slot
                     /\ row'[r].val = row[r].val
                     /\ row'[r].succ = SuccFor(c, r)
                     /\ row[r].owner = c => /\ row'[r].status = "committed"
                                            /\ row'[r].owner = Nobody
                     /\ row[r].owner # c => /\ row'[r].status = row[r].status
                                            /\ row'[r].owner = row[r].owner
  BY <1>2, <1>3
<1>5. \A d \in Clients \ {c} : upd'[d] = upd[d] /\ new'[d] = new[d] /\ pc'[d] = pc[d]
  BY DEF Commit, Ends, IndexInv, TypeOK
<1>6. new'[c] = 0 /\ pc'[c] = "idle"
  BY DEF Commit, Ends, IndexInv, TypeOK
<1>. QED  BY <1>1, <1>4, <1>5, <1>6

LEMMA CommitStep ==
  ASSUME IndexInv, NEW c \in Clients, Commit(c)
  PROVE  Owned' /\ Held' /\ OneWriter' /\ Reserved' /\ OneLive'
<1>1. \A r \in Ids : row[r].owner = c => Inserted(r)
  BY CommitDoes
<1>4. \A r \in Ids : /\ row'[r].slot = row[r].slot
                     /\ row'[r].succ = SuccFor(c, r)
                     /\ row[r].owner = c => /\ row'[r].status = "committed"
                                            /\ row'[r].owner = Nobody
                     /\ row[r].owner # c => /\ row'[r].status = row[r].status
                                            /\ row'[r].owner = row[r].owner
  BY CommitDoes
<1>5. \A d \in Clients \ {c} : upd'[d] = upd[d] /\ new'[d] = new[d] /\ pc'[d] = pc[d]
  BY CommitDoes
<1>6. new'[c] = 0 /\ pc'[c] = "idle"
  BY CommitDoes
<1>7. \A r \in Ids : Inserted(r)' =>
        /\ Inserted(r) /\ row[r].owner \in Clients \ {c}
        /\ row'[r].owner = row[r].owner
  <2>. SUFFICES ASSUME NEW r \in Ids, Inserted(r)'
                PROVE  /\ Inserted(r) /\ row[r].owner \in Clients \ {c}
                       /\ row'[r].owner = row[r].owner
    OBVIOUS
  <2>1. row[r].owner # c
    BY <1>4 DEF Inserted
  <2>2. Inserted(r) /\ row'[r].owner = row[r].owner
    BY <2>1, <1>4 DEF Inserted
  <2>3. row[r].owner \in Clients
    BY <2>2 DEF Inserted, IndexInv, Owned, InFlight
  <2>. QED  BY <2>1, <2>2, <2>3
<1>8. \A r \in Ids : Committed(r)' => Committed(r) \/ (Inserted(r) /\ row[r].owner = c)
  BY <1>1, <1>4 DEF Committed
<1>9. Owned'
  <2>. SUFFICES ASSUME NEW r \in Ids
                PROVE  /\ row'[r].status \in InFlight => row'[r].owner \in Clients
                       /\ row'[r].status \notin InFlight => row'[r].owner = Nobody
    BY DEF Owned
  <2>1. CASE row[r].owner = c
    BY <2>1, <1>4 DEF InFlight
  <2>2. CASE row[r].owner # c
    BY <2>2, <1>4 DEF IndexInv, Owned
  <2>. QED  BY <2>1, <2>2
<1>10. Held'
  <2>1. ASSUME NEW d \in Clients, new'[d] # 0
        PROVE  row'[new'[d]].status = "minted" /\ row'[new'[d]].owner = d
    <3>1. d # c /\ new'[d] = new[d] /\ new[d] \in Ids
      BY <2>1, <1>5, <1>6 DEF IndexInv, TypeOK, Ids
    <3>2. row[new[d]].status = "minted" /\ row[new[d]].owner = d
      BY <2>1, <3>1 DEF IndexInv, Held
    <3>. QED  BY <3>1, <3>2, <1>4
  <2>2. ASSUME NEW r \in Ids, row'[r].status = "minted"
        PROVE  new'[row'[r].owner] = r
    <3>1. row[r].owner # c
      BY <2>2, <1>4
    <3>2. row'[r].owner = row[r].owner /\ row[r].status = "minted"
      BY <2>2, <3>1, <1>4
    <3>3. new[row[r].owner] = r /\ row[r].owner \in Clients
      BY <3>2 DEF IndexInv, Held, Owned, InFlight
    <3>. QED  BY <3>1, <3>2, <3>3, <1>5
  <2>3. ASSUME NEW d \in Clients
        PROVE  /\ pc'[d] \in {"idle", "work", "commit"} => new'[d] = 0
               /\ pc'[d] = "retire" => new'[d] # 0
               /\ pc'[d] = "commit" => Pending(d)' = {}
    <3>1. CASE d = c
      BY <3>1, <1>6
    <3>2. CASE d # c
      <4>1. Pending(d)' \subseteq Pending(d)
        <5>. SUFFICES ASSUME NEW r \in Ids, row'[r].status = "pending",
                             row'[r].owner = d
                      PROVE  row[r].status = "pending" /\ row[r].owner = d
          BY DEF Pending
        <5>1. row[r].owner # c
          BY <1>4
        <5>. QED  BY <5>1, <1>4
      <4>. QED  BY <3>2, <4>1, <1>5 DEF IndexInv, Held
    <3>. QED  BY <3>1, <3>2
  <2>. QED  BY <2>1, <2>2, <2>3 DEF Held
<1>11. \A q \in Ids : Inserted(q)' /\ RetiredBy(q) => RetiredBy(q)'
  <2>. SUFFICES ASSUME NEW q \in Ids, Inserted(q)', RetiredBy(q)
                PROVE  RetiredBy(q)'
    OBVIOUS
  <2>1. row[q].owner \in Clients \ {c} /\ row'[q].owner = row[q].owner
    BY <1>7
  <2>2. upd'[row[q].owner] = upd[row[q].owner]
    BY <2>1, <1>5
  <2>3. row[q].succ # 0 => row'[q].succ # 0
    BY <1>4 DEF SuccFor
  <2>. QED  BY <2>1, <2>2, <2>3 DEF RetiredBy, SuccFor
<1>12. OneWriter'
  <2>. SUFFICES ASSUME NEW q1 \in Ids, NEW q2 \in Ids, Inserted(q1)', Inserted(q2)',
                       row'[q1].slot = row'[q2].slot
                PROVE  /\ row'[q1].owner = row'[q2].owner
                       /\ RetiredBy(q1)' \/ RetiredBy(q2)' \/ q1 = q2
    BY DEF OneWriter
  <2>1. /\ row[q1].owner = row[q2].owner
        /\ RetiredBy(q1) \/ RetiredBy(q2) \/ q1 = q2
    BY <1>4, <1>7 DEF IndexInv, OneWriter
  <2>. QED  BY <2>1, <1>7, <1>11
<1>13. Reserved'
  <2>. SUFFICES ASSUME NEW r \in Ids, NEW q \in Ids,
                       Committed(r)', row'[r].succ = 0,
                       Inserted(q)', ~RetiredBy(q)', row'[r].slot = row'[q].slot
                PROVE  upd'[row'[q].owner][r] # 0
    BY DEF Reserved
  <2>1. Inserted(q) /\ ~RetiredBy(q) /\ row[q].owner \in Clients \ {c}
    BY <1>7, <1>11
  <2>2. row[r].slot = row[q].slot /\ SuccFor(c, r) = 0
    BY <1>4
  <2>3. ~(Inserted(r) /\ row[r].owner = c)
    BY <2>1, <2>2 DEF IndexInv, OneWriter
  <2>4. Committed(r) /\ row[r].succ = 0
    BY <1>8, <2>2, <2>3 DEF SuccFor
  <2>5. upd[row[q].owner][r] # 0
    BY <2>1, <2>2, <2>4 DEF IndexInv, Reserved
  <2>. QED  BY <2>1, <2>5, <1>5, <1>7
<1>14. OneLive'
  <2>. SUFFICES ASSUME NEW r1 \in Ids, NEW r2 \in Ids, Committed(r1)', Committed(r2)',
                       row'[r1].succ = 0, row'[r2].succ = 0,
                       row'[r1].slot = row'[r2].slot
                PROVE  r1 = r2
    BY DEF OneLive, Live, Committed
  <2>1. /\ row[r1].slot = row[r2].slot
        /\ upd[c][r1] = 0 /\ row[r1].succ = 0
        /\ upd[c][r2] = 0 /\ row[r2].succ = 0
    BY <1>4 DEF SuccFor
  <2>2. CASE Committed(r1) /\ Committed(r2)
    BY <2>1, <2>2 DEF IndexInv, OneLive, Live, Committed
  <2>3. ASSUME NEW r \in Ids, NEW q \in Ids, Committed(r), Inserted(q),
               row[q].owner = c, row[r].slot = row[q].slot,
               upd[c][r] = 0, upd[c][q] = 0, row[r].succ = 0, row[q].succ = 0
        PROVE  FALSE
    BY <2>3 DEF IndexInv, Reserved, RetiredBy, SuccFor
  <2>4. CASE Inserted(r1) /\ Inserted(r2) /\ row[r1].owner = c /\ row[r2].owner = c
    BY <2>1, <2>4 DEF IndexInv, OneWriter, RetiredBy, SuccFor
  <2>. QED  BY <1>8, <2>1, <2>2, <2>3, <2>4
<1>. QED  BY <1>9, <1>10, <1>12, <1>13, <1>14

\* A step that leaves rows alone and moves c to a point of its transaction.
LEMMA HeldFrame ==
  ASSUME IndexInv, NEW c \in Clients, row' = row, new' = new,
         \A d \in Clients \ {c} : pc'[d] = pc[d],
         \/ pc'[c] \in {"idle", "work"} /\ new[c] = 0
         \/ pc'[c] = "insert"
         \/ pc'[c] = "commit" /\ new[c] = 0 /\ Pending(c) = {}
  PROVE  Held'
<1>1. \A d \in Clients : Pending(d)' = Pending(d)
  BY DEF Pending
<1>. QED  BY <1>1 DEF IndexInv, Held

LEMMA IndexStep == IndexInv /\ [Next]_vars => IndexInv'
<1>. SUFFICES ASSUME IndexInv, [Next]_vars
              PROVE  IndexInv'
  OBVIOUS
<1>0. TypeOK'
  BY TypeStep DEF IndexInv
<1>1. CASE UNCHANGED vars
  <2>1. Held'
    BY <1>1 DEF vars, IndexInv, Held, Pending
  <2>. QED  BY <1>0, <1>1, <2>1, FrameStep DEF vars, IndexInv
<1>2. ASSUME NEW c \in Clients, Begin(c) \/ Skip(c) \/ LastFlush(c) \/ FlushDone(c)
      PROVE  IndexInv'
  <2>1. row' = row /\ upd' = upd /\ new' = new
    BY <1>2 DEF Begin, Skip, LastFlush, FlushDone
  <2>2. Held'
    <3>1. pc \in [Clients -> Pcs] /\ Held
      BY DEF IndexInv, TypeOK
    <3>2. CASE Begin(c) \/ Skip(c)
      <4>1. \A d \in Clients \ {c} : pc'[d] = pc[d]
        BY <3>1, <3>2 DEF Begin, Skip
      <4>2. pc'[c] = "work" /\ new[c] = 0
        BY <3>1, <3>2 DEF Begin, Skip, Held
      <4>. QED  BY <2>1, <4>1, <4>2, HeldFrame
    <3>3. CASE LastFlush(c) \/ FlushDone(c)
      <4>1. \A d \in Clients \ {c} : pc'[d] = pc[d]
        BY <3>1, <3>3 DEF LastFlush, FlushDone
      <4>2. \/ pc'[c] = "insert"
            \/ pc'[c] = "commit" /\ new[c] = 0 /\ Pending(c) = {}
        BY <3>1, <3>3 DEF LastFlush, FlushDone, Held
      <4>. QED  BY <2>1, <4>1, <4>2, HeldFrame
    <3>. QED  BY <1>2, <3>2, <3>3
  <2>. QED  BY <1>0, <2>1, <2>2, FrameStep DEF IndexInv
<1>3. ASSUME NEW c \in Clients, NEW k \in Keys, NEW v \in Asserted, Keep(c, k, v)
      PROVE  IndexInv'
  <2>1. row' = row /\ upd' = upd /\ new' = new /\ pc' = pc
    BY <1>3 DEF Keep
  <2>2. Held'
    BY <2>1 DEF IndexInv, Held, Pending
  <2>. QED  BY <1>0, <2>1, <2>2, FrameStep DEF IndexInv
<1>4. ASSUME NEW c \in Clients, NEW k \in Keys, NEW v \in Asserted, AddFirst(c, k, v)
      PROVE  IndexInv'
  <2>1. PICK n \in Ids : /\ IsNextId(n)
                         /\ row' = [row EXCEPT ![n] =
                              Row("pending", c, <<k, ProvOf(c)>>, Coerce(TypeOf[k], v))]
    BY <1>4 DEF AddFirst
  <2>2. row[n].status = "unused"
    BY <2>1 DEF IsNextId, Ids
  <2>3. /\ row'[n].status = "pending" /\ row'[n].owner = c
        /\ \A r \in Ids \ {n} : row'[r] = row[r]
    BY <2>1 DEF Row, IndexInv, TypeOK
  <2>4. /\ upd' = upd /\ new' = new /\ pc' = pc /\ pc[c] = "work"
    BY <1>4 DEF AddFirst, Decides
  <2>5. Held'
    <3>1. \A d \in Clients : new[d] # 0 => new[d] \in Ids \ {n}
      BY <2>2 DEF IndexInv, Held, TypeOK, Ids
    <3>2. \A d \in Clients \ {c} : Pending(d)' = Pending(d)
      BY <2>2, <2>3 DEF Pending
    <3>. QED  BY <2>2, <2>3, <2>4, <3>1, <3>2 DEF IndexInv, Held
  <2>. QED  BY <1>0, <2>2, <2>3, <2>4, <2>5, NewRowStep DEF IndexInv
<1>5. ASSUME NEW c \in Clients, NEW k \in Keys, NEW v \in Asserted, Supersede(c, k, v)
      PROVE  IndexInv'
  <2>1. PICK n \in Ids : /\ IsNextId(n)
                         /\ row' = [row EXCEPT ![n] =
                              Row("minted", c, <<k, ProvOf(c)>>, Coerce(TypeOf[k], v))]
                         /\ new' = [new EXCEPT ![c] = n]
    BY <1>5 DEF Supersede
  <2>2. row[n].status = "unused"
    BY <2>1 DEF IsNextId, Ids
  <2>3. /\ row'[n].status = "minted" /\ row'[n].owner = c
        /\ \A r \in Ids \ {n} : row'[r] = row[r]
    BY <2>1 DEF Row, IndexInv, TypeOK
  <2>4. /\ upd' = upd /\ new'[c] = n /\ pc'[c] = "retire" /\ pc[c] = "work"
        /\ \A d \in Clients \ {c} : new'[d] = new[d] /\ pc'[d] = pc[d]
    BY <1>5, <2>1 DEF Supersede, Decides, IndexInv, TypeOK
  <2>5. Held'
    <3>1. new[c] = 0 /\ n # 0
      BY <2>4 DEF IndexInv, Held, Ids
    <3>2. \A d \in Clients : Pending(d)' = Pending(d)
      BY <2>2, <2>3 DEF Pending
    <3>3. ASSUME NEW d \in Clients, new'[d] # 0
          PROVE  row'[new'[d]].status = "minted" /\ row'[new'[d]].owner = d
      <4>1. CASE d = c
        BY <4>1, <2>3, <2>4
      <4>2. CASE d # c
        <5>1. new'[d] = new[d] /\ new[d] \in Ids
          BY <3>3, <4>2, <2>4 DEF IndexInv, TypeOK, Ids
        <5>2. row[new[d]].status = "minted" /\ row[new[d]].owner = d
          BY <3>3, <5>1 DEF IndexInv, Held
        <5>. QED  BY <5>1, <5>2, <2>2, <2>3
      <4>. QED  BY <4>1, <4>2
    <3>4. ASSUME NEW r \in Ids, row'[r].status = "minted"
          PROVE  new'[row'[r].owner] = r
      <4>1. CASE r = n
        BY <4>1, <2>3, <2>4
      <4>2. CASE r # n
        <5>1. new[row[r].owner] = r /\ row[r].owner \in Clients /\ row'[r] = row[r]
          BY <3>4, <4>2, <2>3 DEF IndexInv, Held, Owned, InFlight
        <5>2. row[r].owner # c
          BY <5>1, <3>1 DEF Ids
        <5>. QED  BY <5>1, <5>2, <2>4
      <4>. QED  BY <4>1, <4>2
    <3>. QED  BY <2>4, <3>1, <3>2, <3>3, <3>4 DEF IndexInv, Held
  <2>. QED  BY <1>0, <2>2, <2>3, <2>4, <2>5, NewRowStep DEF IndexInv
<1>6. ASSUME NEW c \in Clients, Retire(c)
      PROVE  IndexInv'
  <2>1. /\ row' = row /\ new' = new /\ new[c] # 0
        /\ pc'[c] = "insert" /\ \A d \in Clients \ {c} : pc'[d] = pc[d]
    BY <1>6 DEF Retire, IndexInv, TypeOK, Held
  <2>2. Held'
    BY <2>1, HeldFrame
  <2>3. \A d \in Clients, r \in Ids : upd[d][r] # 0 => upd'[d][r] # 0
    BY <1>6, <2>1 DEF Retire, IndexInv, TypeOK
  <2>4. Owned' /\ OneLive'
    BY <2>1 DEF IndexInv, Owned, OneLive, Live
  <2>5. \A r \in Ids : Inserted(r) => row[r].owner \in Clients
    BY DEF Inserted, IndexInv, Owned, InFlight
  <2>6. OneWriter'
    BY <2>1, <2>3, <2>5 DEF IndexInv, OneWriter, Inserted, RetiredBy, SuccFor
  <2>7. Reserved'
    BY <2>1, <2>3, <2>5 DEF IndexInv, Reserved, Committed, Inserted, RetiredBy, SuccFor
  <2>. QED  BY <1>0, <2>2, <2>4, <2>6, <2>7 DEF IndexInv
<1>7. ASSUME NEW c \in Clients, InsertRow(c) \/ AddReplacement(c) \/ Commit(c)
      PROVE  IndexInv'
  BY <1>0, <1>7, InsertStep, AddReplacementStep, CommitStep DEF IndexInv
<1>8. ASSUME NEW c \in Clients, Rollback(c)
      PROVE  IndexInv'
  BY <1>8, RollbackStep
<1>. QED
  BY <1>1, <1>2, <1>3, <1>4, <1>5, <1>6, <1>7, <1>8
  DEF Next, Step, BadValue, UniqueViolation, DeadlockVictim, Crash

LEMMA IndexInit == Init => IndexInv
<1>. SUFFICES ASSUME Init
              PROVE  IndexInv
  OBVIOUS
<1>2. \A r \in Ids : /\ row[r].status = "unused" /\ row[r].owner = Nobody
                     /\ row[r].succ = 0
  BY DEF Init, Unused
<1>3. Owned /\ OneWriter /\ Reserved /\ OneLive
  BY <1>2 DEF Owned, InFlight, OneWriter, Inserted, Reserved, OneLive, Live, Committed
<1>4. Held
  BY <1>2 DEF Held, Init, Pending
<1>. QED  BY <1>3, <1>4, TypeInit DEF IndexInv

\* Whatever the number of workers, reviewers, attributes and rows, and
\* however their transactions interleave, fail and restart, at most one live
\* row per venue, attribute and provenance is ever committed
\* (uq_datapoints_live_fact, persist.py, review.py).
THEOREM LiveUnique == Spec => []OneLive
<1>1. IndexInv => OneLive
  BY DEF IndexInv
<1>. QED  BY <1>1, IndexInit, IndexStep, PTL DEF Spec

\* A query sees one live row of a slot at most.
LEMMA LiveForUnique ==
  ASSUME IndexInv, NEW c \in Clients, NEW s, NEW r1 \in LiveFor(c, s), NEW r2 \in LiveFor(c, s)
  PROVE  r1 = r2
<1>1. \A r \in LiveFor(c, s) :
        /\ r \in Ids /\ row[r].slot = s
        /\ upd[c][r] = 0 /\ row[r].succ = 0
        /\ Committed(r) \/ (Inserted(r) /\ row[r].owner = c)
  BY DEF LiveFor, Sees, SuccFor, Committed, Inserted
<1>2. CASE Committed(r1) /\ Committed(r2)
  BY <1>1, <1>2 DEF IndexInv, OneLive, Live, Committed
<1>3. ASSUME NEW r \in LiveFor(c, s), NEW q \in LiveFor(c, s),
             Committed(r), Inserted(q), row[q].owner = c
      PROVE  FALSE
  BY <1>1, <1>3 DEF IndexInv, Reserved, RetiredBy, SuccFor
<1>4. CASE Inserted(r1) /\ Inserted(r2) /\ row[r1].owner = c /\ row[r2].owner = c
  BY <1>1, <1>4 DEF IndexInv, OneWriter, RetiredBy, SuccFor
<1>. QED  BY <1>1, <1>2, <1>3, <1>4

\* The lookups of persist.py and review.py never meet two live rows, in any
\* transaction and at any moment of it: scalar_one_or_none cannot raise.
THEOREM LookupUnique == Spec => []LookupIsUnique
<1>1. IndexInv => LookupIsUnique
  BY LiveForUnique DEF LookupIsUnique
<1>. QED  BY <1>1, IndexInit, IndexStep, PTL DEF Spec

\* Because the callers look up their own provenance only, the rule never tells
\* them that the stored fact outranks the asserted one: the StoreSuperseded
\* branches of persist.py and review.py are dead code.
THEOREM NeverDominated ==
  ASSUME NEW c \in Clients, NEW k \in Keys, NEW v \in Value
  PROVE  Reconcile(Existing(c, <<k, ProvOf(c)>>), Fact(0, ProvOf(c), v)).act
           # "StoreSuperseded"
<1>. DEFINE e == Existing(c, <<k, ProvOf(c)>>)
            i == Fact(0, ProvOf(c), v)
<1>1. CASE e.id = 0
  BY <1>1 DEF Reconcile, InsertLive
<1>2. CASE e.id # 0
  <2>1. e.provenance = ProvOf(c)
    BY <1>2 DEF Existing, NoFact, Fact
  <2>2. i.provenance = ProvOf(c)
    BY DEF Fact
  <2>3. Reconcile(e, i) \in {SupersedeLive(e.id), NoOp(e.id)}
    BY <1>2, <2>1, <2>2, Zenon DEF Reconcile
  <2>. QED  BY <2>3 DEF SupersedeLive, NoOp
<1>. QED  BY <1>1, <1>2

-----------------------------------------------------------------------------
(* The audit trail.  An UPDATE of a row that is already superseded is      *)
(* granted as soon as its rival commits, so that no step by itself keeps   *)
(* the trail; what does is that the transaction it belongs to can never    *)
(* commit.  It has, in the slot of that row, two rows that nobody has      *)
(* retired (Doomed), and every SupersedeLive it goes on to do takes one    *)
(* and brings one, until the unique index refuses the second.              *)

\* What client c has retired has a successor of its own, and nobody else has
\* retired it.
Links ==
  \A c \in Clients, r \in Ids : upd[c][r] # 0 =>
    /\ Sees(c, r)
    /\ row[upd[c][r]].owner = c
    /\ row[upd[c][r]].slot = row[r].slot
    /\ upd[c][r] > r
    /\ \A q \in Ids : upd[c][q] = upd[c][r] => q = r
    /\ \A d \in Clients : upd[d][r] # 0 => d = c

\* A SupersedeLive in progress.
Retiring ==
  \A c \in Clients :
    /\ (old[c] # 0) <=> (new[c] # 0)
    /\ old[c] # 0 =>
         /\ Sees(c, old[c])
         /\ row[old[c]].slot = row[new[c]].slot
         /\ new[c] > old[c]
         /\ pc[c] = "retire" =>
              upd[c][old[c]] = 0 /\ \A q \in Ids : upd[c][q] # new[c]
         /\ pc[c] # "retire" => upd[c][old[c]] = new[c]

Unpublished == \A r \in Ids : ~Committed(r) => row[r].succ = 0

\* The rows of a slot, inserted or not, that client c has not retired and is
\* not about to retire.
Tips(c, s) ==
  { r \in Ids : /\ Committed(r) \/ row[r].owner = c
                /\ row[r].slot = s
                /\ SuccFor(c, r) = 0
                /\ r # old[c] }

Two(c, s)     == \E x, y \in Tips(c, s) : x # y
Touches(c, r) == upd[c][r] # 0 \/ r = old[c]

Replaced ==
  \A c \in Clients, r \in Ids : Touches(c, r) => \E x \in Ids : x \in Tips(c, row[r].slot)
Doomed ==
  \A c \in Clients, r \in Ids : Touches(c, r) /\ row[r].succ # 0 => Two(c, row[r].slot)

\* A doomed transaction stays so, and one that has added to a slot keeps a
\* row there that it has not retired.
Own(c, s)  == \E x \in Tips(c, s) : row[x].owner = c
Lasting(c) == \A s : (Two(c, s) => Two(c, s)') /\ (Own(c, s) => Own(c, s)')

Trail    == Links /\ Retiring /\ Unpublished /\ ChainIsLinear /\ Replaced /\ Doomed
TrailInv == IndexInv /\ Trail

LEMMA TrailTypes ==
  ASSUME TrailInv
  PROVE  /\ row \in [Ids -> Rows] /\ upd \in [Clients -> [Ids -> 0..MaxId]]
         /\ pc \in [Clients -> Pcs]
         /\ old \in [Clients -> 0..MaxId] /\ new \in [Clients -> 0..MaxId]
         /\ \A c \in Clients : /\ old[c] # 0 => old[c] \in Ids
                               /\ new[c] # 0 => new[c] \in Ids
                               /\ \A r \in Ids : upd[c][r] # 0 => upd[c][r] \in Ids
         /\ \A r \in Ids : row[r].succ # 0 => row[r].succ \in Ids
         /\ 0 \notin Ids
PROOF
<1>1. /\ row \in [Ids -> Rows] /\ upd \in [Clients -> [Ids -> 0..MaxId]]
      /\ pc \in [Clients -> Pcs]
      /\ old \in [Clients -> 0..MaxId] /\ new \in [Clients -> 0..MaxId]
  BY DEF TrailInv, IndexInv, TypeOK
<1>2. \A i \in 0..MaxId : i # 0 => i \in Ids
  BY DEF Ids
<1>3. \A c \in Clients, r \in Ids : upd[c][r] \in 0..MaxId
  BY <1>1
<1>4. \A r \in Ids : row[r].succ \in 0..MaxId
  BY <1>1 DEF Rows
<1>5. 0 \notin Ids
  BY DEF Ids
<1> QED BY <1>1, <1>2, <1>3, <1>4, <1>5

\* Steps that leave rows and updates alone.
LEMMA TrailFrame ==
  ASSUME TrailInv, row' = row, upd' = upd, old' = old, new' = new,
         \A c \in Clients : pc'[c] = pc[c] \/ old[c] = 0
  PROVE  Trail' /\ \A c \in Clients : Lasting(c)
PROOF
<1>1. Links' /\ Unpublished'
  BY DEF TrailInv, Trail, Links, Sees, Unpublished, Committed
<1>2. ChainIsLinear'
  BY DEF TrailInv, Trail, ChainIsLinear, Committed
<1>3. Retiring'
  BY DEF TrailInv, Trail, Retiring, Sees
<1>4. \A c, s : Tips(c, s)' = Tips(c, s)
  BY DEF Tips, SuccFor, Committed
<1>5. Replaced' /\ Doomed'
  BY <1>4 DEF TrailInv, Trail, Replaced, Doomed, Touches, Two
<1>6. \A c \in Clients : Lasting(c)
  BY <1>4 DEF Lasting, Two, Own
<1> QED BY <1>1, <1>2, <1>3, <1>5, <1>6 DEF Trail

\* A row that comes into use is the newest, and nobody knows it yet.
LEMMA TrailNewRow ==
  ASSUME TrailInv, NEW c \in Clients, NEW n \in Ids, IsNextId(n),
         row'[n].status \in {"minted", "pending"}, row'[n].owner = c, row'[n].succ = 0,
         \A r \in Ids \ {n} : row'[r] = row[r],
         upd' = upd, row[n].status = "unused"
  PROVE  /\ Links' /\ Unpublished' /\ ChainIsLinear'
         /\ \A d \in Clients : /\ upd[d][n] = 0 /\ old[d] # n /\ new[d] # n
                               /\ \A r \in Ids : upd[d][r] # n
         /\ \A d \in Clients, r \in Ids : Sees(d, r) => Sees(d, r)' /\ r < n
         /\ \A d \in Clients \ {c} : \A s : old'[d] = old[d] => Tips(d, s)' = Tips(d, s)
         /\ \A r \in Ids : Committed(r)' <=> Committed(r)
         /\ \A r \in Ids : row[r].owner \in Clients => row'[r] = row[r]
PROOF
<1>1. row[n].owner = Nobody /\ row[n].succ = 0 /\ ~Committed(n)
  BY DEF TrailInv, IndexInv, Owned, InFlight, Trail, Unpublished, Committed
<1>2. \A d \in Clients : ~Sees(d, n) /\ d # Nobody
  BY DEF Sees
<1>3. \A d \in Clients : /\ upd[d][n] = 0 /\ \A r \in Ids : upd[d][r] # n
  <2> SUFFICES ASSUME NEW d \in Clients
               PROVE  /\ upd[d][n] = 0 /\ \A r \in Ids : upd[d][r] # n
    OBVIOUS
  <2>1. upd[d][n] = 0
    BY <1>2 DEF TrailInv, Trail, Links
  <2>2. \A r \in Ids : upd[d][r] # n
    BY <1>1, <1>2, TrailTypes DEF TrailInv, Trail, Links
  <2> QED BY <2>1, <2>2
<1>4. \A d \in Clients : old[d] # n /\ new[d] # n
  <2> SUFFICES ASSUME NEW d \in Clients
               PROVE  old[d] # n /\ new[d] # n
    OBVIOUS
  <2>1. old[d] # n
    BY <1>2, TrailTypes DEF TrailInv, Trail, Retiring
  <2>2. new[d] # n
    BY TrailTypes DEF TrailInv, IndexInv, Held
  <2> QED BY <2>1, <2>2
<1>5. \A r \in Ids : row[r].status # "unused" => r < n
  BY DEF IsNextId, Ids
<1>6. ASSUME NEW d \in Clients, NEW r \in Ids, Sees(d, r)
      PROVE  r # n /\ Sees(d, r)' /\ r < n
  <2>1. row[r].status # "unused"
    BY <1>6 DEF Sees
  <2> QED BY <1>5, <1>6, <2>1 DEF Sees
<1>7. \A r \in Ids : Committed(r)' <=> Committed(r)
  BY <1>1 DEF Committed
<1>8. Unpublished'
  BY <1>7 DEF TrailInv, Trail, Unpublished
<1>9. Links'
  <2> SUFFICES ASSUME NEW d \in Clients, NEW r \in Ids, upd[d][r] # 0
               PROVE  /\ Sees(d, r)'
                      /\ row'[upd[d][r]].owner = d
                      /\ row'[upd[d][r]].slot = row'[r].slot
                      /\ upd[d][r] > r
                      /\ \A q \in Ids : upd[d][q] = upd[d][r] => q = r
                      /\ \A e \in Clients : upd[e][r] # 0 => e = d
    BY DEF Links
  <2>1. /\ Sees(d, r)
        /\ row[upd[d][r]].owner = d
        /\ row[upd[d][r]].slot = row[r].slot
        /\ upd[d][r] > r
        /\ \A q \in Ids : upd[d][q] = upd[d][r] => q = r
        /\ \A e \in Clients : upd[e][r] # 0 => e = d
    BY DEF TrailInv, Trail, Links
  <2>2. r # n /\ upd[d][r] \in Ids \ {n} /\ Sees(d, r)'
    BY <1>3, <1>6, <2>1, TrailTypes
  <2>3. row'[r] = row[r] /\ row'[upd[d][r]] = row[upd[d][r]]
    BY <2>2
  <2> QED BY <2>1, <2>2, <2>3
<1>10. ChainIsLinear'
  <2> SUFFICES ASSUME NEW r \in Ids, row'[r].succ # 0
               PROVE  /\ row'[row'[r].succ].status = "committed"
                      /\ row'[row'[r].succ].slot = row'[r].slot
                      /\ row'[r].succ > r
                      /\ \A q \in Ids : row'[q].succ = row'[r].succ => q = r
    BY DEF ChainIsLinear, Committed
  <2>1. r # n /\ row'[r] = row[r] /\ row[r].succ \in Ids
    BY TrailTypes
  <2>2. /\ Committed(row[r].succ)
        /\ row[row[r].succ].slot = row[r].slot
        /\ row[r].succ > r
        /\ \A q \in Ids : row[q].succ = row[r].succ => q = r
    BY <2>1 DEF TrailInv, Trail, ChainIsLinear
  <2>3. row[r].succ # n
    BY <1>1, <2>2
  <2>4. row'[row[r].succ] = row[row[r].succ]
    BY <2>1, <2>3
  <2>5. ASSUME NEW q \in Ids, row'[q].succ = row[r].succ PROVE q = r
    BY <2>1, <2>2, <2>5
  <2> QED BY <2>1, <2>2, <2>4, <2>5 DEF Committed
<1>11. ASSUME NEW d \in Clients \ {c}, NEW s, old'[d] = old[d]
       PROVE  Tips(d, s)' = Tips(d, s)
  <2>1. ASSUME NEW r \in Ids
        PROVE  r \in Tips(d, s)' <=> r \in Tips(d, s)
    <3>1. CASE r = n
      <4>1. row'[r].owner # d /\ row[r].owner # d /\ ~Committed(r) /\ ~Committed(r)'
        BY <1>1, <1>2, <1>7, <3>1
      <4> QED BY <4>1 DEF Tips
    <3>2. CASE r # n
      BY <1>7, <1>11, <3>2 DEF Tips, SuccFor
    <3> QED BY <3>1, <3>2
  <2> QED BY <2>1 DEF Tips
<1>12. \A r \in Ids : row[r].owner \in Clients => row'[r] = row[r]
  BY <1>1, <1>2
<1> QED BY <1>3, <1>4, <1>6, <1>7, <1>8, <1>9, <1>10, <1>11, <1>12

LEMMA TrailAddFirst ==
  ASSUME TrailInv, NEW c \in Clients, NEW k \in Keys, NEW v \in Asserted, AddFirst(c, k, v)
  PROVE  Trail' /\ \A d \in Clients : Lasting(d)
PROOF
<1>1. PICK n \in Ids : /\ IsNextId(n)
                       /\ row' = [row EXCEPT ![n] =
                            Row("pending", c, <<k, ProvOf(c)>>, Coerce(TypeOf[k], v))]
  BY DEF AddFirst
<1>2. row[n].status = "unused"
  BY <1>1 DEF IsNextId, Ids
<1>3. /\ row'[n].status = "pending" /\ row'[n].owner = c /\ row'[n].succ = 0
      /\ \A r \in Ids \ {n} : row'[r] = row[r]
  BY <1>1, TrailTypes DEF Row
<1>4. UNCHANGED <<upd, pc, old, new>> /\ pc[c] = "work"
  BY DEF AddFirst, Decides
<1>5. /\ Links' /\ Unpublished' /\ ChainIsLinear'
      /\ \A d \in Clients : /\ upd[d][n] = 0 /\ old[d] # n /\ new[d] # n
                            /\ \A r \in Ids : upd[d][r] # n
      /\ \A d \in Clients, r \in Ids : Sees(d, r) => Sees(d, r)' /\ r < n
      /\ \A d \in Clients \ {c} : \A s : Tips(d, s)' = Tips(d, s)
      /\ \A r \in Ids : Committed(r)' <=> Committed(r)
      /\ \A r \in Ids : row[r].owner \in Clients => row'[r] = row[r]
  BY <1>1, <1>2, <1>3, <1>4, TrailNewRow
<1>6. Retiring'
  <2> SUFFICES ASSUME NEW d \in Clients
               PROVE  /\ (old[d] # 0) <=> (new[d] # 0)
                      /\ old[d] # 0 =>
                           /\ Sees(d, old[d])'
                           /\ row'[old[d]].slot = row'[new[d]].slot
                           /\ new[d] > old[d]
                           /\ pc[d] = "retire" =>
                                upd[d][old[d]] = 0 /\ \A q \in Ids : upd[d][q] # new[d]
                           /\ pc[d] # "retire" => upd[d][old[d]] = new[d]
    BY <1>4 DEF Retiring
  <2>1. old[d] # 0 => old[d] \in Ids \ {n} /\ new[d] \in Ids \ {n}
    BY <1>5, TrailTypes DEF TrailInv, Trail, Retiring
  <2>2. old[d] # 0 => row'[old[d]] = row[old[d]] /\ row'[new[d]] = row[new[d]]
    BY <1>3, <2>1
  <2>3. old[d] # 0 => Sees(d, old[d])'
    <3> SUFFICES ASSUME old[d] # 0
                 PROVE  Sees(d, old[d])'
      OBVIOUS
    <3>1. Sees(d, old[d])
      BY DEF TrailInv, Trail, Retiring
    <3> QED BY <1>4, <2>2, <3>1 DEF Sees
  <2> QED BY <2>2, <2>3 DEF TrailInv, Trail, Retiring
<1>7. \A d \in Clients : \A s : Tips(d, s) \subseteq Tips(d, s)'
  <2> SUFFICES ASSUME NEW s, NEW r \in Tips(c, s)
               PROVE  r \in Tips(c, s)'
    BY <1>5
  <2>1. r \in Ids /\ r # n
    BY <1>2, <1>5 DEF Tips, Committed, TrailInv, IndexInv, Owned, InFlight
  <2> QED BY <1>3, <1>4, <1>5, <2>1 DEF Tips, SuccFor
<1>8. \A d \in Clients, r \in Ids :
        Touches(d, r)' => Touches(d, r) /\ row'[r] = row[r]
  BY <1>3, <1>4, <1>5 DEF Touches
<1>9. Replaced'
  BY <1>7, <1>8 DEF TrailInv, Trail, Replaced
<1>10. Doomed'
  BY <1>7, <1>8 DEF TrailInv, Trail, Doomed, Two
<1>11. \A d \in Clients : Lasting(d)
  <2> SUFFICES ASSUME NEW d \in Clients, NEW s
               PROVE  /\ Two(d, s) => \E x, y \in Tips(d, s)' : x # y
                      /\ Own(d, s) => \E x \in Tips(d, s)' : row'[x].owner = d
    BY DEF Lasting, Two, Own
  <2>1. \A x \in Tips(d, s) : x \in Tips(d, s)' /\ x \in Ids
    BY <1>7 DEF Tips
  <2> QED BY <1>5, <2>1 DEF Two, Own
<1> QED BY <1>5, <1>6, <1>9, <1>10, <1>11 DEF Trail

\* What _live_existing finds.
LEMMA ExistingIsLive ==
  ASSUME TypeOK, NEW c \in Clients, NEW k \in Keys, NEW v \in Value, NEW id \in Ids,
         SupersedeLive(id) = Reconcile(Existing(c, <<k, ProvOf(c)>>), Fact(0, ProvOf(c), v))
  PROVE  id \in LiveFor(c, <<k, ProvOf(c)>>)
PROOF
<1> DEFINE s == <<k, ProvOf(c)>>
           e == Existing(c, s)
<1>1. e.id # 0
  BY DEF Reconcile, SupersedeLive, InsertLive
<1>2. id = e.id
  BY <1>1 DEF Reconcile, SupersedeLive, NoOp, StoreSuperseded
<1>3. LiveFor(c, s) # {}
  BY <1>1 DEF Existing, NoFact
<1>4. e.id = CHOOSE x \in LiveFor(c, s) : TRUE
  BY <1>3 DEF Existing, Fact
<1> QED BY <1>2, <1>3, <1>4

LEMMA TrailSupersede ==
  ASSUME TrailInv, NEW c \in Clients, NEW k \in Keys, NEW v \in Asserted, Supersede(c, k, v)
  PROVE  Trail' /\ \A d \in Clients : Lasting(d)
PROOF
<1> DEFINE s0 == <<k, ProvOf(c)>>
<1>1. PICK id \in Ids, n \in Ids :
             /\ Decides(c, k, v, SupersedeLive(id))
             /\ IsNextId(n)
             /\ row' = [row EXCEPT ![n] = Row("minted", c, s0, Coerce(TypeOf[k], v))]
             /\ old' = [old EXCEPT ![c] = id]
             /\ new' = [new EXCEPT ![c] = n]
             /\ pc' = [pc EXCEPT ![c] = "retire"]
             /\ upd' = upd
  BY DEF Supersede
<1>2. row[n].status = "unused"
  BY <1>1 DEF IsNextId, Ids
<1>3. /\ row'[n].status = "minted" /\ row'[n].owner = c /\ row'[n].succ = 0
      /\ row'[n].slot = s0
      /\ \A r \in Ids \ {n} : row'[r] = row[r]
  BY <1>1, TrailTypes DEF Row
<1>4. /\ old'[c] = id /\ new'[c] = n /\ pc'[c] = "retire" /\ pc[c] = "work"
      /\ \A d \in Clients \ {c} : old'[d] = old[d] /\ new'[d] = new[d] /\ pc'[d] = pc[d]
  BY <1>1, TrailTypes DEF Decides
<1>5. /\ Links' /\ Unpublished' /\ ChainIsLinear'
      /\ \A d \in Clients : /\ upd[d][n] = 0 /\ old[d] # n /\ new[d] # n
                            /\ \A r \in Ids : upd[d][r] # n
      /\ \A d \in Clients, r \in Ids : Sees(d, r) => Sees(d, r)' /\ r < n
      /\ \A d \in Clients \ {c} : \A s : old'[d] = old[d] => Tips(d, s)' = Tips(d, s)
      /\ \A r \in Ids : Committed(r)' <=> Committed(r)
      /\ \A r \in Ids : row[r].owner \in Clients => row'[r] = row[r]
  BY <1>1, <1>2, <1>3, TrailNewRow
<1>6. old[c] = 0 /\ new[c] = 0
  BY <1>4 DEF TrailInv, IndexInv, Held, Trail, Retiring
<1>7. /\ id \in Ids \ {n} /\ Sees(c, id) /\ row[id].slot = s0
      /\ upd[c][id] = 0 /\ row[id].succ = 0
  <2>1. v \in Value
    OBVIOUS
  <2>2. SupersedeLive(id) = Reconcile(Existing(c, s0), Fact(0, ProvOf(c), v))
    BY <1>1 DEF Decides
  <2>3. id \in LiveFor(c, s0)
    BY <2>1, <2>2, ExistingIsLive DEF TrailInv, IndexInv
  <2> QED BY <1>2, <2>3 DEF LiveFor, Sees, SuccFor
<1>8. id # 0 /\ n # 0 /\ n > id /\ Sees(c, id)' /\ row'[id] = row[id]
  BY <1>3, <1>5, <1>7 DEF Ids
<1>9. Retiring'
  <2> SUFFICES ASSUME NEW d \in Clients, NEW o, o = old'[d], NEW m, m = new'[d]
               PROVE  /\ (o # 0) <=> (m # 0)
                      /\ o # 0 =>
                           /\ Sees(d, o)'
                           /\ row'[o].slot = row'[m].slot
                           /\ m > o
                           /\ pc'[d] = "retire" =>
                                upd[d][o] = 0 /\ \A q \in Ids : upd[d][q] # m
                           /\ pc'[d] # "retire" => upd[d][o] = m
    BY <1>1 DEF Retiring, Sees
  <2>1. CASE d = c
    <3>1. o = id /\ m = n /\ pc'[d] = "retire"
      BY <1>4, <2>1
    <3>2. row'[id].slot = row'[n].slot
      BY <1>3, <1>7, <1>8
    <3> QED BY <1>5, <1>7, <1>8, <2>1, <3>1, <3>2
  <2>2. CASE d # c
    <3>1. o = old[d] /\ m = new[d] /\ pc'[d] = pc[d]
      BY <1>4, <2>2
    <3>2. o # 0 => o \in Ids \ {n} /\ m \in Ids \ {n}
      BY <1>5, <3>1, TrailTypes DEF TrailInv, Trail, Retiring
    <3>3. o # 0 => row'[o] = row[o] /\ row'[m] = row[m]
      BY <1>3, <3>2
    <3>4. o # 0 => Sees(d, o)
      BY <3>1 DEF TrailInv, Trail, Retiring
    <3>5. o # 0 => Sees(d, o)'
      BY <1>5, <3>2, <3>4
    <3> QED BY <3>1, <3>3, <3>5 DEF TrailInv, Trail, Retiring
  <2> QED BY <2>1, <2>2
\* The slot of the retired row has the new one as a tip.
<1>10. /\ n \in Tips(c, s0)' /\ id \in Tips(c, s0)
       /\ \A s : \A x \in Tips(c, s) : x # id => x \in Tips(c, s)'
       /\ \A s : n \notin Tips(c, s)
  <2>1. n \in Tips(c, s0)'
    BY <1>1, <1>3, <1>4, <1>5, <1>7 DEF Tips, SuccFor
  <2>2. row[id].owner = c \/ Committed(id)
    BY <1>7 DEF Sees, Committed
  <2>3. id \in Tips(c, s0)
    BY <1>6, <1>7, <1>8, <2>2 DEF Tips, SuccFor
  <2>4. \A s : n \notin Tips(c, s)
    BY <1>2 DEF Tips, Committed, TrailInv, IndexInv, Owned, InFlight
  <2>5. ASSUME NEW s, NEW x \in Tips(c, s), x # id
        PROVE  x \in Tips(c, s)'
    <3>1. x \in Ids \ {n}
      BY <2>4 DEF Tips
    <3>2. row'[x] = row[x] /\ (Committed(x)' <=> Committed(x)) /\ old'[c] # x
      BY <1>3, <1>4, <1>5, <2>5, <3>1
    <3> QED BY <1>1, <2>5, <3>1, <3>2 DEF Tips, SuccFor
  <2> QED BY <2>1, <2>3, <2>4, <2>5
<1>12. \A d \in Clients : Lasting(d)
  <2> SUFFICES ASSUME NEW d \in Clients, NEW s
               PROVE  /\ Two(d, s) => \E x, y \in Tips(d, s)' : x # y
                      /\ Own(d, s) => \E x \in Tips(d, s)' : row'[x].owner = d
    BY DEF Lasting, Two, Own
  <2>1. CASE d # c
    <3>1. Tips(d, s)' = Tips(d, s) /\ \A x \in Tips(d, s) : x \in Ids
      BY <1>4, <1>5, <2>1 DEF Tips
    <3> QED BY <1>5, <3>1 DEF Two, Own
  <2>2. CASE d = c
    <3>1. \A t : id \in Tips(c, t) => t = s0
      BY <1>7 DEF Tips
    <3>2. Two(c, s) => \E x, y \in Tips(c, s)' : x # y
      BY <1>10, <3>1 DEF Two
    <3>3. \A x \in Tips(c, s) : x \in Ids
      BY DEF Tips
    <3>4. Own(c, s) => \E x \in Tips(c, s)' : row'[x].owner = c
      BY <1>3, <1>5, <1>10, <3>1, <3>3 DEF Own
    <3> QED BY <2>2, <3>2, <3>4
  <2> QED BY <2>1, <2>2
<1>11. ASSUME NEW r \in Ids, Touches(c, r)', r # id
       PROVE  Touches(c, r) /\ row'[r] = row[r]
  BY <1>1, <1>3, <1>4, <1>5, <1>11 DEF Touches
<1>13. ASSUME NEW d \in Clients \ {c}, NEW r \in Ids, Touches(d, r)'
       PROVE  Touches(d, r) /\ row'[r] = row[r]
  BY <1>1, <1>3, <1>4, <1>5, <1>13 DEF Touches
<1>14. Replaced'
  <2> SUFFICES ASSUME NEW d \in Clients, NEW r \in Ids, Touches(d, r)',
                      NEW s, s = row'[r].slot
               PROVE  \E x \in Ids : x \in Tips(d, s)'
    BY DEF Replaced, Tips
  <2>1. CASE d # c
    <3>1. Touches(d, r) /\ row'[r] = row[r]
      BY <1>13, <2>1
    <3> QED BY <1>4, <1>5, <2>1, <3>1 DEF TrailInv, Trail, Replaced
  <2>2. CASE d = c /\ r = id
    BY <1>7, <1>8, <1>10, <2>2
  <2>3. CASE d = c /\ r # id
    <3>1. Touches(c, r) /\ row'[r] = row[r]
      BY <1>11, <2>3
    <3>2. PICK x \in Ids : x \in Tips(c, row[r].slot)
      BY <3>1 DEF TrailInv, Trail, Replaced
    <3>3. \A t : id \in Tips(c, t) => t = s0
      BY <1>7 DEF Tips
    <3> QED BY <1>10, <2>3, <3>1, <3>2, <3>3
  <2> QED BY <2>1, <2>2, <2>3
<1>15. Doomed'
  <2> SUFFICES ASSUME NEW d \in Clients, NEW r \in Ids, Touches(d, r)', row'[r].succ # 0,
                      NEW s, s = row'[r].slot
               PROVE  \E x, y \in Tips(d, s)' : x # y
    BY DEF Doomed, Two, Tips
  <2>1. CASE d # c
    <3>1. Touches(d, r) /\ row'[r] = row[r]
      BY <1>13, <2>1
    <3> QED BY <1>4, <1>5, <2>1, <3>1 DEF TrailInv, Trail, Doomed, Two
  <2>2. CASE d = c
    <3>1. r # id
      BY <1>7, <1>8
    <3>2. Touches(c, r) /\ row'[r] = row[r]
      BY <1>11, <2>2, <3>1
    <3> QED BY <1>12, <2>2, <3>2 DEF TrailInv, Trail, Doomed, Lasting, Two
  <2> QED BY <2>1, <2>2
<1> QED BY <1>5, <1>9, <1>14, <1>15, <1>12 DEF Trail

LEMMA TrailRetire ==
  ASSUME TrailInv, NEW c \in Clients, Retire(c)
  PROVE  Trail' /\ \A d \in Clients : Lasting(d)
PROOF
<1> DEFINE o == old[c]
           n == new[c]
<1>1. /\ n \in Ids /\ row[n].owner = c /\ o \in Ids
      /\ Sees(c, o) /\ row[o].slot = row[n].slot /\ n > o
      /\ upd[c][o] = 0 /\ \A q \in Ids : upd[c][q] # n
  BY TrailTypes DEF Retire, TrailInv, IndexInv, Held, Trail, Retiring
<1>2. UNCHANGED <<row, old, new>>
  BY DEF Retire
<1>3. /\ upd'[c][o] = n /\ n # 0
      /\ \A r \in Ids \ {o} : upd'[c][r] = upd[c][r]
      /\ \A d \in Clients \ {c} : upd'[d] = upd[d] /\ pc'[d] = pc[d]
      /\ pc[c] = "retire" /\ pc'[c] = "insert"
  BY <1>1, TrailTypes DEF Retire
<1>4. \A d \in Clients \ {c} : upd[d][o] = 0
  BY DEF Retire, RetireBlockers
<1>5. Unpublished' /\ ChainIsLinear'
  BY <1>2 DEF TrailInv, Trail, Unpublished, ChainIsLinear, Committed
<1>6. Links'
  <2> SUFFICES ASSUME NEW d \in Clients, NEW r \in Ids, NEW m, m = upd'[d][r], m # 0
               PROVE  /\ Sees(d, r)'
                      /\ row[m].owner = d
                      /\ row[m].slot = row[r].slot
                      /\ m > r
                      /\ \A q \in Ids : upd'[d][q] = m => q = r
                      /\ \A e \in Clients : upd'[e][r] # 0 => e = d
    BY <1>2 DEF Links, Sees
  <2>1. CASE d = c /\ r = o
    BY <1>1, <1>2, <1>3, <1>4, <2>1 DEF Sees
  <2>2. CASE ~(d = c /\ r = o)
    <3>1. m = upd[d][r]
      BY <1>3, <2>2
    <3>2. /\ Sees(d, r)
          /\ row[m].owner = d
          /\ row[m].slot = row[r].slot
          /\ m > r
          /\ \A q \in Ids : upd[d][q] = m => q = r
          /\ \A e \in Clients : upd[e][r] # 0 => e = d
      BY <3>1 DEF TrailInv, Trail, Links
    <3>3. r # o
      BY <1>4, <2>2, <3>1
    <3>4. \A q \in Ids : upd'[d][q] = m => q = r
      BY <1>1, <1>3, <3>1, <3>2
    <3>5. \A e \in Clients : upd'[e][r] # 0 => e = d
      BY <1>3, <3>2, <3>3
    <3> QED BY <1>2, <3>2, <3>4, <3>5 DEF Sees
  <2> QED BY <2>1, <2>2
<1>7. Retiring'
  <2> SUFFICES ASSUME NEW d \in Clients
               PROVE  /\ (old[d] # 0) <=> (new[d] # 0)
                      /\ old[d] # 0 =>
                           /\ Sees(d, old[d])
                           /\ row[old[d]].slot = row[new[d]].slot
                           /\ new[d] > old[d]
                           /\ pc'[d] = "retire" =>
                                upd'[d][old[d]] = 0 /\ \A q \in Ids : upd'[d][q] # new[d]
                           /\ pc'[d] # "retire" => upd'[d][old[d]] = new[d]
    BY <1>2 DEF Retiring, Sees
  <2>1. CASE d = c
    BY <1>1, <1>3, <2>1 DEF TrailInv, Trail, Retiring
  <2>2. CASE d # c
    BY <1>3, <2>2 DEF TrailInv, Trail, Retiring
  <2> QED BY <2>1, <2>2
<1>8. \A d \in Clients : \A s : Tips(d, s)' = Tips(d, s)
  <2> SUFFICES ASSUME NEW d \in Clients, NEW s, NEW r \in Ids
               PROVE  r \in Tips(d, s)' <=> r \in Tips(d, s)
    BY DEF Tips
  <2>1. CASE d = c /\ r = o
    BY <1>2, <2>1 DEF Tips
  <2>2. CASE ~(d = c /\ r = o)
    <3>1. upd'[d][r] = upd[d][r]
      BY <1>3, <2>2
    <3> QED BY <1>2, <3>1 DEF Tips, SuccFor, Committed
  <2> QED BY <2>1, <2>2
<1>9. \A d \in Clients, r \in Ids : Touches(d, r)' => Touches(d, r)
  BY <1>2, <1>3 DEF Touches
<1>10. Replaced'
  BY <1>2, <1>8, <1>9 DEF TrailInv, Trail, Replaced
<1>11. Doomed'
  BY <1>2, <1>8, <1>9 DEF TrailInv, Trail, Doomed, Two
<1>12. \A d \in Clients : Lasting(d)
  BY <1>2, <1>8 DEF Lasting, Two, Own
<1> QED BY <1>5, <1>6, <1>7, <1>10, <1>11, <1>12 DEF Trail

\* The INSERT of an added row, or the adding of a replacement.
LEMMA RowMoves ==
  ASSUME TrailInv, NEW c \in Clients, InsertRow(c) \/ AddReplacement(c)
  PROVE  \E n \in Ids :
           /\ row[n].status \in {"minted", "pending"} /\ row[n].owner = c
           /\ row'[n].status \in {"pending", "flushed"}
           /\ \A r \in Ids \ {n} : row'[r] = row[r]
           /\ \A r \in Ids : /\ row'[r].owner = row[r].owner
                              /\ row'[r].slot = row[r].slot
                              /\ row'[r].val = row[r].val
                              /\ row'[r].succ = row[r].succ
PROOF
<1>1. PICK n \in Ids : /\ row[n].status \in {"minted", "pending"} /\ row[n].owner = c
                       /\ \E st \in {"pending", "flushed"} :
                            row' = [row EXCEPT ![n].status = st]
  <2>1. CASE InsertRow(c)
    BY <2>1 DEF InsertRow, IsFirst, Pending
  <2>2. CASE AddReplacement(c)
    BY <2>2, TrailTypes DEF AddReplacement, TrailInv, IndexInv, Held
  <2> QED BY <2>1, <2>2
<1>2. PICK st \in {"pending", "flushed"} : row' = [row EXCEPT ![n].status = st]
  BY <1>1
<1>3. \A r \in Ids : row[r] \in Rows
  BY TrailTypes
<1>4. \A r \in Ids : row'[r] = IF r = n THEN [row[n] EXCEPT !.status = st] ELSE row[r]
  BY <1>2, TrailTypes
<1>5. /\ [row[n] EXCEPT !.status = st].owner = row[n].owner
      /\ [row[n] EXCEPT !.status = st].slot = row[n].slot
      /\ [row[n] EXCEPT !.status = st].val = row[n].val
      /\ [row[n] EXCEPT !.status = st].succ = row[n].succ
      /\ [row[n] EXCEPT !.status = st].status = st
  BY <1>3 DEF Rows
<1> QED BY <1>1, <1>4, <1>5

LEMMA TrailMoves ==
  ASSUME TrailInv, NEW c \in Clients, InsertRow(c) \/ AddReplacement(c)
  PROVE  Trail' /\ \A d \in Clients : Lasting(d)
PROOF
<1>1. PICK n \in Ids :
        /\ row[n].status \in {"minted", "pending"} /\ row[n].owner = c
        /\ row'[n].status \in {"pending", "flushed"}
        /\ \A r \in Ids \ {n} : row'[r] = row[r]
        /\ \A r \in Ids : /\ row'[r].owner = row[r].owner
                           /\ row'[r].slot = row[r].slot
                           /\ row'[r].succ = row[r].succ
  BY RowMoves
<1>2. /\ \A r \in Ids : /\ row'[r].owner = row[r].owner /\ row'[r].slot = row[r].slot
                        /\ row'[r].succ = row[r].succ
      /\ \A r \in Ids \ {n} : row'[r] = row[r]
      /\ row'[n].status \in {"pending", "flushed"}
  BY <1>1
<1>3. /\ upd' = upd
      /\ \A d \in Clients \ {c} : old'[d] = old[d] /\ new'[d] = new[d] /\ pc'[d] = pc[d]
      /\ \/ old'[c] = old[c] /\ new'[c] = new[c] /\ pc'[c] = pc[c]
         \/ old'[c] = 0 /\ new'[c] = 0 /\ old[c] # 0 /\ upd[c][old[c]] # 0
  <2>1. CASE InsertRow(c)
    BY <2>1 DEF InsertRow, txVars
  <2>2. CASE AddReplacement(c)
    BY <2>2, TrailTypes DEF AddReplacement, TrailInv, Trail, Retiring
  <2> QED BY <2>1, <2>2
<1>4. /\ \A r \in Ids : Committed(r)' <=> Committed(r)
      /\ \A d \in Clients, r \in Ids : Sees(d, r) => Sees(d, r)'
  BY <1>1, <1>2 DEF Committed, Sees
<1>5. Links'
  <2> SUFFICES ASSUME NEW d \in Clients, NEW r \in Ids, NEW m, m = upd[d][r], m # 0
               PROVE  /\ Sees(d, r)'
                      /\ row'[m].owner = d
                      /\ row'[m].slot = row'[r].slot
                      /\ m > r
                      /\ \A q \in Ids : upd[d][q] = m => q = r
                      /\ \A e \in Clients : upd[e][r] # 0 => e = d
    BY <1>3 DEF Links, Sees
  <2>1. m \in Ids
    BY TrailTypes
  <2> QED BY <1>2, <1>4, <2>1 DEF TrailInv, Trail, Links
<1>6. Unpublished'
  BY <1>2, <1>4 DEF TrailInv, Trail, Unpublished
<1>7. ChainIsLinear'
  <2>1. \A r, m \in Ids : row'[r].succ = m <=> row[r].succ = m
    BY <1>2
  <2>2. \A m \in Ids : (row'[m].status = "committed") <=> (row[m].status = "committed")
    BY <1>4 DEF Committed
  <2> SUFFICES ASSUME NEW r \in Ids, NEW m, m = row[r].succ, m # 0
               PROVE  /\ row'[m].status = "committed"
                      /\ row'[m].slot = row'[r].slot
                      /\ m > r
                      /\ \A q \in Ids : row'[q].succ = m => q = r
    BY <1>2 DEF ChainIsLinear, Committed
  <2>3. m \in Ids
    BY TrailTypes
  <2>4. /\ row[m].status = "committed" /\ row[m].slot = row[r].slot /\ m > r
        /\ \A q \in Ids : row[q].succ = m => q = r
    BY DEF TrailInv, Trail, ChainIsLinear, Committed
  <2> QED BY <1>2, <2>2, <2>3, <2>4
<1>8. Retiring'
  <2> SUFFICES ASSUME NEW d \in Clients, NEW o, o = old'[d], NEW m, m = new'[d]
               PROVE  /\ (o # 0) <=> (m # 0)
                      /\ o # 0 =>
                           /\ Sees(d, o)'
                           /\ row'[o].slot = row'[m].slot
                           /\ m > o
                           /\ pc'[d] = "retire" =>
                                upd[d][o] = 0 /\ \A q \in Ids : upd[d][q] # m
                           /\ pc'[d] # "retire" => upd[d][o] = m
    BY <1>3 DEF Retiring, Sees
  <2>1. CASE o = 0 /\ m = 0
    BY <2>1
  <2>2. CASE o = old[d] /\ m = new[d] /\ pc'[d] = pc[d]
    <3>1. o # 0 => o \in Ids /\ m \in Ids
      BY <2>2, TrailTypes DEF TrailInv, Trail, Retiring
    <3>2. o # 0 => row'[o].slot = row[o].slot /\ row'[m].slot = row[m].slot
      BY <1>2, <3>1
    <3>3. o # 0 => Sees(d, o)
      BY <2>2 DEF TrailInv, Trail, Retiring
    <3>4. o # 0 => Sees(d, o)'
      BY <1>4, <3>1, <3>3
    <3> QED BY <2>2, <3>2, <3>4 DEF TrailInv, Trail, Retiring
  <2> QED BY <1>3, <2>1, <2>2
<1>9. \A d \in Clients : \A s : Tips(d, s)' = Tips(d, s)
  <2> SUFFICES ASSUME NEW d \in Clients, NEW s, NEW r \in Ids
               PROVE  r \in Tips(d, s)' <=> r \in Tips(d, s)
    BY DEF Tips
  <2>1. SuccFor(d, r)' = SuccFor(d, r)
    BY <1>2, <1>3 DEF SuccFor
  <2>2. CASE d # c \/ old'[c] = old[c]
    BY <1>2, <1>3, <1>4, <2>1, <2>2 DEF Tips
  <2>3. CASE d = c /\ old'[c] = 0 /\ upd[c][old[c]] # 0
    <3>1. SuccFor(c, r) = 0 => r # old[c]
      BY <2>3 DEF SuccFor
    <3>2. r # old'[c]
      BY <2>3, TrailTypes
    <3> QED BY <1>2, <1>4, <2>1, <2>3, <3>1, <3>2 DEF Tips
  <2> QED BY <1>3, <2>2, <2>3
<1>10. \A d \in Clients, r \in Ids : Touches(d, r)' => Touches(d, r)
  BY <1>3, TrailTypes DEF Touches
<1>11. Replaced'
  <2> SUFFICES ASSUME NEW d \in Clients, NEW r \in Ids, Touches(d, r),
                      NEW s, s = row[r].slot
               PROVE  \E x \in Ids : x \in Tips(d, s)'
    BY <1>2, <1>10 DEF Replaced, Tips
  <2> QED BY <1>9 DEF TrailInv, Trail, Replaced
<1>12. Doomed'
  <2> SUFFICES ASSUME NEW d \in Clients, NEW r \in Ids, Touches(d, r), row[r].succ # 0,
                      NEW s, s = row[r].slot
               PROVE  \E x, y \in Tips(d, s)' : x # y
    BY <1>2, <1>10 DEF Doomed, Two, Tips
  <2> QED BY <1>9 DEF TrailInv, Trail, Doomed, Two
<1>13. \A d \in Clients : Lasting(d)
  <2>1. \A d \in Clients : \A s : \A x \in Tips(d, s) : row'[x].owner = row[x].owner
    BY <1>2 DEF Tips
  <2> QED BY <1>9, <2>1 DEF Lasting, Two, Own
<1> QED BY <1>5, <1>6, <1>7, <1>8, <1>11, <1>12, <1>13 DEF Trail

LEMMA TrailRollback ==
  ASSUME TrailInv, NEW c \in Clients, Rollback(c)
  PROVE  Trail' /\ \A d \in Clients \ {c} : Lasting(d)
PROOF
<1>1. \A r \in Ids : /\ row[r].owner = c => row'[r] = Unused
                     /\ row[r].owner # c => row'[r] = row[r]
  BY DEF Rollback
<1>2. /\ \A d \in Clients \ {c} : /\ upd'[d] = upd[d] /\ old'[d] = old[d]
                                  /\ new'[d] = new[d] /\ pc'[d] = pc[d]
      /\ old'[c] = 0 /\ new'[c] = 0 /\ \A r \in Ids : upd'[c][r] = 0
  BY TrailTypes DEF Rollback, Ends, NoUpdate
<1>3. /\ Unused.status = "unused" /\ Unused.succ = 0 /\ Unused.owner = Nobody
      /\ Nobody \notin Clients
  BY DEF Unused
<1>4. \A r \in Ids : Committed(r) => row[r].owner = Nobody /\ row'[r] = row[r]
  BY <1>1 DEF Committed, TrailInv, IndexInv, Owned, InFlight
<1>5. \A d \in Clients \ {c}, r \in Ids : row[r].owner = d => row'[r] = row[r]
  BY <1>1
<1>6. \A d \in Clients \ {c}, r \in Ids : Sees(d, r) => Sees(d, r)' /\ row'[r] = row[r]
  BY <1>4, <1>5 DEF Sees, Committed
<1>7. \A r \in Ids : Committed(r)' <=> Committed(r)
  BY <1>1, <1>3, <1>4 DEF Committed
<1>8. Unpublished'
  BY <1>1, <1>3, <1>7 DEF TrailInv, Trail, Unpublished
<1>9. Links'
  <2> SUFFICES ASSUME NEW d \in Clients \ {c}, NEW r \in Ids, NEW m, m = upd[d][r], m # 0
               PROVE  /\ Sees(d, r)'
                      /\ row'[m].owner = d
                      /\ row'[m].slot = row'[r].slot
                      /\ m > r
                      /\ \A q \in Ids : upd[d][q] = m => q = r
                      /\ \A e \in Clients : upd'[e][r] # 0 => e = d
    BY <1>2 DEF Links, Sees
  <2>1. /\ Sees(d, r)
        /\ row[m].owner = d
        /\ row[m].slot = row[r].slot
        /\ m > r
        /\ \A q \in Ids : upd[d][q] = m => q = r
        /\ \A e \in Clients : upd[e][r] # 0 => e = d
    BY DEF TrailInv, Trail, Links
  <2>2. m \in Ids
    BY TrailTypes
  <2>3. row'[m] = row[m] /\ row'[r] = row[r] /\ Sees(d, r)'
    BY <1>5, <1>6, <2>1, <2>2
  <2>4. \A e \in Clients : upd'[e][r] # 0 => e = d
    BY <1>2, <2>1
  <2> QED BY <2>1, <2>3, <2>4
<1>10. Retiring'
  <2> SUFFICES ASSUME NEW d \in Clients, NEW o, o = old'[d], NEW m, m = new'[d]
               PROVE  /\ (o # 0) <=> (m # 0)
                      /\ o # 0 =>
                           /\ Sees(d, o)'
                           /\ row'[o].slot = row'[m].slot
                           /\ m > o
                           /\ pc'[d] = "retire" =>
                                upd'[d][o] = 0 /\ \A q \in Ids : upd'[d][q] # m
                           /\ pc'[d] # "retire" => upd'[d][o] = m
    BY DEF Retiring, Sees
  <2>1. CASE d = c
    BY <1>2, <2>1
  <2>2. CASE d # c
    <3>1. o = old[d] /\ m = new[d] /\ pc'[d] = pc[d] /\ upd'[d] = upd[d]
      BY <1>2, <2>2
    <3>2. o # 0 => /\ o \in Ids /\ m \in Ids /\ row[m].owner = d /\ Sees(d, o)
      BY <3>1, TrailTypes DEF TrailInv, IndexInv, Held, Trail, Retiring
    <3>3. o # 0 => row'[o] = row[o] /\ row'[m] = row[m] /\ Sees(d, o)'
      BY <1>5, <1>6, <2>2, <3>2
    <3> QED BY <3>1, <3>3 DEF TrailInv, Trail, Retiring
  <2> QED BY <2>1, <2>2
<1>11. ChainIsLinear'
  <2> SUFFICES ASSUME NEW r \in Ids, NEW m, m = row'[r].succ, m # 0
               PROVE  /\ row'[m].status = "committed"
                      /\ row'[m].slot = row'[r].slot
                      /\ m > r
                      /\ \A q \in Ids : row'[q].succ = m => q = r
    BY DEF ChainIsLinear, Committed
  <2>1. row'[r] = row[r]
    BY <1>1, <1>3
  <2>2. /\ m \in Ids /\ row[m].status = "committed" /\ row[m].slot = row[r].slot /\ m > r
        /\ \A q \in Ids : row[q].succ = m => q = r
    BY <2>1, TrailTypes DEF TrailInv, Trail, ChainIsLinear, Committed
  <2>3. row'[m] = row[m]
    BY <1>4, <2>2 DEF Committed
  <2>4. \A q \in Ids : row'[q].succ = m => q = r
    BY <1>1, <1>3, <2>2
  <2> QED BY <2>1, <2>2, <2>3, <2>4
<1>12. \A d \in Clients \ {c} : \A s : Tips(d, s)' = Tips(d, s)
  <2> SUFFICES ASSUME NEW d \in Clients \ {c}, NEW s, NEW r \in Ids
               PROVE  r \in Tips(d, s)' <=> r \in Tips(d, s)
    BY DEF Tips
  <2>1. CASE row[r].owner = c
    <3>1. ~Committed(r) /\ ~Committed(r)' /\ row[r].owner # d /\ row'[r].owner # d
      BY <1>1, <1>3, <1>4, <1>7, <2>1
    <3> QED BY <3>1 DEF Tips
  <2>2. CASE row[r].owner # c
    <3>1. row'[r] = row[r] /\ SuccFor(d, r)' = SuccFor(d, r) /\ old'[d] = old[d]
      BY <1>1, <1>2, <2>2 DEF SuccFor
    <3> QED BY <1>7, <3>1 DEF Tips
  <2> QED BY <2>1, <2>2
<1>13. ASSUME NEW d \in Clients, NEW r \in Ids, Touches(d, r)'
       PROVE  d # c /\ Touches(d, r) /\ row'[r] = row[r]
  <2>1. d # c
    BY <1>2, <1>13, TrailTypes DEF Touches
  <2>2. Touches(d, r)
    BY <1>2, <1>13, <2>1 DEF Touches
  <2>3. Sees(d, r)
    BY <2>2, TrailTypes DEF Touches, TrailInv, Trail, Links, Retiring
  <2> QED BY <1>6, <2>1, <2>2, <2>3
<1>14. Replaced'
  <2> SUFFICES ASSUME NEW d \in Clients, NEW r \in Ids, Touches(d, r)',
                      NEW s, s = row'[r].slot
               PROVE  \E x \in Ids : x \in Tips(d, s)'
    BY DEF Replaced, Tips
  <2> QED BY <1>12, <1>13 DEF TrailInv, Trail, Replaced
<1>15. Doomed'
  <2> SUFFICES ASSUME NEW d \in Clients, NEW r \in Ids, Touches(d, r)', row'[r].succ # 0,
                      NEW s, s = row'[r].slot
               PROVE  \E x, y \in Tips(d, s)' : x # y
    BY DEF Doomed, Two, Tips
  <2> QED BY <1>12, <1>13 DEF TrailInv, Trail, Doomed, Two
<1>16. \A d \in Clients \ {c} : Lasting(d)
  <2>1. \A d \in Clients \ {c} : \A s : \A x \in Tips(d, s) :
           row[x].owner = d => row'[x] = row[x]
    BY <1>1 DEF Tips
  <2> QED BY <1>12, <2>1 DEF Lasting, Two, Own
<1> QED BY <1>8, <1>9, <1>10, <1>11, <1>14, <1>15, <1>16 DEF Trail

\* A transaction that commits is not doomed: it sees what it has in a slot.
LEMMA CommitOneTip ==
  ASSUME TrailInv, NEW c \in Clients, Commit(c), NEW s
  PROVE  ~Two(c, s)
PROOF
<1>1. ASSUME NEW x \in Tips(c, s)
      PROVE  x \in LiveFor(c, s)
  <2>1. x \in Ids /\ row[x].slot = s /\ SuccFor(c, x) = 0
    BY DEF Tips
  <2>2. Sees(c, x)
    BY CommitDoes DEF TrailInv, Tips, Sees, Committed, Inserted
  <2> QED BY <2>1, <2>2 DEF LiveFor
<1> QED BY <1>1, LiveForUnique DEF TrailInv, Two

\* What a transaction that commits has retired is retired by it alone.
LEMMA CommitRetires ==
  ASSUME TrailInv, NEW c \in Clients, Commit(c), NEW r \in Ids, upd[c][r] # 0
  PROVE  row[r].succ = 0
BY CommitOneTip DEF TrailInv, Trail, Doomed, Touches

\* A transaction that commits a retirement commits a row in its place.
LEMMA CommitReplaces ==
  ASSUME TrailInv, NEW c \in Clients, Commit(c), NEW r \in Ids, upd[c][r] # 0, Committed(r),
         NEW s, s = row[r].slot
  PROVE  \E z \in Ids :
           /\ row[z].owner = c /\ ~Committed(z)
           /\ \A d \in Clients \ {c} : old'[d] = old[d] => z \in Tips(d, s)'
PROOF
<1>1. PICK z \in Ids : z \in Tips(c, s)
  BY DEF TrailInv, Trail, Replaced, Touches
<1>2. /\ row[z].slot = s /\ upd[c][z] = 0 /\ row[z].succ = 0
      /\ Committed(z) \/ row[z].owner = c
  BY <1>1 DEF Tips, SuccFor
<1>3. ~Committed(z)
  <2>1. row[r].succ = 0
    BY CommitRetires
  <2> QED BY <1>2, <2>1 DEF TrailInv, IndexInv, OneLive, Live, Committed
<1>4. row[z].owner = c /\ Inserted(z)
  BY <1>2, <1>3, CommitDoes DEF TrailInv
<1>5. ASSUME NEW d \in Clients \ {c}, old'[d] = old[d]
      PROVE  z \in Tips(d, s)'
  <2>1. ~Sees(d, z)
    BY <1>3, <1>4, <1>5 DEF Sees, Committed
  <2>2. upd[d][z] = 0 /\ old[d] # z
    BY <2>1, TrailTypes DEF TrailInv, Trail, Links, Retiring
  <2>3. /\ row'[z].status = "committed" /\ row'[z].slot = s /\ row'[z].succ = 0
        /\ upd'[d] = upd[d]
    BY <1>2, <1>4, CommitDoes DEF TrailInv, SuccFor
  <2> QED BY <1>5, <2>2, <2>3 DEF Tips, Committed, SuccFor
<1> QED BY <1>3, <1>4, <1>5

LEMMA TrailCommit ==
  ASSUME TrailInv, NEW c \in Clients, Commit(c)
  PROVE  Trail' /\ \A d \in Clients \ {c} : Lasting(d)
PROOF
<1>1. \A r \in Ids : /\ row'[r].slot = row[r].slot
                     /\ row'[r].succ = SuccFor(c, r)
                     /\ row[r].owner = c => /\ row'[r].status = "committed"
                                            /\ row'[r].owner = Nobody
                     /\ row[r].owner # c => /\ row'[r].status = row[r].status
                                            /\ row'[r].owner = row[r].owner
  BY CommitDoes DEF TrailInv
<1>2. /\ \A d \in Clients \ {c} : /\ upd'[d] = upd[d] /\ old'[d] = old[d]
                                  /\ new'[d] = new[d] /\ pc'[d] = pc[d]
      /\ old'[c] = 0 /\ new'[c] = 0 /\ \A r \in Ids : upd'[c][r] = 0
  BY TrailTypes DEF Commit, Ends, NoUpdate
<1>3. \A r \in Ids : Committed(r) => row[r].owner = Nobody /\ row[r].owner # c
  BY DEF Committed, TrailInv, IndexInv, Owned, InFlight
<1>4. \A r \in Ids : Committed(r)' <=> Committed(r) \/ row[r].owner = c
  BY <1>1 DEF Committed
<1>5. \A d \in Clients \ {c}, r \in Ids : Sees(d, r) => Sees(d, r)'
  BY <1>1, <1>3, <1>4 DEF Sees, Committed
<1>6. \A r \in Ids : upd[c][r] # 0 => Committed(r) \/ row[r].owner = c
  BY DEF TrailInv, Trail, Links, Sees, Committed
<1>7. Unpublished'
  BY <1>1, <1>4, <1>6 DEF TrailInv, Trail, Unpublished, SuccFor
<1>8. Links'
  <2> SUFFICES ASSUME NEW d \in Clients \ {c}, NEW r \in Ids, NEW m, m = upd[d][r], m # 0
               PROVE  /\ Sees(d, r)'
                      /\ row'[m].owner = d
                      /\ row'[m].slot = row'[r].slot
                      /\ m > r
                      /\ \A q \in Ids : upd[d][q] = m => q = r
                      /\ \A e \in Clients : upd'[e][r] # 0 => e = d
    BY <1>2 DEF Links, Sees
  <2>1. /\ Sees(d, r)
        /\ row[m].owner = d
        /\ row[m].slot = row[r].slot
        /\ m > r
        /\ \A q \in Ids : upd[d][q] = m => q = r
        /\ \A e \in Clients : upd[e][r] # 0 => e = d
    BY DEF TrailInv, Trail, Links
  <2>2. m \in Ids
    BY TrailTypes
  <2>3. row'[m].owner = d /\ row'[m].slot = row[m].slot /\ row'[r].slot = row[r].slot
    BY <1>1, <2>1, <2>2
  <2>4. \A e \in Clients : upd'[e][r] # 0 => e = d
    BY <1>2, <2>1
  <2> QED BY <1>5, <2>1, <2>3, <2>4
<1>9. Retiring'
  <2> SUFFICES ASSUME NEW d \in Clients, NEW o, o = old'[d], NEW m, m = new'[d]
               PROVE  /\ (o # 0) <=> (m # 0)
                      /\ o # 0 =>
                           /\ Sees(d, o)'
                           /\ row'[o].slot = row'[m].slot
                           /\ m > o
                           /\ pc'[d] = "retire" =>
                                upd'[d][o] = 0 /\ \A q \in Ids : upd'[d][q] # m
                           /\ pc'[d] # "retire" => upd'[d][o] = m
    BY DEF Retiring, Sees
  <2>1. CASE d = c
    BY <1>2, <2>1
  <2>2. CASE d # c
    <3>1. o = old[d] /\ m = new[d] /\ pc'[d] = pc[d] /\ upd'[d] = upd[d]
      BY <1>2, <2>2
    <3>2. o # 0 => /\ o \in Ids /\ m \in Ids /\ Sees(d, o)
      BY <3>1, TrailTypes DEF TrailInv, Trail, Retiring
    <3>3. o # 0 => /\ row'[o].slot = row[o].slot /\ row'[m].slot = row[m].slot
                   /\ Sees(d, o)'
      BY <1>1, <1>5, <2>2, <3>2
    <3> QED BY <3>1, <3>3 DEF TrailInv, Trail, Retiring
  <2> QED BY <2>1, <2>2
<1>10. ChainIsLinear'
  <2> SUFFICES ASSUME NEW r \in Ids, NEW m, m = row'[r].succ, m # 0
               PROVE  /\ row'[m].status = "committed"
                      /\ row'[m].slot = row'[r].slot
                      /\ m > r
                      /\ \A q \in Ids : row'[q].succ = m => q = r
    BY DEF ChainIsLinear, Committed
  <2>1. CASE upd[c][r] # 0
    <3>1. m = upd[c][r] /\ m \in Ids
      BY <1>1, <2>1, TrailTypes DEF SuccFor
    <3>2. /\ row[m].owner = c /\ row[m].slot = row[r].slot /\ m > r
          /\ \A q \in Ids : upd[c][q] = m => q = r
      BY <2>1, <3>1 DEF TrailInv, Trail, Links
    <3>3. \A q \in Ids : row[q].succ # m
      BY <1>3, <3>1, <3>2 DEF TrailInv, Trail, ChainIsLinear
    <3>4. ASSUME NEW q \in Ids, row'[q].succ = m PROVE q = r
      BY <1>1, <3>2, <3>3, <3>4 DEF SuccFor
    <3> QED BY <1>1, <3>1, <3>2, <3>4
  <2>2. CASE upd[c][r] = 0
    <3>1. m = row[r].succ /\ m \in Ids
      BY <1>1, <2>2, TrailTypes DEF SuccFor
    <3>2. /\ Committed(m) /\ row[m].slot = row[r].slot /\ m > r
          /\ \A q \in Ids : row[q].succ = m => q = r
      BY <3>1 DEF TrailInv, Trail, ChainIsLinear
    <3>3. \A q \in Ids : upd[c][q] # m
      BY <1>3, <3>1, <3>2, TrailTypes DEF TrailInv, Trail, Links
    <3>4. ASSUME NEW q \in Ids, row'[q].succ = m PROVE q = r
      BY <1>1, <3>2, <3>3, <3>4 DEF SuccFor
    <3>5. row'[m].status = "committed"
      BY <1>1, <3>1, <3>2 DEF Committed
    <3> QED BY <1>1, <3>1, <3>2, <3>4, <3>5
  <2> QED BY <2>1, <2>2
\* The tips of another client: at most one of them is retired, and replaced.
<1>11. ASSUME NEW d \in Clients \ {c}, NEW s, NEW x \in Tips(d, s), x \notin Tips(d, s)'
       PROVE  /\ x \in Ids /\ upd[c][x] # 0 /\ Committed(x) /\ row[x].succ = 0
              /\ row[x].slot = s
  <2>1. /\ x \in Ids
        /\ Committed(x) \/ row[x].owner = d
        /\ row[x].slot = s /\ upd[d][x] = 0 /\ row[x].succ = 0 /\ x # old[d]
    BY DEF Tips, SuccFor
  <2>2. Committed(x)' \/ row'[x].owner = d
    BY <1>1, <1>4, <2>1
  <2>3. upd[c][x] # 0
    <3> SUFFICES ASSUME upd[c][x] = 0
                 PROVE  FALSE
      OBVIOUS
    <3>1. row'[x].succ = 0 /\ row'[x].slot = s
      BY <1>1, <2>1 DEF SuccFor
    <3>2. upd'[d][x] = 0 /\ x # old'[d]
      BY <1>2, <2>1
    <3> QED BY <1>11, <2>1, <2>2, <3>1, <3>2 DEF Tips, SuccFor
  <2>4. Committed(x)
    BY <1>6, <2>1, <2>3
  <2> QED BY <2>1, <2>3, <2>4
<1>12. ASSUME NEW s, NEW x \in Ids, upd[c][x] # 0, Committed(x), row[x].slot = s
       PROVE  \E z \in Ids : /\ row[z].owner = c
                             /\ \A d \in Clients \ {c} : z \in Tips(d, s)' /\ z \notin Tips(d, s)
  <2>1. PICK z \in Ids : /\ row[z].owner = c /\ ~Committed(z)
                         /\ \A d \in Clients \ {c} : old'[d] = old[d] => z \in Tips(d, s)'
    BY <1>12, CommitReplaces
  <2>2. \A d \in Clients \ {c} : z \notin Tips(d, s)
    BY <2>1 DEF Tips
  <2> QED BY <1>2, <2>1, <2>2
<1>16. \A d \in Clients \ {c} : Lasting(d)
  <2> SUFFICES ASSUME NEW d \in Clients \ {c}, NEW s
               PROVE  /\ Two(d, s) => \E x, y \in Tips(d, s)' : x # y
                      /\ Own(d, s) => \E x \in Tips(d, s)' : row'[x].owner = d
    BY DEF Lasting, Two, Own
  <2>1. ASSUME NEW x \in Tips(d, s), row[x].owner = d
        PROVE  x \in Tips(d, s)' /\ row'[x].owner = d
    <3>1. x \in Ids /\ ~Committed(x)
      BY <1>3, <2>1 DEF Tips
    <3> QED BY <1>1, <1>11, <2>1, <3>1
  <2>2. ASSUME NEW p \in Tips(d, s), NEW q \in Tips(d, s), p # q, p \notin Tips(d, s)'
        PROVE  \E u, w \in Tips(d, s)' : u # w
    <3>1. /\ p \in Ids /\ upd[c][p] # 0 /\ Committed(p) /\ row[p].succ = 0
          /\ row[p].slot = s
      BY <1>11, <2>2
    <3>2. q \in Tips(d, s)'
      <4> SUFFICES ASSUME q \notin Tips(d, s)'
                   PROVE  FALSE
        OBVIOUS
      <4>1. q \in Ids /\ Committed(q) /\ row[q].succ = 0 /\ row[q].slot = s
        BY <1>11
      <4> QED BY <2>2, <3>1, <4>1 DEF TrailInv, IndexInv, OneLive, Live, Committed
    <3>3. PICK z \in Ids : z \in Tips(d, s)' /\ z \notin Tips(d, s)
      BY <1>12, <3>1
    <3> QED BY <3>2, <3>3
  <2>3. Two(d, s) => \E x, y \in Tips(d, s)' : x # y
    BY <2>2 DEF Two
  <2> QED BY <2>1, <2>3 DEF Own
<1>13. ASSUME NEW d \in Clients, NEW r \in Ids, Touches(d, r)'
       PROVE  d # c /\ Touches(d, r)
  BY <1>2, <1>13, TrailTypes DEF Touches
<1>14. Replaced'
  <2> SUFFICES ASSUME NEW d \in Clients, NEW r \in Ids, Touches(d, r)',
                      NEW s, s = row'[r].slot
               PROVE  \E x \in Ids : x \in Tips(d, s)'
    BY DEF Replaced, Tips
  <2>1. d # c /\ Touches(d, r) /\ s = row[r].slot
    BY <1>1, <1>13
  <2>2. PICK x \in Ids : x \in Tips(d, s)
    BY <2>1 DEF TrailInv, Trail, Replaced
  <2> QED BY <1>11, <1>12, <2>1, <2>2
<1>15. Doomed'
  <2> SUFFICES ASSUME NEW d \in Clients, NEW r \in Ids, Touches(d, r)', row'[r].succ # 0,
                      NEW s, s = row'[r].slot
               PROVE  \E x, y \in Tips(d, s)' : x # y
    BY DEF Doomed, Two, Tips
  <2>1. d # c /\ Touches(d, r) /\ s = row[r].slot
    BY <1>1, <1>13
  <2>2. CASE row[r].succ # 0
    BY <1>16, <2>1, <2>2 DEF TrailInv, Trail, Doomed, Lasting, Two
  <2>3. CASE row[r].succ = 0
    <3>1. upd[c][r] # 0
      BY <1>1, <2>3 DEF SuccFor
    <3>2. upd[d][r] = 0
      BY <2>1, <3>1 DEF TrailInv, Trail, Links
    <3>3. r = old[d] /\ r # 0
      BY <2>1, <3>2, TrailTypes DEF Touches
    <3>4. Committed(r)
      <4>1. Sees(d, r) /\ Sees(c, r)
        BY <3>1, <3>3 DEF TrailInv, Trail, Links, Retiring
      <4> QED BY <2>1, <4>1 DEF Sees, Committed
    <3>5. PICK z \in Ids : row[z].owner = c /\ z \in Tips(d, s)'
      BY <1>12, <2>1, <3>1, <3>4
    <3> DEFINE n == new[d]
    <3>6. /\ n \in Ids /\ row[n].status = "minted" /\ row[n].owner = d
          /\ row[n].slot = s /\ n # old[d]
      BY <2>1, <3>3, TrailTypes DEF TrailInv, IndexInv, Held, Trail, Retiring, Ids
    <3>7. upd[d][n] = 0 /\ row[n].succ = 0
      BY <3>6 DEF TrailInv, Trail, Links, Unpublished, Sees, Committed
    <3>8. row'[n].succ = 0
      <4>1. ~Sees(c, n)
        BY <3>6 DEF Sees
      <4>2. upd[c][n] = 0
        BY <3>6, <4>1 DEF TrailInv, Trail, Links
      <4> QED BY <1>1, <3>6, <3>7, <4>2 DEF SuccFor
    <3>9. row'[n].owner = d /\ row'[n].slot = s /\ upd'[d][n] = 0 /\ n # old'[d]
      BY <1>1, <1>2, <2>1, <3>6, <3>7
    <3>10. n \in Tips(d, s)'
      BY <3>6, <3>8, <3>9 DEF Tips, SuccFor
    <3> QED BY <2>1, <3>5, <3>6, <3>10
  <2> QED BY <2>2, <2>3
<1> QED BY <1>7, <1>8, <1>9, <1>10, <1>14, <1>15, <1>16 DEF Trail

LEMMA TrailInit == Init => TrailInv
PROOF
<1> SUFFICES ASSUME Init
             PROVE  TrailInv
  OBVIOUS
<1>1. \A r \in Ids : row[r].status = "unused" /\ row[r].succ = 0
  BY DEF Init, Unused
<1>2. \A c \in Clients : old[c] = 0 /\ new[c] = 0 /\ \A r \in Ids : upd[c][r] = 0
  BY DEF Init, NoUpdate
<1>3. Links /\ Retiring /\ Unpublished /\ ChainIsLinear
  BY <1>1, <1>2 DEF Links, Retiring, Unpublished, ChainIsLinear
<1>4. \A c \in Clients, r \in Ids : ~Touches(c, r)
  BY <1>2 DEF Touches, Ids
<1>5. Replaced /\ Doomed
  BY <1>4 DEF Replaced, Doomed
<1> QED BY <1>3, <1>5, IndexInit DEF Trail, TrailInv

LEMMA TrailStep == TrailInv /\ [Next]_vars => TrailInv'
PROOF
<1> SUFFICES ASSUME TrailInv, [Next]_vars
             PROVE  TrailInv'
  OBVIOUS
<1>1. IndexInv'
  BY IndexStep DEF TrailInv
<1>2. ASSUME NEW c \in Clients, Begin(c) \/ Skip(c) \/ LastFlush(c) \/ FlushDone(c)
      PROVE  Trail'
  <2>1. /\ UNCHANGED <<row, upd, old, new>> /\ new[c] = 0
        /\ \A d \in Clients \ {c} : pc'[d] = pc[d]
    BY <1>2, TrailTypes DEF Begin, Skip, LastFlush, FlushDone, TrailInv, IndexInv, Held
  <2>2. old[c] = 0
    BY <2>1 DEF TrailInv, Trail, Retiring
  <2> QED BY <2>1, <2>2, TrailFrame
<1>3. ASSUME NEW c \in Clients, NEW k \in Keys, NEW v \in Asserted, Keep(c, k, v)
      PROVE  Trail'
  BY <1>3, TrailFrame DEF Keep
<1>4. ASSUME UNCHANGED vars PROVE Trail'
  <2>1. /\ UNCHANGED <<row, upd, old, new>>
        /\ \A c \in Clients : pc'[c] = pc[c] \/ old[c] = 0
    BY <1>4 DEF vars
  <2> QED BY <2>1, TrailFrame
<1>5. ASSUME NEW c \in Clients, NEW k \in Keys, NEW v \in Asserted,
             AddFirst(c, k, v) \/ Supersede(c, k, v)
      PROVE  Trail'
  BY <1>5, TrailAddFirst, TrailSupersede
<1>6. ASSUME NEW c \in Clients, Retire(c) \/ InsertRow(c) \/ AddReplacement(c) \/ Commit(c)
      PROVE  Trail'
  BY <1>6, TrailRetire, TrailMoves, TrailCommit
<1>7. ASSUME NEW c \in Clients, Rollback(c)
      PROVE  Trail'
  BY <1>7, TrailRollback
<1>8. Trail'
  <2>1. ASSUME NEW c \in Clients, Begin(c) \/ Step(c) \/ Crash(c)
        PROVE  Trail'
    BY <1>2, <1>3, <1>5, <1>6, <1>7, <2>1
    DEF Step, BadValue, UniqueViolation, DeadlockVictim, Crash
  <2> QED BY <1>4, <2>1 DEF Next
<1> QED BY <1>1, <1>8 DEF TrailInv

\* superseded_by_id forms one forward chain per venue, attribute and
\* provenance, whatever number of transactions retire and insert at once
\* (persist.py _apply_action, review.py _materialise_human_datapoint).
THEOREM ChainLinear == Spec => []ChainIsLinear
PROOF
<1>1. TrailInv => ChainIsLinear
  BY DEF TrailInv, Trail
<1> QED BY <1>1, TrailInit, TrailStep, PTL DEF Spec

LEMMA KeptByCommit ==
  ASSUME TrailInv, NEW c \in Clients, Commit(c), NEW r \in Ids, Committed(r)
  PROVE  /\ row'[r].status = "committed"
         /\ row'[r].slot = row[r].slot
         /\ row'[r].val = row[r].val
         /\ row[r].succ # 0 => row'[r].succ = row[r].succ
PROOF
<1>1. row[r].owner # c
  BY DEF Committed, TrailInv, IndexInv, Owned, InFlight
<1>2. /\ row'[r].status = "committed" /\ row'[r].slot = row[r].slot
      /\ row'[r].val = row[r].val /\ row'[r].succ = SuccFor(c, r)
  BY <1>1, CommitDoes DEF TrailInv, Committed
<1>3. row[r].succ # 0 => row'[r].succ = row[r].succ
  BY <1>2, CommitRetires DEF SuccFor
<1> QED BY <1>2, <1>3

\* What readers see changes only with a commit.
LEMMA OnlyCommitShows ==
  ASSUME TrailInv, Next, NEW r \in Ids
  PROVE  \/ \E c \in Clients : Commit(c)
         \/ (Committed(r) => row'[r] = row[r]) /\ (Committed(r)' => Committed(r))
PROOF
<1> DEFINE Same == (Committed(r) => row'[r] = row[r]) /\ (Committed(r)' => Committed(r))
<1>1. Committed(r) => row[r].status = "committed" /\ row[r].owner \notin Clients
  BY DEF Committed, TrailInv, IndexInv, Owned, InFlight
<1>2. ASSUME NEW c \in Clients, NEW k \in Keys, NEW v \in Asserted,
             AddFirst(c, k, v) \/ Supersede(c, k, v)
      PROVE  Same
  <2>1. PICK n \in Ids :
          /\ IsNextId(n)
          /\ \E st \in {"minted", "pending"} :
               row' = [row EXCEPT ![n] = Row(st, c, <<k, ProvOf(c)>>, Coerce(TypeOf[k], v))]
    BY <1>2 DEF AddFirst, Supersede
  <2>2. row[n].status = "unused" /\ row'[n].status # "committed"
    BY <2>1, TrailTypes DEF IsNextId, Ids, Row
  <2>3. \A q \in Ids \ {n} : row'[q] = row[q]
    BY <2>1, TrailTypes
  <2> QED BY <2>2, <2>3 DEF Committed
<1>3. ASSUME NEW c \in Clients, InsertRow(c) \/ AddReplacement(c)
      PROVE  Same
  BY <1>3, RowMoves DEF Committed
<1>4. ASSUME NEW c \in Clients, Rollback(c)
      PROVE  Same
  <2>1. row'[r] = IF row[r].owner = c THEN Unused ELSE row[r]
    BY <1>4 DEF Rollback
  <2> QED BY <1>1, <2>1 DEF Unused, Committed
<1>5. row' = row => Same
  BY DEF Committed
<1> HIDE DEF Same
<1>6. Same \/ \E c \in Clients : Commit(c)
  BY <1>2, <1>3, <1>4, <1>5
     DEF Next, Step, Begin, Skip, Keep, Retire, LastFlush, FlushDone, BadValue,
         UniqueViolation, DeadlockVictim, Crash
<1> QED BY <1>6 DEF Same

\* The audit trail is append-only: what was committed keeps its slot, its
\* value and, once superseded, its successor.  Nothing in persist.py or
\* review.py asks whether the row is still live when its UPDATE is granted;
\* the unique index makes up for it.
THEOREM HistoryAppendOnly == Spec => HistoryKept
PROOF
<1>1. ASSUME TrailInv, Next, NEW r \in Ids, Committed(r)
      PROVE  /\ row'[r].status = "committed"
             /\ row'[r].slot = row[r].slot
             /\ row'[r].val = row[r].val
             /\ row[r].succ # 0 => row'[r].succ = row[r].succ
  BY <1>1, OnlyCommitShows, KeptByCommit DEF Committed
<1>2. TrailInv /\ [Next]_vars =>
        [\A r \in Ids : Committed(r) =>
           /\ row'[r].status = "committed"
           /\ row'[r].slot = row[r].slot
           /\ row'[r].val = row[r].val
           /\ row[r].succ # 0 => row'[r].succ = row[r].succ]_vars
  <2>1. ASSUME TrailInv, Next
        PROVE  \A r \in Ids : Committed(r) =>
                 /\ row'[r].status = "committed"
                 /\ row'[r].slot = row[r].slot
                 /\ row'[r].val = row[r].val
                 /\ row[r].succ # 0 => row'[r].succ = row[r].succ
    BY <1>1, <2>1
  <2> QED BY <2>1
<1> QED BY <1>2, TrailInit, TrailStep, PTL DEF Spec, HistoryKept

-----------------------------------------------------------------------------
(* Readers see a history.  Ids are drawn long before they are committed, so *)
(* that a transaction may hold a row older than one its rival publishes;   *)
(* such a transaction is doomed too (Late), because both rows are tips of  *)
(* the slot for it.                                                        *)

OwnTip ==
  \A c \in Clients, q \in Ids : row[q].owner = c => Own(c, row[q].slot)

Late ==
  \A c \in Clients, q, r \in Ids :
    row[q].owner = c /\ Committed(r) /\ row[r].slot = row[q].slot /\ r > q =>
      Two(c, row[q].slot)

\* A client writes facts of its own provenance only.
Signed ==
  \A c \in Clients, q \in Ids : row[q].owner = c => row[q].slot[2] = ProvOf(c)

OrderInv == TrailInv /\ OwnTip /\ Late /\ Signed

\* Steps that bring no row into use and commit none; the transactions of E
\* are over.
LEMMA OrderFrame ==
  ASSUME OrderInv, NEW E \in SUBSET Clients,
         \A d \in Clients \ E : Lasting(d),
         \A r \in Ids : Committed(r)' => Committed(r) /\ row'[r].slot = row[r].slot,
         \A r \in Ids : row'[r].owner \in Clients =>
           /\ row'[r].owner \notin E
           /\ row[r].owner = row'[r].owner /\ row[r].slot = row'[r].slot
  PROVE  OwnTip' /\ Late' /\ Signed'
PROOF
<1>1. ASSUME NEW d \in Clients, NEW q \in Ids, row'[q].owner = d, NEW s, s = row'[q].slot
      PROVE  Own(d, s)'
  BY <1>1 DEF OrderInv, OwnTip, Lasting
<1>2. OwnTip'
  BY <1>1 DEF OwnTip, Own, Tips
<1>3. ASSUME NEW d \in Clients, NEW q \in Ids, NEW r \in Ids,
             row'[q].owner = d, Committed(r)', row'[r].slot = row'[q].slot, r > q,
             NEW s, s = row'[q].slot
      PROVE  Two(d, s)'
  <2>1. /\ d \notin E /\ row[q].owner = d /\ row[q].slot = s
        /\ Committed(r) /\ row[r].slot = s
    BY <1>3
  <2> QED BY <1>3, <2>1 DEF OrderInv, Late, Lasting
<1>4. Late'
  BY <1>3 DEF Late, Two, Tips
<1>5. Signed'
  <2> SUFFICES ASSUME NEW d \in Clients, NEW q \in Ids, row'[q].owner = d
               PROVE  row'[q].slot[2] = ProvOf(d)
    BY DEF Signed, ProvOf
  <2> QED BY DEF OrderInv, Signed
<1> QED BY <1>2, <1>4, <1>5

\* A new row is a tip, and later than all that is committed.
LEMMA OrderNew ==
  ASSUME OrderInv, NEW c \in Clients, NEW k \in Keys, NEW v \in Asserted,
         AddFirst(c, k, v) \/ Supersede(c, k, v)
  PROVE  OwnTip' /\ Late' /\ Signed'
PROOF
<1> DEFINE s0 == <<k, ProvOf(c)>>
<1>1. PICK n \in Ids :
        /\ IsNextId(n)
        /\ \E st \in {"minted", "pending"} :
             row' = [row EXCEPT ![n] = Row(st, c, s0, Coerce(TypeOf[k], v))]
        /\ old' = old \/ \E id \in Ids : /\ Decides(c, k, v, SupersedeLive(id))
                                         /\ old' = [old EXCEPT ![c] = id]
        /\ upd' = upd
  BY DEF AddFirst, Supersede
<1>2. /\ row[n].status = "unused"
      /\ \A r \in Ids : row[r].status # "unused" => r < n
  BY <1>1 DEF IsNextId, Ids
<1>3. /\ row'[n].status \in {"minted", "pending"} /\ row'[n].owner = c
      /\ row'[n].slot = s0 /\ row'[n].succ = 0
      /\ \A r \in Ids \ {n} : row'[r] = row[r]
  BY <1>1, TrailTypes DEF OrderInv, Row
<1>4. \A d \in Clients : Lasting(d)
  BY TrailAddFirst, TrailSupersede DEF OrderInv
<1>5. row[n].owner = Nobody
  BY <1>2 DEF OrderInv, TrailInv, IndexInv, Owned, InFlight
<1>6. \A r \in Ids : Committed(r)' => Committed(r) /\ r < n /\ row'[r] = row[r]
  BY <1>2, <1>3 DEF Committed
<1>7. /\ upd[c][n] = 0 /\ old[c] # n
  <2>1. ~Sees(c, n)
    BY <1>2 DEF Sees
  <2> QED BY <2>1, TrailTypes DEF OrderInv, TrailInv, Trail, Links, Retiring
<1>8. old'[c] # n
  <2>1. CASE old' = old
    BY <1>7, <2>1
  <2>2. ASSUME NEW id \in Ids, Decides(c, k, v, SupersedeLive(id)),
               old' = [old EXCEPT ![c] = id]
        PROVE  old'[c] # n
    <3>1. SupersedeLive(id) = Reconcile(Existing(c, s0), Fact(0, ProvOf(c), v))
      BY <2>2 DEF Decides
    <3>2. id \in LiveFor(c, s0)
      BY <3>1, ExistingIsLive DEF OrderInv, TrailInv, IndexInv
    <3>3. id # n
      BY <1>2, <3>2 DEF LiveFor, Sees
    <3> QED BY <2>2, <3>3, TrailTypes DEF OrderInv
  <2> QED BY <1>1, <2>1, <2>2
<1>9. Own(c, s0)'
  <2>1. n \in Tips(c, s0)'
    BY <1>1, <1>3, <1>7, <1>8 DEF Tips, SuccFor
  <2> QED BY <1>3, <2>1 DEF Own
<1>10. ASSUME NEW d \in Clients, NEW q \in Ids, row'[q].owner = d, NEW s, s = row'[q].slot
       PROVE  Own(d, s)'
  <2>1. CASE q = n
    BY <1>3, <1>9, <1>10, <2>1
  <2>2. CASE q # n
    BY <1>3, <1>4, <1>10, <2>2 DEF OrderInv, OwnTip, Lasting
  <2> QED BY <2>1, <2>2
<1>11. OwnTip'
  BY <1>10 DEF OwnTip, Own, Tips
<1>12. ASSUME NEW d \in Clients, NEW q \in Ids, NEW r \in Ids,
              row'[q].owner = d, Committed(r)', row'[r].slot = row'[q].slot, r > q,
              NEW s, s = row'[q].slot
       PROVE  Two(d, s)'
  <2>1. Committed(r) /\ r < n /\ row'[r] = row[r]
    BY <1>6, <1>12
  <2>2. q # n
    BY <1>12, <2>1 DEF Ids
  <2>3. row'[q] = row[q]
    BY <1>3, <2>2
  <2> QED BY <1>4, <1>12, <2>1, <2>3 DEF OrderInv, Late, Lasting
<1>13. Late'
  BY <1>12 DEF Late, Two, Tips
<1>14. Signed'
  <2> SUFFICES ASSUME NEW d \in Clients, NEW q \in Ids, row'[q].owner = d
               PROVE  row'[q].slot[2] = ProvOf(d)
    BY DEF Signed, ProvOf
  <2>1. CASE q = n
    BY <1>3, <2>1
  <2>2. CASE q # n
    BY <1>3, <2>2 DEF OrderInv, Signed
  <2> QED BY <2>1, <2>2
<1> QED BY <1>11, <1>13, <1>14

\* A row that was not committed is a tip for those who have not seen it.
LEMMA OrderCommit ==
  ASSUME OrderInv, NEW c \in Clients, Commit(c)
  PROVE  OwnTip' /\ Late' /\ Signed'
PROOF
<1>1. \A r \in Ids : /\ row'[r].slot = row[r].slot
                     /\ row'[r].succ = SuccFor(c, r)
                     /\ row[r].owner = c => /\ row'[r].status = "committed"
                                            /\ row'[r].owner = Nobody
                     /\ row[r].owner # c => /\ row'[r].status = row[r].status
                                            /\ row'[r].owner = row[r].owner
  BY CommitDoes DEF OrderInv, TrailInv
<1>2. \A d \in Clients \ {c} : upd'[d] = upd[d] /\ old'[d] = old[d]
  BY TrailTypes DEF Commit, Ends, OrderInv
<1>3. \A d \in Clients \ {c} : Lasting(d)
  BY TrailCommit DEF OrderInv
<1>4. \A r \in Ids : row[r].owner \in Clients => ~Committed(r)
  BY DEF Committed, OrderInv, TrailInv, IndexInv, Owned, InFlight
<1>5. \A q \in Ids : row'[q].owner \in Clients =>
        row'[q].owner # c /\ row[q].owner = row'[q].owner
  BY <1>1
<1>6. ASSUME NEW d \in Clients, NEW q \in Ids, row'[q].owner = d, NEW s, s = row'[q].slot
      PROVE  Own(d, s)'
  <2>1. d # c /\ row[q].owner = d /\ row[q].slot = s
    BY <1>1, <1>5, <1>6
  <2> QED BY <1>3, <2>1 DEF OrderInv, OwnTip, Lasting
<1>7. OwnTip'
  BY <1>6 DEF OwnTip, Own, Tips
<1>8. ASSUME NEW d \in Clients, NEW q \in Ids, NEW r \in Ids,
             row'[q].owner = d, Committed(r)', row'[r].slot = row'[q].slot, r > q,
             NEW s, s = row'[q].slot
      PROVE  \E x, y \in Tips(d, s)' : x # y
  <2>1. d # c /\ row[q].owner = d /\ row[q].slot = s /\ row[r].slot = s
    BY <1>1, <1>5, <1>8
  <2>2. CASE Committed(r)
    BY <1>3, <1>8, <2>1, <2>2 DEF OrderInv, Late, Lasting, Two
  <2>3. CASE ~Committed(r)
    <3>1. row[r].owner = c
      BY <1>1, <1>8, <2>3 DEF Committed
    <3>2. PICK z \in Tips(c, s) : row[z].owner = c
      BY <2>1, <3>1 DEF OrderInv, OwnTip, Own
    <3>3. z \in Ids /\ row[z].slot = s /\ upd[c][z] = 0 /\ row[z].succ = 0
      BY <3>2 DEF Tips, SuccFor
    <3>4. ~Sees(d, z)
      BY <1>4, <2>1, <3>2, <3>3 DEF Sees, Committed
    <3>5. upd[d][z] = 0 /\ old[d] # z
      BY <3>3, <3>4, TrailTypes DEF OrderInv, TrailInv, Trail, Links, Retiring
    <3>6. /\ row'[z].status = "committed" /\ row'[z].slot = s /\ row'[z].succ = 0
          /\ upd'[d][z] = 0 /\ old'[d] # z
      BY <1>1, <1>2, <2>1, <3>2, <3>3, <3>5 DEF SuccFor
    <3>7. z \in Tips(d, s)'
      BY <3>3, <3>6 DEF Tips, Committed, SuccFor
    <3>8. PICK x \in Tips(d, s)' : row'[x].owner = d
      BY <1>6, <1>8 DEF Own
    <3>9. x # z
      <4>1. row'[z].owner = Nobody
        BY <1>1, <3>2, <3>3
      <4> QED BY <3>8, <4>1
    <3> QED BY <3>7, <3>8, <3>9
  <2> QED BY <2>2, <2>3
<1>9. Late'
  BY <1>8 DEF Late, Two, Tips
<1>10. Signed'
  <2> SUFFICES ASSUME NEW d \in Clients, NEW q \in Ids, row'[q].owner = d
               PROVE  row'[q].slot[2] = ProvOf(d)
    BY DEF Signed, ProvOf
  <2> QED BY <1>1, <1>5 DEF OrderInv, Signed
<1> QED BY <1>7, <1>9, <1>10

LEMMA OrderInit == Init => OrderInv
PROOF
<1> SUFFICES ASSUME Init
             PROVE  OrderInv
  OBVIOUS
<1>1. \A r \in Ids : row[r].owner = Nobody /\ ~Committed(r)
  BY DEF Init, Unused, Committed
<1> QED BY <1>1, TrailInit DEF OrderInv, OwnTip, Late, Signed

LEMMA OrderStep == OrderInv /\ [Next]_vars => OrderInv'
PROOF
<1> SUFFICES ASSUME OrderInv, [Next]_vars
             PROVE  OrderInv'
  OBVIOUS
<1> USE DEF OrderInv
<1>1. TrailInv'
  BY TrailStep
<1>2. ASSUME row' = row, \A d \in Clients : Lasting(d)
      PROVE  OwnTip' /\ Late' /\ Signed'
  BY <1>2, OrderFrame, {} \in SUBSET Clients DEF Committed
<1>3. ASSUME NEW c \in Clients, Begin(c) \/ Skip(c) \/ LastFlush(c) \/ FlushDone(c)
      PROVE  OwnTip' /\ Late' /\ Signed'
  <2>1. /\ UNCHANGED <<row, upd, old, new>> /\ new[c] = 0
        /\ \A d \in Clients \ {c} : pc'[d] = pc[d]
    BY <1>3, TrailTypes DEF Begin, Skip, LastFlush, FlushDone, TrailInv, IndexInv, Held
  <2>2. old[c] = 0
    BY <2>1 DEF TrailInv, Trail, Retiring
  <2> QED BY <1>2, <2>1, <2>2, TrailFrame
<1>4. ASSUME NEW c \in Clients, NEW k \in Keys, NEW v \in Asserted, Keep(c, k, v)
      PROVE  OwnTip' /\ Late' /\ Signed'
  BY <1>2, <1>4, TrailFrame DEF Keep
<1>5. ASSUME UNCHANGED vars
      PROVE  OwnTip' /\ Late' /\ Signed'
  <2>1. /\ UNCHANGED <<row, upd, old, new>>
        /\ \A c \in Clients : pc'[c] = pc[c] \/ old[c] = 0
    BY <1>5 DEF vars
  <2> QED BY <1>2, <2>1, TrailFrame
<1>6. ASSUME NEW c \in Clients, Retire(c)
      PROVE  OwnTip' /\ Late' /\ Signed'
  BY <1>2, <1>6, TrailRetire DEF Retire
<1>7. ASSUME NEW c \in Clients, InsertRow(c) \/ AddReplacement(c)
      PROVE  OwnTip' /\ Late' /\ Signed'
  <2>1. /\ \A r \in Ids : row'[r].owner = row[r].owner /\ row'[r].slot = row[r].slot
        /\ \A r \in Ids : Committed(r)' => Committed(r)
    BY <1>7, RowMoves DEF Committed
  <2>2. \A d \in Clients : Lasting(d)
    BY <1>7, TrailMoves
  <2> QED BY <2>1, <2>2, OrderFrame, {} \in SUBSET Clients
<1>8. ASSUME NEW c \in Clients, Rollback(c)
      PROVE  OwnTip' /\ Late' /\ Signed'
  <2>1. \A r \in Ids : row'[r] = IF row[r].owner = c THEN Unused ELSE row[r]
    BY <1>8 DEF Rollback
  <2>2. /\ \A r \in Ids : Committed(r)' => Committed(r) /\ row'[r].slot = row[r].slot
        /\ \A r \in Ids : row'[r].owner \in Clients =>
             /\ row'[r].owner \notin {c}
             /\ row[r].owner = row'[r].owner /\ row[r].slot = row'[r].slot
    BY <2>1 DEF Committed, Unused
  <2>3. \A d \in Clients \ {c} : Lasting(d)
    BY <1>8, TrailRollback
  <2> QED BY <2>2, <2>3, OrderFrame, {c} \in SUBSET Clients
<1>9. OwnTip' /\ Late' /\ Signed'
  <2>1. ASSUME NEW c \in Clients, Begin(c) \/ Step(c) \/ Crash(c)
        PROVE  OwnTip' /\ Late' /\ Signed'
    BY <1>3, <1>4, <1>6, <1>7, <1>8, <2>1, OrderNew, OrderCommit
    DEF Step, BadValue, UniqueViolation, DeadlockVictim, Crash
  <2> QED BY <1>5, <2>1 DEF Next
<1> QED BY <1>1, <1>9

\* A set of ids has a last one.
LEMMA LastExists ==
  ASSUME NEW S \in SUBSET Ids, S # {}
  PROVE  \E x \in S : \A y \in S : y <= x
PROOF
<1> DEFINE After(x) == { y \in S : y > x }
           T == { After(x) : x \in S }
<1>1. IsFiniteSet(S)
  <2>1. IsFiniteSet(Ids)
    BY FS_Interval DEF Ids
  <2> QED BY <2>1, FS_Subset
<1>2. IsWellFoundedOn(StrictSubsetOrdering(S), SUBSET S)
  BY <1>1, FS_StrictSubsetOrderingWellFounded, FS_FiniteSubsetsOfFinite
<1>3. T \subseteq SUBSET S /\ T # {}
  OBVIOUS
<1>4. PICK b \in T : \A c \in T : ~ (<<c, b>> \in StrictSubsetOrdering(S))
  <2> HIDE DEF T
  <2> QED BY <1>2, <1>3, WFMin
<1>5. PICK x \in S : b = After(x)
  OBVIOUS
<1>6. ASSUME NEW y \in S, ~(y <= x) PROVE FALSE
  <2> x < y /\ x \in Int /\ y \in Int
    BY <1>6 DEF Ids
  <2>1. y \in After(x) /\ y \notin After(y)
    OBVIOUS
  <2>2. After(y) \subseteq After(x)
    <3> SUFFICES ASSUME NEW z \in S, z > y PROVE z > x
      OBVIOUS
    <3> z \in Int
      BY DEF Ids
    <3> QED OBVIOUS
  <2>3. <<After(y), b>> \in StrictSubsetOrdering(S)
    BY <1>3, <1>5, <2>1, <2>2 DEF StrictSubsetOrdering
  <2> QED BY <1>4, <2>3
<1> QED BY <1>6

\* The live row of a slot is the last one of its history.
LEMMA CurrentIsLatest ==
  OrderInv => \A s \in Slots : CurrentOf(s) = Abstract!Latest(HistoryOf(s))
PROOF
<1> SUFFICES ASSUME OrderInv, NEW s \in Slots
             PROVE  CurrentOf(s) = Abstract!Latest(HistoryOf(s))
  OBVIOUS
<1> DEFINE D == { q \in Ids : Committed(q) /\ row[q].slot = s }
<1>1. DOMAIN HistoryOf(s) = D /\ \A r \in D : HistoryOf(s)[r] = row[r].val
  BY DEF HistoryOf
<1>2. CASE D = {}
  <2>1. ~ \E r \in Live : row[r].slot = s
    BY <1>2 DEF Live, Committed
  <2> QED BY <1>1, <1>2, <2>1 DEF CurrentOf, Abstract!Latest
<1>3. CASE D # {}
  <2>1. PICK m \in D : \A u \in D : u <= m
    BY <1>3, LastExists
  <2>2. row[m].succ = 0
    <3> SUFFICES ASSUME row[m].succ # 0
                 PROVE  FALSE
      OBVIOUS
    <3>1. row[m].succ \in D /\ row[m].succ > m
      BY TrailTypes DEF OrderInv, TrailInv, Trail, ChainIsLinear
    <3> QED BY <2>1, <3>1 DEF Ids
  <2>3. m \in Live /\ row[m].slot = s
    BY <2>2 DEF Live, Committed
  <2>4. \A r \in Live : row[r].slot = s => r = m
    BY <2>3 DEF OrderInv, TrailInv, IndexInv, OneLive
  <2>5. (CHOOSE r \in Live : row[r].slot = s) = m
    BY <2>3, <2>4
  <2>6. \A t \in D : (\A u \in D : u <= t) => t = m
    BY <2>1 DEF Ids
  <2>7. (CHOOSE t \in D : \A u \in D : u <= t) = m
    BY <2>1, <2>6
  <2>8. CurrentOf(s) = row[m].val
    BY <2>3, <2>5 DEF CurrentOf
  <2>9. Abstract!Latest(HistoryOf(s)) = HistoryOf(s)[m]
    BY <1>1, <1>3, <2>7 DEF Abstract!Latest
  <2> QED BY <1>1, <2>8, <2>9
<1> QED BY <1>2, <1>3

\* A step that shows nothing new.
LEMMA HistorySame ==
  ASSUME \A r \in Ids : (Committed(r) => row'[r] = row[r]) /\ (Committed(r)' => Committed(r)),
         NEW s \in Slots
  PROVE  HistoryOf(s)' = HistoryOf(s) /\ CurrentOf(s)' = CurrentOf(s)
PROOF
<1>1. \A r \in Ids : Committed(r)' <=> Committed(r)
  BY DEF Committed
<1>2. HistoryOf(s)' = HistoryOf(s)
  <2>1. { q \in Ids : Committed(q) /\ row[q].slot = s }' = { q \in Ids : Committed(q) /\ row[q].slot = s }
    BY <1>1
  <2> QED BY <1>1, <2>1 DEF HistoryOf
<1>3. Live' = Live /\ \A r \in Live : r \in Ids /\ row'[r] = row[r]
  BY <1>1 DEF Live, Committed
<1>4. CurrentOf(s)' = CurrentOf(s)
  <2>1. \A r : (r \in Live' /\ row'[r].slot = s) <=> (r \in Live /\ row[r].slot = s)
    BY <1>3
  <2>2. (CHOOSE r \in Live' : row'[r].slot = s) = (CHOOSE r \in Live : row[r].slot = s)
    BY <1>3, <2>1
  <2>3. CASE \E r \in Live : row[r].slot = s
    BY <1>3, <2>1, <2>2, <2>3 DEF CurrentOf
  <2>4. CASE ~ \E r \in Live : row[r].slot = s
    BY <1>3, <2>1, <2>4 DEF CurrentOf
  <2> QED BY <2>3, <2>4
<1> QED BY <1>2, <1>4

\* What a commit publishes goes on where each history of its provenance ends.
LEMMA HistoryGrows ==
  ASSUME OrderInv, NEW c \in Clients, Commit(c), NEW s \in Slots
  PROVE  IF s[2] = ProvOf(c) THEN Abstract!Continues(HistoryOf(s)', HistoryOf(s))
                             ELSE HistoryOf(s)' = HistoryOf(s)
PROOF
<1> DEFINE D == { q \in Ids : Committed(q) /\ row[q].slot = s }
           E == { q \in Ids : row'[q].status = "committed" /\ row'[q].slot = s }
<1>1. /\ DOMAIN HistoryOf(s) = D /\ \A r \in D : HistoryOf(s)[r] = row[r].val
      /\ HistoryOf(s)' = [r \in E |-> row'[r].val]
  BY DEF HistoryOf, Committed
<1>2. \A r \in Ids : Committed(r) => /\ row'[r].status = "committed"
                                     /\ row'[r].slot = row[r].slot
                                     /\ row'[r].val = row[r].val
  BY KeptByCommit DEF OrderInv
<1>3. \A r \in Ids : /\ row'[r].slot = row[r].slot
                     /\ row'[r].status = "committed" => Committed(r) \/ row[r].owner = c
  BY CommitDoes DEF OrderInv, TrailInv, Committed
<1>4. D \subseteq E /\ \A r \in D : row'[r].val = row[r].val
  BY <1>2
<1>5. \A u \in E \ D : row[u].owner = c /\ row[u].slot = s
  BY <1>3
<1>6. CASE s[2] = ProvOf(c)
  <2>1. ASSUME NEW t \in D, NEW u \in E \ D
        PROVE  t < u
    <3>1. ~Two(c, s)
      BY CommitOneTip DEF OrderInv
    <3>2. ~(t > u)
      BY <1>5, <3>1 DEF OrderInv, Late
    <3> QED BY <3>2 DEF Ids
  <2> HIDE DEF D, E
  <2>2. /\ DOMAIN HistoryOf(s)' = E
        /\ \A t \in D : HistoryOf(s)'[t] = HistoryOf(s)[t]
    BY <1>1, <1>4
  <2>3. Abstract!Continues(HistoryOf(s)', HistoryOf(s))
    BY <1>1, <1>4, <2>1, <2>2 DEF Abstract!Continues
  <2> QED BY <1>6, <2>3
<1>7. CASE s[2] # ProvOf(c)
  <2>1. E = D
    BY <1>4, <1>5, <1>7 DEF OrderInv, Signed
  <2>2. HistoryOf(s) = [r \in D |-> row[r].val]
    BY DEF HistoryOf
  <2> HIDE DEF D, E
  <2>3. HistoryOf(s)' = HistoryOf(s)
    BY <1>1, <1>4, <2>1, <2>2
  <2> QED BY <1>7, <2>3
<1> QED BY <1>6, <1>7

\* FactStore implements FactHistory: whatever workers and reviewers overlap,
\* readers see one append-only history per attribute and source, whose latest
\* value is the live row.  A reader never meets a moment between the
\* retirement of a row and the appearance of its replacement.
THEOREM HistoryImplemented == Spec => ImplementsHistory
PROOF
<1>1. Init => Abstract!Init
  <2> SUFFICES ASSUME Init
               PROVE  Abstract!Init
    OBVIOUS
  <2>1. \A r \in Ids : ~Committed(r)
    BY DEF Init, Unused, Committed
  <2>2. ASSUME NEW s \in Slots
        PROVE  HistoryOf(s) = [t \in {} |-> Absent] /\ CurrentOf(s) = Absent
    <3>1. { q \in Ids : Committed(q) /\ row[q].slot = s } = {}
      BY <2>1
    <3>2. Live = {}
      BY <2>1 DEF Live, Committed
    <3> QED BY <3>1, <3>2 DEF HistoryOf, CurrentOf
  <2> QED BY <2>2 DEF Abstract!Init, Slots
<1>2. OrderInv' => (\A s \in Slots : CurrentOf(s) = Abstract!Latest(HistoryOf(s)))'
  BY CurrentIsLatest, PTL
<1>3. OrderInv /\ OrderInv' /\ [Next]_vars => [Abstract!Next]_(Abstract!vars)
  <2> SUFFICES ASSUME OrderInv, OrderInv', [Next]_vars
               PROVE  Abstract!Next \/ UNCHANGED Abstract!vars
    OBVIOUS
  <2>1. ASSUME \A s \in Slots : HistoryOf(s)' = HistoryOf(s) /\ CurrentOf(s)' = CurrentOf(s)
        PROVE  UNCHANGED Abstract!vars
    BY <2>1 DEF Abstract!vars
  <2>2. ASSUME NEW c \in Clients, Commit(c)
        PROVE  Abstract!Publish(ProvOf(c))
    <3>1. \A s \in Slots : CurrentOf(s)' = Abstract!Latest(HistoryOf(s)')
      BY <1>2
    <3>2. \A s \in Slots : IF s[2] = ProvOf(c)
                           THEN Abstract!Continues(HistoryOf(s)', HistoryOf(s))
                           ELSE HistoryOf(s)' = HistoryOf(s)
      BY <2>2, HistoryGrows
    <3> QED BY <3>1, <3>2 DEF Abstract!Publish, Slots
  <2>3. CASE \E c \in Clients : Commit(c)
    <3>1. \A c \in Clients : ProvOf(c) \in {"ai_extraction", "human"}
      BY DEF ProvOf
    <3> QED BY <2>2, <2>3, <3>1 DEF Abstract!Next
  <2>4. CASE Next /\ ~ \E c \in Clients : Commit(c)
    <3>1. \A r \in Ids : (Committed(r) => row'[r] = row[r]) /\ (Committed(r)' => Committed(r))
      BY <2>4, OnlyCommitShows DEF OrderInv
    <3>2. \A s \in Slots : HistoryOf(s)' = HistoryOf(s) /\ CurrentOf(s)' = CurrentOf(s)
      BY <3>1, HistorySame
    <3> QED BY <2>1, <3>2
  <2>5. CASE UNCHANGED vars
    <3>1. \A r \in Ids : (Committed(r) => row'[r] = row[r]) /\ (Committed(r)' => Committed(r))
      BY <2>5 DEF vars, Committed
    <3>2. \A s \in Slots : HistoryOf(s)' = HistoryOf(s) /\ CurrentOf(s)' = CurrentOf(s)
      BY <3>1, HistorySame
    <3> QED BY <2>1, <3>2
  <2> QED BY <2>3, <2>4, <2>5
<1> QED BY <1>1, <1>3, OrderInit, OrderStep, PTL DEF Spec, ImplementsHistory, Abstract!Spec

-----------------------------------------------------------------------------
(* The review queue, for every number of items too: its steps are steps of *)
(* FactStore (DeskIsFactStore), so that what is proved above holds of it.  *)

USE NoItemAssumption, ClientsAssumption

Shown == {"pending"} \cup Resolved

ItemRows == [status : {"unused", "added", "pending"} \cup Resolved,
             owner : Workers \cup {Nobody}, key : Keys \cup {Nobody},
             val : Asserted \cup {Empties}]
DeskRows == [item : Items \cup {NoItem}, action : {"accept", "edit", "reject"},
             val : Asserted \cup {Empties}, overtaken : BOOLEAN]

\* An item has an owner as long as the transaction that filed it is open.
Filed == \A i \in Items : item[i].status = "added" <=> item[i].owner # Nobody

\* A reviewer's transaction is a request for an item that can be seen, and
\* past its one candidate once it flushes.
AtDesk ==
  \A r \in Reviewers :
    /\ pc[r] = "idle" <=> desk[r].item = NoItem
    /\ desk[r].item # NoItem => item[desk[r].item].status \in Shown
    /\ left[r] \in {0, 1}
    /\ pc[r] \notin {"idle", "work"} => left[r] = 0

DeskInv == DeskTypeOK /\ Filed /\ AtDesk

\* A step of the transaction of client c.
Does(c) == Begin(c) \/ Step(c) \/ Crash(c)

LEMMA DeskTypes ==
  ASSUME DeskInv
  PROVE  /\ TypeOK
         /\ item \in [Items -> ItemRows] /\ desk \in [Reviewers -> DeskRows]
         /\ pc \in [Clients -> Pcs] /\ left \in [Clients -> 0..MaxCands]
         /\ \A r \in Reviewers : r \in Clients /\ r \notin Workers
         /\ \A w \in Workers : w \in Clients /\ w # Nobody
PROOF
<1>1. \A r \in Reviewers : r \in Clients /\ r \notin Workers
  BY ClientsAssumption DEF Clients
<1>2. \A w \in Workers : w \in Clients /\ w # Nobody
  BY DEF Clients
<1>3. DeskTypeOK
  BY DEF DeskInv
<1>4. TypeOK
  BY <1>3 DEF DeskTypeOK
<1>5. pc \in [Clients -> Pcs] /\ left \in [Clients -> 0..MaxCands]
  BY <1>4 DEF TypeOK
<1> QED BY <1>1, <1>2, <1>3, <1>4, <1>5 DEF DeskTypeOK, ItemRows, DeskRows

\* A worker's step is one of its transaction.
LEMMA WorkDoes ==
  ASSUME NEW w \in Workers, Work(w)
  PROVE  Does(w)
BY DEF Work, Does, Step, Assertion, File, DropLow, Flushing, CutShort

\* A request that writes a fact has an item, an attribute and a value.
LEMMA Materialises ==
  ASSUME DeskInv, NEW r \in Reviewers, Materialise(r)
  PROVE  /\ desk[r].item \in Items /\ Attribute(r) \in Keys /\ desk[r].val \in Asserted
         /\ Assertion(r, Attribute(r), desk[r].val)
PROOF
<1>1. pc[r] = "work"
  BY DEF Materialise, Assertion, Keep, AddFirst, Supersede, Decides
<1>2. desk[r].item \in Items
  BY <1>1, DeskTypes DEF DeskInv, AtDesk, DeskRows
<1>3. Attribute(r) # Nobody /\ desk[r].val # Empties
  BY DEF Materialise
<1>4. Attribute(r) \in Keys /\ desk[r].val \in Asserted
  <2>1. item[desk[r].item] \in ItemRows /\ desk[r] \in DeskRows
    BY <1>2, DeskTypes
  <2> QED BY <1>3, <2>1 DEF Attribute, ItemRows, DeskRows
<1> QED BY <1>2, <1>4 DEF Materialise

\* A reviewer's step is one of its transaction: what the request asserts is an
\* asserted value of an attribute that exists, or the request is refused.
LEMMA ReviewDoes ==
  ASSUME DeskInv, NEW r \in Reviewers, Review(r)
  PROVE  Does(r)
PROOF
<1>1. CASE Open(r) \/ Reject(r) \/ (Flushing(r) /\ UNCHANGED deskVars) \/ (Commit(r) /\ Resolve(r))
             \/ (CutShort(r) /\ Leave(r))
  BY <1>1 DEF Does, Step, Open, Reject, Flushing, CutShort
<1>2. CASE Materialise(r)
  <2> DEFINE k == Attribute(r)
             v == desk[r].val
  <2>1. k \in Keys /\ v \in Asserted /\ Assertion(r, k, v)
    BY <1>2, Materialises
  <2> HIDE DEF k, v
  <2> QED BY <2>1 DEF Assertion, Does, Step
<1>3. CASE Refuse(r)
  BY <1>3 DEF Refuse, BadValue, Does, Crash
<1> QED BY <1>1, <1>2, <1>3 DEF Review

LEMMA DeskDoes ==
  ASSUME DeskInv, DeskNext
  PROVE  \E c \in Clients : Does(c)
BY WorkDoes, ReviewDoes, DeskTypes DEF DeskNext

LEMMA DeskStepIsStep == DeskInv /\ [DeskNext]_allVars => [Next]_vars
BY DeskDoes DEF Next, Does, allVars, vars

-----------------------------------------------------------------------------
(* What happens to an item and to the request of a reviewer.               *)

\* An item that can be seen changes only with a verdict.
LEMMA ItemCases ==
  ASSUME DeskInv, DeskNext, NEW i \in Items
  PROVE  \/ item'[i] = item[i]
         \/ item[i].status \in {"unused", "added"} /\ item'[i].status \in {"unused", "added", "pending"}
         \/ \E r \in Reviewers : Commit(r) /\ Resolve(r) /\ desk[r].item = i
PROOF
<1> DEFINE Goal == \/ item'[i] = item[i]
                   \/ /\ item[i].status \in {"unused", "added"}
                      /\ item'[i].status \in {"unused", "added", "pending"}
                   \/ \E r \in Reviewers : Commit(r) /\ Resolve(r) /\ desk[r].item = i
<1>1. ASSUME NEW w \in Workers, Work(w)
      PROVE  Goal
  <2>1. CASE File(w)
    BY <2>1, DeskTypes DEF File
  <2>2. CASE Publish(w) \/ Withdraw(w)
    <3>1. CASE item[i].owner # w
      BY <2>2, <3>1 DEF Publish, Withdraw
    <3>2. CASE item[i].owner = w
      <4>1. item[i].status = "added"
        BY <3>2, DeskTypes DEF DeskInv, Filed
      <4>2. CASE Publish(w)
        <5>1. item'[i] = [item[i] EXCEPT !.status = "pending", !.owner = Nobody]
          BY <3>2, <4>2 DEF Publish
        <5>2. item'[i].status = "pending"
          BY <5>1, DeskTypes DEF ItemRows
        <5> QED BY <4>1, <5>2
      <4>3. CASE Withdraw(w)
        BY <3>2, <4>1, <4>3 DEF Withdraw, Blank
      <4> QED BY <2>2, <4>2, <4>3
    <3> QED BY <3>1, <3>2
  <2>3. CASE item' = item
    BY <2>3
  <2> QED BY <1>1, <2>1, <2>2, <2>3 DEF Work, DropLow, deskVars
<1>2. ASSUME NEW r \in Reviewers, Review(r)
      PROVE  Goal
  <2>1. CASE Commit(r) /\ Resolve(r)
    <3>1. desk[r].item # i => item'[i] = item[i]
      BY <2>1, DeskTypes DEF Resolve
    <3> QED BY <2>1, <3>1
  <2>2. CASE item' = item
    BY <2>2
  <2> QED BY <1>2, <2>1, <2>2
          DEF Review, Open, Reject, Materialise, Refuse, Leave, deskVars
<1> QED BY <1>1, <1>2 DEF DeskNext

\* The verdict's item: status and value are the request's.
LEMMA Verdict ==
  ASSUME DeskInv, NEW r \in Reviewers, Resolve(r), NEW i \in Items, desk[r].item = i
  PROVE  /\ item'[i].status = StatusOf(desk[r].action)
         /\ desk[r].action # "reject" => item'[i].val = desk[r].val
         /\ desk[r].action = "reject" => item'[i].val = item[i].val
         /\ item'[i].owner = item[i].owner /\ item'[i].key = item[i].key
         /\ item'[i] \in ItemRows
PROOF
<1> DEFINE v == IF desk[r].action = "reject" THEN item[i].val ELSE desk[r].val
<1>1. item'[i] = [item[i] EXCEPT !.status = StatusOf(desk[r].action), !.val = v]
  BY DeskTypes DEF Resolve
<1>2. item[i] \in ItemRows
  BY DeskTypes
<1>3. v \in Asserted \cup {Empties}
  BY <1>2, DeskTypes DEF ItemRows, DeskRows
<1>4. StatusOf(desk[r].action) \in Resolved
  BY DEF StatusOf, Resolved
<1> HIDE DEF v
<1>5. /\ item'[i].status = StatusOf(desk[r].action) /\ item'[i].val = v
      /\ item'[i].owner = item[i].owner /\ item'[i].key = item[i].key
  BY <1>1, <1>2 DEF ItemRows
<1>6. item'[i] \in ItemRows
  BY <1>1, <1>2, <1>3, <1>4 DEF ItemRows
<1> QED BY <1>5, <1>6 DEF v

\* A request is the reviewer's own affair, but for its being overtaken.
LEMMA DeskCases ==
  ASSUME DeskInv, DeskNext, NEW r \in Reviewers
  PROVE  \/ Review(r)
         \/ /\ pc'[r] = pc[r] /\ left'[r] = left[r]
            /\ desk'[r].item = desk[r].item /\ desk'[r].action = desk[r].action
            /\ desk'[r].val = desk[r].val
            /\ desk[r].overtaken => desk'[r].overtaken
PROOF
<1>1. ASSUME NEW c \in Clients \ {r}, Does(c)
      PROVE  pc'[r] = pc[r] /\ left'[r] = left[r]
  BY <1>1, DeskTypes
     DEF Does, Begin, Step, Crash, Skip, Keep, AddFirst, Supersede, BadValue, Retire,
         InsertRow, txVars, AddReplacement, LastFlush, FlushDone, Commit, UniqueViolation,
         DeadlockVictim, Rollback, Ends
<1>2. ASSUME NEW w \in Workers, Work(w)
      PROVE  pc'[r] = pc[r] /\ left'[r] = left[r] /\ desk' = desk
  <2>1. pc'[r] = pc[r] /\ left'[r] = left[r]
    BY <1>1, <1>2, WorkDoes, DeskTypes
  <2>2. desk' = desk
    BY <1>2 DEF Work, File, DropLow, deskVars
  <2> QED BY <2>1, <2>2
<1>3. ASSUME NEW s \in Reviewers, s # r, Review(s)
      PROVE  /\ pc'[r] = pc[r] /\ left'[r] = left[r]
             /\ desk'[r].item = desk[r].item /\ desk'[r].action = desk[r].action
             /\ desk'[r].val = desk[r].val
             /\ desk[r].overtaken => desk'[r].overtaken
  <2>1. pc'[r] = pc[r] /\ left'[r] = left[r]
    BY <1>1, <1>3, ReviewDoes, DeskTypes
  <2>2. CASE Resolve(s)
    <3>1. desk'[r] = [desk[r] EXCEPT !.overtaken = @ \/ desk[r].item = desk[s].item]
      BY <1>3, <2>2 DEF Resolve
    <3>2. /\ desk'[r].item = desk[r].item /\ desk'[r].action = desk[r].action
          /\ desk'[r].val = desk[r].val
      BY <3>1, DeskTypes DEF DeskRows
    <3>3. desk[r].overtaken => desk'[r].overtaken
      BY <3>1, DeskTypes DEF DeskRows
    <3> QED BY <2>1, <3>2, <3>3
  <2>3. CASE desk'[r] = desk[r]
    BY <2>1, <2>3
  <2> QED BY <1>3, <2>2, <2>3, DeskTypes
          DEF Review, Open, Reject, Materialise, Refuse, Leave, deskVars
<1> QED BY <1>2, <1>3 DEF DeskNext

-----------------------------------------------------------------------------
(* Types, and where a request is.                                          *)

LEMMA ItemType ==
  ASSUME DeskInv, DeskNext
  PROVE  item' \in [Items -> ItemRows]
PROOF
<1>1. ASSUME NEW w \in Workers, NEW i \in Items, NEW k \in Keys \cup {Nobody},
             NEW v \in Asserted,
             item' = [item EXCEPT ![i] = [status |-> "added", owner |-> w,
                                          key |-> k, val |-> v]]
      PROVE  item' \in [Items -> ItemRows]
  <2>1. [status |-> "added", owner |-> w, key |-> k, val |-> v] \in ItemRows
    BY DEF ItemRows
  <2> QED BY <1>1, <2>1, DeskTypes
<1>2. ASSUME NEW w \in Workers, Publish(w)
      PROVE  item' \in [Items -> ItemRows]
  <2>1. ASSUME NEW i \in Items
        PROVE  [item[i] EXCEPT !.status = "pending", !.owner = Nobody] \in ItemRows
    <3>1. item[i] \in ItemRows
      BY DeskTypes
    <3> QED BY <3>1 DEF ItemRows
  <2> QED BY <1>2, <2>1, DeskTypes DEF Publish
<1>3. ASSUME NEW w \in Workers, Withdraw(w)
      PROVE  item' \in [Items -> ItemRows]
  <2>1. Blank \in ItemRows
    BY DEF Blank, ItemRows
  <2> QED BY <1>3, <2>1, DeskTypes DEF Withdraw
<1>4. ASSUME NEW r \in Reviewers, Commit(r), Resolve(r)
      PROVE  item' \in [Items -> ItemRows]
  <2>1. desk[r].item \in Items => item'[desk[r].item] \in ItemRows
    BY <1>4, Verdict
  <2>2. \A i \in Items : i # desk[r].item => item'[i] = item[i]
    BY <1>4, DeskTypes DEF Resolve
  <2>3. item' = [i \in Items |-> item'[i]]
    BY <1>4, DeskTypes DEF Resolve
  <2>4. \A i \in Items : item'[i] \in ItemRows
    BY <2>1, <2>2, DeskTypes
  <2> QED BY <2>3, <2>4
<1>5. CASE item' = item
  BY <1>5, DeskTypes
<1>6. ASSUME NEW w \in Workers, Work(w)
      PROVE  item' \in [Items -> ItemRows]
  BY <1>1, <1>2, <1>3, <1>5, <1>6 DEF Work, File, DropLow, deskVars
<1>7. ASSUME NEW r \in Reviewers, Review(r)
      PROVE  item' \in [Items -> ItemRows]
  BY <1>4, <1>5, <1>7 DEF Review, Open, Reject, Materialise, Refuse, Leave, deskVars
<1> QED BY <1>6, <1>7 DEF DeskNext

LEMMA DeskType ==
  ASSUME DeskInv, DeskNext
  PROVE  desk' \in [Reviewers -> DeskRows]
PROOF
<1>1. Idle \in DeskRows
  BY DEF Idle, DeskRows
<1>2. ASSUME NEW r \in Reviewers, NEW i \in Items, NEW d \in Requests(i),
             desk' = [desk EXCEPT ![r] = d]
      PROVE  desk' \in [Reviewers -> DeskRows]
  <2>1. item[i].val \in Asserted \cup {Empties}
    BY DeskTypes DEF ItemRows
  <2>2. d \in DeskRows
    <3>1. \A v \in Asserted \cup {Empties}, a \in {"accept", "edit", "reject"} :
            [item |-> i, action |-> a, val |-> v, overtaken |-> FALSE] \in DeskRows
      BY DEF DeskRows
    <3>2. \E v \in Asserted \cup {Empties}, a \in {"accept", "edit", "reject"} :
            d = [item |-> i, action |-> a, val |-> v, overtaken |-> FALSE]
      <4>1. \/ d = [item |-> i, action |-> "reject", val |-> Empties, overtaken |-> FALSE]
            \/ d = [item |-> i, action |-> "accept", val |-> item[i].val, overtaken |-> FALSE]
            \/ \E v \in Asserted \cup {Empties} :
                 d = [item |-> i, action |-> "edit", val |-> v, overtaken |-> FALSE]
        BY DEF Requests
      <4> QED BY <2>1, <4>1
    <3> QED BY <3>1, <3>2
  <2> QED BY <1>2, <2>2, DeskTypes
<1>3. ASSUME NEW r \in Reviewers, Resolve(r)
      PROVE  desk' \in [Reviewers -> DeskRows]
  <2>1. \A s \in Reviewers :
          [desk[s] EXCEPT !.overtaken = @ \/ desk[s].item = desk[r].item] \in DeskRows
    <3> SUFFICES ASSUME NEW s \in Reviewers
                 PROVE  [desk[s] EXCEPT !.overtaken = @ \/ desk[s].item = desk[r].item] \in DeskRows
      OBVIOUS
    <3>1. desk[s] \in DeskRows
      BY DeskTypes
    <3>2. (desk[s].overtaken \/ desk[s].item = desk[r].item) \in BOOLEAN
      OBVIOUS
    <3> QED BY <3>1, <3>2 DEF DeskRows
  <2>2. desk' = [s \in Reviewers |->
                   IF s = r THEN Idle
                   ELSE [desk[s] EXCEPT !.overtaken = @ \/ desk[s].item = desk[r].item]]
    BY <1>3 DEF Resolve
  <2> QED BY <1>1, <2>1, <2>2
<1>4. ASSUME NEW r \in Reviewers, Leave(r)
      PROVE  desk' \in [Reviewers -> DeskRows]
  BY <1>1, <1>4, DeskTypes DEF Leave
<1>5. CASE desk' = desk
  BY <1>5, DeskTypes
<1>6. ASSUME NEW w \in Workers, Work(w)
      PROVE  desk' = desk
  BY <1>6 DEF Work, File, DropLow, deskVars
<1>7. ASSUME NEW r \in Reviewers, Review(r)
      PROVE  desk' \in [Reviewers -> DeskRows]
  BY <1>2, <1>3, <1>4, <1>5, <1>7 DEF Review, Open, Reject, Materialise, Refuse, deskVars
<1> QED BY <1>5, <1>6, <1>7 DEF DeskNext

\* How a reviewer's own step moves the request.
LEMMA ReviewMoves ==
  ASSUME DeskInv, NEW r \in Reviewers, Review(r)
  PROVE  \/ \* it is opened
            /\ pc'[r] = "work" /\ left'[r] = 1
            /\ \E i \in Items : desk'[r].item = i /\ item'[i].status = "pending"
            /\ item' = item /\ desk'[r].overtaken = FALSE
         \/ \* it goes on
            /\ pc'[r] # "idle" /\ pc[r] # "idle" /\ left'[r] \in {0, left[r]}
            /\ pc'[r] # "work" => left'[r] = 0
            /\ UNCHANGED deskVars
         \/ \* it is over
            /\ pc'[r] = "idle" /\ desk'[r] = Idle /\ left'[r] = 0
PROOF
<1>1. /\ r \in Clients /\ r \notin Workers /\ left[r] \in {0, 1}
      /\ pc[r] \notin {"idle", "work"} => left[r] = 0
  BY DeskTypes DEF DeskInv, AtDesk
<1>2. CASE Open(r)
  <2>1. pc'[r] = "work" /\ left'[r] = 1
    BY <1>1, <1>2, DeskTypes DEF Open, Begin
  <2>2. PICK i \in Items : item[i].status = "pending" /\ \E d \in Requests(i) : desk' = [desk EXCEPT ![r] = d]
    BY <1>2 DEF Open
  <2>3. desk'[r].item = i /\ desk'[r].overtaken = FALSE
    BY <2>2, DeskTypes DEF Requests
  <2> QED BY <1>2, <2>1, <2>2, <2>3 DEF Open
<1>3. CASE Reject(r) \/ Materialise(r)
  <2>1. /\ UNCHANGED deskVars
        /\ \/ Skip(r)
           \/ \E k, v : Keep(r, k, v) \/ AddFirst(r, k, v) \/ Supersede(r, k, v)
    BY <1>3 DEF Reject, Materialise, Assertion
  <2>2. pc[r] = "work" /\ left[r] > 0 /\ left' = [left EXCEPT ![r] = @ - 1]
        /\ (pc' = pc \/ pc' = [pc EXCEPT ![r] = "retire"])
    BY <2>1 DEF Skip, Keep, AddFirst, Supersede, Decides
  <2>3. left[r] = 1 /\ left'[r] = 0 /\ pc'[r] \in {"work", "retire"}
    BY <1>1, <2>2, DeskTypes
  <2> QED BY <2>1, <2>2, <2>3
<1>4. CASE Flushing(r) /\ UNCHANGED deskVars
  <2>1. /\ left' = left /\ pc[r] # "idle"
        /\ pc' = pc \/ \E q \in {"insert", "work", "commit"} : pc' = [pc EXCEPT ![r] = q]
        /\ pc[r] = "work" => left[r] = 0
    BY <1>4 DEF Flushing, Retire, InsertRow, txVars, AddReplacement, LastFlush, FlushDone
  <2>2. pc'[r] # "idle" /\ left'[r] = 0
    BY <1>1, <2>1, DeskTypes
  <2> QED BY <1>4, <2>1, <2>2
<1>5. CASE Commit(r) /\ Resolve(r)
  BY <1>1, <1>5, DeskTypes DEF Commit, Ends, Resolve
<1>6. CASE Refuse(r) \/ (CutShort(r) /\ Leave(r))
  <2>1. Rollback(r) /\ Leave(r)
    BY <1>6 DEF Refuse, BadValue, CutShort, UniqueViolation, DeadlockVictim, Crash
  <2> QED BY <1>1, <2>1, DeskTypes DEF Rollback, Ends, Leave
<1> QED BY <1>2, <1>3, <1>4, <1>5, <1>6 DEF Review

\* An item that can be seen can be seen ever after, under the same attribute.
LEMMA ShownStays ==
  ASSUME DeskInv, DeskNext, NEW i \in Items, item[i].status \in Shown
  PROVE  item'[i].status \in Shown /\ item'[i].key = item[i].key
PROOF
<1>1. CASE item'[i] = item[i]
  BY <1>1
<1>2. CASE \E r \in Reviewers : Commit(r) /\ Resolve(r) /\ desk[r].item = i
  BY <1>2, Verdict DEF StatusOf, Shown, Resolved
<1>3. item[i].status \notin {"unused", "added"}
  BY DEF Shown, Resolved
<1> QED BY <1>1, <1>2, <1>3, ItemCases

LEMMA FiledStep ==
  ASSUME DeskInv, DeskNext
  PROVE  Filed'
PROOF
<1> SUFFICES ASSUME NEW i \in Items
             PROVE  item'[i].status = "added" <=> item'[i].owner # Nobody
  BY DEF Filed
<1> DEFINE Goal == item'[i].status = "added" <=> item'[i].owner # Nobody
<1>1. CASE item'[i] = item[i]
  BY <1>1 DEF DeskInv, Filed
<1>2. ASSUME NEW w \in Workers, Work(w)
      PROVE  Goal
  <2>1. CASE File(w)
    <3>1. PICK j \in Items, k \in Keys \cup {Nobody}, v \in Asserted :
            item' = [item EXCEPT ![j] = [status |-> "added", owner |-> w,
                                         key |-> k, val |-> v]]
      BY <2>1 DEF File
    <3>2. CASE j = i
      BY <3>1, <3>2, DeskTypes
    <3>3. CASE j # i
      BY <1>1, <3>1, <3>3, DeskTypes
    <3> QED BY <3>2, <3>3
  <2>2. CASE Publish(w)
    <3>1. CASE item[i].owner = w
      <4>1. item'[i] = [item[i] EXCEPT !.status = "pending", !.owner = Nobody]
        BY <2>2, <3>1 DEF Publish
      <4>2. item'[i].status = "pending" /\ item'[i].owner = Nobody
        BY <4>1, DeskTypes DEF ItemRows
      <4> QED BY <4>2
    <3>2. CASE item[i].owner # w
      BY <1>1, <2>2, <3>2 DEF Publish
    <3> QED BY <3>1, <3>2
  <2>3. CASE Withdraw(w)
    <3>1. CASE item[i].owner = w
      BY <2>3, <3>1 DEF Withdraw, Blank
    <3>2. CASE item[i].owner # w
      BY <1>1, <2>3, <3>2 DEF Withdraw
    <3> QED BY <3>1, <3>2
  <2>4. CASE item' = item
    BY <1>1, <2>4
  <2> QED BY <1>2, <2>1, <2>2, <2>3, <2>4 DEF Work, DropLow, deskVars
<1>3. ASSUME NEW r \in Reviewers, Review(r)
      PROVE  Goal
  <2>1. CASE Commit(r) /\ Resolve(r) /\ desk[r].item = i
    <3>1. item[i].status \in Shown
      BY <2>1 DEF DeskInv, AtDesk
    <3>2. item[i].owner = Nobody
      BY <3>1 DEF DeskInv, Filed, Shown, Resolved
    <3>3. item'[i].owner = Nobody /\ item'[i].status = StatusOf(desk[r].action)
      BY <2>1, <3>2, Verdict
    <3> QED BY <3>3 DEF StatusOf
  <2>2. CASE Commit(r) /\ Resolve(r) /\ desk[r].item # i
    BY <1>1, <2>2, DeskTypes DEF Resolve
  <2>3. CASE item' = item
    BY <1>1, <2>3
  <2> QED BY <1>3, <2>1, <2>2, <2>3
          DEF Review, Open, Reject, Materialise, Refuse, Leave, deskVars
<1> QED BY <1>2, <1>3 DEF DeskNext

LEMMA AtDeskStep ==
  ASSUME DeskInv, DeskNext
  PROVE  AtDesk'
PROOF
<1> SUFFICES ASSUME NEW r \in Reviewers, NEW i, i = desk'[r].item
             PROVE  /\ pc'[r] = "idle" <=> i = NoItem
                    /\ i # NoItem => item'[i].status \in Shown
                    /\ left'[r] \in {0, 1}
                    /\ pc'[r] \notin {"idle", "work"} => left'[r] = 0
  BY DEF AtDesk, Shown
<1>1. /\ pc[r] = "idle" <=> desk[r].item = NoItem
      /\ desk[r].item # NoItem => item[desk[r].item].status \in Shown
      /\ left[r] \in {0, 1}
      /\ pc[r] \notin {"idle", "work"} => left[r] = 0
      /\ desk[r].item \in Items \cup {NoItem}
  BY DeskTypes DEF DeskInv, AtDesk, DeskRows
<1>2. desk[r].item # NoItem => item'[desk[r].item].status \in Shown
  BY <1>1, ShownStays
<1>3. CASE Review(r)
  <2>1. CASE pc'[r] = "idle" /\ desk'[r] = Idle /\ left'[r] = 0
    BY <2>1 DEF Idle
  <2>2. CASE /\ pc'[r] # "idle" /\ pc[r] # "idle" /\ left'[r] \in {0, left[r]}
             /\ pc'[r] # "work" => left'[r] = 0
             /\ UNCHANGED deskVars
    BY <1>1, <1>2, <2>2 DEF deskVars
  <2>3. CASE /\ pc'[r] = "work" /\ left'[r] = 1
             /\ \E j \in Items : desk'[r].item = j /\ item'[j].status = "pending"
    BY <2>3 DEF Shown
  <2> QED BY <1>3, <2>1, <2>2, <2>3, ReviewMoves
<1>4. CASE pc'[r] = pc[r] /\ left'[r] = left[r] /\ desk'[r].item = desk[r].item
  BY <1>1, <1>2, <1>4
<1> QED BY <1>3, <1>4, DeskCases

LEMMA DeskInvInit == DeskInit => DeskInv
PROOF
<1> SUFFICES ASSUME DeskInit
             PROVE  DeskInv
  OBVIOUS
<1>1. TypeOK
  BY TypeInit DEF DeskInit
<1>2. Blank \in ItemRows /\ Idle \in DeskRows
  BY DEF Blank, ItemRows, Idle, DeskRows
<1>3. DeskTypeOK
  BY <1>1, <1>2 DEF DeskInit, DeskTypeOK, ItemRows, DeskRows
<1>4. Filed
  BY DEF DeskInit, Filed, Blank
<1>5. AtDesk
  <2>1. \A r \in Reviewers : r \in Clients
    BY DEF Clients
  <2> QED BY <2>1 DEF DeskInit, Init, AtDesk, Idle
<1> QED BY <1>3, <1>4, <1>5 DEF DeskInv

LEMMA DeskInvStep == DeskInv /\ [DeskNext]_allVars => DeskInv'
PROOF
<1> SUFFICES ASSUME DeskInv, [DeskNext]_allVars
             PROVE  DeskInv'
  OBVIOUS
<1>1. TypeOK'
  BY DeskStepIsStep, TypeStep, DeskTypes
<1>2. CASE DeskNext
  <2>1. item' \in [Items -> ItemRows] /\ desk' \in [Reviewers -> DeskRows]
    BY <1>2, ItemType, DeskType
  <2>2. DeskTypeOK'
    BY <1>1, <2>1 DEF DeskTypeOK, ItemRows, DeskRows
  <2> QED BY <1>2, <2>2, FiledStep, AtDeskStep DEF DeskInv
<1>3. CASE UNCHANGED allVars
  BY <1>1, <1>3 DEF allVars, vars, DeskInv, DeskTypeOK, Filed, AtDesk
<1> QED BY <1>2, <1>3

\* Requests and items are well typed.
THEOREM DeskTypeCorrect == DeskSpec => []DeskTypeOK
PROOF
<1>1. DeskInv => DeskTypeOK
  BY DEF DeskInv
<1> QED BY <1>1, DeskInvInit, DeskInvStep, PTL DEF DeskSpec

\* The review queue is a client of the facts' table that keeps its rules: all
\* that is proved of FactStore holds beside it.
THEOREM DeskIsFactStore == DeskSpec => Spec
PROOF
<1>1. DeskInit => Init
  BY DEF DeskInit
<1> QED BY <1>1, DeskInvInit, DeskInvStep, DeskStepIsStep, PTL DEF DeskSpec, Spec

\* Readers of the facts see one append-only history per attribute and source
\* beside any number of verdicts (review.py _materialise_human_datapoint).
THEOREM DeskImplementsHistory == DeskSpec => ImplementsHistory
BY DeskIsFactStore, HistoryImplemented, PTL

-----------------------------------------------------------------------------
(* A verdict is final.                                                     *)

\* A request whose item has its verdict was opened before the verdict.
Overtaken ==
  \A r \in Reviewers :
    desk[r].item # NoItem /\ item[desk[r].item].status \in Resolved => desk[r].overtaken

LEMMA OvertakenStep ==
  ASSUME DeskInv, Overtaken, DeskNext
  PROVE  Overtaken'
PROOF
<1> SUFFICES ASSUME NEW r \in Reviewers, NEW i, i = desk'[r].item, i # NoItem,
                    item'[i].status \in Resolved
             PROVE  desk'[r].overtaken
  BY DEF Overtaken, Resolved
<1>1. CASE Review(r)
  <2>1. CASE pc'[r] = "idle" /\ desk'[r] = Idle
    BY <2>1 DEF Idle
  <2>2. CASE UNCHANGED deskVars
    BY <2>2 DEF deskVars, Overtaken
  <2>3. CASE \E j \in Items : desk'[r].item = j /\ item'[j].status = "pending"
    BY <2>3 DEF Resolved
  <2> QED BY <1>1, <2>1, <2>2, <2>3, ReviewMoves
<1>2. CASE /\ ~Review(r) /\ desk'[r].item = desk[r].item
           /\ desk[r].overtaken => desk'[r].overtaken
  <2>1. i \in Items /\ desk[r].item = i
    BY <1>2, DeskTypes DEF DeskRows
  <2>2. CASE item'[i] = item[i]
    BY <1>2, <2>1, <2>2 DEF Overtaken
  <2>3. CASE item[i].status \in {"unused", "added"}
    BY <2>1, <2>3 DEF DeskInv, AtDesk, Shown, Resolved
  <2>4. ASSUME NEW s \in Reviewers, Commit(s), Resolve(s), desk[s].item = i
        PROVE  desk'[r].overtaken
    <3>1. r # s
      BY <1>2, <2>4 DEF Review
    <3>2. desk'[r] = [desk[r] EXCEPT !.overtaken = @ \/ desk[r].item = desk[s].item]
      BY <2>4, <3>1 DEF Resolve
    <3>3. desk'[r].overtaken = (desk[r].overtaken \/ desk[r].item = desk[s].item)
      BY <3>2, DeskTypes DEF DeskRows
    <3> QED BY <2>1, <2>4, <3>3
  <2> QED BY <2>1, <2>2, <2>3, <2>4, ItemCases
<1> QED BY <1>1, <1>2, DeskCases

LEMMA OvertakenStays == DeskInv /\ Overtaken /\ [DeskNext]_allVars => Overtaken'
PROOF
<1>1. ASSUME Overtaken, UNCHANGED allVars
      PROVE  Overtaken'
  BY <1>1 DEF Overtaken, allVars
<1> QED BY <1>1, OvertakenStep

\* A verdict changes only by the hand of a reviewer who had read the item
\* before it was given: the check of the status comes first in every later
\* request (review.py resolve_review_item, the 409).
THEOREM VerdictFinal == DeskSpec => VerdictIsFinal
PROOF
<1>1. DeskInit => Overtaken
  BY DEF DeskInit, Overtaken, Idle
<1>2. DeskInv /\ Overtaken /\ [DeskNext]_allVars =>
        [\A i \in Items :
           item[i].status \in Resolved /\ item'[i] # item[i] =>
             \E r \in Reviewers : desk[r].item = i /\ desk[r].overtaken]_allVars
  <2> SUFFICES ASSUME DeskInv, Overtaken, DeskNext, NEW i \in Items,
                      item[i].status \in Resolved, item'[i] # item[i]
               PROVE  \E r \in Reviewers : desk[r].item = i /\ desk[r].overtaken
    OBVIOUS
  <2>1. item[i].status \notin {"unused", "added"}
    BY DEF Resolved
  <2>2. PICK r \in Reviewers : desk[r].item = i
    BY <2>1, ItemCases
  <2>3. desk[r].overtaken
    BY <2>2 DEF Overtaken
  <2> QED BY <2>2, <2>3
<1> QED BY <1>1, <1>2, DeskInvInit, DeskInvStep, OvertakenStays, PTL
        DEF DeskSpec, VerdictIsFinal

-----------------------------------------------------------------------------
(* An item that says accepted or edited has its fact.                      *)

\* A column gives back what it was given (_value_columns).
Stored == \A f \in Ids : row[f].slot \in Slots =>
            row[f].val = Coerce(TypeOf[row[f].slot[1]], row[f].val)

\* A human fact of key k with value v is committed, or written by d's open
\* transaction.
HasFact(k, v, d) ==
  \E f \in Ids : /\ Committed(f) \/ row[f].owner = d
                 /\ row[f].slot = <<k, "human">>
                 /\ row[f].val = Coerce(TypeOf[k], v)

\* A request that has handled its candidate, and is no rejection, has it.
Materialised ==
  \A r \in Reviewers :
    pc[r] # "idle" /\ left[r] = 0 /\ desk[r].action # "reject" =>
      /\ item[desk[r].item].key \in Keys
      /\ HasFact(item[desk[r].item].key, desk[r].val, r)

FactInv == TrailInv /\ DeskInv /\ Stored /\ Materialised /\ ResolvedHasFact

\* A stored value is stored as it is.
LEMMA CoerceTwice ==
  ASSUME NEW type \in ValueTypes, NEW v \in Value
  PROVE  Coerce(type, Coerce(type, v)) = Coerce(type, v)
PROOF
<1>1. v.kind \in {"bool", "num", "numeral", "word"} /\ v.n \in Int
  BY DEF Value
<1>2. CASE type = "bool"
  BY <1>2 DEF Coerce, AsBool, Bool, Truthy
<1>3. CASE type = "numeric"
  <2>1. \A q \in Int : Round6(10 * q) = 10 * q
    BY DEF Round6
  <2>2. \A x \in Int : \E q \in Int : Round6(x) = 10 * q
    <3> SUFFICES ASSUME NEW x \in Int
                 PROVE  \E q \in Int : Round6(x) = 10 * q
      OBVIOUS
    <3>1. CASE x >= 0
      <4>1. (x + 5) \div 10 \in Int /\ Round6(x) = 10 * ((x + 5) \div 10)
        BY <3>1 DEF Round6
      <4> QED BY <4>1
    <3>2. CASE ~(x >= 0)
      <4>1. -((5 - x) \div 10) \in Int /\ Round6(x) = 10 * (-((5 - x) \div 10))
        BY <3>2 DEF Round6
      <4> QED BY <4>1
    <3> QED BY <3>1, <3>2
  <2>3. \E q \in Int : Coerce(type, v) = Num(10 * q)
    <3>1. CASE v.kind = "bool"
      <4>1. 1000000 * v.n \in Int /\ v.n * One = 10 * (1000000 * v.n)
        BY <1>1 DEF One
      <4>2. Coerce(type, v) = Num(v.n * One)
        BY <1>3, <3>1 DEF Coerce, AsNumeric
      <4> QED BY <4>1, <4>2
    <3>2. CASE v.kind # "bool"
      BY <1>1, <1>3, <2>2, <3>2 DEF Coerce, AsNumeric
    <3> QED BY <3>1, <3>2
  <2>4. PICK q \in Int : Coerce(type, v) = Num(10 * q)
    BY <2>3
  <2>5. Coerce(type, Num(10 * q)) = Num(Round6(10 * q))
    BY <1>3 DEF Coerce, AsNumeric, Num
  <2> QED BY <2>1, <2>4, <2>5
<1>4. CASE type = "enum"
  BY <1>1, <1>4 DEF Coerce, AsEnum, Word, Numeral
<1> QED BY <1>2, <1>3, <1>4 DEF ValueTypes

\* Facts last: only the rollback of its own transaction takes a row away.
LEMMA FactLasts ==
  ASSUME TrailInv, NEW c \in Clients, Does(c), NEW d \in Clients, NEW f \in Ids,
         Committed(f) \/ row[f].owner = d
  PROVE  \/ c = d /\ Rollback(c) /\ ~Committed(f)
         \/ /\ row'[f].slot = row[f].slot /\ row'[f].val = row[f].val
            /\ Committed(f) => row'[f].status = "committed"
            /\ row'[f].status = "committed" \/ row'[f].owner = d
PROOF
<1>1. /\ Committed(f) => row[f].owner = Nobody
      /\ row[f].status # "unused"
      /\ row[f].status \notin {"minted", "pending"} \/ ~Committed(f)
  BY DEF TrailInv, IndexInv, Owned, InFlight, Committed
<1>2. CASE row' = row
  BY <1>2 DEF Committed
<1>3. CASE InsertRow(c) \/ AddReplacement(c)
  BY <1>1, <1>3, RowMoves DEF Committed
<1>4. ASSUME NEW k, NEW v, AddFirst(c, k, v) \/ Supersede(c, k, v)
      PROVE  row'[f] = row[f]
  <2>1. PICK n \in Ids : IsNextId(n) /\ \E x : row' = [row EXCEPT ![n] = x]
    BY <1>4 DEF AddFirst, Supersede
  <2>2. n # f
    BY <1>1, <2>1 DEF IsNextId, Ids
  <2> QED BY <2>1, <2>2
<1>5. CASE Commit(c)
  BY <1>1, <1>5, CommitDoes DEF TrailInv, Committed
<1>6. CASE Rollback(c)
  <2>1. CASE row[f].owner = c
    BY <1>1, <1>6, <2>1
  <2>2. CASE row[f].owner # c
    <3>1. row'[f] = row[f]
      BY <1>6, <2>2 DEF Rollback
    <3> QED BY <3>1 DEF Committed
  <2> QED BY <2>1, <2>2
<1> QED BY <1>2, <1>3, <1>4, <1>5, <1>6
        DEF Does, Begin, Step, Crash, Skip, Keep, BadValue, Retire, LastFlush, FlushDone,
            UniqueViolation, DeadlockVictim, Committed

LEMMA HasFactLasts ==
  ASSUME TrailInv, NEW c \in Clients, Does(c), NEW d \in Clients, pc'[d] # "idle",
         NEW k, NEW v, HasFact(k, v, d)
  PROVE  HasFact(k, v, d)'
PROOF
<1>1. PICK f \in Ids : /\ Committed(f) \/ row[f].owner = d
                       /\ row[f].slot = <<k, "human">>
                       /\ row[f].val = Coerce(TypeOf[k], v)
  BY DEF HasFact
<1>2. ~(c = d /\ Rollback(c))
  BY DEF Rollback, Ends, TrailInv, IndexInv, TypeOK
<1> QED BY <1>1, <1>2, FactLasts DEF HasFact, Committed

\* A row that was not there holds what its column stores.
LEMMA NewIsStored ==
  ASSUME Stored, TrailInv, NEW c \in Clients, NEW k \in Keys, NEW v \in Asserted,
         ~CoerceFails(TypeOf[k], v), NEW st, NEW n \in Ids,
         row' = [row EXCEPT ![n] = Row(st, c, <<k, ProvOf(c)>>, Coerce(TypeOf[k], v))]
  PROVE  Stored'
PROOF
<1>1. row \in [Ids -> Rows]
  BY DEF TrailInv, IndexInv, TypeOK
<1> DEFINE x == Coerce(TypeOf[k], v)
<1>2. x = Coerce(TypeOf[k], x)
  BY CoerceTwice
<1>3. row'[n] = Row(st, c, <<k, ProvOf(c)>>, x)
  BY <1>1
<1> HIDE DEF x
<1>4. row'[n].slot = <<k, ProvOf(c)>> /\ row'[n].val = x
  BY <1>3 DEF Row
<1>5. ASSUME NEW f \in Ids, row'[f].slot \in Slots
      PROVE  row'[f].val = Coerce(TypeOf[row'[f].slot[1]], row'[f].val)
  <2>1. CASE f = n
    BY <1>2, <1>4, <2>1
  <2>2. CASE f # n
    <3>1. row'[f] = row[f]
      BY <1>1, <2>2
    <3> QED BY <1>5, <3>1 DEF Stored
  <2> QED BY <2>1, <2>2
<1> QED BY <1>5 DEF Stored

LEMMA StoredStep ==
  ASSUME TrailInv, Stored, NEW c \in Clients, Does(c)
  PROVE  Stored'
PROOF
<1>1. ASSUME \A f \in Ids : row'[f].slot = row[f].slot /\ row'[f].val = row[f].val
      PROVE  Stored'
  BY <1>1 DEF Stored
<1>2. CASE row' = row
  BY <1>1, <1>2
<1>3. CASE InsertRow(c) \/ AddReplacement(c)
  BY <1>1, <1>3, RowMoves
<1>4. ASSUME NEW k \in Keys, NEW v \in Asserted, AddFirst(c, k, v) \/ Supersede(c, k, v)
      PROVE  Stored'
  <2>1. CASE AddFirst(c, k, v)
    BY <2>1, NewIsStored DEF AddFirst, Decides
  <2>2. CASE Supersede(c, k, v)
    <3>1. PICK n \in Ids :
            row' = [row EXCEPT ![n] = Row("minted", c, <<k, ProvOf(c)>>, Coerce(TypeOf[k], v))]
      BY <2>2 DEF Supersede
    <3>2. ~CoerceFails(TypeOf[k], v)
      BY <2>2 DEF Supersede, Decides
    <3> QED BY <3>1, <3>2, NewIsStored
  <2> QED BY <1>4, <2>1, <2>2
<1>5. CASE Commit(c)
  BY <1>1, <1>5, CommitDoes DEF TrailInv
<1>6. CASE Rollback(c)
  <2>1. Unused.slot \notin Slots
    BY DEF Unused, Slots, Nobody
  <2> QED BY <1>6, <2>1 DEF Rollback, Stored
<1> QED BY <1>2, <1>3, <1>4, <1>5, <1>6
        DEF Does, Begin, Step, Crash, Skip, Keep, BadValue, Retire, LastFlush, FlushDone,
            UniqueViolation, DeadlockVictim

\* NoOp answers for a live row that holds the asserted value.
LEMMA KeptHasValue ==
  ASSUME NEW c \in Clients, NEW k \in Keys, NEW v, NEW id \in Ids,
         Decides(c, k, v, NoOp(id))
  PROVE  id \in LiveFor(c, <<k, ProvOf(c)>>) /\ row[id].val = v
PROOF
<1> DEFINE s == <<k, ProvOf(c)>>
           e == Existing(c, s)
           new0 == Fact(0, ProvOf(c), v)
<1>1. NoOp(id) = Reconcile(e, new0)
  BY DEF Decides
<1>2. e.id # 0 /\ id = e.id /\ e.value = new0.value
  <2> HIDE DEF e, new0
  <2> QED BY <1>1 DEF Reconcile, SupersedeLive, InsertLive, NoOp, StoreSuperseded,
                      ValuesEqual
<1>3. LiveFor(c, s) # {}
  BY <1>2 DEF Existing, NoFact
<1> DEFINE r == CHOOSE x \in LiveFor(c, s) : TRUE
<1>4. e = Fact(r, s[2], row[r].val)
  BY <1>3 DEF Existing
<1>5. r \in LiveFor(c, s)
  BY <1>3
<1> HIDE DEF r, s
<1>6. e.id = r /\ e.value = row[r].val /\ new0.value = v
  BY <1>4 DEF Fact
<1> QED BY <1>2, <1>5, <1>6 DEF s

\* A reviewer's assertion leaves its fact, kept or written.
LEMMA AssertionHasFact ==
  ASSUME TrailInv, Stored, NEW r \in Reviewers, NEW k \in Keys, NEW v \in Asserted,
         Assertion(r, k, v)
  PROVE  HasFact(k, v, r)'
PROOF
<1>1. r \in Clients /\ ProvOf(r) = "human"
  BY ClientsAssumption DEF Clients, ProvOf
<1>2. CASE Keep(r, k, v)
  <2>1. PICK id \in Ids : Decides(r, k, v, NoOp(id))
    BY <1>2 DEF Keep
  <2>2. id \in LiveFor(r, <<k, "human">>) /\ row[id].val = v
    BY <1>1, <2>1, KeptHasValue
  <2>3. /\ row[id].slot = <<k, "human">> /\ <<k, "human">> \in Slots
        /\ Committed(id) \/ row[id].owner = r
    BY <2>2 DEF LiveFor, Sees, Committed, Slots
  <2>4. row[id].val = Coerce(TypeOf[k], v)
    BY <2>2, <2>3 DEF Stored
  <2>5. row' = row
    BY <1>2 DEF Keep
  <2> QED BY <2>3, <2>4, <2>5 DEF HasFact, Committed
<1>3. CASE AddFirst(r, k, v) \/ Supersede(r, k, v)
  <2>1. ~CoerceFails(TypeOf[k], v)
    BY <1>3 DEF AddFirst, Supersede, Decides
  <2>2. ASSUME NEW n \in Ids, NEW st,
               row' = [row EXCEPT ![n] = Row(st, r, <<k, ProvOf(r)>>, Coerce(TypeOf[k], v))]
        PROVE  HasFact(k, v, r)'
    <3> DEFINE p == <<k, ProvOf(r)>>
               x == Coerce(TypeOf[k], v)
    <3>1. row'[n].owner = r /\ row'[n].slot = p /\ row'[n].val = x
      <4>1. row' = [row EXCEPT ![n] = Row(st, r, p, x)]
        BY <2>2
      <4>2. row \in [Ids -> Rows]
        BY DEF TrailInv, IndexInv, TypeOK
      <4> HIDE DEF p, x
      <4>3. row'[n] = Row(st, r, p, x)
        BY <4>1, <4>2
      <4> QED BY <4>3 DEF Row
    <3> QED BY <1>1, <3>1 DEF HasFact
  <2>3. CASE AddFirst(r, k, v)
    BY <2>2, <2>3 DEF AddFirst
  <2>4. CASE Supersede(r, k, v)
    BY <2>2, <2>4 DEF Supersede
  <2> QED BY <1>3, <2>3, <2>4
<1> QED BY <1>2, <1>3 DEF Assertion

LEMMA MaterialisedStep ==
  ASSUME FactInv, DeskNext
  PROVE  Materialised'
PROOF
<1> SUFFICES ASSUME NEW r \in Reviewers, NEW i, i = desk'[r].item,
                    NEW k, k = item'[i].key, NEW v, v = desk'[r].val,
                    pc'[r] # "idle", left'[r] = 0, desk'[r].action # "reject"
             PROVE  k \in Keys /\ HasFact(k, v, r)'
  BY DEF Materialised
<1>1. TrailInv /\ DeskInv /\ Stored /\ Materialised /\ r \in Clients
  BY DeskTypes DEF FactInv
<1>2. PICK c \in Clients : Does(c)
  BY <1>1, DeskDoes
<1>3. ASSUME pc[r] # "idle", left[r] = 0, desk[r].action = desk'[r].action,
             desk[r].item = i, desk[r].val = v, item[i].key = k
      PROVE  k \in Keys /\ HasFact(k, v, r)'
  <2>1. k \in Keys /\ HasFact(k, v, r)
    BY <1>1, <1>3 DEF Materialised
  <2> QED BY <1>1, <1>2, <2>1, HasFactLasts
<1>4. CASE Review(r)
  <2>1. /\ pc[r] # "idle" /\ desk' = desk /\ item' = item
    <3>1. left'[r] # 1 /\ pc'[r] # "idle"
      OBVIOUS
    <3> QED BY <1>1, <1>4, <3>1, ReviewMoves DEF deskVars
  <2>2. CASE left[r] = 0
    BY <1>3, <2>1, <2>2
  <2>3. CASE Materialise(r)
    <3>1. k = Attribute(r) /\ v = desk[r].val
      BY <2>1 DEF Attribute
    <3> QED BY <1>1, <2>3, <3>1, Materialises, AssertionHasFact
  <2>4. CASE Reject(r)
    BY <2>1, <2>4 DEF Reject
  <2>5. CASE Open(r)
    BY <1>1, <2>1, <2>5 DEF Open, Begin
  <2>6. CASE Flushing(r)
    BY <2>2, <2>6 DEF Flushing, Retire, InsertRow, txVars, AddReplacement, LastFlush, FlushDone
  <2>7. CASE Rollback(r) \/ Commit(r)
    BY <1>1, <2>7, DeskTypes DEF Rollback, Commit, Ends
  <2> QED BY <1>4, <2>2, <2>3, <2>4, <2>5, <2>6, <2>7
          DEF Review, Refuse, BadValue, CutShort, UniqueViolation, DeadlockVictim, Crash
<1>5. CASE /\ pc'[r] = pc[r] /\ left'[r] = left[r] /\ desk'[r].item = desk[r].item
           /\ desk'[r].action = desk[r].action /\ desk'[r].val = desk[r].val
  <2>1. i \in Items /\ item[i].status \in Shown
    BY <1>1, <1>5, DeskTypes DEF DeskInv, AtDesk, DeskRows
  <2>2. item[i].key = k
    BY <1>1, <2>1, ShownStays
  <2> QED BY <1>3, <1>5, <2>2
<1> QED BY <1>1, <1>4, <1>5, DeskCases

LEMMA ResolvedHasFactStep ==
  ASSUME FactInv, DeskNext
  PROVE  ResolvedHasFact'
PROOF
<1> DEFINE Seen(k, v) == \E f \in Ids : /\ row'[f].status = "committed"
                                        /\ row'[f].slot = <<k, "human">>
                                        /\ row'[f].val = Coerce(TypeOf[k], v)
<1> SUFFICES \A i \in Items : item'[i].status \in {"accepted", "edited"} =>
               item'[i].key \in Keys /\ Seen(item'[i].key, item'[i].val)
  BY DEF ResolvedHasFact, Committed
<1> HIDE DEF Seen
<1> SUFFICES ASSUME NEW i \in Items, NEW k, k = item'[i].key, NEW v, v = item'[i].val,
                    item'[i].status \in {"accepted", "edited"}
             PROVE  k \in Keys /\ Seen(k, v)
  OBVIOUS
<1>1. TrailInv /\ DeskInv /\ Materialised /\ ResolvedHasFact
  BY DEF FactInv
<1>2. CASE item'[i] = item[i]
  <2>1. PICK c \in Clients : Does(c)
    BY <1>1, DeskDoes
  <2>2. k \in Keys
    BY <1>1, <1>2 DEF ResolvedHasFact
  <2>3. PICK f \in Ids : /\ Committed(f) /\ row[f].slot = <<k, "human">>
                         /\ row[f].val = Coerce(TypeOf[k], v)
    BY <1>1, <1>2 DEF ResolvedHasFact
  <2>4. /\ row'[f].status = "committed" /\ row'[f].slot = row[f].slot
        /\ row'[f].val = row[f].val
    BY <1>1, <2>1, <2>3, FactLasts
  <2> QED BY <2>2, <2>3, <2>4 DEF Seen
<1>3. ASSUME NEW r \in Reviewers, Commit(r), Resolve(r), desk[r].item = i
      PROVE  k \in Keys /\ Seen(k, v)
  <2>1. item'[i].status = StatusOf(desk[r].action) /\ k = item[i].key
    BY <1>1, <1>3, Verdict
  <2>2. desk[r].action # "reject"
    BY <2>1 DEF StatusOf
  <2>3. v = desk[r].val
    BY <1>1, <1>3, <2>2, Verdict
  <2>4. pc[r] = "commit" /\ left[r] = 0 /\ r \in Clients
    BY <1>1, <1>3, DeskTypes DEF Commit, DeskInv, AtDesk
  <2>5. k \in Keys /\ HasFact(k, v, r)
    BY <1>1, <1>3, <2>1, <2>2, <2>3, <2>4 DEF Materialised
  <2>6. PICK f \in Ids : /\ Committed(f) \/ row[f].owner = r
                         /\ row[f].slot = <<k, "human">>
                         /\ row[f].val = Coerce(TypeOf[k], v)
    BY <2>5 DEF HasFact
  <2>7. /\ row'[f].status = "committed" /\ row'[f].slot = row[f].slot
        /\ row'[f].val = row[f].val
    BY <1>1, <1>3, <2>4, <2>6, CommitDoes DEF TrailInv, Committed
  <2> QED BY <2>5, <2>6, <2>7 DEF Seen
<1>4. CASE item'[i].status \in {"unused", "added", "pending"}
  BY <1>4
<1> QED BY <1>1, <1>2, <1>3, <1>4, ItemCases

LEMMA FactInvInit == DeskInit => FactInv
PROOF
<1> SUFFICES ASSUME DeskInit
             PROVE  FactInv
  OBVIOUS
<1>1. TrailInv /\ DeskInv
  BY TrailInit, DeskInvInit DEF DeskInit
<1>2. Stored
  <2>1. Unused.slot \notin Slots
    BY DEF Unused, Slots, Nobody
  <2> QED BY <2>1 DEF DeskInit, Init, Stored
<1>3. Materialised
  BY DEF DeskInit, Materialised, Idle
<1>4. ResolvedHasFact
  BY DEF DeskInit, ResolvedHasFact, Blank
<1> QED BY <1>1, <1>2, <1>3, <1>4 DEF FactInv

LEMMA FactInvStep == FactInv /\ [DeskNext]_allVars => FactInv'
PROOF
<1> SUFFICES ASSUME FactInv, [DeskNext]_allVars
             PROVE  FactInv'
  OBVIOUS
<1>1. TrailInv' /\ DeskInv'
  BY DeskStepIsStep, TrailStep, DeskInvStep DEF FactInv
<1>2. CASE DeskNext
  <2>1. Stored'
    BY <1>2, DeskDoes, StoredStep DEF FactInv
  <2> QED BY <1>1, <1>2, <2>1, MaterialisedStep, ResolvedHasFactStep DEF FactInv
<1>3. CASE UNCHANGED allVars
  <2>1. Stored' /\ ResolvedHasFact'
    BY <1>3 DEF FactInv, Stored, ResolvedHasFact, Committed, allVars, vars
  <2>2. Materialised'
    BY <1>3 DEF FactInv, Materialised, HasFact, Committed, allVars, vars
  <2> QED BY <1>1, <2>1, <2>2 DEF FactInv
<1> QED BY <1>2, <1>3

\* No item says accepted or edited without its fact: the fact is written, or
\* found written, by the transaction that commits the verdict (review.py
\* resolve_review_item, _materialise_human_datapoint).
THEOREM FactBehindVerdict == DeskSpec => []ResolvedHasFact
PROOF
<1>1. FactInv => ResolvedHasFact
  BY DEF FactInv
<1> QED BY <1>1, FactInvInit, FactInvStep, PTL DEF DeskSpec
=============================================================================
