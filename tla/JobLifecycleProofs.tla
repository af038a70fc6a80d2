------------------------- MODULE JobLifecycleProofs -------------------------
(***************************************************************************)
(* What holds of a job for any number of runs, replay requests and         *)
(* deliveries, wherever exceptions are raised.                             *)
(***************************************************************************)
EXTENDS JobLifecycle, TLAPS

\* An UPDATE of the changed columns leaves a row of the table.
LEMMA WrittenType ==
  ASSUME TypeOK, NEW c \in Clients, seen[c] # NotRead, NEW row \in Row,
         NEW stamps
  PROVE  Written(c, row, stamps) \in Row
PROOF
<1>1. job \in Row
  BY DEF TypeOK
<1> QED BY <1>1 DEF Written, Row

\* A row that was read has the columns of the table.
LEMMA SeenType ==
  ASSUME TypeOK, NEW c \in Clients, seen[c] # NotRead
  PROVE  seen[c] \in Row
BY DEF TypeOK

\* What a run writes last is a row of the table.
LEMMA EndsType ==
  ASSUME TypeOK, NEW r \in Runs, seen[r] # NotRead,
         NEW status \in Statuses, Ends(r, status)
  PROVE  job' \in Row
PROOF
<1>1. r \in Clients
  BY DEF Clients
<1>2. seen[r] \in Row
  BY <1>1, SeenType
<1>3. [seen[r] EXCEPT !.status = status, !.finished = TRUE] \in Row
  BY <1>2 DEF Row
<1> QED BY <1>1, <1>3, WrittenType DEF Ends

\* Every step of a run keeps the types.
LEMMA RunType ==
  ASSUME TypeOK, NEW r \in Runs,
         Start(r) \/ RunStep(r) \/ Raise(r) \/ Crash(r)
  PROVE  TypeOK'
PROOF
<1>1. r \in Clients
  BY DEF Clients
<1>2. CASE Start(r)
  BY <1>1, <1>2 DEF Start, GoTo, TypeOK, RunPcs
<1>3. CASE Read(r)
  BY <1>1, <1>3 DEF Read, TypeOK
<1>4. CASE Lift(r)
  <2>1. seen[r] \in Row
    BY <1>1, <1>4, SeenType DEF Lift, HasRead
  <2> DEFINE lifted == [seen[r] EXCEPT !.status = "running",
                                       !.attempts = @ + 1,
                                       !.started = TRUE]
  <2>2. lifted \in Row
    <3>1. seen[r] \in [status : Statuses, attempts : Nat,
                       started : BOOLEAN, finished : BOOLEAN]
      BY <2>1 DEF Row
    <3>2. seen[r].attempts + 1 \in Nat
      BY <3>1
    <3> QED BY <3>1, <3>2 DEF Row, Statuses
  <2>3. job' \in Row
    BY <1>1, <1>4, <2>2, WrittenType DEF Lift, HasRead
  <2> QED BY <1>1, <1>4, <2>3 DEF Lift, GoTo, Forget, TypeOK, RunPcs
<1>5. CASE Extract(r)
  BY <1>1, <1>5 DEF Extract, GoTo, TypeOK, RunPcs
<1>6. CASE Persist(r)
  BY <1>1, <1>6 DEF Persist, GoTo, TypeOK, RunPcs
<1>7. CASE Pick(r)
  BY <1>1, <1>7 DEF Pick, GoTo, TypeOK, RunPcs
<1>8. CASE Embed(r)
  BY <1>1, <1>8 DEF Embed, GoTo, TypeOK, RunPcs
<1>9. CASE Finish(r)
  <2>1. job' \in Row
    BY <1>9, EndsType DEF Finish, HasRead, Statuses
  <2> QED BY <1>1, <1>9, <2>1 DEF Finish, GoTo, Forget, TypeOK, RunPcs
<1>10. CASE Terminate(r)
  <2>1. job' \in Row
    BY <1>10, EndsType DEF Terminate, HasRead, Statuses
  <2> QED BY <1>1, <1>10, <2>1 DEF Terminate, GoTo, Forget, TypeOK, RunPcs
<1>11. CASE DeadLetter(r)
  <2>1. job' \in Row
    BY <1>11, EndsType DEF DeadLetter, HasRead, Statuses
  <2> QED BY <1>1, <1>11, <2>1 DEF DeadLetter, GoTo, Forget, TypeOK, RunPcs
<1>12. CASE SecondEntry(r)
  BY <1>1, <1>12 DEF SecondEntry, Abandon, GoTo, Forget, TypeOK, RunPcs
<1>13. CASE Raise(r)
  BY <1>1, <1>13 DEF Raise, Abandon, GoTo, Forget, TypeOK, RunPcs
<1>14. CASE Crash(r)
  BY <1>1, <1>14, BoundsAssumption
     DEF Crash, Abandon, GoTo, Forget, TypeOK, RunPcs
<1> QED BY <1>2, <1>3, <1>4, <1>5, <1>6, <1>7, <1>8, <1>9, <1>10, <1>11,
           <1>12, <1>13, <1>14 DEF RunStep

\* Every step of a replay request keeps the types.
LEMMA ReplayType ==
  ASSUME TypeOK, NEW a \in Admins, Ask(a) \/ Read(a) \/ Replay(a)
  PROVE  TypeOK'
PROOF
<1>1. a \in Clients
  BY DEF Clients
<1>2. CASE Ask(a)
  BY <1>1, <1>2 DEF Ask, GoTo, TypeOK
<1>3. CASE Read(a)
  BY <1>1, <1>3 DEF Read, TypeOK
<1>4. CASE Replay(a)
  <2>1. [status |-> "queued", attempts |-> 0,
         started |-> FALSE, finished |-> FALSE] \in Row
    BY DEF Row, Statuses
  <2>2. job' \in Row
    BY <1>1, <1>4, <2>1, WrittenType DEF Replay, HasRead
  <2> QED BY <1>1, <1>4, <2>2, BoundsAssumption
          DEF Replay, GoTo, Forget, TypeOK, RunPcs
<1> QED BY <1>2, <1>3, <1>4

\* Every state of a job is well typed: the partial updates of overlapping
\* transactions always leave a row of the table.
THEOREM TypeCorrect == Spec => []TypeOK
PROOF
<1>1. Init => TypeOK
  <2> SUFFICES ASSUME Init
               PROVE  TypeOK
    OBVIOUS
  <2>1. job \in Row
    BY DEF Init, Row, Statuses
  <2>2. entry \in BOOLEAN /\ items \in Nat /\ bare \subseteq Runs
    BY DEF Init
  <2>3. waiting \in Nat /\ sent \in 1..MaxSent
    BY BoundsAssumption DEF Init
  <2>4. pc \in [Clients -> RunPcs \cup {"replay"}]
    BY DEF Init, RunPcs
  <2>5. seen \in [Clients -> Row \cup {NotRead}]
    BY DEF Init
  <2>6. picked \in [Runs -> SUBSET Runs]
    BY DEF Init
  <2> QED BY <2>1, <2>2, <2>3, <2>4, <2>5, <2>6 DEF TypeOK
<1>2. TypeOK /\ [Next]_vars => TypeOK'
  <2> SUFFICES ASSUME TypeOK, [Next]_vars
               PROVE  TypeOK'
    OBVIOUS
  <2>1. CASE Double
    BY <2>1, BoundsAssumption DEF Double, TypeOK
  <2>2. CASE \E r \in Runs : Start(r) \/ RunStep(r) \/ Raise(r) \/ Crash(r)
    BY <2>2, RunType
  <2>3. CASE \E a \in Admins : Ask(a) \/ Read(a) \/ Replay(a)
    BY <2>3, ReplayType
  <2>4. CASE UNCHANGED vars
    BY <2>4 DEF vars, TypeOK
  <2> QED BY <2>1, <2>2, <2>3, <2>4 DEF Next
<1> QED BY <1>1, <1>2, PTL DEF Spec

-----------------------------------------------------------------------------
\* The status an UPDATE leaves is the one the client set or the one that was
\* there.
LEMMA WrittenStatus ==
  ASSUME TypeOK, NEW c \in Clients, NEW row, NEW stamps
  PROVE  Written(c, row, stamps).status \in {row.status, job.status}
PROOF
<1>1. "status" \in DOMAIN job
  BY DEF TypeOK, Row
<1> QED BY <1>1 DEF Written

\* A run's step keeps the entry of a job in the DLQ.
LEMMA RunKeepsEntry ==
  ASSUME TypeOK, DlqHasEntry, NEW r \in Runs,
         Start(r) \/ RunStep(r) \/ Raise(r) \/ Crash(r)
  PROVE  DlqHasEntry'
PROOF
<1>1. r \in Clients
  BY DEF Clients
<1>2. CASE Lift(r)
  <2>1. seen[r] \in Row
    BY <1>1, <1>2, SeenType DEF Lift, HasRead
  <2> DEFINE lifted == [seen[r] EXCEPT !.status = "running",
                                       !.attempts = @ + 1,
                                       !.started = TRUE]
  <2>2. lifted.status = "running"
    BY <2>1 DEF Row
  <2>3. job' = Written(r, lifted, {"started"})
    BY <1>2 DEF Lift
  <2>4. job'.status \in {"running", job.status}
    BY <1>1, <2>2, <2>3, WrittenStatus
  <2> QED BY <1>2, <2>4 DEF Lift, DlqHasEntry
<1>3. ASSUME NEW status, HasRead(r, "finish") \/ HasRead(r, "terminate"),
             Ends(r, status), status # "dlq", UNCHANGED entry
      PROVE  DlqHasEntry'
  <2> DEFINE last == [seen[r] EXCEPT !.status = status, !.finished = TRUE]
  <2>1. seen[r] \in Row
    BY <1>1, <1>3, SeenType DEF HasRead
  <2>2. last.status = status
    BY <2>1 DEF Row
  <2>3. job'.status \in {status, job.status}
    BY <1>1, <1>3, <2>2, WrittenStatus DEF Ends
  <2> QED BY <1>3, <2>3 DEF DlqHasEntry
<1>4. CASE Finish(r)
  BY <1>3, <1>4 DEF Finish
<1>5. CASE Terminate(r)
  BY <1>3, <1>5 DEF Terminate
<1>6. CASE DeadLetter(r)
  BY <1>6 DEF DeadLetter, DlqHasEntry
<1>7. ASSUME UNCHANGED <<job, entry>>
      PROVE  DlqHasEntry'
  BY <1>7 DEF DlqHasEntry
<1> QED BY <1>2, <1>4, <1>5, <1>6, <1>7
        DEF RunStep, Start, Read, Extract, Persist, Pick, Embed, SecondEntry,
            Raise, Crash, Abandon

\* A job whose status is dlq has its entry, whatever runs and replays of it
\* overlap and wherever they are cut short: replay relies on finding it.
THEOREM DlqEntryKept == Spec => []DlqHasEntry
PROOF
<1>1. Init => DlqHasEntry
  BY DEF Init, DlqHasEntry
<1>2. TypeOK /\ DlqHasEntry /\ [Next]_vars => DlqHasEntry'
  <2> SUFFICES ASSUME TypeOK, DlqHasEntry, [Next]_vars
               PROVE  DlqHasEntry'
    OBVIOUS
  <2>1. CASE Double
    BY <2>1 DEF Double, DlqHasEntry
  <2>2. CASE \E r \in Runs : Start(r) \/ RunStep(r) \/ Raise(r) \/ Crash(r)
    BY <2>2, RunKeepsEntry
  <2>3. ASSUME NEW a \in Admins, Ask(a) \/ Read(a) \/ Replay(a)
        PROVE  DlqHasEntry'
    <3>1. CASE Ask(a) \/ Read(a)
      BY <3>1 DEF Ask, Read, DlqHasEntry
    <3>2. CASE Replay(a)
      <4>1. a \in Clients
        BY DEF Clients
      <4>2. job'.status \in {"queued", job.status}
        BY <3>2, <4>1, WrittenStatus DEF Replay
      <4> QED BY <3>2, <4>2 DEF Replay, DlqHasEntry
    <3> QED BY <2>3, <3>1, <3>2
  <2>4. CASE UNCHANGED vars
    BY <2>4 DEF vars, DlqHasEntry
  <2> QED BY <2>1, <2>2, <2>3, <2>4 DEF Next
<1> QED BY <1>1, <1>2, TypeCorrect, PTL DEF Spec

-----------------------------------------------------------------------------
(* How a job ends.                                                         *)

\* Run r will still write a terminal status: it has not read the row for its
\* last transaction, or has read one that it will change.
Owes(r) ==
  \/ pc[r] \in {"lift", "extract", "persist", "embed", "write"}
  \/ /\ pc[r] \in {"finish", "terminate", "dlq"}
     /\ seen[r] = NotRead \/ seen[r].status \notin Terminal

\* A row is read within a transaction only.
Fresh ==
  \A c \in Clients : pc[c] \in {"idle", "extract", "persist", "embed", "write"} => seen[c] = NotRead

\* A job that has not ended has somebody who will end it, or an entry.
Owed ==
  \/ job.status \in Terminal
  \/ entry
  \/ waiting > 0
  \/ \E r \in Runs : Owes(r)

\* A run that writes last ends the job, unless the row it has read was ended.
LEMMA EndsStatus ==
  ASSUME TypeOK, NEW r \in Runs, seen[r] # NotRead,
         NEW status \in Terminal, Ends(r, status)
  PROVE  /\ job'.status \in Terminal \/ seen[r].status \in Terminal
         /\ job'.status \in {status, job.status}
         /\ seen[r] = job => job'.status = status
PROOF
<1>1. r \in Clients
  BY DEF Clients
<1>2. seen[r] \in Row
  BY <1>1, SeenType
<1> DEFINE last == [seen[r] EXCEPT !.status = status, !.finished = TRUE]
<1>3. last.status = status
  BY <1>2 DEF Row
<1>4. "status" \in DOMAIN job
  BY DEF TypeOK, Row
<1>5. job' = Written(r, last, {"finished"})
  BY DEF Ends
<1> HIDE DEF last
<1>6. job'.status = IF status # seen[r].status THEN status ELSE job.status
  BY <1>3, <1>4, <1>5 DEF Written
<1> QED BY <1>6

LEMMA FreshKept ==
  ASSUME TypeOK, Fresh, [Next]_vars
  PROVE  Fresh'
PROOF
<1> SUFFICES ASSUME NEW d \in Clients, pc'[d] \in {"idle", "extract", "persist", "embed", "write"}
             PROVE  seen'[d] = NotRead
  BY DEF Fresh
<1>1. ASSUME NEW c \in Clients, pc' = pc, c = d => pc[c] \in {"lift", "finish", "terminate", "dlq", "replay"},
             \A b \in Clients \ {c} : seen'[b] = seen[b]
      PROVE  seen'[d] = NotRead
  BY <1>1 DEF Fresh
<1>2. ASSUME NEW c \in Clients, seen'[c] = NotRead,
             \A b \in Clients \ {c} : seen'[b] = seen[b] /\ pc'[b] = pc[b]
      PROVE  seen'[d] = NotRead
  BY <1>2 DEF Fresh
<1>3. ASSUME NEW c \in Clients, Read(c)
      PROVE  seen'[d] = NotRead
  BY <1>3 DEF Read, Fresh, TypeOK
<1>4. ASSUME NEW r \in Runs, Start(r) \/ RunStep(r) \/ Raise(r) \/ Crash(r)
      PROVE  seen'[d] = NotRead
  <2>1. r \in Clients
    BY DEF Clients
  <2>2. CASE Read(r)
    BY <1>3, <2>1, <2>2
  <2>3. CASE Start(r) \/ Extract(r) \/ Persist(r) \/ Pick(r) \/ Embed(r)
    BY <2>1, <2>3 DEF Start, Extract, Persist, Pick, Embed, GoTo, Fresh, TypeOK
  <2>4. CASE Lift(r) \/ Finish(r) \/ Terminate(r) \/ DeadLetter(r) \/ SecondEntry(r)
             \/ Raise(r) \/ Crash(r)
    <3>1. GoTo(r, pc'[r]) /\ Forget(r)
      BY <2>1, <2>4 DEF Lift, Finish, Terminate, DeadLetter, SecondEntry, Raise, Crash, Abandon, GoTo,
                        TypeOK
    <3> QED BY <1>2, <2>1, <3>1 DEF GoTo, Forget, TypeOK
  <2> QED BY <1>4, <2>2, <2>3, <2>4 DEF RunStep
<1>5. ASSUME NEW a \in Admins, Ask(a) \/ Read(a) \/ Replay(a)
      PROVE  seen'[d] = NotRead
  <2>1. a \in Clients
    BY DEF Clients
  <2>2. CASE Ask(a)
    BY <2>1, <2>2 DEF Ask, GoTo, Fresh, TypeOK
  <2>3. CASE Replay(a)
    BY <2>1, <2>3 DEF Replay, GoTo, Forget, Fresh, TypeOK
  <2> QED BY <1>3, <1>5, <2>1, <2>2, <2>3
<1>6. CASE Double \/ UNCHANGED vars
  BY <1>6 DEF Double, vars, Fresh
<1> QED BY <1>4, <1>5, <1>6 DEF Next

\* Only the owing run itself stops owing, and it does so by ending the job.
LEMMA OthersOwe ==
  ASSUME TypeOK, NEW c \in Clients, NEW r \in Runs \ {c}, Owes(r),
         \A d \in Clients \ {c} : pc'[d] = pc[d] /\ seen'[d] = seen[d]
  PROVE  Owes(r)'
BY DEF Owes, Clients

LEMMA RunKeepsOwed ==
  ASSUME TypeOK, Fresh, Owed, Raising = {}, NEW r \in Runs,
         Start(r) \/ RunStep(r) \/ Raise(r) \/ Crash(r)
  PROVE  Owed'
PROOF
<1>1. r \in Clients
  BY DEF Clients
<1>2. \A d \in Clients \ {r} : pc'[d] = pc[d] /\ seen'[d] = seen[d]
  BY DEF Start, RunStep, Read, Lift, Extract, Persist, Pick, Embed, Finish, Terminate, DeadLetter,
         SecondEntry, Raise, Crash, Abandon, GoTo, Forget, TypeOK
<1>3. ASSUME Owes(r)'
      PROVE  Owed'
  BY <1>3 DEF Owed
<1>4. ASSUME NEW q \in Runs, Owes(q), q # r
      PROVE  Owed'
  BY <1>1, <1>2, <1>4, OthersOwe DEF Owed
<1>5. CASE Start(r) \/ Lift(r) \/ Persist(r) \/ Pick(r)
  BY <1>1, <1>3, <1>5 DEF Start, Lift, Persist, Pick, GoTo, TypeOK, Owes
<1>6. CASE Extract(r) \/ Embed(r)
  <2>1. pc'[r] \in {"persist", "terminate", "dlq", "finish"} /\ seen'[r] = NotRead
    BY <1>1, <1>6 DEF Extract, Embed, GoTo, Fresh, TypeOK
  <2> QED BY <1>3, <2>1 DEF Owes
<1>7. CASE Read(r)
  <2>1. UNCHANGED <<job, entry, waiting, pc>> /\ seen'[r] = job
    BY <1>1, <1>7 DEF Read, TypeOK
  <2>2. Owes(r) /\ job.status \notin Terminal => Owes(r)'
    BY <2>1 DEF Owes
  <2> QED BY <1>3, <1>4, <2>1, <2>2 DEF Owed
<1>8. CASE Crash(r)
  BY <1>8 DEF Crash, Owed, TypeOK
<1>9. CASE DeadLetter(r) \/ SecondEntry(r)
  BY <1>9 DEF DeadLetter, SecondEntry, Abandon, Owed
<1>10. ASSUME NEW status \in {"succeeded", "failed"}, Ends(r, status), UNCHANGED <<entry, waiting>>,
              HasRead(r, "finish") \/ HasRead(r, "terminate")
       PROVE  Owed'
  <2>1. job'.status \in Terminal \/ seen[r].status \in Terminal
    BY <1>10, EndsStatus DEF HasRead, Terminal
  <2>2. job.status \in Terminal => job'.status \in Terminal
    BY <1>10, EndsStatus DEF HasRead, Terminal
  <2>3. seen[r].status \in Terminal => ~Owes(r)
    BY <1>10 DEF HasRead, Owes
  <2> QED BY <1>4, <1>10, <2>1, <2>2, <2>3 DEF Owed
<1>11. CASE Finish(r) \/ Terminate(r)
  BY <1>10, <1>11 DEF Finish, Terminate
<1>12. ~Raise(r)
  BY DEF Raise
<1> QED BY <1>5, <1>6, <1>7, <1>8, <1>9, <1>11, <1>12 DEF RunStep

OwedInv == Raising = {} /\ TypeOK /\ Fresh /\ Owed

LEMMA OwedStep == OwedInv /\ [Next]_vars /\ TypeOK' => OwedInv'
PROOF
<1> SUFFICES ASSUME OwedInv, [Next]_vars, TypeOK'
             PROVE  Owed'
  BY FreshKept DEF OwedInv
<1> USE DEF OwedInv
<1>1. CASE Double
  BY <1>1 DEF Double, Owed, TypeOK
<1>2. CASE \E r \in Runs : Start(r) \/ RunStep(r) \/ Raise(r) \/ Crash(r)
  BY <1>2, RunKeepsOwed
<1>3. ASSUME NEW a \in Admins, Ask(a) \/ Read(a) \/ Replay(a)
      PROVE  Owed'
  <2>1. a \in Clients /\ a \notin Runs
    BY ClientsAssumption DEF Clients
  <2>2. CASE Replay(a)
    BY <2>2 DEF Replay, Owed, TypeOK
  <2>3. CASE Ask(a) \/ Read(a)
    <3>1. \A d \in Clients \ {a} : pc'[d] = pc[d] /\ seen'[d] = seen[d]
      BY <2>3 DEF Ask, Read, GoTo, TypeOK
    <3>2. UNCHANGED <<job, entry, waiting>>
      BY <2>3 DEF Ask, Read
    <3>3. \A r \in Runs : Owes(r) => Owes(r)'
      BY <2>1, <3>1, OthersOwe
    <3> QED BY <3>2, <3>3 DEF Owed
  <2> QED BY <1>3, <2>2, <2>3
<1>4. CASE UNCHANGED vars
  BY <1>4 DEF vars, Owed, Owes
<1> QED BY <1>1, <1>2, <1>3, <1>4 DEF Next

\* Where no exception goes uncaught, a quiet job that has not ended has an entry
\* already, whatever deliveries, dying workers and replays overlap, and whichever
\* columns their updates leave to each other: only the second entry that dlq_entries
\* refuses can leave a job RUNNING.
THEOREM QuietWithoutEntryIsTerminal ==
  Raising = {} /\ Spec => [](Quiet /\ ~entry => job.status \in Terminal)
PROOF
<1>1. Raising = {} /\ TypeOK /\ Init => OwedInv
  BY DEF Init, OwedInv, Fresh, Owed
<1>2. OwedInv => (Quiet /\ ~entry => job.status \in Terminal)
  BY DEF OwedInv, Owed, Owes, Quiet
<1> QED BY <1>1, <1>2, OwedStep, TypeCorrect, PTL DEF Spec

-----------------------------------------------------------------------------
(* A job that is delivered again only when its worker died.                *)

\* Nobody replays or doubles the job and no exception goes uncaught.
Redelivered == Raising = {} /\ Admins = {} /\ ~Doubling

\* One delivery waits, one run is under way, or the job is quiet and has ended.
Alone ==
  /\ waiting \in {0, 1}
  /\ waiting = 1 => \A r \in Runs : pc[r] = "idle"
  /\ \A r, q \in Runs : pc[r] # "idle" /\ pc[q] # "idle" => r = q
  /\ entry => Quiet

\* What it has read is still so, and it embeds all that is bare.
Reads ==
  \A r \in Runs :
    /\ seen[r] # NotRead => seen[r] = job
    /\ pc[r] = "write" => picked[r] = bare
    /\ pc[r] = "finish" => bare = {}

AloneInv ==
  Redelivered /\ TypeOK /\ Fresh /\ Alone /\ Reads /\ QuietIsTerminal /\ AllEmbedded

LEMMA AloneRuns ==
  ASSUME AloneInv, NEW r \in Runs, Start(r) \/ RunStep(r) \/ Crash(r), TypeOK', Fresh'
  PROVE  AloneInv'
PROOF
<1>1. Clients = Runs /\ r \in Clients
  BY DEF AloneInv, Redelivered, Clients
<1> DEFINE others == \A q \in Runs \ {r} : /\ pc'[q] = pc[q] /\ seen'[q] = seen[q]
                                           /\ picked'[q] = picked[q]
<1>2. others
  BY <1>1 DEF Start, RunStep, Read, Lift, Extract, Persist, Pick, Embed, Finish, Terminate, DeadLetter,
              SecondEntry, Crash, Abandon, GoTo, Forget, TypeOK, AloneInv
<1>3. \A q \in Runs \ {r} : pc[q] = "idle" /\ seen[q] = NotRead
  <2>1. \A q \in Runs : pc[q] = "idle" => seen[q] = NotRead
    BY <1>1 DEF AloneInv, Fresh
  <2>2. CASE Start(r)
    <3>1. waiting = 1
      BY <2>2 DEF Start, AloneInv, Alone
    <3> QED BY <2>1, <3>1 DEF AloneInv, Alone
  <2>3. CASE ~Start(r)
    <3>1. pc[r] # "idle"
      BY <2>3 DEF RunStep, Read, Lift, Extract, Persist, Pick, Embed, Finish, Terminate, DeadLetter,
                  SecondEntry, Crash, HasRead
    <3> QED BY <2>1, <3>1 DEF AloneInv, Alone
  <2> QED BY <2>2, <2>3
<1> HIDE DEF others
<1>4. ASSUME pc'[r] # "idle", waiting' = 0, UNCHANGED entry, ~entry,
             seen'[r] # NotRead => seen'[r] = job',
             pc'[r] = "write" => picked'[r] = bare',
             pc'[r] = "finish" => bare' = {}
      PROVE  AloneInv'
  <2>1. ~Quiet'
    BY <1>4 DEF Quiet
  <2>2. Alone'
    BY <1>2, <1>3, <1>4 DEF Alone, others
  <2>3. Reads'
    BY <1>2, <1>3, <1>4 DEF Reads, others
  <2> QED BY <2>1, <2>2, <2>3 DEF AloneInv, Redelivered, QuietIsTerminal, AllEmbedded
<1>5. CASE Start(r)
  <2>1. waiting = 1 /\ ~entry
    BY <1>5 DEF Start, AloneInv, Alone, Quiet
  <2>2. seen[r] = NotRead
    BY <1>1, <1>5 DEF Start, AloneInv, Fresh
  <2> QED BY <1>4, <1>5, <2>1, <2>2 DEF Start, GoTo, AloneInv, TypeOK
<1>6. ASSUME pc[r] # "idle"
      PROVE  waiting = 0 /\ ~entry
  BY <1>6 DEF AloneInv, Alone, Quiet
<1>7. CASE Read(r)
  BY <1>1, <1>4, <1>6, <1>7 DEF Read, AloneInv, TypeOK, Reads
<1>8. CASE Lift(r) \/ Extract(r) \/ Persist(r) \/ Pick(r)
  <2>1. pc[r] # "idle" /\ pc'[r] \notin {"idle", "finish"} /\ UNCHANGED <<waiting, entry>>
    BY <1>1, <1>8 DEF Lift, Extract, Persist, Pick, HasRead, GoTo, AloneInv, TypeOK
  <2>2. seen'[r] = NotRead
    BY <1>1, <1>8 DEF Lift, Extract, Persist, Pick, Forget, AloneInv, TypeOK, Fresh
  <2>3. pc'[r] = "write" => picked'[r] = bare'
    BY <1>1, <1>8 DEF Lift, Extract, Persist, Pick, GoTo, AloneInv, TypeOK
  <2> QED BY <1>4, <1>6, <2>1, <2>2, <2>3
<1>9. CASE Embed(r)
  <2>1. pc[r] = "write" /\ pc'[r] = "finish" /\ UNCHANGED <<waiting, entry>> /\ bare' = {}
    BY <1>1, <1>9 DEF Embed, GoTo, AloneInv, TypeOK, Reads
  <2>2. seen'[r] = NotRead
    BY <1>1, <1>9 DEF Embed, AloneInv, TypeOK, Fresh
  <2> QED BY <1>4, <1>6, <2>1, <2>2
<1>10. ASSUME pc'[r] = "idle", seen'[r] = NotRead, waiting' \in {0, 1},
              waiting' = 0 => job'.status \in Terminal /\ (job'.status = "succeeded" => bare' = {}),
              entry' => waiting' = 0
       PROVE  AloneInv'
  <2>1. \A q \in Runs : pc'[q] = "idle" /\ seen'[q] = NotRead
    BY <1>2, <1>3, <1>10 DEF others
  <2>2. Alone' /\ Reads' /\ QuietIsTerminal' /\ AllEmbedded'
    BY <1>10, <2>1 DEF Alone, Reads, Quiet, QuietIsTerminal, AllEmbedded
  <2> QED BY <2>2 DEF AloneInv, Redelivered
<1>11. ASSUME NEW status \in Terminal, Ends(r, status), GoTo(r, "idle"), Forget(r),
              seen[r] # NotRead, pc[r] # "idle", UNCHANGED <<bare, waiting>>,
              status = "succeeded" => bare = {}
       PROVE  AloneInv'
  <2>1. job'.status = status
    BY <1>11, EndsStatus DEF AloneInv, Reads
  <2>2. pc'[r] = "idle" /\ seen'[r] = NotRead
    BY <1>1, <1>11 DEF GoTo, Forget, AloneInv, TypeOK
  <2> QED BY <1>6, <1>10, <1>11, <2>1, <2>2
<1>12. CASE Finish(r)
  <2>1. bare = {}
    BY <1>12 DEF Finish, HasRead, AloneInv, Reads
  <2> QED BY <1>11, <1>12, <2>1 DEF Finish, HasRead, Terminal
<1>13. CASE Terminate(r)
  BY <1>11, <1>13 DEF Terminate, HasRead, Terminal
<1>14. CASE DeadLetter(r)
  BY <1>11, <1>14 DEF DeadLetter, HasRead, Terminal
<1>15. ~SecondEntry(r)
  BY <1>6 DEF SecondEntry, HasRead
<1>16. CASE Crash(r)
  <2>1. pc[r] # "idle" /\ waiting' = waiting + 1 /\ UNCHANGED entry
    BY <1>16 DEF Crash, Abandon
  <2>2. pc'[r] = "idle" /\ seen'[r] = NotRead
    BY <1>1, <1>16 DEF Crash, Abandon, GoTo, Forget, AloneInv, TypeOK
  <2>3. waiting' = 1 /\ ~entry'
    BY <1>6, <2>1
  <2> QED BY <1>10, <2>2, <2>3
<1> QED BY <1>5, <1>7, <1>8, <1>9, <1>12, <1>13, <1>14, <1>15, <1>16 DEF RunStep

LEMMA AloneStep == AloneInv /\ [Next]_vars /\ TypeOK' => AloneInv'
PROOF
<1> SUFFICES ASSUME AloneInv, [Next]_vars, TypeOK'
             PROVE  AloneInv'
  OBVIOUS
<1>1. Fresh'
  BY FreshKept DEF AloneInv
<1>2. CASE \E r \in Runs : Start(r) \/ RunStep(r) \/ Crash(r)
  BY <1>1, <1>2, AloneRuns
<1>3. ~Double /\ ~(\E r \in Runs : Raise(r)) /\ Admins = {}
  BY DEF AloneInv, Redelivered, Double, Raise
<1>4. CASE UNCHANGED vars
  BY <1>1, <1>4 DEF vars, AloneInv, Redelivered, Alone, Reads, Quiet, QuietIsTerminal, AllEmbedded
<1> QED BY <1>2, <1>3, <1>4 DEF Next

LEMMA AloneAlways == Redelivered /\ Spec => []AloneInv
PROOF
<1>1. Redelivered /\ TypeOK /\ Init => AloneInv
  BY DEF Init, AloneInv, Fresh, Alone, Reads, Quiet, QuietIsTerminal, AllEmbedded, Clients
<1> QED BY <1>1, AloneStep, TypeCorrect, PTL DEF Spec

\* A job whose worker may die at any point, any number of times, and that is
\* delivered again each time, is never left quiet without having ended.
THEOREM RedeliveryEndsJob == Redelivered /\ Spec => []QuietIsTerminal
PROOF
<1>1. AloneInv => QuietIsTerminal
  BY DEF AloneInv
<1> QED BY <1>1, AloneAlways, PTL

\* The run that ends it well has embedded what its dead predecessors persisted.
THEOREM RedeliveryEmbedsAll == Redelivered /\ Spec => []AllEmbedded
PROOF
<1>1. AloneInv => AllEmbedded
  BY DEF AloneInv
<1> QED BY <1>1, AloneAlways, PTL
=============================================================================
