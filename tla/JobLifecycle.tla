---------------------------- MODULE JobLifecycle ----------------------------
(***************************************************************************)
(* One row of ingestion_jobs and what moves it: the runs of                *)
(* run_ingestion_job (src/axis/ingestion/pipeline.py) and the requests of  *)
(* the replay endpoint (src/axis/api/v1/dlq.py).                           *)
(*                                                                         *)
(* Every transaction reads the row first and writes it at its commit, and  *)
(* the session writes only the columns whose value differs from what was   *)
(* read.  A run spans five transactions, and nothing stops two runs, or a  *)
(* run and a replay, from overlapping.                                     *)
(*                                                                         *)
(* External: the queue.  A run is owed to the job when it is submitted,    *)
(* when it is replayed, and again when the worker process dies in a run;   *)
(* it may also be delivered twice, or be run inline besides.               *)
(* What persist_extraction does to the facts is the subject of FactStore;  *)
(* here its transaction is one step.                                       *)
(***************************************************************************)
EXTENDS Integers, FiniteSets

CONSTANTS
  Runs,      \* slots of the workers for runs of this job
  Admins,    \* replay requests that may be open at a time
  Raising,   \* where an exception, or the job_timeout, may end a run uncaught
  Crashing,  \* may a worker process die?
  Doubling,  \* may a run be started while another one is under way?
  MaxSent    \* bound: deliveries of the job to a worker

Stages   == {"extract", "persist", "embed", "write", "finish"}
Statuses == {"queued", "running", "succeeded", "failed", "dlq"}
Terminal == {"succeeded", "failed", "dlq"}
Clients  == Runs \cup Admins

ASSUME ClientsAssumption == Runs \cap Admins = {}
ASSUME BoundsAssumption  == /\ Raising \subseteq Stages
                            /\ Crashing \in BOOLEAN /\ Doubling \in BOOLEAN
                            /\ MaxSent \in Nat \ {0}

VARIABLES
  job,      \* [status, attempts, started, finished]: started_at and
            \*   finished_at as "is not NULL"
  entry,    \* has the job a row in dlq_entries?
  items,    \* review_items rows made for one doubtful candidate of the text
  bare,     \* runs whose datapoints have no embedding yet
  waiting,  \* deliveries no run has taken up
  sent,     \* deliveries ever made
  pc,       \* by client: where it is
  seen,     \* by client: the row as its transaction read it (NotRead: not yet)
  picked    \* by run: the rows embed_job_datapoints has selected

vars == <<job, entry, items, bare, waiting, sent, pc, seen, picked>>

Row == [status : Statuses, attempts : Nat,
        started : BOOLEAN, finished : BOOLEAN]
NotRead == [status |-> "none"]

RunPcs == {"idle", "lift", "extract", "persist", "embed", "write", "finish",
           "terminate", "dlq"}

Init ==
  /\ job = [status |-> "queued", attempts |-> 0,
            started |-> FALSE, finished |-> FALSE]
  /\ entry = FALSE /\ items = 0 /\ bare = {}
  /\ waiting = 1 /\ sent = 1
  /\ pc = [c \in Clients |-> "idle"]
  /\ seen = [c \in Clients |-> NotRead]
  /\ picked = [r \in Runs |-> {}]

-----------------------------------------------------------------------------
(* Transactions on the job row.                                            *)

GoTo(c, next) == pc' = [pc EXCEPT ![c] = next]
Forget(c)     == seen' = [seen EXCEPT ![c] = NotRead]

\* session.get(IngestionJob, job_id)
Read(c) ==
  /\ pc[c] \in {"lift", "finish", "terminate", "dlq", "replay"}
  /\ seen[c] = NotRead
  /\ seen' = [seen EXCEPT ![c] = job]
  /\ UNCHANGED <<job, entry, items, bare, waiting, sent, pc, picked>>

\* The row after client c's UPDATE: the columns it set to another value than
\* it read, and its stamps (a time is always another one).
Written(c, row, stamps) ==
  [f \in DOMAIN job |->
     IF f \in stamps \/ row[f] # seen[c][f] THEN row[f] ELSE job[f]]

HasRead(c, at) == pc[c] = at /\ seen[c] # NotRead

-----------------------------------------------------------------------------
(* A run.                                                                  *)

\* Mutant: a run starts that no delivery asks for.
StartUnowed(r) ==
  /\ pc[r] = "idle"
  /\ waiting' = waiting - 1
  /\ GoTo(r, "lift")
  /\ UNCHANGED <<job, entry, items, bare, sent, seen, picked>>

\* A worker takes up a delivery of the job.
Start(r) ==
  /\ pc[r] = "idle" /\ waiting > 0
  /\ waiting' = waiting - 1
  /\ GoTo(r, "lift")
  /\ UNCHANGED <<job, entry, items, bare, sent, seen, picked>>

\* Mutant: a job that is not queued is left to the run that lifted it.
LiftQueuedOnly(r) ==
  /\ HasRead(r, "lift")
  /\ IF seen[r].status = "queued"
     THEN /\ job' = Written(r, [seen[r] EXCEPT !.status = "running",
                                               !.attempts = @ + 1,
                                               !.started = TRUE], {"started"})
          /\ GoTo(r, "extract")
     ELSE GoTo(r, "idle") /\ UNCHANGED job
  /\ Forget(r)
  /\ UNCHANGED <<entry, items, bare, waiting, sent, picked>>

\* Stage 0.  The job's status is not looked at.
Lift(r) ==
  /\ HasRead(r, "lift")
  /\ job' = Written(r, [seen[r] EXCEPT !.status = "running",
                                       !.attempts = @ + 1,
                                       !.started = TRUE], {"started"})
  /\ GoTo(r, "extract") /\ Forget(r)
  /\ UNCHANGED <<entry, items, bare, waiting, sent, picked>>

\* Stage 1: a result; the circuit is open; the retries are exhausted or an
\* exception that is not retried.
Extract(r) ==
  /\ pc[r] = "extract"
  /\ \E next \in {"persist", "terminate", "dlq"} : GoTo(r, next)
  /\ UNCHANGED <<job, entry, items, bare, waiting, sent, seen, picked>>

\* Stages 2-5.  The provider may answer otherwise than in an earlier run.
Persist(r) ==
  /\ pc[r] = "persist"
  /\ items' \in {items, items + 1}
  /\ bare' \in {bare, bare \cup {r}}
  /\ GoTo(r, "embed")
  /\ UNCHANGED <<job, entry, waiting, sent, seen, picked>>

\* Mutant: a run picks only the datapoints it has persisted itself.
PickOwn(r) ==
  /\ pc[r] = "embed"
  /\ picked' = [picked EXCEPT ![r] = bare \cap {r}]
  /\ GoTo(r, "write")
  /\ UNCHANGED <<job, entry, items, bare, waiting, sent, seen>>

\* Stage 6: the job's datapoints that lack an embedding are read ...
Pick(r) ==
  /\ pc[r] = "embed"
  /\ picked' = [picked EXCEPT ![r] = bare]
  /\ GoTo(r, "write")
  /\ UNCHANGED <<job, entry, items, bare, waiting, sent, seen>>

\* ... and written once the provider has answered.
Embed(r) ==
  /\ pc[r] = "write"
  /\ bare' = bare \ picked[r]
  /\ picked' = [picked EXCEPT ![r] = {}]
  /\ GoTo(r, "finish")
  /\ UNCHANGED <<job, entry, items, waiting, sent, seen>>

\* What a run writes last.
Ends(r, status) ==
  job' = Written(r, [seen[r] EXCEPT !.status = status, !.finished = TRUE],
                 {"finished"})

Finish(r) ==
  /\ HasRead(r, "finish")
  /\ Ends(r, "succeeded")
  /\ GoTo(r, "idle") /\ Forget(r)
  /\ UNCHANGED <<entry, items, bare, waiting, sent, picked>>

\* _terminate
Terminate(r) ==
  /\ HasRead(r, "terminate")
  /\ Ends(r, "failed")
  /\ GoTo(r, "idle") /\ Forget(r)
  /\ UNCHANGED <<entry, items, bare, waiting, sent, picked>>

\* _dlq: status and entry in one transaction.
DeadLetter(r) ==
  /\ HasRead(r, "dlq") /\ ~entry
  /\ Ends(r, "dlq")
  /\ entry' = TRUE
  /\ GoTo(r, "idle") /\ Forget(r)
  /\ UNCHANGED <<items, bare, waiting, sent, picked>>

\* The run is over without a write: its transaction is rolled back.
Abandon(r) ==
  /\ GoTo(r, "idle") /\ Forget(r)
  /\ picked' = [picked EXCEPT ![r] = {}]
  /\ UNCHANGED <<job, entry, items, bare>>

\* dlq_entries.job_id is unique: IntegrityError, which nothing catches.
SecondEntry(r) ==
  /\ HasRead(r, "dlq") /\ entry
  /\ Abandon(r)
  /\ UNCHANGED <<waiting, sent>>

\* An exception outside stage 1, or a cancellation, is not caught.
Raise(r) ==
  /\ pc[r] \in Raising
  /\ Abandon(r)
  /\ UNCHANGED <<waiting, sent>>

\* The process dies; the queue delivers the job again.
Crash(r) ==
  /\ Crashing /\ pc[r] # "idle" /\ sent < MaxSent
  /\ Abandon(r)
  /\ waiting' = waiting + 1 /\ sent' = sent + 1

\* The delivery is repeated, or someone runs the job inline.
Double ==
  /\ Doubling /\ sent < MaxSent
  /\ waiting' = waiting + 1 /\ sent' = sent + 1
  /\ UNCHANGED <<job, entry, items, bare, pc, seen, picked>>

-----------------------------------------------------------------------------
(* POST /dlq/{job_id}/replay.                                              *)

\* The guard is that the job has an entry, not that its status is dlq.
Ask(a) ==
  /\ pc[a] = "idle" /\ entry /\ sent < MaxSent
  /\ GoTo(a, "replay")
  /\ UNCHANGED <<job, entry, items, bare, waiting, sent, seen, picked>>

\* Mutant: the entry is deleted once it is replayed.
ReplayDeletes(a) ==
  /\ HasRead(a, "replay") /\ sent < MaxSent
  /\ job' = Written(a, [status |-> "queued", attempts |-> 0,
                        started |-> FALSE, finished |-> FALSE], {})
  /\ waiting' = waiting + 1 /\ sent' = sent + 1
  /\ entry' = FALSE
  /\ GoTo(a, "idle") /\ Forget(a)
  /\ UNCHANGED <<items, bare, picked>>

\* The job is queued again, and so a run is owed to it (MaxSent bounds how
\* many).
Replay(a) ==
  /\ HasRead(a, "replay") /\ sent < MaxSent
  /\ job' = Written(a, [status |-> "queued", attempts |-> 0,
                        started |-> FALSE, finished |-> FALSE], {})
  /\ waiting' = waiting + 1 /\ sent' = sent + 1
  /\ GoTo(a, "idle") /\ Forget(a)
  /\ UNCHANGED <<entry, items, bare, picked>>

RunStep(r) == \/ Read(r) \/ Lift(r) \/ Extract(r) \/ Persist(r) \/ Pick(r)
              \/ Embed(r) \/ Finish(r) \/ Terminate(r) \/ DeadLetter(r)
              \/ SecondEntry(r)

Next == \/ Double
        \/ \E r \in Runs : Start(r) \/ RunStep(r) \/ Raise(r) \/ Crash(r)
        \/ \E a \in Admins : Ask(a) \/ Read(a) \/ Replay(a)

Spec == Init /\ [][Next]_vars

\* Workers are up: a delivery is taken up, and a run that is neither cut
\* short nor dead keeps going.
Fairness == \A r \in Runs : WF_vars(Start(r)) /\ WF_vars(RunStep(r))

FairSpec == Spec /\ Fairness

-----------------------------------------------------------------------------
TypeOK ==
  /\ job \in Row
  /\ entry \in BOOLEAN
  /\ items \in Nat
  /\ bare \subseteq Runs
  /\ waiting \in Nat /\ sent \in 1..MaxSent
  /\ pc \in [Clients -> RunPcs \cup {"replay"}]
  /\ seen \in [Clients -> Row \cup {NotRead}]
  /\ picked \in [Runs -> SUBSET Runs]

\* No run is under way or owed.
Quiet == waiting = 0 /\ \A r \in Runs : pc[r] = "idle"

\* Once no run is under way or owed, the job says how it ended: it is not left
\* RUNNING, although a run that dies or raises writes nothing (pipeline.py
\* line 99: "from QUEUED to a terminal state").
QuietIsTerminal == Quiet => job.status \in Terminal

\* A job in the DLQ has its entry, whatever replays and runs overlap
\* (pipeline.py _dlq, dlq.py).
DlqHasEntry == job.status = "dlq" => entry

\* A job that has ended well has all its datapoints embedded, those of a run
\* that died before its stage 6 included (embedding.py, "Embed every datapoint
\* produced by job_id that still lacks one").
AllEmbedded == Quiet /\ job.status = "succeeded" => bare = {}

\* A queued job ends, though the process that runs it may die (pipeline.py
\* run_ingestion_job, re-run by the queue).
JobEnds == job.status = "queued" ~> job.status \in Terminal
=============================================================================
