----------------------------- MODULE ModelLoader -----------------------------
(***************************************************************************)
(* The embedding model of one process, loaded on first use behind a        *)
(* double-checked asyncio.Lock (src/axis/embeddings/local.py, _get_model). *)
(* Coroutines run between two awaits without interruption; the load itself *)
(* is a thread, which goes on when the coroutine that awaits it is         *)
(* cancelled.  asyncio.Lock is external: it is fair, its waiters are       *)
(* served in order, and none overtakes them.                               *)
(***************************************************************************)
EXTENDS Naturals, Sequences, FiniteSets, SequencesExt

CONSTANT MaxTasks  \* bound: coroutines that ever embed, numbered

ASSUME TasksAssumption == MaxTasks \in Nat

Tasks == 1..MaxTasks

VARIABLES
  model,   \* _MODEL: the task whose load was kept, or NoModel
  lock,    \* the task that holds _LOAD_LOCK, or NoModel
  queue,   \* the tasks that wait for it
  stage,   \* by task: "out", "wait", "load", "encode", "embedded", "failed"
  orphans  \* load threads that nobody awaits any more

loaderVars == <<model, lock, queue, stage, orphans>>

NoModel == 0

LoaderInit ==
  /\ model = NoModel /\ lock = NoModel /\ queue = <<>> /\ orphans = 0
  /\ stage = [t \in Tasks |-> "out"]

Moves(t, to) == stage' = [stage EXCEPT ![t] = to]

\* The model is there: no lock is taken.
UseCached(t) ==
  /\ stage[t] = "out" /\ model # NoModel
  /\ Moves(t, "encode")
  /\ UNCHANGED <<model, lock, queue, orphans>>

\* Mutant: the model is loaded without the lock.
EnterUnlocked(t) ==
  /\ stage[t] = "out" /\ model = NoModel
  /\ Moves(t, "load")
  /\ UNCHANGED <<model, lock, queue, orphans>>

\* It is not: the lock is taken if it is free and no one waits for it.
Enter(t) ==
  /\ stage[t] = "out" /\ model = NoModel
  /\ IF lock = NoModel /\ queue = <<>>
     THEN lock' = t /\ Moves(t, "load") /\ UNCHANGED queue
     ELSE queue' = Append(queue, t) /\ Moves(t, "wait") /\ UNCHANGED lock
  /\ UNCHANGED <<model, orphans>>

\* Mutant: the model is not looked for again under the lock.
WakeUnchecked(t) ==
  /\ stage[t] = "wait" /\ lock = NoModel /\ Head(queue) = t
  /\ queue' = Tail(queue)
  /\ Moves(t, "load") /\ lock' = t
  /\ UNCHANGED <<model, orphans>>

\* The first waiter has the lock; the model may have come meanwhile, and then
\* the lock is given back at once.
Wake(t) ==
  /\ stage[t] = "wait" /\ lock = NoModel /\ Head(queue) = t
  /\ queue' = Tail(queue)
  /\ IF model = NoModel THEN Moves(t, "load") /\ lock' = t
                        ELSE Moves(t, "encode") /\ UNCHANGED lock
  /\ UNCHANGED <<model, orphans>>

Loaded(t) ==
  /\ stage[t] = "load"
  /\ model' = t /\ lock' = NoModel /\ Moves(t, "encode")
  /\ UNCHANGED <<queue, orphans>>

\* Mutant: a load that raises leaves the lock behind.
LoadFailsLocked(t) ==
  /\ stage[t] = "load"
  /\ Moves(t, "failed")
  /\ UNCHANGED <<model, lock, queue, orphans>>

\* The import or the load raises, or the dimension is wrong: nothing is kept.
LoadFails(t) ==
  /\ stage[t] = "load"
  /\ lock' = NoModel /\ Moves(t, "failed")
  /\ UNCHANGED <<model, queue, orphans>>

\* encode, in a thread.
Encoded(t) ==
  /\ stage[t] = "encode"
  /\ \E to \in {"embedded", "failed"} : Moves(t, to)
  /\ UNCHANGED <<model, lock, queue, orphans>>

Place(t) == CHOOSE i \in DOMAIN queue : queue[i] = t

\* CancelledError: a waiter leaves the queue, the holder lets go of the lock
\* and leaves its thread behind.
CancelEmbed(t) ==
  /\ stage[t] \in {"wait", "load", "encode"}
  /\ queue' = IF stage[t] = "wait" THEN RemoveAt(queue, Place(t)) ELSE queue
  /\ lock' = IF lock = t THEN NoModel ELSE lock
  /\ orphans' = IF stage[t] = "load" THEN orphans + 1 ELSE orphans
  /\ Moves(t, "out")
  /\ UNCHANGED model

\* The vector, or the exception, is handed to the caller.
Returns(t) ==
  /\ stage[t] \in {"embedded", "failed"} /\ Moves(t, "out")
  /\ UNCHANGED <<model, lock, queue, orphans>>

\* What an orphan has loaded is thrown away.
OrphanEnds == orphans > 0 /\ orphans' = orphans - 1 /\ UNCHANGED <<model, lock, queue, stage>>

EmbedStep(t) ==
  \/ UseCached(t) \/ Enter(t) \/ Wake(t) \/ Loaded(t) \/ LoadFails(t) \/ Encoded(t)

LoaderTypeOK ==
  /\ {model, lock} \subseteq Tasks \cup {NoModel}
  /\ queue \in Seq(Tasks) /\ orphans \in 0..Cardinality(Tasks)
  /\ stage \in [Tasks -> {"out", "wait", "load", "encode", "embedded", "failed"}]

\* One load at a time, and it is the lock holder's; who waits is queued, once.
\* A second thread exists only if the task that began it was cancelled
\* (local.py _get_model, "loaded once per process").
OneLoader ==
  /\ \A t \in Tasks : stage[t] = "load" <=> lock = t
  /\ \A t \in Tasks : stage[t] = "wait" <=> \E i \in DOMAIN queue : queue[i] = t
  /\ \A i, j \in DOMAIN queue : queue[i] = queue[j] => i = j
=============================================================================
