----------------------------- MODULE Submission -----------------------------
(***************************************************************************)
(* Submitting an ingestion job and asking for its status                   *)
(* (src/axis/api/v1/jobs.py, src/axis/ingestion/idempotency.py).           *)
(*                                                                         *)
(* A request looks its key up and, if it finds no job, inserts one; two    *)
(* requests with one key may both find none.  The request's transaction    *)
(* belongs to a dependency (src/axis/api/v1/deps.py, get_db_session): up   *)
(* to FastAPI 0.117 it commits before the answer is sent, from 0.118 on    *)
(* after it.  pyproject.toml admits both, so a request does either.        *)
(*                                                                         *)
(* A request inserts at most one job, which takes the request's name.      *)
(***************************************************************************)
EXTENDS Naturals, FiniteSets

CONSTANTS
  MaxRequests, \* bound: submissions ever sent, numbered as they are sent
  Keys,      \* idempotency keys
  Venues,    \* venue ids a caller may name
  Known,     \* those of them that exist
  Texts      \* payloads

ASSUME KnownAssumption == Known \subseteq Venues
ASSUME BoundAssumption == MaxRequests \in Nat

Requests == 1..MaxRequests

VARIABLES
  job,   \* by request: the ingestion_jobs row it inserts
  req,   \* by request: where its handler is, its arguments and its answer
  poll   \* one status request (get_job): the row as read, then the answer

vars == <<job, req, poll>>

Absent == "absent"
NoJob  == 0
ASSUME AbsentAssumption == Absent \notin Keys \cup Venues \cup Texts

JobStatuses == {"queued", "running", "succeeded", "failed", "dlq"}
NoRow == [state |-> "none", key |-> Absent, venue |-> Absent, text |-> Absent,
          status |-> "queued", entry |-> FALSE]
NoAnswer == [kind |-> "none", job |-> NoJob]
Accepted(j) == [kind |-> "accepted", job |-> j]
Refused(kind) == [kind |-> kind, job |-> NoJob]
Without(pc, ans) == [pc |-> pc, key |-> Absent, venue |-> Absent, text |-> Absent,
                     ans |-> ans]
IdlePoll == [pc |-> "idle", job |-> NoJob, status |-> Absent, dlq |-> FALSE]

\* Rows other transactions see, and rows that only hold the unique index.
Stored(k) == { j \in Requests : job[j].state = "committed" /\ job[j].key = k }
Open(k)   == { j \in Requests : job[j].state = "flushed" /\ job[j].key = k }

-----------------------------------------------------------------------------
Init ==
  /\ job  = [r \in Requests |-> NoRow]
  /\ req  = [r \in Requests |-> Without("unsent", NoAnswer)]
  /\ poll = IdlePoll

\* The caller sends a submission, perhaps without the header.
Send(r) ==
  /\ req[r].pc = "unsent" /\ \A q \in 1..(r - 1) : req[q].pc # "unsent"
  /\ \E k \in Keys \cup {Absent}, v \in Venues, t \in Texts :
       req' = [req EXCEPT ![r] = [pc |-> "lookup", key |-> k, venue |-> v,
                                  text |-> t, ans |-> NoAnswer]]
  /\ UNCHANGED <<job, poll>>

\* A request that is over without a job; its arguments no longer matter.
Fails(r, kind) == req' = [req EXCEPT ![r] = Without("ended", Refused(kind))]
Ends(r, ans) == req' = [req EXCEPT ![r].pc = "ended", ![r].ans = ans]
Goes(r, pc)  == req' = [req EXCEPT ![r].pc = pc]

\* 400 without a key, 404 without a venue: nothing is looked up.
Refuse(r) ==
  /\ req[r].pc = "lookup"
  /\ \/ req[r].key = Absent /\ Fails(r, "bad_request")
     \/ /\ req[r].key # Absent /\ req[r].venue \notin Known
        /\ Fails(r, "not_found")
  /\ UNCHANGED <<job, poll>>

\* Mutant: any job with the key will do.
FindAnyPayload(r) ==
  /\ req[r].pc = "lookup" /\ req[r].venue \in Known
  /\ \E j \in Stored(req[r].key) : Ends(r, Accepted(j))
  /\ UNCHANGED <<job, poll>>

\* The key has a job: it is the answer if it has the same payload, whatever
\* its venue; otherwise IdempotencyConflictError, 409.
Find(r) ==
  /\ req[r].pc = "lookup" /\ req[r].venue \in Known
  /\ \E j \in Stored(req[r].key) :
       Ends(r, IF job[j].text = req[r].text THEN Accepted(j) ELSE Refused("conflict"))
  /\ UNCHANGED <<job, poll>>

\* The key has none: a job is added to the session and flushed.
Miss(r) ==
  /\ req[r].pc = "lookup" /\ req[r].venue \in Known /\ req[r].key # Absent
  /\ Stored(req[r].key) = {}
  /\ Goes(r, "insert")
  /\ UNCHANGED <<job, poll>>

\* The INSERT waits while an open transaction holds the key.
Insert(r) ==
  /\ req[r].pc = "insert"
  /\ Open(req[r].key) = {} /\ Stored(req[r].key) = {}
  /\ job' = [job EXCEPT ![r] = [state |-> "flushed", key |-> req[r].key,
                                venue |-> req[r].venue, text |-> req[r].text,
                                status |-> "queued", entry |-> FALSE]]
  /\ Goes(r, "commit")
  /\ UNCHANGED poll

\* IntegrityError: nothing catches it, the answer is 500.
InsertRefused(r) ==
  /\ req[r].pc = "insert"
  /\ Stored(req[r].key) # {}
  /\ Fails(r, "error")
  /\ UNCHANGED <<job, poll>>

\* FastAPI from 0.118 on: the answer is out before the commit.
AnswerEarly(r) ==
  /\ req[r].pc = "commit" /\ req[r].ans = NoAnswer
  /\ req' = [req EXCEPT ![r].ans = Accepted(r)]
  /\ UNCHANGED <<job, poll>>

Commit(r) ==
  /\ req[r].pc = "commit"
  /\ job' = [job EXCEPT ![r].state = "committed"]
  /\ Goes(r, IF req[r].ans = NoAnswer THEN "reply" ELSE "ended")
  /\ UNCHANGED poll

\* FastAPI up to 0.117: the answer follows the commit.
Reply(r) ==
  /\ req[r].pc = "reply"
  /\ Ends(r, Accepted(r))
  /\ UNCHANGED <<job, poll>>

\* Mutant: an error of the commit is swallowed.
CommitFailsSilently(r) ==
  /\ req[r].pc = "commit"
  /\ job' = [job EXCEPT ![r] = NoRow]
  /\ Goes(r, IF req[r].ans = NoAnswer THEN "reply" ELSE "lost")
  /\ UNCHANGED poll

\* Mutant: a commit that fails leaves its job flushed.
CommitFailsOpen(r) ==
  /\ req[r].pc = "commit"
  /\ IF req[r].ans = NoAnswer THEN Fails(r, "error") ELSE Goes(r, "lost")
  /\ UNCHANGED <<job, poll>>

\* The commit raises: 500 if the answer is still to be sent, and otherwise a
\* promise that is lost.
CommitFails(r) ==
  /\ req[r].pc = "commit"
  /\ job' = [job EXCEPT ![r] = NoRow]
  /\ IF req[r].ans = NoAnswer THEN Fails(r, "error") ELSE Goes(r, "lost")
  /\ UNCHANGED poll

\* The process dies or the caller goes away: what is not committed is undone,
\* and what is not answered never will be.
Drop(r) ==
  /\ req[r].pc \notin {"unsent", "ended", "lost"}
  /\ job' = IF req[r].pc = "commit" THEN [job EXCEPT ![r] = NoRow] ELSE job
  /\ IF req[r].ans = NoAnswer THEN Fails(r, "none") ELSE Goes(r, "lost")
  /\ UNCHANGED poll

-----------------------------------------------------------------------------
(* The runs and replays of a stored job, as JobLifecycle has them: each    *)
(* changes status and DLQ entry in one commit, and no entry is deleted.    *)
(* Runs of one job may overlap, so one may end whatever the status is now. *)

Begun(j) == job[j].state = "committed" /\ (job[j].status # "queued" \/ job[j].entry)

Move(j, to) ==
  /\ job' = [job EXCEPT ![j].status = to, ![j].entry = @ \/ to = "dlq"]
  /\ UNCHANGED <<req, poll>>

\* A run is delivered, whatever became of the one before.
Run(j) == job[j].state = "committed" /\ Move(j, "running")

\* A second entry meets the unique job_id: that commit is refused whole.
End(j) ==
  /\ Begun(j)
  /\ \/ \E to \in {"succeeded", "failed"} : Move(j, to)
     \/ ~job[j].entry /\ Move(j, "dlq")

\* Mutant: a replay deletes the entry.
ReplayDeletes(j) ==
  /\ job[j].state = "committed" /\ job[j].entry
  /\ job' = [job EXCEPT ![j].status = "queued", ![j].entry = FALSE]
  /\ UNCHANGED <<req, poll>>

\* replay_dlq asks for an entry, not for the status dlq.
Replay(j) == job[j].state = "committed" /\ job[j].entry /\ Move(j, "queued")

\* get_job reads the row of a job some answer named ...
PollJob ==
  /\ poll.pc = "idle"
  /\ \E r \in Requests :
       /\ req[r].ans.kind = "accepted"
       /\ LET j == req[r].ans.job
          IN  poll' = IF job[j].state = "committed"
                      THEN [IdlePoll EXCEPT !.pc = "entry", !.job = j,
                                            !.status = job[j].status]
                      ELSE [IdlePoll EXCEPT !.pc = "answered", !.job = j]
  /\ UNCHANGED <<job, req>>

\* ... and, in a statement of its own, looks for its DLQ entry.
PollEntry ==
  /\ poll.pc = "entry"
  /\ poll' = [poll EXCEPT !.pc = "answered", !.dlq = job[poll.job].entry]
  /\ UNCHANGED <<job, req>>

PollAgain ==
  /\ poll.pc = "answered"
  /\ poll' = IdlePoll
  /\ UNCHANGED <<job, req>>

Handle(r) ==
  \/ Refuse(r) \/ Find(r) \/ Miss(r) \/ Insert(r) \/ InsertRefused(r)
  \/ AnswerEarly(r) \/ Commit(r) \/ Reply(r) \/ CommitFails(r)

Next ==
  \/ \E r \in Requests : Send(r) \/ Handle(r) \/ Drop(r)
  \/ \E j \in Requests : Run(j) \/ End(j) \/ Replay(j)
  \/ PollJob \/ PollEntry \/ PollAgain

\* Handlers keep running, and the database wakes a waiter when the
\* transaction it waits for ends.
Fairness == \A r \in Requests : WF_vars(Handle(r))

Spec     == Init /\ [][Next]_vars
FairSpec == Spec /\ Fairness

-----------------------------------------------------------------------------
Answers == [kind : {"none", "accepted", "bad_request", "not_found", "conflict", "error"},
            job : Requests \cup {NoJob}]

TypeOK ==
  /\ job \in [Requests -> [state : {"none", "flushed", "committed"},
                           key : Keys \cup {Absent}, venue : Venues \cup {Absent},
                           text : Texts \cup {Absent},
                           status : JobStatuses, entry : BOOLEAN]]
  /\ req \in [Requests -> [pc : {"unsent", "lookup", "insert", "commit", "reply",
                                 "ended", "lost"},
                           key : Keys \cup {Absent}, venue : Venues \cup {Absent},
                           text : Texts \cup {Absent}, ans : Answers]]
  /\ poll \in [pc : {"idle", "entry", "answered"}, job : Requests \cup {NoJob},
               status : JobStatuses \cup {Absent}, dlq : BOOLEAN]

\* What a caller was told is so: an accepted job is stored, unless the commit
\* behind the answer is still out or has failed since; a conflict is one with
\* a stored job of the same key and another payload (jobs.py submit_ingest,
\* deps.py get_db_session).
AnswersHold ==
  \A r \in Requests :
    /\ req[r].ans.kind = "accepted" =>
         \/ job[req[r].ans.job].state = "committed"
         \/ req[r].ans.job = r /\ req[r].pc \in {"commit", "lost"}
    /\ req[r].ans.kind = "conflict" =>
         \E j \in Stored(req[r].key) : job[j].text # req[r].text

\* However often and however concurrently a key is sent, those who are told of
\* a job are told of one job, and it has the payload they sent: unless the
\* commit behind an answer has failed (idempotency.py, module docstring;
\* db/models/ingestion.py, IngestionJob).
SameKeySameJob ==
  \A r, s \in Requests :
    /\ req[r].ans.kind = "accepted" /\ req[r].pc # "lost"
    /\ req[s].ans.kind = "accepted" /\ req[s].pc # "lost"
    /\ req[r].key = req[s].key
    => req[r].ans.job = req[s].ans.job /\ req[r].text = req[s].text

\* The two statements of get_job never show a job as dead-lettered without
\* its entry, though runs and replays go on between them.
PollConsistent ==
  poll.pc = "answered" /\ poll.status = "dlq" => poll.dlq

\* Every request that is sent is over at some time: the wait for another
\* transaction's key does not last.
RequestsEnd ==
  \A r \in Requests : req[r].pc = "lookup" ~> req[r].pc \in {"ended", "lost"}
=============================================================================
