-------------------------- MODULE SubmissionProofs --------------------------
(***************************************************************************)
(* What callers of the submission endpoint may rely on, for any number of  *)
(* requests, keys, venues and payloads.                                    *)
(***************************************************************************)
EXTENDS Submission, TLAPS

Request == [pc : {"unsent", "lookup", "insert", "commit", "reply", "ended", "lost"},
            key : Keys \cup {Absent}, venue : Venues \cup {Absent},
            text : Texts \cup {Absent}, ans : Answers]

Row == [state : {"none", "flushed", "committed"}, key : Keys \cup {Absent},
        venue : Venues \cup {Absent}, text : Texts \cup {Absent},
        status : JobStatuses, entry : BOOLEAN]

-----------------------------------------------------------------------------
(* The inductive invariant.                                                *)

\* A row is uncommitted while, and only while, its request is about to commit.
RowFits(row, q) ==
  /\ row.state = "flushed" <=> q.pc = "commit"
  /\ q.pc = "reply" => row.state = "committed"
  /\ row.state = "committed" => q.pc \in {"reply", "ended"}
  /\ q.pc \in {"commit", "reply"} => row.key = q.key /\ row.text = q.text

\* The answers that request r can have where it is.
AnswerFits(r, q, rows) ==
  /\ q.pc \in {"unsent", "lookup", "insert", "reply"} => q.ans = NoAnswer
  /\ q.pc \in {"commit", "lost"} => q.ans \in {NoAnswer, Accepted(r)}
  /\ q.ans.kind = "accepted" => q.ans.job \in Requests
  /\ q.pc = "ended" /\ q.ans.kind = "accepted" =>
       /\ rows[q.ans.job].state = "committed"
       /\ rows[q.ans.job].key = q.key
       /\ rows[q.ans.job].text = q.text
  /\ q.ans.kind = "conflict" =>
       /\ q.pc = "ended"
       /\ \E j \in Requests : /\ rows[j].state = "committed"
                              /\ rows[j].key = q.key
                              /\ rows[j].text # q.text

RowsFit    == \A r \in Requests : RowFits(job[r], req[r])
AnswersFit == \A r \in Requests : AnswerFits(r, req[r], job)

\* The unique index: an open transaction holds the key of the row it inserted.
KeyOnce ==
  \A i, j \in Requests :
    job[i].state # "none" /\ job[j].state # "none" /\ job[i].key = job[j].key => i = j

\* A stored job keeps its entry, so what the first statement of get_job has
\* read of it is not overtaken by what the second one finds.
EntryKept ==
  /\ \A j \in Requests : job[j].status = "dlq" => job[j].entry
  /\ poll.pc = "entry" =>
       /\ poll.job \in Requests /\ job[poll.job].state = "committed"
       /\ poll.status = "dlq" => job[poll.job].entry
  /\ PollConsistent

Inv == TypeOK /\ RowsFit /\ KeyOnce /\ AnswersFit /\ EntryKept

-----------------------------------------------------------------------------
(* A step of a request.                                                    *)

\* What TypeOK says of requests and rows, for the provers to find.
LEMMA Types ==
  ASSUME TypeOK
  PROVE  /\ req \in [Requests -> Request] /\ job \in [Requests -> Row]
BY DEF TypeOK, Request, Row

\* One request goes on and one row that is not committed changes, to something
\* that fits: the invariant holds again.
LEMMA StepKeeps ==
  ASSUME Inv, NEW r \in Requests, NEW q \in Request, NEW row \in Row,
         req' = [req EXCEPT ![r] = q], job' = [job EXCEPT ![r] = row], UNCHANGED poll,
         job[r].state = "committed" => row = job[r],
         row.status = "dlq" => row.entry,
         row.state # "none" =>
           \A i \in Requests \ {r} : job[i].state # "none" => job[i].key # row.key,
         RowFits(row, q), AnswerFits(r, q, job')
  PROVE  Inv'
PROOF
<1>1. req \in [Requests -> Request] /\ job \in [Requests -> Row]
  BY Types DEF Inv
<1>2. TypeOK'
  <2>1. req' \in [Requests -> Request] /\ job' \in [Requests -> Row]
    BY <1>1
  <2> QED BY <2>1 DEF Inv, TypeOK, Request, Row
<1>3. \A i \in Requests : job[i].state = "committed" => job'[i] = job[i]
  BY <1>1
<1>4. RowsFit'
  <2> SUFFICES ASSUME NEW i \in Requests PROVE RowFits(job'[i], req'[i])
    BY DEF RowsFit
  <2>1. CASE i = r
    BY <1>1, <2>1
  <2>2. CASE i # r
    BY <1>1, <2>2 DEF Inv, RowsFit
  <2> QED BY <2>1, <2>2
<1>5. KeyOnce'
  <2> SUFFICES ASSUME NEW i \in Requests, NEW j \in Requests,
                      job'[i].state # "none", job'[j].state # "none",
                      job'[i].key = job'[j].key, i # j
               PROVE  FALSE
    BY DEF KeyOnce
  <2>1. CASE i # r /\ j # r
    BY <1>1, <2>1 DEF Inv, KeyOnce
  <2>2. CASE i = r
    BY <1>1, <2>2
  <2>3. CASE j = r
    BY <1>1, <2>3
  <2> QED BY <2>1, <2>2, <2>3
<1>6. AnswersFit'
  <2> SUFFICES ASSUME NEW i \in Requests PROVE AnswerFits(i, req'[i], job')
    BY DEF AnswersFit
  <2>1. CASE i = r
    BY <1>1, <2>1
  <2>2. CASE i # r
    <3>1. AnswerFits(i, req[i], job)
      BY DEF Inv, AnswersFit
    <3>2. AnswerFits(i, req[i], job')
      BY <1>3, <3>1 DEF AnswerFits
    <3> QED BY <1>1, <2>2, <3>2
  <2> QED BY <2>1, <2>2
<1>7. EntryKept'
  <2>1. \A j \in Requests : job'[j].status = "dlq" => job'[j].entry
    BY <1>1 DEF Inv, EntryKept
  <2> QED BY <1>3, <2>1 DEF Inv, EntryKept, PollConsistent
<1> QED BY <1>2, <1>4, <1>5, <1>6, <1>7 DEF Inv

\* The same for a request that goes on alone.
LEMMA AloneKeeps ==
  ASSUME Inv, NEW r \in Requests, NEW q \in Request,
         req' = [req EXCEPT ![r] = q], UNCHANGED <<job, poll>>,
         RowFits(job[r], q), AnswerFits(r, q, job)
  PROVE  Inv'
PROOF
<1>1. job \in [Requests -> Row]
  BY Types DEF Inv
<1>2. job' = [job EXCEPT ![r] = job[r]] /\ job[r] \in Row
  BY <1>1
<1>3. job[r].status = "dlq" => job[r].entry
  BY DEF Inv, EntryKept
<1>4. job[r].state # "none" =>
        \A i \in Requests \ {r} : job[i].state # "none" => job[i].key # job[r].key
  BY DEF Inv, KeyOnce
<1>5. AnswerFits(r, q, job')
  BY DEF AnswerFits
<1> QED BY <1>2, <1>3, <1>4, <1>5, StepKeeps

-----------------------------------------------------------------------------
(* Where a request goes.                                                   *)

With(q, pc, ans) == [pc |-> pc, key |-> q.key, venue |-> q.venue, text |-> q.text,
                     ans |-> ans]

\* A step that moves a request changes nothing else of it.
LEMMA GoesTo ==
  ASSUME req \in [Requests -> Request], NEW r \in Requests, NEW pc, Goes(r, pc)
  PROVE  req' = [req EXCEPT ![r] = With(req[r], pc, req[r].ans)]
PROOF
<1>1. req[r] \in Request
  OBVIOUS
<1>2. req' = [req EXCEPT ![r] = [req[r] EXCEPT !.pc = pc]]
  BY DEF Goes
<1>3. [req[r] EXCEPT !.pc = pc] = With(req[r], pc, req[r].ans)
  BY <1>1 DEF Request, With
<1> QED BY <1>2, <1>3

\* An answer ends a request and keeps its arguments.
LEMMA EndsWith ==
  ASSUME req \in [Requests -> Request], NEW r \in Requests, NEW ans, Ends(r, ans)
  PROVE  req' = [req EXCEPT ![r] = With(req[r], "ended", ans)]
PROOF
<1>1. req[r] \in Request
  OBVIOUS
<1> DEFINE half == [req[r] EXCEPT !.pc = "ended"]
<1>2. req' = [req EXCEPT ![r] = [half EXCEPT !.ans = ans]]
  BY DEF Ends
<1>3. half = With(req[r], "ended", req[r].ans)
  BY <1>1 DEF Request, With
<1> HIDE DEF half
<1>4. [half EXCEPT !.ans = ans] = With(req[r], "ended", ans)
  BY <1>3 DEF With
<1> QED BY <1>2, <1>4

\* A request that is moved is a request.
LEMMA WithType ==
  ASSUME NEW q \in Request, NEW ans \in Answers,
         NEW pc \in {"unsent", "lookup", "insert", "commit", "reply", "ended", "lost"}
  PROVE  With(q, pc, ans) \in Request
BY DEF Request, With

\* The answers the code gives are answers.
LEMMA AnswersType ==
  /\ NoAnswer \in Answers
  /\ \A r \in Requests : Accepted(r) \in Answers
  /\ Refused("bad_request") \in Answers /\ Refused("not_found") \in Answers
  /\ Refused("conflict") \in Answers /\ Refused("error") \in Answers
  /\ Refused("none") = NoAnswer
BY DEF NoAnswer, Accepted, Refused, Answers

\* A request that ends without a job fits any table its row is not in.
LEMMA FailureFits ==
  ASSUME NEW r \in Requests, NEW rows, NEW row,
         NEW kind \in {"none", "bad_request", "not_found", "error"},
         row.state \notin {"flushed", "committed"}
  PROVE  /\ Without("ended", Refused(kind)) \in Request
         /\ RowFits(row, Without("ended", Refused(kind)))
         /\ AnswerFits(r, Without("ended", Refused(kind)), rows)
PROOF
<1>1. Refused(kind) \in Answers
  BY DEF Refused, Answers
<1>2. Without("ended", Refused(kind)) \in Request
  BY <1>1 DEF Without, Request
<1>3. RowFits(row, Without("ended", Refused(kind)))
  BY DEF Without, RowFits
<1>4. AnswerFits(r, Without("ended", Refused(kind)), rows)
  BY DEF Without, Refused, AnswerFits
<1> QED BY <1>2, <1>3, <1>4

\* Before its row is inserted a request has none.
LEMMA NoRowYet ==
  ASSUME Inv, NEW r \in Requests, req[r].pc \in {"unsent", "lookup", "insert"}
  PROVE  job[r].state = "none" /\ req[r].ans = NoAnswer
BY Types DEF Inv, RowsFit, RowFits, AnswersFit, AnswerFits, Row

-----------------------------------------------------------------------------
(* The actions of a request.                                               *)

\* A request that is sent has neither row nor answer.
LEMMA SendKeeps ==
  ASSUME Inv, NEW r \in Requests, Send(r)
  PROVE  Inv'
PROOF
<1>1. PICK k \in Keys \cup {Absent}, v \in Venues, t \in Texts :
        req' = [req EXCEPT ![r] = [pc |-> "lookup", key |-> k, venue |-> v,
                                   text |-> t, ans |-> NoAnswer]]
  BY DEF Send
<1> DEFINE q == [pc |-> "lookup", key |-> k, venue |-> v, text |-> t, ans |-> NoAnswer]
<1>2. job[r].state = "none"
  BY NoRowYet DEF Send
<1>3. q \in Request
  BY AnswersType DEF Request
<1>4. RowFits(job[r], q) /\ AnswerFits(r, q, job)
  BY <1>2 DEF RowFits, AnswerFits, NoAnswer
<1> QED BY <1>1, <1>3, <1>4, AloneKeeps DEF Send

\* 400, 404 and the IntegrityError end a request without a row.
LEMMA RefuseKeeps ==
  ASSUME Inv, NEW r \in Requests, Refuse(r) \/ InsertRefused(r)
  PROVE  Inv'
PROOF
<1>1. job[r].state = "none"
  BY NoRowYet DEF Refuse, InsertRefused
<1>2. PICK kind \in {"bad_request", "not_found", "error"} : Fails(r, kind)
  BY DEF Refuse, InsertRefused
<1>3. UNCHANGED <<job, poll>>
  BY DEF Refuse, InsertRefused
<1> QED BY <1>1, <1>2, <1>3, FailureFits, AloneKeeps DEF Fails

\* A stored job with the key is the answer, or a conflict with it.
LEMMA FindKeeps ==
  ASSUME Inv, NEW r \in Requests, Find(r)
  PROVE  Inv'
PROOF
<1>1. req \in [Requests -> Request] /\ req[r] \in Request
  BY Types DEF Inv
<1>2. PICK j \in Stored(req[r].key) :
        Ends(r, IF job[j].text = req[r].text THEN Accepted(j) ELSE Refused("conflict"))
  BY DEF Find
<1>3. /\ j \in Requests /\ job[j].state = "committed" /\ job[j].key = req[r].key
      /\ job[r].state = "none"
  BY NoRowYet DEF Find, Stored
<1> DEFINE ans == IF job[j].text = req[r].text THEN Accepted(j) ELSE Refused("conflict")
           q   == With(req[r], "ended", ans)
<1>4. ans \in Answers /\ q \in Request
  BY <1>1, <1>3, AnswersType, WithType
<1>5. req' = [req EXCEPT ![r] = q]
  BY <1>1, <1>2, EndsWith
<1>6. RowFits(job[r], q)
  BY <1>3 DEF RowFits, With
<1>7. AnswerFits(r, q, job)
  <2>1. CASE job[j].text = req[r].text
    BY <1>3, <2>1 DEF AnswerFits, With, Accepted
  <2>2. CASE job[j].text # req[r].text
    BY <1>3, <2>2 DEF AnswerFits, With, Refused
  <2> QED BY <2>1, <2>2
<1> QED BY <1>4, <1>5, <1>6, <1>7, AloneKeeps DEF Find

\* A lookup that finds nothing decides nothing yet.
LEMMA MissKeeps ==
  ASSUME Inv, NEW r \in Requests, Miss(r)
  PROVE  Inv'
PROOF
<1>1. req \in [Requests -> Request] /\ req[r] \in Request
  BY Types DEF Inv
<1>2. job[r].state = "none" /\ req[r].ans = NoAnswer
  BY NoRowYet DEF Miss
<1> DEFINE q == With(req[r], "insert", req[r].ans)
<1>3. q \in Request
  BY <1>1, <1>2, AnswersType, WithType
<1>4. req' = [req EXCEPT ![r] = q]
  BY <1>1, GoesTo DEF Miss
<1>5. RowFits(job[r], q) /\ AnswerFits(r, q, job)
  BY <1>2 DEF RowFits, AnswerFits, With, NoAnswer
<1> QED BY <1>3, <1>4, <1>5, AloneKeeps DEF Miss

\* The guard of the INSERT is the unique index: no row holds the key.
LEMMA InsertKeeps ==
  ASSUME Inv, NEW r \in Requests, Insert(r)
  PROVE  Inv'
PROOF
<1>1. req \in [Requests -> Request] /\ req[r] \in Request /\ job \in [Requests -> Row]
  BY Types DEF Inv
<1>2. job[r].state = "none" /\ req[r].ans = NoAnswer
  BY NoRowYet DEF Insert
<1> DEFINE q   == With(req[r], "commit", req[r].ans)
           row == [state |-> "flushed", key |-> req[r].key, venue |-> req[r].venue,
                   text |-> req[r].text, status |-> "queued", entry |-> FALSE]
<1>3. q \in Request /\ row \in Row
  BY <1>1, <1>2, AnswersType, WithType DEF Request, Row, JobStatuses
<1>4. req' = [req EXCEPT ![r] = q]
  BY <1>1, GoesTo DEF Insert
<1>5. job' = [job EXCEPT ![r] = row] /\ UNCHANGED poll
  BY DEF Insert
<1>6. \A i \in Requests \ {r} : job[i].state # "none" => job[i].key # row.key
  BY <1>1 DEF Insert, Open, Stored, Row
<1>7. RowFits(row, q) /\ AnswerFits(r, q, job')
  BY <1>2 DEF RowFits, AnswerFits, With, NoAnswer
<1>8. /\ job[r].state = "committed" => row = job[r]
      /\ row.status = "dlq" => row.entry
  BY <1>2
<1> HIDE DEF q, row
<1> QED BY <1>3, <1>4, <1>5, <1>6, <1>7, <1>8, StepKeeps

\* The early answer names the request's own row, which is not committed.
LEMMA AnswerEarlyKeeps ==
  ASSUME Inv, NEW r \in Requests, AnswerEarly(r)
  PROVE  Inv'
PROOF
<1>1. req \in [Requests -> Request] /\ req[r] \in Request
  BY Types DEF Inv
<1> DEFINE q == With(req[r], "commit", Accepted(r))
<1>2. q \in Request
  BY <1>1, AnswersType, WithType
<1>3. [req[r] EXCEPT !.ans = Accepted(r)] = q
  <2>1. req[r].pc = "commit"
    BY DEF AnswerEarly
  <2> QED BY <1>1, <2>1 DEF Request, With
<1>4. req' = [req EXCEPT ![r] = q]
  BY <1>3 DEF AnswerEarly
<1>5. RowFits(job[r], req[r])
  BY DEF Inv, RowsFit
<1>6. RowFits(job[r], q)
  BY <1>5 DEF AnswerEarly, RowFits, With
<1>7. AnswerFits(r, q, job)
  BY DEF AnswerFits, With, Accepted
<1> QED BY <1>2, <1>4, <1>6, <1>7, AloneKeeps DEF AnswerEarly

\* The late answer names a row that is.
LEMMA ReplyKeeps ==
  ASSUME Inv, NEW r \in Requests, Reply(r)
  PROVE  Inv'
PROOF
<1>1. req \in [Requests -> Request] /\ req[r] \in Request
  BY Types DEF Inv
<1> DEFINE q == With(req[r], "ended", Accepted(r))
<1>2. q \in Request
  BY <1>1, AnswersType, WithType
<1>3. req' = [req EXCEPT ![r] = q]
  BY <1>1, EndsWith DEF Reply
<1>4. /\ job[r].state = "committed"
      /\ job[r].key = req[r].key /\ job[r].text = req[r].text
  BY DEF Reply, Inv, RowsFit, RowFits
<1>5. RowFits(job[r], q) /\ AnswerFits(r, q, job)
  BY <1>4 DEF RowFits, AnswerFits, With, Accepted
<1> QED BY <1>2, <1>3, <1>5, AloneKeeps DEF Reply

\* The row becomes visible; an answer that was sent early becomes true.
LEMMA CommitKeeps ==
  ASSUME Inv, NEW r \in Requests, Commit(r)
  PROVE  Inv'
PROOF
<1>1. /\ req \in [Requests -> Request] /\ req[r] \in Request
      /\ job \in [Requests -> Row] /\ job[r] \in Row
  BY Types DEF Inv
<1>2. /\ job[r].state = "flushed" /\ job[r].key = req[r].key /\ job[r].text = req[r].text
      /\ req[r].ans \in {NoAnswer, Accepted(r)}
  BY DEF Commit, Inv, RowsFit, RowFits, AnswersFit, AnswerFits
<1> DEFINE next == IF req[r].ans = NoAnswer THEN "reply" ELSE "ended"
           q    == With(req[r], next, req[r].ans)
           row  == [state |-> "committed", key |-> job[r].key, venue |-> job[r].venue,
                    text |-> job[r].text, status |-> job[r].status, entry |-> job[r].entry]
<1>3. q \in Request /\ row \in Row
  <2>1. req[r].ans \in Answers
    BY <1>1 DEF Request
  <2>2. q \in Request
    BY <1>1, <2>1, WithType
  <2> QED BY <1>1, <2>2 DEF Row
<1>4. req' = [req EXCEPT ![r] = q]
  BY <1>1, GoesTo DEF Commit
<1>5. job' = [job EXCEPT ![r] = row] /\ UNCHANGED poll
  <2>1. [job[r] EXCEPT !.state = "committed"] = row
    BY <1>1 DEF Row
  <2>2. job' = [job EXCEPT ![r] = [job[r] EXCEPT !.state = "committed"]] /\ UNCHANGED poll
    BY DEF Commit
  <2> HIDE DEF row
  <2> QED BY <2>1, <2>2
<1>6. RowFits(row, q)
  BY <1>2 DEF RowFits, With
<1>7. AnswerFits(r, q, job')
  <2>1. job'[r] = row
    BY <1>1, <1>5
  <2>2. CASE req[r].ans = NoAnswer
    BY <2>2 DEF AnswerFits, With, NoAnswer
  <2>3. CASE req[r].ans = Accepted(r) /\ req[r].ans # NoAnswer
    BY <1>2, <2>1, <2>3 DEF AnswerFits, With, Accepted
  <2> QED BY <1>2, <2>2, <2>3
<1>8. \A i \in Requests \ {r} : job[i].state # "none" => job[i].key # row.key
  BY <1>2 DEF Inv, KeyOnce
<1>9. /\ job[r].state = "committed" => row = job[r]
      /\ row.status = "dlq" => row.entry
  BY <1>2 DEF Inv, EntryKept
<1> HIDE DEF q, row
<1> QED BY <1>3, <1>4, <1>5, <1>6, <1>7, <1>8, <1>9, StepKeeps

\* The row of a transaction that does not commit is gone, and an answer that
\* was sent early is lost.
LEMMA UndoneKeeps ==
  ASSUME Inv, NEW r \in Requests, CommitFails(r) \/ (Drop(r) /\ req[r].pc = "commit")
  PROVE  Inv'
PROOF
<1>1. /\ req \in [Requests -> Request] /\ req[r] \in Request
      /\ job \in [Requests -> Row]
  BY Types DEF Inv
<1>2. req[r].pc = "commit" /\ job' = [job EXCEPT ![r] = NoRow] /\ UNCHANGED poll
  BY DEF CommitFails, Drop
<1>3. /\ NoRow \in Row /\ NoRow.state = "none" /\ NoRow.status # "dlq"
  BY DEF NoRow, Row, JobStatuses
<1>4. job[r].state = "flushed" /\ req[r].ans \in {NoAnswer, Accepted(r)}
  BY <1>2 DEF Inv, RowsFit, RowFits, AnswersFit, AnswerFits
<1>5. CASE req[r].ans = NoAnswer
  <2>1. PICK kind \in {"none", "error"} : Fails(r, kind)
    BY <1>5 DEF CommitFails, Drop
  <2> QED BY <1>2, <1>3, <1>4, <2>1, FailureFits, StepKeeps DEF Fails
<1>6. CASE req[r].ans # NoAnswer
  <2> DEFINE q == With(req[r], "lost", req[r].ans)
  <2>1. req[r].ans = Accepted(r)
    BY <1>4, <1>6
  <2>2. q \in Request
    BY <1>1, <2>1, AnswersType, WithType
  <2>3. req' = [req EXCEPT ![r] = q]
    BY <1>1, <1>6, GoesTo DEF CommitFails, Drop
  <2>4. RowFits(NoRow, q) /\ AnswerFits(r, q, job')
    BY <1>3, <2>1 DEF RowFits, AnswerFits, With, Accepted
  <2> HIDE DEF q
  <2> QED BY <1>2, <1>3, <1>4, <2>2, <2>3, <2>4, StepKeeps
<1> QED BY <1>5, <1>6

\* A request that has no answer yet and no open row is simply gone.
LEMMA DropKeeps ==
  ASSUME Inv, NEW r \in Requests, Drop(r), req[r].pc # "commit"
  PROVE  Inv'
PROOF
<1>1. req[r] \in Request /\ job[r] \in Row
  BY Types DEF Inv
<1>2. req[r].pc \in {"lookup", "insert", "reply"}
  BY <1>1 DEF Drop, Request
<1>3. req[r].ans = NoAnswer
  BY <1>2 DEF Inv, AnswersFit, AnswerFits
<1>4. UNCHANGED <<job, poll>> /\ Fails(r, "none")
  BY <1>3 DEF Drop
<1> DEFINE q == Without("ended", Refused("none"))
<1>5. req' = [req EXCEPT ![r] = q]
  BY <1>4 DEF Fails
<1>6. q \in Request
  BY AnswersType DEF Without, Request
<1>7. job[r].state # "flushed"
  BY DEF Inv, RowsFit, RowFits
<1>8. RowFits(job[r], q) /\ AnswerFits(r, q, job)
  BY <1>7 DEF RowFits, AnswerFits, Without, Refused
<1> QED BY <1>4, <1>5, <1>6, <1>8, AloneKeeps

\* Every step of a request.
LEMMA RequestKeeps ==
  ASSUME Inv, NEW r \in Requests, Send(r) \/ Handle(r) \/ Drop(r)
  PROVE  Inv'
BY SendKeeps, RefuseKeeps, FindKeeps, MissKeeps, InsertKeeps, AnswerEarlyKeeps, CommitKeeps,
   ReplyKeeps, UndoneKeeps, DropKeeps DEF Handle

-----------------------------------------------------------------------------
(* The runs and replays of a job, and the status request.                  *)

\* A run or a replay changes status and entry of a stored job, no key or payload.
LEMMA MoveKeeps ==
  ASSUME Inv, NEW j \in Requests, job[j].state = "committed",
         NEW to \in JobStatuses, Move(j, to)
  PROVE  Inv'
PROOF
<1>1. job \in [Requests -> Row] /\ job[j] \in Row /\ job[j].state = "committed"
  BY Types DEF Inv
<1> DEFINE half == [job[j] EXCEPT !.status = to]
           row  == [state |-> "committed", key |-> job[j].key, venue |-> job[j].venue,
                    text |-> job[j].text, status |-> to, entry |-> job[j].entry \/ to = "dlq"]
<1>2. row \in Row
  BY <1>1 DEF Row
<1>3. job' = [job EXCEPT ![j] = row] /\ UNCHANGED <<req, poll>>
  <2>1. half = [state |-> "committed", key |-> job[j].key, venue |-> job[j].venue,
                text |-> job[j].text, status |-> to, entry |-> job[j].entry]
    BY <1>1 DEF Row
  <2>2. /\ job' = [job EXCEPT ![j] = [half EXCEPT !.entry = half.entry \/ to = "dlq"]]
        /\ UNCHANGED <<req, poll>>
    BY DEF Move
  <2> HIDE DEF half
  <2>3. [half EXCEPT !.entry = half.entry \/ to = "dlq"] = row
    BY <2>1
  <2> HIDE DEF row
  <2> QED BY <2>2, <2>3
<1>4. \A i \in Requests : /\ job'[i].state = job[i].state /\ job'[i].key = job[i].key
                          /\ job'[i].text = job[i].text /\ (job[i].entry => job'[i].entry)
                          /\ job'[i].status = "dlq" => job'[i].entry
  BY <1>1, <1>3 DEF Inv, EntryKept
<1>5. TypeOK'
  <2>1. job' \in [Requests -> Row]
    BY <1>1, <1>2, <1>3
  <2> QED BY <1>3, <2>1 DEF Inv, TypeOK, Row
<1>6. RowsFit'
  BY <1>3, <1>4 DEF Inv, RowsFit, RowFits
<1>7. KeyOnce'
  BY <1>4 DEF Inv, KeyOnce
<1>8. AnswersFit'
  <2> SUFFICES ASSUME NEW i \in Requests PROVE AnswerFits(i, req[i], job')
    BY <1>3 DEF AnswersFit
  <2>1. AnswerFits(i, req[i], job)
    BY DEF Inv, AnswersFit
  <2> QED BY <1>4, <2>1 DEF AnswerFits
<1>9. EntryKept'
  BY <1>3, <1>4 DEF Inv, EntryKept, PollConsistent
<1> QED BY <1>5, <1>6, <1>7, <1>8, <1>9 DEF Inv

\* The status request reads a stored job, then its entry.
LEMMA PollKeeps ==
  ASSUME Inv, PollJob \/ PollEntry \/ PollAgain
  PROVE  Inv'
PROOF
<1>1. UNCHANGED <<job, req>>
  BY DEF PollJob, PollEntry, PollAgain
<1>2. RowsFit' /\ KeyOnce' /\ AnswersFit'
  BY <1>1 DEF Inv, RowsFit, KeyOnce, AnswersFit
<1>3. \A j \in Requests : job[j].status = "dlq" => job[j].entry
  BY DEF Inv, EntryKept
<1>4. /\ job \in [Requests -> Row]
      /\ poll \in [pc : {"idle", "entry", "answered"}, job : Requests \cup {NoJob},
                   status : JobStatuses \cup {Absent}, dlq : BOOLEAN]
  BY Types DEF Inv, TypeOK
<1>5. CASE PollJob
  <2>1. PICK r \in Requests :
          /\ req[r].ans.kind = "accepted"
          /\ LET j == req[r].ans.job
             IN  poll' = IF job[j].state = "committed"
                         THEN [IdlePoll EXCEPT !.pc = "entry", !.job = j,
                                               !.status = job[j].status]
                         ELSE [IdlePoll EXCEPT !.pc = "answered", !.job = j]
    BY <1>5 DEF PollJob
  <2> DEFINE j == req[r].ans.job
  <2>2. j \in Requests /\ job[j] \in Row
    BY <1>4, <2>1 DEF Inv, AnswersFit, AnswerFits
  <2> HIDE DEF j
  <2>3. \/ /\ job[j].state = "committed"
           /\ poll' = [pc |-> "entry", job |-> j, status |-> job[j].status, dlq |-> FALSE]
        \/ poll' = [pc |-> "answered", job |-> j, status |-> Absent, dlq |-> FALSE]
    BY <2>1 DEF IdlePoll, j
  <2>4. Absent # "dlq"
    BY DEF Absent
  <2>5. TypeOK'
    <3>1. poll' \in [pc : {"idle", "entry", "answered"}, job : Requests \cup {NoJob},
                     status : JobStatuses \cup {Absent}, dlq : BOOLEAN]
      <4>1. job[j].status \in JobStatuses
        BY <2>2 DEF Row
      <4>2. CASE poll' = [pc |-> "entry", job |-> j, status |-> job[j].status, dlq |-> FALSE]
        BY <2>2, <4>1, <4>2
      <4>3. CASE poll' = [pc |-> "answered", job |-> j, status |-> Absent, dlq |-> FALSE]
        BY <2>2, <4>3
      <4> QED BY <2>3, <4>2, <4>3
    <3> QED BY <1>1, <3>1 DEF Inv, TypeOK
  <2>6. EntryKept'
    BY <1>1, <1>3, <2>2, <2>3, <2>4 DEF EntryKept, PollConsistent
  <2> QED BY <1>2, <2>5, <2>6 DEF Inv
<1>6. CASE PollEntry
  <2>1. /\ poll.job \in Requests /\ job[poll.job].entry \in BOOLEAN
        /\ poll.status = "dlq" => job[poll.job].entry
    BY <1>4, <1>6 DEF Inv, EntryKept, PollEntry, Row
  <2>2. poll' = [pc |-> "answered", job |-> poll.job, status |-> poll.status,
                 dlq |-> job[poll.job].entry]
    <3> DEFINE half == [poll EXCEPT !.pc = "answered"]
    <3>1. half = [pc |-> "answered", job |-> poll.job, status |-> poll.status,
                  dlq |-> poll.dlq]
      BY <1>4
    <3>2. poll' = [half EXCEPT !.dlq = job[poll.job].entry]
      BY <1>6 DEF PollEntry
    <3> HIDE DEF half
    <3> QED BY <3>1, <3>2
  <2>3. TypeOK'
    BY <1>1, <1>4, <2>1, <2>2 DEF Inv, TypeOK
  <2>4. EntryKept'
    BY <1>1, <1>3, <2>1, <2>2 DEF EntryKept, PollConsistent
  <2> QED BY <1>2, <2>3, <2>4 DEF Inv
<1>7. CASE PollAgain
  <2>1. TypeOK'
    BY <1>1, <1>7 DEF PollAgain, IdlePoll, Inv, TypeOK
  <2>2. EntryKept'
    BY <1>1, <1>3, <1>7 DEF PollAgain, IdlePoll, EntryKept, PollConsistent
  <2> QED BY <1>2, <2>1, <2>2 DEF Inv
<1> QED BY <1>5, <1>6, <1>7

-----------------------------------------------------------------------------
(* What callers may rely on.                                               *)

\* The invariant is inductive.
LEMMA Invariant == Spec => []Inv
PROOF
<1>1. Init => Inv
  <2> SUFFICES ASSUME Init PROVE Inv
    OBVIOUS
  <2>1. NoAnswer \in Answers /\ NoRow \in Row
    BY DEF NoAnswer, Answers, NoRow, Row, JobStatuses
  <2>2. Without("unsent", NoAnswer) \in Request
    BY <2>1 DEF Without, Request
  <2>3. TypeOK
    BY <2>1, <2>2 DEF Init, TypeOK, IdlePoll, Request, Row
  <2>4. RowsFit /\ AnswersFit
    BY DEF Init, RowsFit, RowFits, AnswersFit, AnswerFits, Without, NoRow, NoAnswer
  <2>5. KeyOnce /\ EntryKept
    BY DEF Init, KeyOnce, NoRow, EntryKept, PollConsistent, IdlePoll
  <2> QED BY <2>3, <2>4, <2>5 DEF Inv
<1>2. Inv /\ [Next]_vars => Inv'
  <2> SUFFICES ASSUME Inv, [Next]_vars PROVE Inv'
    OBVIOUS
  <2>1. ASSUME NEW r \in Requests, Send(r) \/ Handle(r) \/ Drop(r)
        PROVE  Inv'
    BY <2>1, RequestKeeps
  <2>2. ASSUME NEW j \in Requests, Run(j) \/ End(j) \/ Replay(j)
        PROVE  Inv'
    BY <2>2, MoveKeeps DEF Run, End, Begun, Replay, JobStatuses
  <2>3. CASE PollJob \/ PollEntry \/ PollAgain
    BY <2>3, PollKeeps
  <2>4. CASE UNCHANGED vars
    BY <2>4 DEF vars, Inv, TypeOK, RowsFit, KeyOnce, AnswersFit, EntryKept, PollConsistent,
                RowFits, AnswerFits
  <2> QED BY <2>1, <2>2, <2>3, <2>4 DEF Next
<1> QED BY <1>1, <1>2, PTL DEF Spec

\* Every state of the jobs table, of the requests on it and of a status request
\* is well formed (jobs.py, idempotency.py).
THEOREM TypeCorrect == Spec => []TypeOK
BY Invariant, PTL DEF Inv

\* An answer holds: an accepted job is stored unless the commit behind the
\* answer is out or was lost, and a conflict has its rival (jobs.py
\* submit_ingest, deps.py get_db_session).
THEOREM AnswersTrue == Spec => []AnswersHold
PROOF
<1>1. Inv => AnswersHold
  <2> SUFFICES ASSUME Inv, NEW r \in Requests
               PROVE  /\ req[r].ans.kind = "accepted" =>
                           \/ job[req[r].ans.job].state = "committed"
                           \/ req[r].ans.job = r /\ req[r].pc \in {"commit", "lost"}
                      /\ req[r].ans.kind = "conflict" =>
                           \E j \in Stored(req[r].key) : job[j].text # req[r].text
    BY DEF AnswersHold
  <2>1. req[r] \in Request
    BY Types DEF Inv
  <2>2. AnswerFits(r, req[r], job)
    BY DEF Inv, AnswersFit
  <2> QED BY <2>1, <2>2 DEF AnswerFits, Request, Accepted, NoAnswer, Stored
<1> QED BY <1>1, Invariant, PTL

\* One key, one job, one payload, however many requests with the key overlap
\* (idempotency.py; the unique index of ingestion_jobs).
THEOREM OneJobPerKey == Spec => []SameKeySameJob
PROOF
<1>1. Inv => SameKeySameJob
  <2> SUFFICES ASSUME Inv, NEW r \in Requests, NEW s \in Requests,
                      req[r].ans.kind = "accepted", req[r].pc # "lost",
                      req[s].ans.kind = "accepted", req[s].pc # "lost",
                      req[r].key = req[s].key
               PROVE  req[r].ans.job = req[s].ans.job /\ req[r].text = req[s].text
    BY DEF SameKeySameJob
  <2>1. ASSUME NEW q \in Requests, req[q].ans.kind = "accepted", req[q].pc # "lost"
        PROVE  /\ req[q].ans.job \in Requests /\ job[req[q].ans.job].state # "none"
               /\ job[req[q].ans.job].key = req[q].key
               /\ job[req[q].ans.job].text = req[q].text
    <3>1. req[q] \in Request
      BY Types DEF Inv
    <3>2. AnswerFits(q, req[q], job) /\ RowFits(job[q], req[q])
      BY DEF Inv, AnswersFit, RowsFit
    <3>3. req[q].pc \in {"commit", "ended"}
      BY <2>1, <3>1, <3>2 DEF AnswerFits, Request, NoAnswer
    <3>4. CASE req[q].pc = "ended"
      BY <2>1, <3>2, <3>4 DEF AnswerFits
    <3>5. CASE req[q].pc = "commit"
      <4>1. req[q].ans = Accepted(q)
        BY <2>1, <3>2, <3>5 DEF AnswerFits, NoAnswer
      <4> QED BY <3>2, <3>5, <4>1 DEF RowFits, Accepted
    <3> QED BY <3>3, <3>4, <3>5
  <2> QED BY <2>1 DEF Inv, KeyOnce
<1> QED BY <1>1, Invariant, PTL

\* The two statements of get_job never show a dead-lettered job without its
\* entry, whatever runs and replays, of jobs in any status, commit between them.
THEOREM PollTrue == Spec => []PollConsistent
PROOF
<1>1. Inv => PollConsistent
  BY DEF Inv, EntryKept
<1> QED BY <1>1, Invariant, PTL
=============================================================================
