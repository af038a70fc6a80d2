--------------------------- MODULE CircuitBreaker ---------------------------
(***************************************************************************)
(* The circuit breaker of one worker process                               *)
(* (src/axis/ingestion/circuit.py) and the provider calls of the jobs that *)
(* share it, each under with_retry (src/axis/ingestion/retry.py) as        *)
(* run_ingestion_job wires them (src/axis/ingestion/pipeline.py).          *)
(*                                                                         *)
(* The jobs are coroutines of one event loop: before_call, on_success and  *)
(* on_failure each run without interruption, and other jobs run between    *)
(* them while a call is awaited.                                           *)
(*                                                                         *)
(* Time is discrete.  A monotonic reading t is kept as its age, now - t,   *)
(* up to the largest age a comparison tells apart.                         *)
(***************************************************************************)
EXTENDS Integers, Sequences, FiniteSetsExt

CONSTANTS
  Jobs,         \* the job slots of the worker (max_jobs)
  Cancellable,  \* those whose task may be cancelled (job_timeout, shutdown)
  FailsToOpen,  \* fails_to_open
  Window,       \* window_seconds
  OpenFor,      \* open_seconds
  MaxAttempts   \* max_attempts of with_retry

ASSUME JobsAssumption   == Cancellable \subseteq Jobs
ASSUME LimitsAssumption == /\ FailsToOpen \in Nat \ {0}
                           /\ Window \in Nat
                           /\ OpenFor \in Nat
                           /\ MaxAttempts \in Nat \ {0}

VARIABLES
  breaker,   \* _state
  openAge,   \* the age of _opened_at
  inFlight,  \* _half_open_in_flight
  failures,  \* _failures: ages, oldest first
  pc,        \* by job: where its with_retry is
  attempt,   \* by job: the attempt it is in
  admitted,  \* ghost, by job: the breaker's state when it let the call go out
  lost,      \* ghost: a probe has been cancelled
  streak     \* ghost: ages of the failures reported within the last Window and
             \*   since the last success, those of a probe included

breakerVars == <<breaker, openAge, inFlight, failures>>
vars == <<breaker, openAge, inFlight, failures, pc, attempt, admitted,
          lost, streak>>

Pcs == {"idle", "ready", "calling", "backoff", "done", "refused", "dlq", "cancelled"}

\* What is left when the old ones at the front are dropped.
Recent(ages) ==
  LET recent == { i \in DOMAIN ages : ages[i] <= Window }
  IN  IF recent = {} THEN <<>> ELSE SubSeq(ages, Min(recent), Len(ages))

\* A failure as old as Window still counts, one older no longer does.
Aged(ages) == [i \in DOMAIN ages |-> IF ages[i] > Window THEN ages[i] ELSE ages[i] + 1]

Init ==
  /\ breaker = "closed" /\ openAge = 0 /\ inFlight = FALSE /\ failures = <<>>
  /\ pc = [j \in Jobs |-> "idle"]
  /\ attempt = [j \in Jobs |-> 0]
  /\ admitted = [j \in Jobs |-> "none"]
  /\ lost = FALSE /\ streak = <<>>

Tick ==
  /\ openAge' = IF openAge < OpenFor THEN openAge + 1 ELSE openAge
  /\ failures' = Aged(failures)
  /\ streak' = Recent(Aged(streak))
  /\ UNCHANGED <<breaker, inFlight, pc, attempt, admitted, lost>>

\* The worker picks up a job in this slot and reaches stage 1.
Start(j) ==
  /\ pc[j] \in {"idle", "done", "refused", "dlq", "cancelled"}
  /\ pc' = [pc EXCEPT ![j] = "ready"]
  /\ attempt' = [attempt EXCEPT ![j] = 1]
  /\ UNCHANGED <<breakerVars, admitted, lost, streak>>

-----------------------------------------------------------------------------
(* before_call                                                             *)

CooledDown == breaker = "open" /\ openAge >= OpenFor

\* OPEN past its time becomes HALF_OPEN with no probe in flight.
Allows == \/ breaker = "closed"
          \/ CooledDown
          \/ breaker = "half_open" /\ ~inFlight

\* The call goes out; in HALF_OPEN it is the probe.
Admit(j) ==
  /\ pc[j] = "ready" /\ Allows
  /\ breaker' = IF breaker = "closed" THEN "closed" ELSE "half_open"
  /\ inFlight' = IF breaker = "closed" THEN inFlight ELSE TRUE
  /\ admitted' = [admitted EXCEPT ![j] = breaker']
  /\ pc' = [pc EXCEPT ![j] = "calling"]
  /\ UNCHANGED <<openAge, failures, attempt, lost, streak>>

\* CircuitOpenError: not retried; run_ingestion_job ends the job FAILED.
Refuse(j) ==
  /\ pc[j] = "ready" /\ ~Allows
  /\ pc' = [pc EXCEPT ![j] = "refused"]
  /\ UNCHANGED <<breakerVars, attempt, admitted, lost, streak>>

-----------------------------------------------------------------------------
(* The provider answers.                                                   *)

EndCall(j, next) ==
  /\ pc' = [pc EXCEPT ![j] = next]
  /\ admitted' = [admitted EXCEPT ![j] = "none"]

\* on_success
Succeed(j) ==
  /\ pc[j] = "calling"
  /\ breaker' = "closed" /\ inFlight' = FALSE /\ failures' = <<>>
  /\ streak' = <<>>
  /\ EndCall(j, "done")
  /\ UNCHANGED <<openAge, attempt, lost>>

\* Mutant: old failures are never dropped.
OnFailureKeepAll ==
  LET kept == Append(failures, 0) IN
    IF breaker = "half_open"
    THEN /\ breaker' = "open" /\ openAge' = 0 /\ inFlight' = FALSE
         /\ UNCHANGED failures
    ELSE /\ failures' = kept
         /\ IF Len(kept) >= FailsToOpen
            THEN breaker' = "open" /\ openAge' = 0
            ELSE UNCHANGED <<breaker, openAge>>
         /\ UNCHANGED inFlight

\* Mutant: a failure exactly as old as the window is dropped too.
OnFailureStrict ==
  LET kept == SelectSeq(Append(failures, 0), LAMBDA a : a < Window) IN
    IF breaker = "half_open"
    THEN /\ breaker' = "open" /\ openAge' = 0 /\ inFlight' = FALSE
         /\ UNCHANGED failures
    ELSE /\ failures' = kept
         /\ IF Len(kept) >= FailsToOpen
            THEN breaker' = "open" /\ openAge' = 0
            ELSE UNCHANGED <<breaker, openAge>>
         /\ UNCHANGED inFlight

\* Mutant: the probe's failure leaves the circuit half open.
OnFailureStaysHalfOpen ==
  LET kept == Recent(Append(failures, 0)) IN
    /\ failures' = kept
    /\ IF breaker # "half_open" /\ Len(kept) >= FailsToOpen
       THEN breaker' = "open" /\ openAge' = 0
       ELSE UNCHANGED <<breaker, openAge>>
    /\ UNCHANGED inFlight

\* on_failure
OnFailure ==
  LET kept == Recent(Append(failures, 0)) IN
    IF breaker = "half_open"
    THEN /\ breaker' = "open" /\ openAge' = 0 /\ inFlight' = FALSE
         /\ UNCHANGED failures
    ELSE /\ failures' = kept
         /\ IF Len(kept) >= FailsToOpen
            THEN breaker' = "open" /\ openAge' = 0
            ELSE UNCHANGED <<breaker, openAge>>
         /\ UNCHANGED inFlight

\* RetryableProviderError: with_retry sleeps and tries again, or gives up and
\* the job goes to the DLQ.
FailRetryable(j) ==
  /\ pc[j] = "calling"
  /\ OnFailure
  /\ streak' = Append(streak, 0)
  /\ IF attempt[j] = MaxAttempts
     THEN EndCall(j, "dlq") /\ UNCHANGED attempt
     ELSE EndCall(j, "backoff") /\ attempt' = [attempt EXCEPT ![j] = @ + 1]
  /\ UNCHANGED lost

\* Any other exception: not retried.
FailHard(j) ==
  /\ pc[j] = "calling"
  /\ OnFailure
  /\ streak' = Append(streak, 0)
  /\ EndCall(j, "dlq")
  /\ UNCHANGED <<attempt, lost>>

\* The delay is jittered: it may be nothing, it may be long.
Wake(j) ==
  /\ pc[j] = "backoff"
  /\ pc' = [pc EXCEPT ![j] = "ready"]
  /\ UNCHANGED <<breakerVars, attempt, admitted, lost, streak>>

\* CancelledError is no Exception: call_provider reports nothing to the breaker.
Cancel(j) ==
  /\ j \in Cancellable
  /\ pc[j] \in {"calling", "backoff"}
  /\ lost' = (lost \/ admitted[j] = "half_open")
  /\ EndCall(j, "cancelled")
  /\ UNCHANGED <<breakerVars, attempt, streak>>

Answer(j) == Succeed(j) \/ FailRetryable(j) \/ FailHard(j)

Next == \/ Tick
        \/ \E j \in Jobs : \/ Start(j) \/ Admit(j) \/ Refuse(j)
                           \/ Answer(j) \/ Wake(j) \/ Cancel(j)

Spec == Init /\ [][Next]_vars

\* Time passes, the event loop runs every ready coroutine, the provider
\* answers or times out, and jobs keep arriving.
Fairness ==
  /\ WF_vars(Tick)
  /\ \A j \in Jobs : /\ WF_vars(Start(j))
                     /\ WF_vars(Admit(j) \/ Refuse(j))
                     /\ WF_vars(Answer(j))
                     /\ WF_vars(Wake(j))

FairSpec == Spec /\ Fairness

-----------------------------------------------------------------------------
Ages == 0..(Window + 1)

TypeOK ==
  /\ breaker \in {"closed", "open", "half_open"}
  /\ openAge \in 0..OpenFor
  /\ inFlight \in BOOLEAN
  /\ failures \in Seq(Ages)
  /\ pc \in [Jobs -> Pcs]
  /\ attempt \in [Jobs -> 0..MaxAttempts]
  /\ admitted \in [Jobs -> {"none", "closed", "half_open"}]
  /\ lost \in BOOLEAN
  /\ streak \in Seq(0..Window)

\* fails_to_open failures within window_seconds and no success between them
\* never leave the circuit closed, however the calls that failed overlap
\* (circuit.py on_failure, ARCHITECTURE.md 5.2).
BurstOpens == Len(streak) >= FailsToOpen => breaker # "closed"

\* The circuit opens on such a burst only: older failures, or failures before
\* a success, do not add up (circuit.py on_failure, on_success).
OpensOnBurstOnly ==
  [][breaker = "closed" /\ breaker' = "open" => Len(streak') >= FailsToOpen]_vars

\* A half-open circuit has a probe out that will settle it, unless a probe
\* was cancelled: late reports of other calls never leave it refusing calls
\* with nobody to close or reopen it (circuit.py before_call, on_failure).
HalfOpenHasProbe ==
  breaker = "half_open" /\ ~lost =>
    inFlight /\ \E j \in Jobs : pc[j] = "calling" /\ admitted[j] = "half_open"

\* Once the provider stops failing the circuit closes, and does so again
\* whenever it may have opened, if no probe is cancelled (circuit.py, module
\* docstring).
Recovery ==
  /\ []~lost
  /\ <>[][\A j \in Jobs : ~FailRetryable(j) /\ ~FailHard(j)]_vars
  => []<>(breaker = "closed")
=============================================================================
