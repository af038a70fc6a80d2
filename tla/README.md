# A verification development of AXIS

TLA+ models of the AXIS accessibility API (`src/axis`), TLC configurations that
check them on small instances, and TLAPS proofs about the central ones. The
source is the reference: each definition that models code is mapped to its lines
in `PROJECT.json`, and each property names the code behaviour it is about.

## The system

AXIS stores facts ("datapoints") about the accessibility of venues. A client
submits a text about a venue; a worker sends it to an LLM, compares what comes
back with what is known, and stores it; doubtful candidates go to human
reviewers, whose decisions are facts of their own.

| Part | State | Operations | What makes it correct |
|---|---|---|---|
| Reconciliation (`domain/reconciliation.py`) | none | `reconcile(existing, incoming)` | an equal value changes nothing, a later one of the same source supersedes, a weaker source never does |
| Fact persistence (`ingestion/persist.py`, `db/models/datapoint.py`) | `datapoints` rows, partial unique index on live rows, self-reference `superseded_by_id` | `persist_extraction` | one live row per venue, attribute, provenance; no fact lost; a linear chain of history |
| Review (`api/v1/review.py`) | `review_items` | list, resolve (accept, edit, reject) | a verdict is final for whoever reads it, and its fact is stored |
| Circuit breaker, retry (`ingestion/circuit.py`, `retry.py`) | state, opening time, probe flag, failure times; process-local | `before_call`, `on_success`, `on_failure`, `with_retry` | opens on a burst only; half open settles; recovers |
| Jobs (`ingestion/pipeline.py`, `tasks.py`) | `ingestion_jobs`, `dlq_entries` | `run_ingestion_job`, stage by stage | every job ends; failures reach the DLQ; re-runs are harmless |
| DLQ replay (`api/v1/dlq.py`) | the same | replay | a job in the DLQ has its entry, whoever replays it; any job with an entry can be replayed, and keeps it |
| Submission (`ingestion/idempotency.py`, `api/v1/jobs.py`) | `ingestion_jobs` | submit, status | one job per key; what was answered holds |
| Embedding (`ingestion/embedding.py`, `embeddings/`) | `datapoints.embedding`, the loaded model | embed a job's datapoints | every datapoint of a job that succeeds is embedded |
| Extraction (`extraction/`) | none | `extract` | unknown attributes never reach the datapoints, and nothing is swallowed |
| Queries (`db/queries/`, `api/v1/venues.py`, `search.py`, `taxonomy.py`) | none | list, detail, search | pages neither skip nor repeat |
| Auth (`auth/`, `api/v1/auth.py`, `deps.py`) | users, roles, refresh tokens, API keys | login, refresh, logout, resolve principal | one good token per sign-in; a closed family stays closed; scopes not stale for longer than a token lives |
| Seeding (`db/seed.py`, `seed_iam.py`) | catalogue tables | idempotent inserts | a release is seeded as a whole or not at all, whoever seeds beside |
| Shell (`main.py`, `config.py`, `observability/`, `health.py`) | settings | none that matter here | - |

How they interact: a request or a stage of a job is one SQLAlchemy session, that
is one PostgreSQL transaction at READ COMMITTED (`db/base.py`,
`api/v1/deps.py`). Requests and jobs share nothing but the database; the jobs of
one worker process also share the event loop and the circuit breaker. What is
hard is therefore: transactions that read, decide and write without locking; a
session with autoflush off, which does not see its own additions; five
transactions per job with a crash possible between any two; provider calls that
overlap on a breaker that does not know who reports; retries, replays and
repeated deliveries of what was partly done; and requests that wait, for a lock
of the database, the model's lock or a connection, while they hold something
else. `PROJECT.json` lists these as hazards, each at its line.

## The modules

    Reconciliation            the pure rule and the typed storage of values
      FactStore               the transactions on datapoints          (MCFactStore)
        FactStoreRefinement   FactStore implements FactHistory
          ReviewDesk          review items and their resolution       (MCReviewDesk)
            FactStoreProofs   theorems about these four
    FactHistory               what readers are promised
    CircuitBreaker            breaker, retry, concurrent calls        (MCCircuitBreaker)
      CircuitBreakerProofs    theorems
    JobLifecycle              runs, DLQ, replays of one job           (MCJobLifecycle)
      JobLifecycleProofs      theorems
    Submission                submitting a job, asking for its status (MCSubmission)
      SubmissionProofs        theorems
    Sessions                  refresh tokens: rotate, reuse, logout   (MCSessions)
      SessionsProofs          theorems
    Lists                     keyset pages of the review queue, venues (MCLists)
      ListsProofs             theorems
    Principals                access tokens, API keys, scopes
    ModelLoader               the embedding model and its lock
      SemanticSearch          both, and the connection pool           (MCSemanticSearch)
        SemanticSearchProofs  theorems
    Seeding                   the two idempotent seeders
    Extraction                the sorting of a model's answer
      Intake                  both, and a job that routes candidates  (MCIntake)
        IntakeProofs          theorems

**Reconciliation.** Values are records of a kind and a number; `Coerce` is
`_value_columns`: truth of any value for a boolean attribute, six decimals for a
number, `str` for an enumeration. The rule compares the *asserted* value with
the *stored* one, as the code does. Overflow of `Numeric(18,6)` and NaN are left
out.

**FactStore.** One row record per id; `upd` holds a transaction's uncommitted
UPDATE of `superseded_by_id`, so that a reader in another transaction sees the
committed value. A client's transaction goes `Begin`, then per candidate `Skip`
(a candidate that writes no datapoint), `Keep` (NoOp), `AddFirst` (InsertLive:
the row is added, not flushed) or `Supersede` (SupersedeLive: id minted) followed
by the flush `Retire`, `InsertRow` for each row added so far, and
`AddReplacement`; at the end `LastFlush`, `InsertRow`..., `FlushDone`, `Commit`.
It can end early by `BadValue` (a conversion raises), `UniqueViolation`,
`DeadlockVictim` or `Crash`, which roll it back. A reviewer's transaction is one
with a single fact of provenance human. PostgreSQL is external and modelled as
far as the code relies on it: own and committed rows are seen, an UPDATE waits
for another transaction's update of the same row and then overwrites it, an
INSERT waits for an open rival of the unique index and fails on a settled one, a
cycle of waits costs one transaction. Ids are minted in time order, as `ids.py`
says of UUIDv7. Partner facts have no writer in the code and so no client here.

**FactHistory** promises readers, per attribute and source, an append-only
history of which the last value is current, published by one writer at a time in
one step. A history is a function from dates to values, and `Continues` says that
a later one keeps every date and value and adds only later ones.
**FactStoreRefinement** maps the committed rows, dated by their ids, to the
history and the live row to the current value.

**CircuitBreaker.** Each job is in `with_retry`: `Admit`/`Refuse` are
`before_call`, `Succeed`, `FailRetryable`, `FailHard` the ends of a call with
what they tell the breaker, `Wake` the end of a back-off, `Cancel` a
cancellation. Times are ages that `Tick` increments up to the largest a
comparison tells apart. `admitted` (the state that let a call go out), `streak`
(the recent failures, those of a probe included) and `lost` (a probe was
cancelled) are ghosts: no action reads them.

**JobLifecycle.** One job. Each transaction is `Read` and then a write of the
columns that differ from what was read (`Written`), which is what the unit of
work does. `Lift` is stage 0, `Extract` the three outcomes of stage 1, `Persist`
stages 2-5, `Pick` and `Embed` stage 6, then `Finish`, `Terminate` or
`DeadLetter`; `SecondEntry` is the unique violation of a second DLQ entry,
`Raise` an exception (or the job timeout) outside stage 1, `Crash` the death of
the process. `Ask` and `Replay` are the replay endpoint. The queue is external:
it delivers again after a crash and may deliver twice.

**ReviewDesk** puts review items on top of `FactStore`. A worker's transaction
files an item (`File`) as one of its candidates; a reviewer's request reads
its item (`Open`), refuses what is not PENDING, takes its fact through the
transaction of `FactStore` (`Materialise`), and resolves the item in the same
step as the commit, since the ORM emits that UPDATE, by primary key and with no
look at the status, when it flushes for the commit. `overtaken` is auxiliary: the
item was resolved after this request had read it.

**Submission.** A request goes `lookup`, `insert`, `commit`. The transaction
belongs to a dependency of the framework: before FastAPI 0.118 it commits before
the answer is sent, from there on afterwards, and `pyproject.toml` admits both, so
`AnswerEarly` may or may not precede `Commit`. `CommitFails` and `Drop` (the
process dies, the caller goes away) end it early. `Insert` waits while an open
transaction holds the key; `InsertRefused` is the IntegrityError of the loser. A
job's further life is one commit each, as `JobLifecycle` has them: `Run`, `End`,
which cannot dead-letter a job that has an entry already, and `Replay`, which takes
any job with an entry, in whatever status. `PollJob` and `PollEntry` are the two
statements of `get_job`.

**Sessions.** One row per refresh token, named after the request that mints it;
`upd` holds the rows an open transaction has revoked. `rotate` is a read, an
UPDATE by primary key that waits for the row and has no condition on
`revoked_at`, and an INSERT; `revoke_family` is an UPDATE with a condition, which
locks the rows of its snapshot one by one and looks again at each it waited for.
`forked` and `raced` are auxiliary: families in which a rotation retired a token
another had retired since it was read, and in which a rotation and a closing
overlapped.

**Lists.** Two lists share the scheme: newest first by `(created_at, id)`, one
row more than the page, its last row the next cursor. `Results` are the orders
the database may return what it finds in, `First` the `LIMIT` and the slice that
cut it. `created_at` is the start of the writer's transaction, so rows commit
out of their order; ids are in the order of the inserts. `Resolve`, `Learn` and
`Unlearn` change what matches between two pages; a caller of the venues may
filter by keys (`requires`). A fact refers to an attribute that the lookup of a
candidate's key has returned (`found`), and the lookup returns nothing once a
second version that has been seeded lists the key (`LookUp`). `steady` is
auxiliary: what has matched since the first page.

**Principals, ModelLoader, SemanticSearch.** A login reads the scopes of its
user (`ReadScopes`) and signs them into a token later, with an expiry counted
from then (`Mint`). A search decodes its token, and tests its date, before it
asks for a connection (`Decode`); with the connection it reads who the caller is
and looks at the date no more (`Authorise`). `EffectiveScopes` falls back to the
user's own scopes when the claim is empty. The model is loaded in a thread under
a fair lock that is looked at twice; a coroutine that is cancelled leaves its
thread behind, and what that loads is thrown away. A search takes a connection
to authorise its caller and keeps it while it embeds, so the pool and the lock
are held together. Roles are changed by nothing in `src/`: `Grant` and
`Withdraw` are the administrator.

**Seeding, Extraction, Intake.** A seeder is a sequence of steps, each with the
rows it looks for, the orders in which it may add them (the links of a role come
from a frozenset, so that two processes may add them in different orders) and
whether it flushes; the steps are computed from the release (`TaxonomySteps`,
`IamSteps`), which is data. An entry of an answer is an object or not, valid or
not, and legible or not, where what is not legible makes even the fallback for
invalid entries raise. `Intake` is a job that reads its snapshot by two
statements, sorts the answer, and routes each candidate by a lookup of its own,
while seeders commit.

## The runs

Runs that pass:

| Run | Bounds | What it shows |
|---|---|---|
| `facts_two_workers` | 2 workers, a boolean and a numeric attribute, 2 candidates each, True and a word, 4 ids | unique lookup, one live row, linear chain, append-only history; every transaction ends |
| `review_desk` | 1 worker, 2 reviewers, 1 item, 1 numeric attribute, a value that cannot be read, 3 ids | an accepted item has its fact; a verdict is overturned only by one who had read the item before; workers and reviewers together implement FactHistory |
| `breaker` | 2 jobs, opens at 2 failures, window 2, open for 2, 2 attempts, cancellation | the circuit opens on a burst in the window and only on one; while no probe is cancelled, a half-open circuit has its probe and the circuit recovers |
| `job_crashes` | 3 runs, 4 deliveries, crashes | a queued job ends, in a terminal status, fully embedded if it succeeds |
| `job_replays` | 2 runs, 2 replays, 4 deliveries, exceptions, crashes and repeated deliveries anywhere | a job in the DLQ has its entry |
| `submission` | 3 requests, 1 key, 2 venues of which 1 exists, 2 payloads | one key, one job, one payload; an answer holds unless its commit failed; the status request never shows dlq without entry; requests end |
| `sessions` | 5 requests, 1 sign-in | the chain is closed, one good token, closed for good (each but for the overlap it names); requests end |
| `lists` | 3 rows, 2 writers, clock of 2, pages of 1 or 2; filters by none, 1 or 2 keys, one of them in two versions, 2 sources, 2 facts at once | nothing twice, nothing missed; the count of the requires filter says "every key" |
| `search` | 3 searches, 2 connections, clock of 2, 1 login at a time, tokens that live 1 | one loader, a loaded model is kept; scopes are not stale for longer than a token lives, the waits for the database aside; searches end |
| `intake` | 2 seeders, 3 releases of the taxonomy and 3 of the roles, any of them seeded before, 7 answers | whole seeds, refused only by a whole release, no deadlock that lasts; whole snapshots; nothing swallowed; the filter holds |

Two runs find what ARCHITECTURE.md promises and the code does not keep (the findings
in `PROJECT.json` have the lines and the quotations):

| Run | What TLC shows |
|---|---|
| `facts_precedence` | an AI fact is live beside a contradicting human one |
| `intake_invalid` | an object that fails validation is not dropped, as section 5.2 says, but becomes a review item, as the code's comment and its tests say |

Why the bounds suffice. *FactStore*: two clients and two attributes are the
least with which row locks, index waits and deadlocks occur, and a row needs a
predecessor and a rival (four ids: a chain of two in each of two slots, or of
four in one). The deadlocks at four ids are those of two inserts; two
extractions that supersede the same two attributes in opposite orders, and so
wait for each other's row locks, take six. With six ids the safety properties
have been checked up to symmetry (208962 states), `TransactionsEnd` has not. In
`facts_two_workers` both attributes have candidates that are converted and so
supersede whenever they are repeated, the case with the most locks; the boolean
also has one that is found again (`Keep`), the numeric one that cannot be read
(`BadValue`). There one item is enough for two reviewers to race on, and three
ids for a fact of the worker, one of each reviewer, and a chain. *Breaker*: two
failures open it, so that one job's failures can be old, recent or late while
the other's decide. *JobLifecycle*: `MaxSent` bounds the deliveries: four are
two crashes or replays of each of two runs, or three runs that overlap.
*Submission*: two requests race for the key and a third comes late, or is the
one that finds a job whose answer was lost. *Sessions*: a login, two rotations
that race or follow each other, a reuse or logout and one more rotation beside
it. *Lists*: a row listed, one at the end of the page and one committed late
between them, in one transaction or in two. A filter by two keys and two facts,
so that a second source or a second version of one key could stand in for the
other; with no filter all three rows match, with one key two of them.
*SemanticSearch*: one that loads, one that waits for it and one without a
connection. A login that reads its scopes before a withdrawal and signs them
after it, or a search that waits with a token until it expires, takes one tick
each. *Intake*: two seeders of different releases of one version, of two
versions, or of the roles. Where the scopes are there already, two seeders that
both have two links to add are serialised by nothing, and may add them in two
orders and wait for each other.

Symmetry is used in safety runs only, over sets whose members the model treats
alike. Deadlock checking is off where the model stops at a bound or is finished:
deliveries in `MCJobLifecycle`, requests,
items, rows and seeders in the others. In `FactStore` `Crash` ends any
transaction, so it is left on.

A type invariant is stated in every module with variables; a run checks it only
where the states are not obviously well formed from the shape of the actions
(`FactStore`, `JobLifecycle`). It is proved for `FactStore`, `ReviewDesk`,
`CircuitBreaker`, `Sessions`, `JobLifecycle` and `Submission`; the other proof
modules establish as much of it as their theorems need.

### What the models show besides

Behaviour worth knowing, met while modelling. The passing runs exclude it, or
their properties name it as an exception (`lost`, `overtaken`, `forked`, `raced`,
"ambiguous", `Raising`), so that together with the exception they say where the
promise fails and that it fails nowhere else:

- One extraction that names an attribute twice violates the unique index by
  itself: the second lookup does not see the first row, which is not flushed, so
  the whole extraction is rolled back (`persist.py:150`, `:190`). The order of
  flushes that `persist.py:205-208` explains avoids this only across extractions.
- `call_provider` reports to the breaker for `Exception` only. A probe that is
  cancelled (job timeout, shutdown) leaves the circuit half open, refusing every
  call, until the process restarts (`pipeline.py:143`; `circuit.py:3-5` promises
  closed or open). Hence the ghost `lost` in `HalfOpenHasProbe` and `Recovery`.
- Only stage 1 has error handling. An exception in a later stage leaves the job
  RUNNING (`pipeline.py:99`: "to a terminal state"), so `job_crashes` has no
  `Raising`.
- A replay keeps the DLQ entry and `dlq_entries.job_id` is unique: the second
  terminal failure of a replayed job rolls back and leaves it RUNNING
  (`SecondEntry`; ARCHITECTURE.md:54-56). Two overlapping runs that both fail meet
  the same, which is why `job_crashes` repeats a delivery only after a crash.
- A run repeated after it has persisted makes its review items again
  (`persist.py:257`; README.md:83-84: "Re-runs never double-write").
- A boolean asserted as a string, or a number with more than six decimals,
  supersedes itself with the same stored value (`Coerce` against `ValuesEqual`).
- The late failure of a call admitted before the circuit opened reopens it under
  the probe, so that two probes can be out; the late success of such a call closes
  an open circuit; a retry refused by the circuit ends the job FAILED with no DLQ
  entry. Since an entry outlives its replay, a job in any status can be replayed.
- The loser of two concurrent submissions gets a 500 (IntegrityError), not the
  existing job; and the key and text of a job sent for another venue are answered
  with the first venue's job, since only the payload's hash is compared.
- Two reviewers who have both read an item as pending both resolve it; the second
  verdict stands and both facts are written (`overtaken`).
- Two rotations of one refresh token leave a sign-in with two good tokens
  (`forked`), and the successor of a rotation that overlaps a logout survives it
  (`raced`).
- A second taxonomy version that lists a key again makes `_attribute_by_key`
  raise for it ("ambiguous" of `Intake`), and one entry whose value or evidence the
  fallback for invalid entries cannot hold makes the whole extraction raise
  (ARCHITECTURE.md:330-331: "job continues").
- A token's date is tested when it is decoded, before the request waits for a
  connection, and its expiry is counted from the signature, after the login has
  waited for its scopes: `StaleForTTL` allows for both waits (`Waited`, `LoginTook`).
- The worker of `tasks.py` runs jobs with no provider, that is with the default
  extractor; `AnthropicExtractor` maps no SDK error to `RetryableProviderError`,
  though `extraction/provider.py` asks for it, so retries never happen with it.
  No code reads `ApiKey.expires_at`.

## Fairness

*FactStore*: weak fairness of each transaction's steps, since a coroutine that
can run is run and `session_scope` always ends the transaction; strong fairness
of an UPDATE or INSERT that waits, since PostgreSQL wakes the waiters when a
transaction ends, so one that is blocked again and again is at last served.
Neither `Begin` nor `Crash` is fair. *CircuitBreaker*: time passes, ready
coroutines run, a call is answered (the client has a timeout), and jobs keep
arriving; that the provider stops failing is a premise of `Recovery`, not
fairness. *JobLifecycle*: a worker is up and takes deliveries, and a run that is
not cut short goes on. *Submission* and *Sessions*: weak fairness of each
request's next step, whichever it is; there a wait can only end, since a request
waits for one row or key at a time and the steps of its holder do not wait for
it. *SemanticSearch*: the event loop runs what can run and threads end; the
timeout of the pool is not assumed, so `SearchesEnd` says that connections come
back without it. *Intake*: weak fairness of a seeder's steps, strong fairness of
an INSERT that waits, as in `FactStore`. Arrivals, crashes and cancellations are
nowhere fair. *Lists* and *ReviewDesk* have safety runs only.

## What is proved

Every safety property of the passing runs, invariants and action properties, and
both refinements are theorems, for any sets of clients, keys, values, requests and
releases and for any bounds. They assume nothing but the named assumptions on the
constants, which TLC evaluates in the runs: natural numbers as bounds and limits,
disjoint sets of clients, sentinels outside the sets they complete, values of the
modelled kinds (`ValuesAssumption`), finitely many attributes, finite filters (`KeysAssumption` of
Lists), finite releases and sequences for what the seeds and answers list (`ReleasesAssumption`,
`AnswersAssumption`). Where the code keeps a promise only in certain settings, the
setting is a hypothesis of the theorem and named below.

Few of the properties are inductive as they stand. Each proof module states the
strengthening as a conjunction of named parts, checks that the initial states have
it and that each action keeps it, one lemma per action or kind of action, and
derives the property.

**FactStoreProofs**

- `TypeCorrect` (`TypeOK`), `LiveUnique` (`OneLive`), `LookupUnique`
  (`LookupIsUnique`). A row that is live for the committed state may be retired in
  an open transaction, a row inserted there is not yet seen. `IndexInv` adds that
  uncommitted rows have an owner (`Owned`), that a transaction's UPDATE concerns
  an inserted row (`Held`), that one transaction at a time has updated a row
  (`OneWriter`: the row lock), and that of two inserted rows of one slot all but
  one are retired, seen from their owners (`Reserved`: the index entry). The
  interesting step is `InsertRow`, whose guard (no rival, no open rival)
  re-establishes `Reserved`; every other step only moves facts between the open
  and the committed view.
- `ChainLinear` (`ChainIsLinear`), `HistoryAppendOnly` (`HistoryKept`). An UPDATE
  that has waited overwrites `superseded_by_id` without looking at it again, so a
  transaction may hold an UPDATE of a row that has a successor by now. `TrailInv`
  adds to `IndexInv` that such a transaction is `Doomed`: it sees two rows of the
  slot that nobody it knows of retires (`Tips`), and keeps seeing two until the
  unique index refuses one of them, so it never commits.
- `HistoryImplemented` (`Spec => ImplementsHistory`). Ids are minted before rows
  are inserted, so a transaction may hold an id older than one a rival publishes.
  `OrderInv` adds that it is doomed for the same reason (`Late`), and therefore a
  commit only adds later dates; that all it adds is of its own provenance
  (`Signed`) makes it one `Publish`.
- `DeskIsFactStore` (`DeskSpec => Spec`): the review queue takes only steps of
  FactStore, so all of the above holds beside it; `DeskImplementsHistory` is the
  refinement that `review_desk` checks.
- `VerdictFinal` (`VerdictIsFinal`): a request whose item has its verdict has been
  overtaken (`Overtaken`), because it passed the check of the status before.
- `FactBehindVerdict` (`ResolvedHasFact`): a request that has handled its fact has
  it, inserted or found (`Materialised`). The fact found may be retired by a rival
  meanwhile, which is why the property asks for a committed row and not a live one;
  that the rule finds "equal" only what has the same stored value rests on the
  conversion's giving back what it was given (`CoerceTwice`, `Stored`).
- `NeverDominated`: the two callers look the existing fact up by the incoming
  one's provenance, so the rule never answers `StoreSuperseded`. The branches of
  `persist.py` that store dominated facts and count conflicts are never taken.

**CircuitBreakerProofs**: `OpensOnBurst` (`BurstOpens`), `OpensOnlyThen`
(`OpensOnBurstOnly`), `ProbeIsOut` (`HalfOpenHasProbe`). `InStep`: while the circuit
is closed, what the breaker remembers is, the too old failures aside, the streak,
and shorter than the limit. It needs that both are sorted by age, because the
code drops old failures from the front.

**SessionsProofs**: `SuccessorReplaces` (`ChainIsClosed`), `OneGoodToken`
(`OneLiveToken`), `NoTokenAfterClosing` (`ClosedForGood`). A row is locked by one
transaction (`Exclusive`), what a rotation has retired was good unless the family
is `forked` (`HeldIsGood`), a closing that no rotation overlapped has locked or
still wants every good token of its family (`ClosingSeesAll`), and `raced` misses
no overlap (`OverlapSeen`). The auxiliaries are exact in one direction: the theorems
say that nothing but the named overlap breaks the promise.

**SubmissionProofs**: `AnswersTrue` (`AnswersHold`), `OneJobPerKey`
(`SameKeySameJob`), `PollTrue` (`PollConsistent`). A row is uncommitted exactly
while its request is about to commit (`RowsFit`), of the rows inserted,
committed or not, each key has one (`KeyOnce`: the index entry), the answers a
request may have at each point agree with the row they name (`AnswersFit`), and
a job never loses its DLQ entry (`EntryKept`), whatever runs it again, ends it
or replays it. Only `Insert` can break `KeyOnce`, and its guard is the index.

**JobLifecycleProofs**

- `TypeCorrect`: partial updates against stale reads always leave a row of the
  table. `DlqEntryKept` (`DlqHasEntry`): an UPDATE leaves the status it set or the
  one that was there, only `DeadLetter` sets dlq, and it sets it with the entry.
- `QuietWithoutEntryIsTerminal`: with no exception outside stage 1 (`Raising = {}`),
  a quiet job that has not ended has an entry already, whatever repeated
  deliveries, crashes and replays overlap (`Owed`: a job that has not ended has a
  run or a delivery that will end it, or an entry). Only the refused second entry
  leaves a job RUNNING.
- `RedeliveryEndsJob` (`QuietIsTerminal`) and `RedeliveryEmbedsAll` (`AllEmbedded`)
  hold in the setting of `job_crashes`, `Redelivered`: no uncaught exception, no
  replay, a delivery repeated after a crash only. Each of the three really breaks
  them (see "What the models show besides"). Then one run at a time is under way
  (`Alone`) and what it has read is still so (`Reads`). The number of runs,
  deliveries and crashes is free.

**ListsProofs**: `PagesInOrder` (`NoneTwice`), `CursorSkipsNothing` (`NoneMissed`),
`RequiresMeansEvery` (`RequiresEvery`). Both ways of writing the comparison with the
cursor are the order of the list (`BelowIsOlder`), what is listed is committed and
so keeps its place (`ListedStay`), the cursor is the last row listed (`AtCursor`),
and what has matched all along is listed or below it (`ToCome`). The count of the
requires filter is right although a key may have an attribute in every version: the
lookup answers only while one version lists the key, so no key has two attributes
that facts refer to (`OneFoundPerKey`), and an injection into the keys is onto
them exactly if there are as many attributes as keys (`CountIsCover`).

**SemanticSearchProofs**: `LoadsAreSerial` (`OneLoader`), `FirstModelStays`
(`ModelKept`): who holds the lock has found no model under it (`LoadsOnce`), which is
what the second look is for. `ScopesExpire` (`StaleForTTL`): the scopes of a
token were read when the user had them, and it lives for a lifetime from its
signature (`CredInv`); a request let through by it has decoded it within that time
(`InTime`).

**IntakeProofs**: `SeedIsWhole` (`SeededWhole`), `RefusedByWhole`
(`RefusedMeansSeeded`), `SnapshotWhole` (`SnapshotIsWhole`),
`NothingIsSwallowed` (`NothingSwallowed`), `FilterIsKept` (`FilterHolds`).
`SeedInv`: every row a seeder has to leave behind is in the table, among those
it has added, or still to come in its steps (`Covered`), and what it added was
not there before; so a row that refuses a seeder was added by a rival that has
committed, and with the row its whole release. `JobInv`: the version that was
picked is in the table (`Picked`), and each entry of the answer has the fate the
code's tests give it (`Fated`, `Routed`).

Only model-checked: liveness (`TransactionsEnd`, `Recovery`, `JobEnds`, both
`RequestsEnd`, `SearchesEnd`, `SeedersEnd`), which needs fairness and ENABLED and is
out of the prover's reach, and the two runs that find a violation. Induction over
data is out of its reach too: where a proof needs the last row of a history or the
earliest of several seeders, it takes the largest or least element of a finite set
of numbers instead.

## What is not modelled, and the plan

`PROJECT.json` lists every component with its status. Left for later, in this
order:

1. A composition of `JobLifecycle` and `FactStore`: a run's facts, its status and
   its embeddings in one behaviour, with the failure of the embedding provider
   inside its transaction.
2. `TransactionsEnd` with six ids, for the deadlock of two row locks, once the state
   space of `FactStore` allows it.
3. Proofs: with that composition, that a job which succeeds leaves its facts in
   the history, from `OwedInv` and `OrderInv`; and `QuietIsTerminal` for repeated
   deliveries without crashes, where two overlapping runs must not both fail.

Not modelled, and why: HTTP plumbing, signing and hashing, prompts and the wording
of answers, vectors and distances, geometry and text search (one condition of one
statement each), metrics, logs, health checks and configuration keep no state the
properties are about; the DDL scripts are straight-line, and the constraints the
code relies on are in the modules that rely on them. The taxonomy endpoint
only reads. A cursor that cannot be decoded is refused with 400 before anything is read.
