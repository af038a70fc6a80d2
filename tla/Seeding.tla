------------------------------- MODULE Seeding -------------------------------
(***************************************************************************)
(* The idempotent seeders: seed_taxonomy (src/axis/db/seed.py) and         *)
(* seed_iam (src/axis/db/seed_iam.py).  Each looks for the rows of its     *)
(* release one step at a time, adds those that are missing, flushes, and   *)
(* commits them all in one transaction.                                    *)
(*                                                                         *)
(* Several processes may seed at once, of different releases when a        *)
(* deployment is under way; the database may hold an earlier release.      *)
(* PostgreSQL is external: a statement sees own and committed rows, an     *)
(* INSERT waits for an open rival of its unique key and is refused by a    *)
(* committed one, a cycle of waits costs one transaction.                  *)
(***************************************************************************)
EXTENDS Naturals, Sequences, FiniteSets, SequencesExt

CONSTANTS
  Seeders,           \* processes that run a seeder once
  TaxonomyReleases,  \* each [version, categories : Seq([key, attributes : Seq])]
  IamReleases        \* each [scopes : Seq, roles : Seq([name, scopes : SUBSET])]

ASSUME SeedersAssumption == IsFiniteSet(Seeders)
ASSUME ReleasesAssumption ==
  /\ \A rel \in TaxonomyReleases :
       /\ rel.categories \in Seq(Range(rel.categories))
       /\ \A c \in Range(rel.categories) : c.attributes \in Seq(Range(c.attributes))
  /\ \A rel \in IamReleases :
       /\ rel.scopes \in Seq(Range(rel.scopes)) /\ rel.roles \in Seq(Range(rel.roles))
       /\ \A r \in Range(rel.roles) : IsFiniteSet(r.scopes)

VARIABLES
  old,     \* the rows that were there at the beginning
  release, \* by seeder: the release it was built with
  seeder   \* by seeder: [pc, at, added, mine, began], where added is a sequence
           \* of rows not yet flushed, mine the rows it has inserted, and began
           \* its place in the order in which transactions started
seedVars == <<old, release, seeder>>

-----------------------------------------------------------------------------
(* What a release seeds: steps, each with the orders in which its rows may *)
(* be added and when the session is flushed.                               *)

Version(v)      == <<"version", v>>
Category(v, c)  == <<"category", v, c>>
Attribute(v, k) == <<"attribute", v, k>>
Scope(s)        == <<"scope", s>>
Role(r)         == <<"role", r>>
Link(r, s)      == <<"link", r, s>>

Ensure(r) == [orders |-> {<<r>>}, flush |-> "missing"]

\* The version, then each category followed by its attributes.
TaxonomySteps(rel) ==
  LET v == rel.version
      OfCategory(c) == <<Ensure(Category(v, c.key))>> \o
                       [i \in DOMAIN c.attributes |-> Ensure(Attribute(v, c.attributes[i]))]
  IN  <<Ensure(Version(v))>> \o
      FlattenSeq([i \in DOMAIN rel.categories |-> OfCategory(rel.categories[i])])

\* All scopes; each role and its links, whose set has no order of its own and
\* which wait for the next flush; the last flush.
IamSteps(rel) ==
  LET OfRole(r) == << Ensure(Role(r.name)),
                      [orders |-> SetToSeqs({ Link(r.name, s) : s \in r.scopes }),
                       flush  |-> "never"] >>
  IN  <<[orders |-> {[i \in DOMAIN rel.scopes |-> Scope(rel.scopes[i])]}, flush |-> "always"]>>
      \o FlattenSeq([i \in DOMAIN rel.roles |-> OfRole(rel.roles[i])])
      \o <<[orders |-> {<<>>}, flush |-> "always"]>>

StepsOf == [rel \in TaxonomyReleases \cup IamReleases |->
              IF rel \in TaxonomyReleases THEN TaxonomySteps(rel) ELSE IamSteps(rel)]
RowsOf  == [rel \in TaxonomyReleases \cup IamReleases |->
              UNION { UNION { Range(o) : o \in StepsOf[rel][i].orders } :
                      i \in DOMAIN StepsOf[rel] }]

-----------------------------------------------------------------------------
IsOpen(s) == seeder[s].pc \in {"looking", "flushing"}

Committed(s) == seeder[s].pc = "committed"
Table        == old \cup UNION { seeder[s].mine : s \in { t \in Seeders : Committed(t) } }

\* published_at of a version: the start of the transaction that inserted it.
PublishedAt(v) ==
  IF Version(v) \in old THEN 0
  ELSE seeder[CHOOSE s \in Seeders : Committed(s) /\ Version(v) \in seeder[s].mine].began

Idle == [pc |-> "idle", at |-> 1, added |-> <<>>, mine |-> {}, began |-> 0]

SeedInit ==
  /\ \E releases \in {TaxonomyReleases, IamReleases} :
       /\ release \in [Seeders -> releases]
       /\ old \in {{}} \cup { RowsOf[rel] : rel \in releases }
  /\ seeder = [s \in Seeders |-> Idle]

Begin(s) ==
  /\ seeder[s].pc = "idle"
  /\ seeder' = [seeder EXCEPT ![s].pc = "looking",
                 ![s].began = 1 + Cardinality({ t \in Seeders : seeder[t].pc # "idle" })]
  /\ UNCHANGED <<old, release>>

Steps(s) == StepsOf[release[s]]

\* Looks for the rows of a step and adds those it misses.
LookFor(s, missing) ==
  LET step  == Steps(s)[seeder[s].at]
      added == seeder[s].added \o missing
      flush == \/ step.flush = "always"
               \/ step.flush = "missing" /\ missing # <<>>
  IN  seeder' = [seeder EXCEPT ![s].at = @ + 1, ![s].added = added,
                   ![s].pc = IF flush /\ added # <<>> THEN "flushing" ELSE "looking"]

\* The rows of an order that are not found, in that order.
Missing(order, found) ==
  { m \in SetToSeqs(Range(order) \ found) :
      \A i, j \in DOMAIN m : i < j =>
        \E p, q \in DOMAIN order : p < q /\ order[p] = m[i] /\ order[q] = m[j] }

\* Mutant: a seeder that finds the rows of its first step takes the rest for
\* granted.
LookFirst(s) ==
  /\ seeder[s].pc = "looking" /\ seeder[s].at <= Len(Steps(s))
  /\ \E order \in Steps(s)[seeder[s].at].orders, first \in Steps(s)[1].orders :
       IF Range(first) \subseteq Table THEN LookFor(s, <<>>)
       ELSE \E missing \in Missing(order, Table \cup seeder[s].mine) : LookFor(s, missing)
  /\ UNCHANGED <<old, release>>

Look(s) ==
  /\ seeder[s].pc = "looking" /\ seeder[s].at <= Len(Steps(s))
  /\ \E order \in Steps(s)[seeder[s].at].orders :
       \E missing \in Missing(order, Table \cup seeder[s].mine) : LookFor(s, missing)
  /\ UNCHANGED <<old, release>>

Blockers(s) ==
  IF seeder[s].pc # "flushing" THEN {}
  ELSE { t \in Seeders \ {s} : IsOpen(t) /\ Head(seeder[s].added) \in seeder[t].mine }

\* The flush inserts one row.
Insert(s) ==
  /\ seeder[s].pc = "flushing" /\ Blockers(s) = {}
  /\ Head(seeder[s].added) \notin Table
  /\ seeder' = [seeder EXCEPT
       ![s].mine  = @ \cup {Head(seeder[s].added)},
       ![s].added = Tail(@),
       ![s].pc    = IF Len(seeder[s].added) = 1 THEN "looking" ELSE "flushing"]
  /\ UNCHANGED <<old, release>>

Ends(s, pc) ==
  /\ seeder' = [seeder EXCEPT ![s].pc = pc, ![s].added = <<>>,
                              ![s].mine = IF pc = "committed" THEN @ ELSE {}]
  /\ UNCHANGED <<old, release>>

\* Mutant: the steps are committed as they come.
CommitEarly(s) == seeder[s].pc = "looking" /\ Ends(s, "committed")

\* session_scope commits what seed_taxonomy or seed_iam has added.
Commit(s) ==
  /\ seeder[s].pc = "looking" /\ seeder[s].at > Len(Steps(s))
  /\ Ends(s, "committed")

\* Another process has seeded the row since it was looked for.
Refused(s) ==
  /\ seeder[s].pc = "flushing" /\ Blockers(s) = {}
  /\ Head(seeder[s].added) \in Table
  /\ Ends(s, "refused")

\* Mutant: the deadlock error is caught and the transaction kept.
DeadlockSwallowed(s) ==
  /\ \E cycle \in SUBSET Seeders :
       s \in cycle /\ \A t \in cycle : Blockers(t) \cap cycle # {}
  /\ UNCHANGED seedVars

DeadlockVictim(s) ==
  /\ \E cycle \in SUBSET Seeders :
       s \in cycle /\ \A t \in cycle : Blockers(t) \cap cycle # {}
  /\ Ends(s, "victim")

Crash(s) == IsOpen(s) /\ Ends(s, "dead")

SeedStep(s) == Look(s) \/ Insert(s) \/ Commit(s) \/ Refused(s) \/ DeadlockVictim(s)
SeedNext    == \E s \in Seeders : Begin(s) \/ SeedStep(s) \/ Crash(s)

-----------------------------------------------------------------------------
\* A seeder that reports success has left its whole release in the database,
\* whatever was there before (an earlier release, part of the rows, the rows
\* of a seeder that ran beside it), and nobody takes it away (seed.py,
\* "idempotently"; seed_iam.py, "re-running leaves the existing rows
\* untouched").
SeededWhole == \A s \in Seeders : Committed(s) => RowsOf[release[s]] \subseteq Table

\* A refused seeder has been refused by a release that is whole by then.
RefusedMeansSeeded ==
  \A s \in Seeders : seeder[s].pc = "refused" =>
    \E t \in Seeders \ {s} : Committed(t) /\ RowsOf[release[t]] \subseteq Table

\* Every seeder that has begun ends, deadlocks included.
SeedersEnd == \A s \in Seeders : IsOpen(s) ~> ~IsOpen(s)
=============================================================================
