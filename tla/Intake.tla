------------------------------- MODULE Intake -------------------------------
(***************************************************************************)
(* A job that extracts while the taxonomy is seeded: the snapshot that the *)
(* extractor is given (src/src/axis/ingestion/pipeline.py,                 *)
(* _current_taxonomy), the sorting of the answer (Extraction), and the     *)
(* routing of the candidates, each by a lookup of its own in the taxonomy  *)
(* of that moment (src/src/axis/ingestion/persist.py).                     *)
(*                                                                         *)
(* What becomes of a candidate that is written is FactStore's matter, what *)
(* becomes of a job that raises JobLifecycle's.                            *)
(***************************************************************************)
EXTENDS Seeding, Extraction

CONSTANTS
  Answers,    \* bound: the lists of entries the provider may answer with
  NoVersion   \* no version of the taxonomy

ASSUME AnswersAssumption == Answers \subseteq Seq(Entry)
ASSUME VersionAssumption == \A rel \in TaxonomyReleases : rel.version # NoVersion

VARIABLE job \* [pc, version, allowed, answer, fate]: the snapshot, the answer,
             \* and by entry what has become of it
vars == <<seedVars, job>>

Versions == { rel.version : rel \in TaxonomyReleases }
Listed   == { v \in Versions : Version(v) \in Table }

\* order_by(published_at.desc()).limit(1)
Latest == CHOOSE v \in Listed : \A w \in Listed : PublishedAt(w) <= PublishedAt(v)

KeysOf(v) == { k \in Keys : Attribute(v, k) \in Table }

\* Mutant: the lookup takes the latest version only.
CarriersLatest(k) == { v \in Versions : Attribute(v, k) \in Table /\ v = Latest }

\* The rows _attribute_by_key finds, for any version.
Carriers(k) == { v \in Versions : Attribute(v, k) \in Table }

Init ==
  /\ SeedInit
  /\ job = [pc |-> "start", version |-> NoVersion, allowed |-> {}, answer |-> <<>>,
            fate |-> <<>>]

\* The first statement of _current_taxonomy.
PickVersion ==
  /\ job.pc = "start" /\ release \in [Seeders -> TaxonomyReleases]
  /\ job' = IF Listed = {} THEN [job EXCEPT !.pc = "asking"]
            ELSE [job EXCEPT !.pc = "picked", !.version = Latest]
  /\ UNCHANGED seedVars

\* Mutant: the attributes of every version.
PickAttributesOfAll ==
  /\ job.pc = "picked"
  /\ job' = [job EXCEPT !.pc = "asking", !.allowed = UNION { KeysOf(v) : v \in Versions }]
  /\ UNCHANGED seedVars

\* The second one.
PickAttributes ==
  /\ job.pc = "picked"
  /\ job' = [job EXCEPT !.pc = "asking", !.allowed = KeysOf(job.version)]
  /\ UNCHANGED seedVars

\* The provider answers.  What is not JSON, or holds no list of candidates,
\* raises; so does an entry that is illegible; any other answer is sorted.
Answer ==
  /\ job.pc = "asking"
  /\ \/ job' = [job EXCEPT !.pc = "raised"]
     \/ \E answer \in Answers :
          job' = IF Illegible(answer)
                 THEN [job EXCEPT !.pc = "raised", !.answer = answer]
                 ELSE [job EXCEPT !.pc = "routing", !.answer = answer,
                                  !.fate = [i \in DOMAIN answer |-> "none"]]
  /\ UNCHANGED seedVars

Allowed(i) == i \in Known(job.answer, job.allowed)
Flagged    == Unknown(job.answer, job.allowed)
Left       == { i \in Known(job.answer, job.allowed) : job.fate[i] = "none" }

\* First the unknown ones, all of them, as flagged review items.
FlagUnknown ==
  /\ job.pc = "routing"
  /\ job' = [job EXCEPT !.pc = "storing",
               !.fate = [i \in DOMAIN job.answer |-> IF i \in Flagged THEN "flagged" ELSE "none"]]
  /\ UNCHANGED seedVars

Route(i) ==
  CASE job.answer[i].confidence = "low"      -> "dropped"
    [] Carriers(job.answer[i].key) = {}      -> "missed"
    [] job.answer[i].confidence = "doubtful" -> "reviewed"
    [] OTHER                                 -> "written"

\* Then the candidates in turn; a key that two versions carry raises.
Store ==
  /\ job.pc = "storing"
  /\ LET next == CHOOSE i \in Left : \A j \in Left : i <= j
     IN  job' = CASE Left = {} -> [job EXCEPT !.pc = "stored"]
                  [] OTHER ->
                     IF /\ job.answer[next].confidence # "low"
                        /\ Cardinality(Carriers(job.answer[next].key)) > 1
                     THEN [job EXCEPT !.pc = "ambiguous"]
                     ELSE [job EXCEPT !.fate[next] = Route(next)]
  /\ UNCHANGED seedVars

JobStep == PickVersion \/ PickAttributes \/ Answer \/ FlagUnknown \/ Store

Next == (SeedNext /\ UNCHANGED job) \/ JobStep

Spec     == Init /\ [][Next]_vars
FairSpec == Spec /\ \A s \in Seeders :
              /\ WF_vars((Look(s) \/ Commit(s) \/ DeadlockVictim(s)) /\ UNCHANGED job)
              /\ SF_vars((Insert(s) \/ Refused(s)) /\ UNCHANGED job)

-----------------------------------------------------------------------------
\* The extractor never sees part of a release: what it is allowed is what the
\* releases of the version it picked list, those that are in the database as a
\* whole, though version and attributes are read by two statements while
\* seeders commit (pipeline.py _current_taxonomy, "immutable snapshot").
SnapshotIsWhole ==
  job.pc \notin {"start", "picked"} =>
    \E rels \in SUBSET { rel \in TaxonomyReleases : rel.version = job.version } :
      /\ job.version # NoVersion => rels # {}
      /\ job.allowed = { k \in Keys : \E rel \in rels : Attribute(rel.version, k) \in RowsOf[rel] }

\* When a job has stored its answer, every object under a key that its snapshot
\* lacks is flagged for review, however it is made, and every valid candidate
\* of the snapshot is a fact, a review item, or dropped for its low confidence;
\* nothing that failed its validation is taken for either (_parse_response,
\* persist_extraction; "instead of being silently dropped", schemas.py).
NothingSwallowed ==
  job.pc = "stored" =>
    \A i \in Objects(job.answer) :
      LET e      == job.answer[i]
          listed == e.key \in job.allowed
      IN  /\ ~listed => job.fate[i] = "flagged"
          /\ listed /\ e.valid => IF e.confidence = "low" THEN job.fate[i] = "dropped"
                                  ELSE job.fate[i] \in {"written", "reviewed"}
          /\ ~e.valid => job.fate[i] \notin {"written", "reviewed"}

\* ARCHITECTURE.md 5.2: "Schema validation failure: candidate dropped".
InvalidIsDropped ==
  job.pc = "stored" =>
    \A i \in Objects(job.answer) :
      job.answer[i].key \in job.allowed /\ ~job.answer[i].valid =>
        job.fate[i] \in {"none", "dropped"}

\* "Shouldn't happen - taxonomy filter ran before" (persist.py): a candidate
\* that the snapshot allowed is found again, however much is seeded between;
\* and a lookup meets two rows only if two releases of different versions both
\* list the key.
FilterHolds ==
  /\ \A i \in DOMAIN job.fate : job.fate[i] # "missed"
  /\ job.pc = "ambiguous" =>
       \E r1, r2 \in TaxonomyReleases : \E i \in DOMAIN job.answer :
         /\ r1.version # r2.version
         /\ Attribute(r1.version, job.answer[i].key) \in RowsOf[r1]
         /\ Attribute(r2.version, job.answer[i].key) \in RowsOf[r2]
=============================================================================
