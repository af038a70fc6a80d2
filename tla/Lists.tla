-------------------------------- MODULE Lists --------------------------------
(***************************************************************************)
(* Paging through a list that changes: GET /review-queue                   *)
(* (src/axis/api/v1/review.py, list_review_queue) and GET /venues          *)
(* (src/axis/api/v1/venues.py, src/axis/db/queries/venues.py).             *)
(*                                                                         *)
(* Both sort by (created_at, id), newest first, fetch one row more than a  *)
(* page holds, and hand out the last row of a page as the cursor of the    *)
(* next.  created_at is the start of the row's transaction                 *)
(* (db/models/mixins.py, func.now()), so rows of one transaction share it, *)
(* and a row may be committed when newer ones have long been listed.       *)
(* Between two pages rows are committed, items resolved, facts changed.    *)
(*                                                                         *)
(* The two endpoints differ in their filter and in how the comparison with *)
(* the cursor is written; a behaviour is about one of them.                *)
(***************************************************************************)
EXTENDS Naturals, Sequences, FiniteSets, SequencesExt

CONSTANTS
  Writers,   \* sessions that insert venues or review items
  MaxRows,   \* bound: rows ever inserted
  MaxTime,   \* bound: the clock that created_at is read from
  MaxLimit,  \* bound: the page size a caller asks for
  Attributes,\* taxonomy attributes: a key may have one in every version
  KeyOf,     \* their keys
  Initial,   \* those seeded before the first venue
  Filters,   \* the requires filters a caller may send, sets of keys
  MaxFacts   \* bound: facts live and true at once

ASSUME BoundsAssumption ==
  {MaxRows, MaxTime, MaxLimit, MaxFacts} \subseteq Nat /\ MaxLimit > 0
ASSUME KeysAssumption   ==
  /\ IsFiniteSet(Attributes) /\ Initial \subseteq Attributes
  /\ \A keys \in Filters : IsFiniteSet(keys)
  /\ KeyOf \in [Attributes -> STRING]

Ids     == 1..MaxRows
Sources == {"ai_extraction", "human"}
Facts   == Attributes \X Sources

VARIABLES
  list,     \* the endpoint: "reviews" or "venues"
  requires, \* the keys of its requires filter, for venues
  limit,    \* the page size
  now,      \* the clock
  tx,       \* by writer: the start of its open transaction, or NoTime
  row,      \* by id: [state, writer, created, pending, true], where true is the
            \* set of live datapoints with value true, for a venue
  page,     \* the reader: [pc, cursor, listed], listed the ids of all its pages
  seeded,   \* the attributes of every version seeded so far
  found,    \* those that the lookup of a candidate's key has returned: facts and
            \* review items refer to no other
  steady    \* auxiliary: the rows that have matched since the first page

asked    == <<list, requires, limit>>
taxonomy == <<seeded, found>>
vars == <<list, requires, limit, now, tx, row, page, seeded, found, steady>>

NoTime == 0
NoRow  == [state |-> "none", writer |-> "nobody", created |-> NoTime,
           pending |-> TRUE, true |-> {}]
ASSUME NobodyAssumption == "nobody" \notin Writers

-----------------------------------------------------------------------------
(* The query.                                                              *)

\* Mutant: live datapoints are counted instead of attributes.
HasRequiredPerFact(facts) ==
  Cardinality({ f \in facts : KeyOf[f[1]] \in requires }) = Cardinality(requires)

\* The HAVING clause: the distinct attributes found are as many as the keys.
HasRequired(facts) ==
  Cardinality({ f[1] : f \in { g \in facts : KeyOf[g[1]] \in requires } })
    = Cardinality(requires)

Suits(record) == IF list = "venues" THEN HasRequired(record.true) ELSE record.pending
Matches(r)    == Suits(row[r])

Newer(r, s) == \/ row[r].created > row[s].created
               \/ row[r].created = row[s].created /\ r > s

\* Mutants: the cursor's own row is listed again; rows created together with
\* it are passed over.
BelowInclusive(r, c) ==
  /\ row[r].created <= row[c].created
  /\ ~(row[r].created = row[c].created /\ r > c)
BelowByTime(r, c) == row[r].created < row[c].created

\* review.py: created < cursor, or equal and id < cursor's.
\* queries/venues.py: created <= cursor, and not equal with id >= cursor's.
Below(r, c) ==
  CASE list = "reviews" -> \/ row[r].created < row[c].created
                           \/ row[r].created = row[c].created /\ r < c
    [] list = "venues"  -> /\ row[r].created <= row[c].created
                           /\ ~(row[r].created = row[c].created /\ r >= c)

Found == { r \in Ids : row[r].state = "committed" /\ Matches(r) }

\* LIMIT n, and the slice that cuts a page.
First(rows, n) == IF Len(rows) > n THEN SubSeq(rows, 1, n) ELSE rows

NewestFirst(rows) == \A i, j \in DOMAIN rows : i < j => Newer(rows[i], rows[j])

\* What a query finds below the cursor, in the order it is returned.
Results ==
  { rows \in SetToSeqs({ r \in Found : page.cursor # 0 => Below(r, page.cursor) }) :
      NewestFirst(rows) }

-----------------------------------------------------------------------------
Init ==
  /\ list \in {"reviews", "venues"}
  /\ requires \in IF list = "venues" THEN Filters ELSE {{}}
  /\ limit \in 1..MaxLimit
  /\ now = 1
  /\ tx = [w \in Writers |-> NoTime]
  /\ row = [r \in Ids |-> NoRow]
  /\ page = [pc |-> "idle", cursor |-> 0, listed |-> <<>>]
  /\ seeded = Initial /\ found = {}
  /\ steady = {}

Tick ==
  /\ now < MaxTime /\ now' = now + 1
  /\ UNCHANGED <<asked, tx, row, page, steady, taxonomy>>

Begin(w) ==
  /\ tx[w] = NoTime
  /\ tx' = [tx EXCEPT ![w] = now]
  /\ UNCHANGED <<asked, now, row, page, steady, taxonomy>>

\* create_venue, _persist_review_item: ids are minted in time order.
Add(w) ==
  /\ tx[w] # NoTime
  /\ \E r \in Ids :
       /\ \A s \in Ids : (row[s].state = "none") <=> s >= r
       /\ row' = [row EXCEPT ![r] = [NoRow EXCEPT !.state = "flushed", !.writer = w,
                                                  !.created = tx[w]]]
  /\ UNCHANGED <<asked, now, tx, page, steady, taxonomy>>

Ends(w, state) ==
  /\ tx[w] # NoTime
  /\ row' = [r \in Ids |-> IF row[r].writer = w
                           THEN [row[r] EXCEPT !.state = state, !.writer = "nobody"]
                           ELSE row[r]]
  /\ tx' = [tx EXCEPT ![w] = NoTime]
  /\ UNCHANGED <<asked, now, page, steady, taxonomy>>

Commit(w)   == Ends(w, "committed")
Rollback(w) == Ends(w, "gone")

\* A committed change to a row's filtered columns, by any other request.
Change(r, new) ==
  /\ row[r].state = "committed"
  /\ row' = [row EXCEPT ![r] = new]
  /\ steady' = { s \in steady : Suits(row'[s]) }
  /\ UNCHANGED <<asked, now, tx, page, taxonomy>>

\* resolve_review_item.
Resolve(r) ==
  /\ list = "reviews" /\ row[r].pending
  /\ Change(r, [row[r] EXCEPT !.pending = FALSE])

\* The seeder commits an attribute of one more version; none is ever removed.
Seed(a) ==
  /\ list = "venues" /\ a \notin seeded
  /\ seeded' = seeded \cup {a}
  /\ UNCHANGED <<asked, now, tx, row, page, found, steady>>

\* Mutant: the first row of several is taken.
AnyOfKey(a) == a \in seeded

\* The lookup by key is over all versions and raises on a second row.
OneOfKey(a) == { b \in seeded : KeyOf[b] = KeyOf[a] } = {a}

\* _attribute_by_key returns the attribute of a candidate.
LookUp(a) ==
  /\ list = "venues" /\ OneOfKey(a)
  /\ found' = found \cup {a}
  /\ UNCHANGED <<asked, now, tx, row, page, seeded, steady>>

\* A fact of a venue becomes live and true, or ceases to be.  A reviewer's may
\* be long after the lookup: the item holds the attribute's id.
Learn(r) ==
  /\ list = "venues"
  /\ Cardinality({ fact \in Ids \X Facts : fact[2] \in row[fact[1]].true }) < MaxFacts
  /\ \E f \in Facts \ row[r].true :
       f[1] \in found /\ Change(r, [row[r] EXCEPT !.true = @ \cup {f}])
Unlearn(r) ==
  /\ list = "venues"
  /\ \E f \in row[r].true : Change(r, [row[r] EXCEPT !.true = @ \ {f}])

\* The caller asks for the first page, or for the one after its cursor: the
\* query fetches one row more than a page holds, and no cursor comes back with
\* the last page.
Fetch ==
  /\ page.pc # "over"
  /\ \E result \in Results :
       LET got  == First(result, limit + 1)
           more == Len(got) > limit
           rows == First(got, limit)
       IN  page' = [pc     |-> IF more THEN "open" ELSE "over",
                    cursor |-> IF more THEN rows[limit] ELSE 0,
                    listed |-> page.listed \o rows]
  /\ steady' = IF page.pc = "idle" THEN Found ELSE steady
  /\ UNCHANGED <<asked, now, tx, row, taxonomy>>

Next ==
  \/ Tick \/ Fetch
  \/ \E w \in Writers : Begin(w) \/ Add(w) \/ Commit(w) \/ Rollback(w)
  \/ \E r \in Ids : Resolve(r) \/ Learn(r) \/ Unlearn(r)
  \/ \E a \in Attributes : Seed(a) \/ LookUp(a)

Spec == Init /\ [][Next]_vars

-----------------------------------------------------------------------------
TypeOK ==
  /\ list \in {"reviews", "venues"} /\ requires \in Filters \cup {{}}
  /\ limit \in 1..MaxLimit /\ now \in 1..MaxTime
  /\ tx \in [Writers -> 0..MaxTime]
  /\ row \in [Ids -> [state : {"none", "flushed", "committed", "gone"},
                      writer : Writers \cup {"nobody"}, created : 0..MaxTime,
                      pending : BOOLEAN, true : SUBSET Facts]]
  /\ page.pc \in {"idle", "open", "over"} /\ page.cursor \in 0..MaxRows
  /\ page.listed \in Seq(Ids) /\ steady \subseteq Ids
  /\ found \subseteq seeded /\ seeded \subseteq Attributes

\* No row is listed twice, and the pages together are in order, though rows
\* are committed out of the order of their created_at and change between two
\* pages (review.py list_review_queue, queries/venues.py _build_base_stmt).
NoneTwice == NewestFirst(page.listed)

\* The cursor skips nothing: by the last page, every row that has matched the
\* filter since the first one has been listed, rows that share a created_at
\* with the end of a page included (api/v1/pagination.py, venues.py
\* list_venues, "+1 probe").
NoneMissed == page.pc = "over" => steady \subseteq Range(page.listed)

\* The count of the requires filter says what it is meant to say: a live fact
\* "true" for every key, however many sources assert it and however many
\* versions have the key, for a lookup that would find a second attribute of a
\* key raises (queries/venues.py, module docstring; venues.py list_venues,
\* "for EVERY listed key").
RequiresEvery ==
  list = "venues" =>
    \A r \in Ids : row[r].state = "committed" =>
      (Matches(r) <=> \A k \in requires : \E f \in row[r].true : KeyOf[f[1]] = k)
=============================================================================
