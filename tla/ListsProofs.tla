----------------------------- MODULE ListsProofs -----------------------------
(***************************************************************************)
(* Theorems about Lists for every number of rows, writers and attributes,  *)
(* every page size, and whatever is committed between two pages.           *)
(***************************************************************************)
EXTENDS Lists, FiniteSetTheorems, TLAPS

USE BoundsAssumption, NobodyAssumption DEF asked

-----------------------------------------------------------------------------
(* Sequences of rows.                                                      *)

\* The sequences of all elements of a finite set have the set as their range.
LEMMA OrderingsAreWhole ==
  ASSUME NEW S, IsFiniteSet(S), NEW f \in SetToSeqs(S)
  PROVE  f \in Seq(S) /\ Range(f) = S
PROOF
<1> DEFINE n == Cardinality(S)
<1>1. n \in Nat
  BY FS_CardinalityType
<1>2. f \in [1..n -> S] /\ \A i, j \in 1..n : i # j => f[i] # f[j]
  BY DEF SetToSeqs
<1>3. f \in Seq(S)
  BY <1>1, <1>2
<1>4. ASSUME NEW x \in S, x \notin Range(f)
      PROVE  FALSE
  <2>1. IsFiniteSet(S \ {x}) /\ Cardinality(S \ {x}) = n - 1
    BY FS_RemoveElement
  <2>2. IsFiniteSet(1..n) /\ Cardinality(1..n) = n
    BY <1>1, FS_Interval
  <2>3. f \in [1..n -> S \ {x}]
    BY <1>2, <1>4 DEF Range
  <2>4. n - 1 < n
    BY <1>1
  <2> HIDE DEF n
  <2>5. \E i, j \in 1..n : i # j /\ f[i] = f[j]
    BY <2>1, <2>2, <2>3, <2>4, FS_PigeonHole
  <2> QED BY <1>2, <2>5
<1>5. Range(f) \subseteq S
  BY <1>2 DEF Range
<1> QED BY <1>3, <1>4, <1>5

\* The first n of a sequence.
LEMMA FirstOf ==
  ASSUME NEW S, NEW s \in Seq(S), NEW n \in Nat
  PROVE  /\ First(s, n) \in Seq(S)
         /\ Len(First(s, n)) = IF Len(s) > n THEN n ELSE Len(s)
         /\ \A i \in 1..Len(First(s, n)) : First(s, n)[i] = s[i]
PROOF
<1>1. CASE Len(s) > n
  <2> DEFINE t == SubSeq(s, 1, n)
  <2>1. t \in Seq(S) /\ Len(t) = n /\ \A i \in 1..n : t[i] = s[i]
    BY <1>1
  <2>2. First(s, n) = t
    BY <1>1 DEF First
  <2> HIDE DEF t
  <2> QED BY <1>1, <2>1, <2>2
<1>2. CASE ~(Len(s) > n)
  BY <1>2 DEF First
<1> QED BY <1>1, <1>2

\* A page is what comes first of what a query finds, and there is more exactly
\* if it finds more than a page holds.
LEMMA PageOf ==
  ASSUME NEW S, NEW s \in Seq(S), NEW n \in Nat
  PROVE  LET got  == First(s, n + 1)
             rows == First(got, n)
         IN  /\ rows \in Seq(S) /\ (Len(got) > n <=> Len(s) > n)
             /\ Len(rows) = IF Len(s) > n THEN n ELSE Len(s)
             /\ \A i \in 1..Len(rows) : rows[i] = s[i]
PROOF
<1> DEFINE got  == First(s, n + 1)
           rows == First(got, n)
<1>1. /\ got \in Seq(S) /\ Len(got) = IF Len(s) > n + 1 THEN n + 1 ELSE Len(s)
      /\ \A i \in 1..Len(got) : got[i] = s[i]
  <2>1. n + 1 \in Nat
    OBVIOUS
  <2> QED BY <2>1, FirstOf
<1> HIDE DEF got
<1>2. /\ rows \in Seq(S) /\ Len(rows) = IF Len(got) > n THEN n ELSE Len(got)
      /\ \A i \in 1..Len(rows) : rows[i] = got[i]
  BY <1>1, FirstOf
<1> HIDE DEF rows
<1>3. Len(s) \in Nat /\ Len(got) \in Nat /\ Len(rows) \in Nat
  BY <1>1, <1>2
<1>4. Len(got) > n <=> Len(s) > n
  BY <1>1, <1>3
<1>5. Len(rows) = IF Len(s) > n THEN n ELSE Len(s)
  BY <1>1, <1>2, <1>3
<1>6. ASSUME NEW i \in 1..Len(rows)
      PROVE  rows[i] = s[i]
  <2>1. i \in 1..Len(got)
    BY <1>1, <1>2, <1>3
  <2> QED BY <1>1, <1>2, <2>1
<1> QED BY <1>2, <1>4, <1>5, <1>6 DEF rows, got

-----------------------------------------------------------------------------
(* The order of the rows.                                                  *)

Rows == [state : {"none", "flushed", "committed", "gone"}, writer : Writers \cup {"nobody"},
         created : Nat, pending : BOOLEAN, true : SUBSET Facts]

RowsType == row \in [Ids -> Rows]

\* Either way of writing the comparison with the cursor is the order of the list.
LEMMA BelowIsOlder ==
  ASSUME RowsType, list \in {"reviews", "venues"}, NEW r \in Ids, NEW c \in Ids
  PROVE  Below(r, c) <=> Newer(c, r)
PROOF
<1>1. r \in Nat /\ c \in Nat /\ row[r].created \in Nat /\ row[c].created \in Nat
  BY DEF Ids, RowsType, Rows
<1>2. CASE list = "reviews"
  BY <1>1, <1>2 DEF Below, Newer
<1>3. CASE list = "venues"
  BY <1>1, <1>3 DEF Below, Newer
<1> QED BY <1>2, <1>3

LEMMA NewerOrders ==
  ASSUME RowsType, NEW a \in Ids, NEW b \in Ids, NEW c \in Ids, Newer(a, b), Newer(b, c)
  PROVE  Newer(a, c)
PROOF
<1>1. /\ a \in Nat /\ b \in Nat /\ c \in Nat
      /\ row[a].created \in Nat /\ row[b].created \in Nat /\ row[c].created \in Nat
  BY DEF Ids, RowsType, Rows
<1> QED BY <1>1 DEF Newer

\* A query returns all it finds below the cursor.
LEMMA ResultsAre ==
  ASSUME NEW s \in Results
  PROVE  /\ s \in Seq(Ids) /\ NewestFirst(s)
         /\ Range(s) = { r \in Found : page.cursor # 0 => Below(r, page.cursor) }
PROOF
<1> DEFINE S == { r \in Found : page.cursor # 0 => Below(r, page.cursor) }
<1>1. S \subseteq Ids
  BY DEF Found
<1>2. IsFiniteSet(S)
  <2>1. MaxRows \in Int /\ 1 \in Int
    BY BoundsAssumption
  <2>2. IsFiniteSet(Ids)
    BY <2>1, FS_Interval DEF Ids
  <2> HIDE DEF S
  <2> QED BY <1>1, <2>2, FS_Subset
<1>3. s \in SetToSeqs(S) /\ NewestFirst(s)
  BY DEF Results
<1> HIDE DEF S
<1>4. s \in Seq(S) /\ Range(s) = S
  BY <1>2, <1>3, OrderingsAreWhole
<1>5. s \in Seq(Ids)
  BY <1>1, <1>4
<1> QED BY <1>3, <1>4, <1>5 DEF S

-----------------------------------------------------------------------------
(* The requires filter.                                                    *)

\* The HAVING clause counts right, as long as no two attributes with facts have
\* the same key: as many attributes as there are keys then means every key.
LEMMA CountIsCover ==
  ASSUME NEW facts \in SUBSET Facts, IsFiniteSet(requires),
         \A f, g \in facts : KeyOf[f[1]] = KeyOf[g[1]] => f[1] = g[1]
  PROVE  HasRequired(facts) <=> \A k \in requires : \E f \in facts : KeyOf[f[1]] = k
PROOF
<1> DEFINE D == { f[1] : f \in { g \in facts : KeyOf[g[1]] \in requires } }
           key == [a \in D |-> KeyOf[a]]
<1>1. D \subseteq Attributes /\ \A a \in D : KeyOf[a] \in requires
  BY DEF Facts
<1>2. \A k : (\E a \in D : KeyOf[a] = k) <=>
               k \in requires /\ \E f \in facts : KeyOf[f[1]] = k
  OBVIOUS
<1>3. HasRequired(facts) <=> Cardinality(D) = Cardinality(requires)
  BY DEF HasRequired
<1>7. \A a, b \in D : KeyOf[a] = KeyOf[b] => a = b
  OBVIOUS
<1> HIDE DEF D
<1>4. key \in Injection(D, requires)
  BY <1>1, <1>7 DEF Injection, IsInjective
<1>5. key \in Surjection(D, requires) <=> \A k \in requires : \E a \in D : KeyOf[a] = k
  BY <1>1 DEF Surjection
<1> HIDE DEF key
<1>6. Cardinality(D) = Cardinality(requires) <=> key \in Surjection(D, requires)
  BY <1>4, FS_Injection
<1> QED BY <1>2, <1>3, <1>5, <1>6

-----------------------------------------------------------------------------
(* The inductive invariant.                                                *)

Pages == [pc : {"idle", "open", "over"}, cursor : Nat, listed : Seq(Ids)]

ListType ==
  /\ list \in {"reviews", "venues"} /\ limit \in Nat \ {0} /\ now \in Nat
  /\ IsFiniteSet(requires)
  /\ tx \in [Writers -> Nat]
  /\ RowsType
  /\ page \in Pages
  /\ steady \subseteq Ids

\* What has ended is no longer in anyone's transaction.
Ended == \A r \in Ids : row[r].state # "flushed" => row[r].writer = "nobody"

\* Only committed rows are listed, so their created_at stays as it is.
ListedStay == \A i \in DOMAIN page.listed : row[page.listed[i]].state = "committed"

\* The cursor is the last row listed.
AtCursor ==
  /\ page.pc = "idle" => page.listed = <<>> /\ page.cursor = 0
  /\ page.pc = "open" => page.listed # <<>> /\ page.cursor = page.listed[Len(page.listed)]

\* A row that has matched all along has been listed or is still to come.
ToCome ==
  \A s \in steady :
    /\ row[s].state = "committed" /\ Suits(row[s])
    /\ page.pc # "idle"
    /\ \/ s \in Range(page.listed)
       \/ page.pc = "open" /\ Newer(page.cursor, s)

ListInv == ListType /\ Ended /\ ListedStay /\ AtCursor /\ NoneTwice /\ ToCome

LEMMA ListInvInit == Init => ListInv
PROOF
<1> SUFFICES ASSUME Init
             PROVE  ListInv
  OBVIOUS
<1>1. NoRow \in Rows
  BY DEF NoRow, Rows, NoTime
<1>2. ListType
  <2>1. <<>> \in Seq(Ids)
    OBVIOUS
  <2>2. page \in Pages
    BY <2>1 DEF Init, Pages
  <2>3. IsFiniteSet(requires)
    BY KeysAssumption, FS_EmptySet DEF Init
  <2> HIDE DEF NoRow, Pages, Rows
  <2> QED BY <1>1, <2>2, <2>3 DEF Init, ListType, RowsType, NoTime
<1>3. Ended
  BY DEF Init, Ended, NoRow
<1>4. page.listed = <<>> /\ page.cursor = 0 /\ page.pc = "idle" /\ steady = {}
  BY DEF Init
<1>5. DOMAIN page.listed = {}
  BY <1>4
<1> QED BY <1>2, <1>3, <1>4, <1>5 DEF ListInv, ListedStay, AtCursor, NoneTwice, NewestFirst, ToCome

-----------------------------------------------------------------------------
(* What happens between two pages.                                         *)

\* What any step but a page leaves as it is, or only takes from steady.
Meanwhile ==
  /\ list' = list /\ requires' = requires /\ limit' = limit /\ page' = page
  /\ \A r \in Ids : row[r].state = "committed" =>
       row'[r].state = "committed" /\ row'[r].created = row[r].created
  /\ steady' \subseteq steady /\ \A s \in steady' : Suits(row'[s])

Others == /\ now' \in Nat /\ tx' \in [Writers -> Nat]
          /\ RowsType' /\ Ended'

\* A committed change keeps the row's place in the order.
LEMMA ChangeKeeps ==
  ASSUME ListInv, NEW r \in Ids, NEW new \in Rows, Change(r, new),
         new.state = "committed", new.created = row[r].created, new.writer = "nobody"
  PROVE  Meanwhile /\ Others
PROOF
<1>1. /\ row \in [Ids -> Rows] /\ now \in Nat /\ tx \in [Writers -> Nat] /\ steady \subseteq Ids
      /\ Ended
  BY DEF ListInv, ListType, RowsType
<1>2. /\ row' = [row EXCEPT ![r] = new] /\ steady' = { s \in steady : Suits(row'[s]) }
      /\ list' = list /\ requires' = requires /\ limit' = limit /\ now' = now /\ tx' = tx /\ page' = page
  BY DEF Change
<1>3. row' \in [Ids -> Rows] /\ \A q \in Ids : row'[q] = IF q = r THEN new ELSE row[q]
  <2> HIDE DEF Rows
  <2> QED BY <1>1, <1>2
<1>4. Ended'
  BY <1>1, <1>3 DEF Ended
<1>5. Others
  BY <1>1, <1>2, <1>3, <1>4 DEF Others, RowsType
<1>6. \A q \in Ids : row[q].state = "committed" =>
         row'[q].state = "committed" /\ row'[q].created = row[q].created
  BY <1>3
<1> QED BY <1>2, <1>5, <1>6 DEF Meanwhile

LEMMA ResolveKeeps ==
  ASSUME ListInv, NEW r \in Ids, Resolve(r)
  PROVE  Meanwhile /\ Others
PROOF
<1> DEFINE new == [row[r] EXCEPT !.pending = FALSE]
<1>1. row[r] \in Rows /\ row[r].state = "committed" /\ row[r].writer = "nobody"
  BY DEF Resolve, Change, ListInv, ListType, RowsType, Ended
<1>2. /\ new \in Rows /\ new.state = "committed" /\ new.created = row[r].created
      /\ new.writer = "nobody"
  BY <1>1 DEF Rows
<1>3. Change(r, new)
  BY DEF Resolve
<1> HIDE DEF new
<1> QED BY <1>2, <1>3, ChangeKeeps

LEMMA LearnKeeps ==
  ASSUME ListInv, NEW r \in Ids, Learn(r) \/ Unlearn(r)
  PROVE  Meanwhile /\ Others
PROOF
<1>1. row[r] \in Rows /\ row[r].state = "committed" /\ row[r].writer = "nobody"
  BY DEF Learn, Unlearn, Change, ListInv, ListType, RowsType, Ended
<1>2. PICK facts \in SUBSET Facts : Change(r, [row[r] EXCEPT !.true = facts])
  <2>1. row[r].true \subseteq Facts
    BY <1>1 DEF Rows
  <2>2. CASE Learn(r)
    <3>1. PICK f \in Facts : f[1] \in found /\ Change(r, [row[r] EXCEPT !.true = @ \cup {f}])
      BY <2>2 DEF Learn
    <3>2. Change(r, [row[r] EXCEPT !.true = row[r].true \cup {f}])
      BY <3>1
    <3> QED BY <2>1, <3>2
  <2>3. CASE Unlearn(r)
    <3>1. PICK f \in Facts : Change(r, [row[r] EXCEPT !.true = @ \ {f}])
      BY <2>1, <2>3 DEF Unlearn
    <3>2. Change(r, [row[r] EXCEPT !.true = row[r].true \ {f}])
      BY <3>1
    <3> QED BY <2>1, <3>2
  <2> QED BY <2>2, <2>3
<1> DEFINE new == [row[r] EXCEPT !.true = facts]
<1>3. /\ new \in Rows /\ new.state = "committed" /\ new.created = row[r].created
      /\ new.writer = "nobody"
  BY <1>1 DEF Rows
<1>4. Change(r, new)
  BY <1>2
<1> HIDE DEF new
<1> QED BY <1>3, <1>4, ChangeKeeps

LEMMA AddKeeps ==
  ASSUME ListInv, NEW w \in Writers, Add(w)
  PROVE  Meanwhile /\ Others
PROOF
<1>1. /\ row \in [Ids -> Rows] /\ now \in Nat /\ tx \in [Writers -> Nat] /\ steady \subseteq Ids
      /\ Ended
  BY DEF ListInv, ListType, RowsType
<1> DEFINE new == [NoRow EXCEPT !.state = "flushed", !.writer = w, !.created = tx[w]]
<1>2. PICK r \in Ids : row[r].state = "none" /\ row' = [row EXCEPT ![r] = new]
  <2>1. PICK r \in Ids : /\ \A s \in Ids : (row[s].state = "none") <=> s >= r
                         /\ row' = [row EXCEPT ![r] = new]
    BY DEF Add
  <2>2. r >= r
    BY DEF Ids
  <2> QED BY <2>1, <2>2
<1>3. new \in Rows /\ new.state = "flushed"
  <2>1. tx[w] \in Nat
    BY <1>1
  <2> QED BY <2>1 DEF NoRow, Rows, NoTime
<1>4. /\ list' = list /\ requires' = requires /\ limit' = limit /\ now' = now
      /\ tx' = tx /\ page' = page /\ steady' = steady
  BY DEF Add
<1> HIDE DEF new
<1>5. row' \in [Ids -> Rows] /\ \A q \in Ids : row'[q] = IF q = r THEN new ELSE row[q]
  <2> HIDE DEF Rows
  <2> QED BY <1>1, <1>2, <1>3
<1>6. \A q \in Ids : row[q].state = "committed" => row'[q] = row[q]
  BY <1>2, <1>5
<1>7. \A s \in steady' : Suits(row'[s])
  BY <1>1, <1>4, <1>6 DEF ListInv, ToCome
<1>8. Ended'
  BY <1>1, <1>3, <1>5 DEF Ended
<1> QED BY <1>1, <1>4, <1>5, <1>6, <1>7, <1>8 DEF Meanwhile, Others, RowsType

LEMMA EndsKeeps ==
  ASSUME ListInv, NEW w \in Writers, NEW state \in {"committed", "gone"}, Ends(w, state)
  PROVE  Meanwhile /\ Others
PROOF
<1>1. /\ row \in [Ids -> Rows] /\ now \in Nat /\ tx \in [Writers -> Nat] /\ steady \subseteq Ids
      /\ Ended
  BY DEF ListInv, ListType, RowsType
<1>2. /\ \A r \in Ids : row'[r] = IF row[r].writer = w
                                  THEN [row[r] EXCEPT !.state = state, !.writer = "nobody"]
                                  ELSE row[r]
      /\ row' = [r \in Ids |-> row'[r]]
      /\ tx' = [tx EXCEPT ![w] = NoTime]
      /\ list' = list /\ requires' = requires /\ limit' = limit /\ now' = now
      /\ page' = page /\ steady' = steady
  BY DEF Ends
<1>3. \A r \in Ids : row'[r] \in Rows
  <2> SUFFICES ASSUME NEW r \in Ids
               PROVE  row'[r] \in Rows
    OBVIOUS
  <2>1. row[r] \in Rows
    BY <1>1
  <2> QED BY <1>2, <2>1 DEF Rows
<1>4. row' \in [Ids -> Rows]
  <2> HIDE DEF Rows
  <2> QED BY <1>2, <1>3
<1>5. \A q \in Ids : row[q].state # "flushed" => row'[q] = row[q]
  BY <1>1, <1>2 DEF Ended
<1>6. Ended'
  <2> SUFFICES ASSUME NEW r \in Ids, row'[r].state # "flushed"
               PROVE  row'[r].writer = "nobody"
    BY DEF Ended
  <2>1. row[r] \in Rows
    BY <1>1
  <2> QED BY <1>1, <1>2, <2>1 DEF Ended, Rows
<1>7. tx' \in [Writers -> Nat]
  BY <1>1, <1>2 DEF NoTime
<1>8. \A s \in steady' : Suits(row'[s])
  BY <1>1, <1>2, <1>5 DEF ListInv, ToCome
<1> QED BY <1>1, <1>2, <1>4, <1>5, <1>6, <1>7, <1>8 DEF Meanwhile, Others, RowsType

\* Whatever happens, the pages already handed out stay in order, and what has
\* matched all along is listed or still below the cursor.
LEMMA MeanwhileKeeps ==
  ASSUME ListInv, Meanwhile, Others
  PROVE  ListInv'
PROOF
<1>1. /\ row \in [Ids -> Rows] /\ page \in Pages /\ steady \subseteq Ids
      /\ page.listed \in Seq(Ids)
      /\ page.pc = "open" => page.cursor \in Ids
  <2>1. ListType /\ AtCursor
    BY DEF ListInv
  <2>2. page \in Pages /\ page.listed \in Seq(Ids)
    BY <2>1 DEF ListType, Pages
  <2> DEFINE t == page.listed
  <2>3. t # <<>> => t[Len(t)] \in Ids
    BY <2>2
  <2> HIDE DEF t
  <2> QED BY <2>1, <2>2, <2>3 DEF ListType, RowsType, AtCursor, t
<1>2. /\ list' = list /\ requires' = requires /\ limit' = limit /\ page' = page
      /\ \A r \in Ids : row[r].state = "committed" =>
           row'[r].state = "committed" /\ row'[r].created = row[r].created
      /\ steady' \subseteq steady /\ \A s \in steady' : Suits(row'[s])
  BY DEF Meanwhile
<1>3. ListType'
  BY <1>1, <1>2 DEF ListInv, ListType, Others
<1> DEFINE t == page.listed
<1>4. t \in Seq(Ids) /\ page.listed = t /\ page'.listed = t
  <2>1. page.listed \in Seq(Ids)
    BY <1>1
  <2>2. page'.listed = page.listed
    BY <1>2
  <2> QED BY <2>1, <2>2
<1> HIDE DEF t
<1>5. \A i \in DOMAIN t : t[i] \in Ids /\ row[t[i]].state = "committed"
  <2>1. \A i \in DOMAIN t : t[i] \in Ids
    BY <1>4
  <2>2. \A i \in DOMAIN t : row[t[i]].state = "committed"
    BY <1>4 DEF ListInv, ListedStay
  <2> QED BY <2>1, <2>2
<1>6. ListedStay'
  BY <1>2, <1>5, <1>4 DEF ListedStay
<1>7. AtCursor'
  BY <1>2 DEF ListInv, AtCursor
<1>8. NoneTwice'
  <2>1. \A i, j \in DOMAIN t : i < j => Newer(t[i], t[j])
    BY <1>4 DEF ListInv, NoneTwice, NewestFirst
  <2>2. ASSUME NEW i \in DOMAIN t, NEW j \in DOMAIN t, i < j
        PROVE  \/ row'[t[i]].created > row'[t[j]].created
               \/ row'[t[i]].created = row'[t[j]].created /\ t[i] > t[j]
    <3>1. row'[t[i]].created = row[t[i]].created /\ row'[t[j]].created = row[t[j]].created
      BY <1>2, <1>5
    <3>2. Newer(t[i], t[j])
      BY <2>1, <2>2
    <3> QED BY <3>1, <3>2 DEF Newer
  <2> QED BY <1>4, <2>2 DEF NoneTwice, NewestFirst, Newer
<1>9. ToCome'
  <2> SUFFICES ASSUME NEW s \in steady'
               PROVE  /\ row'[s].state = "committed" /\ Suits(row[s])' /\ page'.pc # "idle"
                      /\ \/ s \in Range(page'.listed)
                         \/ page'.pc = "open" /\ Newer(page.cursor, s)'
    BY <1>2 DEF ToCome, Suits, HasRequired
  <2>1. /\ s \in Ids /\ row[s].state = "committed" /\ page.pc # "idle"
        /\ \/ s \in Range(page.listed)
           \/ page.pc = "open" /\ Newer(page.cursor, s)
    BY <1>1, <1>2 DEF ListInv, ToCome
  <2>2. Suits(row[s])'
    BY <1>2 DEF Suits, HasRequired
  <2>3. ASSUME page.pc = "open", Newer(page.cursor, s)
        PROVE  Newer(page.cursor, s)'
    <3>1. page.cursor \in Ids /\ row[page.cursor].state = "committed"
      <4>1. DOMAIN t = 1..Len(t) /\ Len(t) \in Nat /\ (t # <<>> => Len(t) # 0)
        BY <1>1, <1>4
      <4>2. t # <<>> /\ page.cursor = t[Len(t)]
        BY <1>4, <2>3 DEF ListInv, AtCursor
      <4>3. Len(t) \in DOMAIN t
        BY <4>1, <4>2
      <4> QED BY <1>5, <4>2, <4>3
    <3> QED BY <1>2, <2>1, <2>3, <3>1 DEF Newer
  <2> QED BY <1>2, <2>1, <2>2, <2>3
<1> QED BY <1>3, <1>6, <1>7, <1>8, <1>9 DEF ListInv, Others

-----------------------------------------------------------------------------
(* A page.                                                                 *)

\* A page that ends in a cursor ends in a row, and only such a page has a
\* successor.
LEMMA FetchKeeps ==
  ASSUME ListInv, Fetch
  PROVE  ListInv'
PROOF
<1> DEFINE old == page.listed
           n   == limit
           c   == page.cursor
<1>1. /\ RowsType /\ list \in {"reviews", "venues"} /\ page.pc \in {"idle", "open"}
      /\ n \in Nat \ {0} /\ old \in Seq(Ids) /\ c \in Nat
      /\ list' = list /\ requires' = requires /\ limit' = limit /\ now' = now /\ tx' = tx /\ row' = row
  BY DEF ListInv, ListType, Pages, Fetch
<1>2. /\ page.pc = "idle" => old = <<>> /\ c = 0
      /\ page.pc = "open" => old # <<>> /\ c = old[Len(old)] /\ c \in Ids /\ c # 0
  <2>1. AtCursor
    BY DEF ListInv
  <2> HIDE DEF old
  <2>2. old # <<>> => old[Len(old)] \in Ids
    BY <1>1
  <2>3. \A r \in Ids : r # 0
    BY DEF Ids
  <2> QED BY <2>1, <2>2, <2>3 DEF AtCursor, old
<1>3. PICK result \in Results :
        LET got  == First(result, n + 1)
            more == Len(got) > n
            rows == First(got, n)
        IN  page' = [pc     |-> IF more THEN "open" ELSE "over",
                     cursor |-> IF more THEN rows[n] ELSE 0,
                     listed |-> old \o rows]
  BY DEF Fetch
<1> DEFINE got  == First(result, n + 1)
           rows == First(got, n)
           more == Len(result) > n
<1>4. /\ result \in Seq(Ids) /\ NewestFirst(result)
      /\ Range(result) = { r \in Found : c # 0 => Below(r, c) }
  BY ResultsAre
<1>5. /\ rows \in Seq(Ids) /\ (Len(got) > n <=> more)
      /\ Len(rows) = IF more THEN n ELSE Len(result)
      /\ \A i \in 1..Len(rows) : rows[i] = result[i]
  <2>1. n \in Nat /\ result \in Seq(Ids)
    BY <1>1, <1>4
  <2> HIDE DEF n
  <2> QED BY <2>1, PageOf
<1>6. page' = [pc     |-> IF more THEN "open" ELSE "over",
               cursor |-> IF more THEN rows[n] ELSE 0,
               listed |-> old \o rows]
  BY <1>3, <1>5
<1>7. steady' = IF page.pc = "idle" THEN Found ELSE steady
  BY DEF Fetch
<1> DEFINE all == old \o rows
           p == Len(old)
           q == Len(rows)
           m == Len(result)
<1> HIDE DEF old, n, c, got, rows
<1>8. p \in Nat /\ q \in Nat /\ m \in Nat /\ q <= m /\ n \in Nat /\ n > 0 /\ (more => q = n)
  BY <1>1, <1>4, <1>5
<1>9. /\ all \in Seq(Ids) /\ Len(all) = p + q
      /\ \A i \in 1..p : all[i] = old[i]
      /\ \A i \in 1..q : all[p + i] = rows[i]
  <2>1. old \in Seq(Ids) /\ rows \in Seq(Ids)
    BY <1>1, <1>5
  <2>2. all \in Seq(Ids) /\ Len(all) = p + q
    BY <2>1
  <2>3. \A i \in 1..p : all[i] = old[i]
    BY <2>1
  <2>4. \A i \in 1..q : all[p + i] = rows[i]
    BY <2>1
  <2> QED BY <2>2, <2>3, <2>4
<1>10. /\ \A i \in 1..p : old[i] \in Ids /\ row[old[i]].state = "committed"
       /\ \A i, j \in 1..p : i < j => Newer(old[i], old[j])
  <2>1. DOMAIN old = 1..p /\ \A i \in 1..p : old[i] \in Ids
    BY <1>1
  <2> QED BY <2>1 DEF ListInv, ListedStay, NoneTwice, NewestFirst, old
<1>11. /\ \A i \in 1..m : result[i] \in Found /\ (c # 0 => Below(result[i], c))
       /\ \A i, j \in 1..m : i < j => Newer(result[i], result[j])
       /\ \A r \in Found : (c # 0 => Below(r, c)) => \E i \in 1..m : result[i] = r
  <2>1. DOMAIN result = 1..m
    BY <1>4
  <2> QED BY <1>4, <2>1 DEF Range, NewestFirst
<1>12. \A i \in 1..q : i \in 1..m /\ rows[i] = result[i]
  BY <1>5, <1>8
<1>13. \A r \in Found : r \in Ids /\ row[r].state = "committed" /\ Suits(row[r])
  BY DEF Found, Matches
<1>14. \A k \in 1..(p + q) : \/ k \in 1..p /\ all[k] = old[k]
                             \/ k > p /\ k - p \in 1..q /\ all[k] = rows[k - p]
  <2> SUFFICES ASSUME NEW k \in 1..(p + q), k \notin 1..p
               PROVE  k > p /\ k - p \in 1..q /\ all[k] = rows[k - p]
    BY <1>9
  <2>1. k > p /\ k - p \in 1..q /\ p + (k - p) = k
    BY <1>8
  <2> QED BY <1>9, <2>1
<1>15. page'.listed = all /\ DOMAIN all = 1..(p + q)
  <2>1. page'.listed = all
    BY <1>6
  <2> QED BY <1>9, <2>1
<1> HIDE DEF all, p, q, m, more
<1>16. page' \in Pages
  <2>1. more => rows[n] \in Nat
    <3>1. more => n \in 1..q
      BY <1>8
    <3>2. \A i \in 1..q : rows[i] \in Ids
      BY <1>11, <1>12, <1>13
    <3>3. Ids \subseteq Nat
      BY DEF Ids
    <3> QED BY <3>1, <3>2, <3>3
  <2> QED BY <1>6, <1>9, <2>1 DEF Pages, all
<1>17. ListType' /\ Ended'
  <2>1. steady' \subseteq Ids
    BY <1>7, <1>13 DEF ListInv, ListType
  <2> QED BY <1>1, <1>16, <2>1 DEF ListInv, ListType, RowsType, Ended
<1>18. ListedStay'
  BY <1>1, <1>10, <1>11, <1>12, <1>13, <1>14, <1>15 DEF ListedStay
<1>19. AtCursor'
  <2>1. page'.pc = "open" => more
    BY <1>6
  <2>2. page'.pc # "idle"
    BY <1>6
  <2>3. ASSUME more
        PROVE  all # <<>> /\ page'.cursor = all[Len(all)]
    <3>1. n \in 1..q /\ p + n = Len(all) /\ Len(all) # 0
      BY <1>8, <1>9, <2>3
    <3>2. page'.cursor = rows[n]
      BY <1>6, <2>3
    <3>3. all[p + n] = rows[n]
      BY <1>9, <3>1
    <3> QED BY <3>1, <3>2, <3>3
  <2> QED BY <1>15, <2>1, <2>2, <2>3 DEF AtCursor
<1>20. NoneTwice'
  <2>1. ASSUME NEW i \in 1..(p + q), NEW j \in 1..(p + q), i < j
        PROVE  Newer(all[i], all[j])
    <3>1. CASE i \in 1..p /\ j \in 1..p
      BY <1>9, <1>10, <2>1, <3>1
    <3>2. CASE i \in 1..p /\ j > p /\ j - p \in 1..q
      <4>1. all[i] = old[i] /\ all[j] = rows[j - p]
        BY <1>8, <1>9, <1>14, <3>2
      <4>2. /\ rows[j - p] = result[j - p] /\ result[j - p] \in Ids
            /\ c # 0 => Below(result[j - p], c)
        BY <1>11, <1>12, <1>13, <3>2
      <4>3. page.pc = "open"
        <5>1. old # <<>>
          BY <1>1, <3>2 DEF p
        <5> QED BY <1>1, <1>2, <5>1
      <4>4. c = old[p] /\ c \in Ids /\ c # 0
        BY <1>2, <4>3 DEF p
      <4>5. Newer(c, rows[j - p])
        BY <1>1, <4>2, <4>4, BelowIsOlder
      <4>6. i = p \/ Newer(old[i], c)
        <5>1. p \in 1..p /\ (i = p \/ i < p)
          BY <1>8, <3>2
        <5> QED BY <1>10, <3>2, <4>4, <5>1
      <4>7. old[i] \in Ids /\ rows[j - p] \in Ids
        BY <1>10, <3>2, <4>2
      <4> QED BY <1>1, <4>1, <4>4, <4>5, <4>6, <4>7, NewerOrders
    <3>3. CASE i > p /\ i - p \in 1..q /\ j > p /\ j - p \in 1..q
      <4>1. all[i] = rows[i - p] /\ all[j] = rows[j - p]
        BY <1>8, <1>14, <3>3
      <4>2. /\ rows[i - p] = result[i - p] /\ rows[j - p] = result[j - p]
            /\ i - p \in 1..m /\ j - p \in 1..m
        BY <1>12, <3>3
      <4>3. i - p < j - p
        BY <1>8, <2>1
      <4> QED BY <1>11, <4>1, <4>2, <4>3
    <3>4. ~(i > p /\ j \in 1..p)
      BY <1>8, <2>1
    <3> QED BY <1>14, <2>1, <3>1, <3>2, <3>3, <3>4
  <2>2. \A r, s : Newer(r, s)' <=> Newer(r, s)
    BY <1>1 DEF Newer
  <2> QED BY <1>1, <1>15, <2>1 DEF NoneTwice, NewestFirst, Newer
<1>21. ToCome'
  <2> SUFFICES ASSUME NEW s \in steady'
               PROVE  /\ row'[s].state = "committed" /\ Suits(row[s])' /\ page'.pc # "idle"
                      /\ \/ s \in Range(page'.listed)
                         \/ page'.pc = "open" /\ Newer(page.cursor, s)'
    BY <1>1 DEF ToCome, Suits, HasRequired
  <2>1. /\ s \in Found
        /\ \/ \E i \in 1..p : old[i] = s
           \/ c # 0 => Below(s, c)
    <3>1. CASE page.pc = "idle"
      BY <1>2, <1>7, <3>1
    <3>2. CASE page.pc = "open"
      <4>1. /\ s \in Ids /\ row[s].state = "committed" /\ Suits(row[s])
            /\ s \in Range(old) \/ Newer(c, s)
        BY <1>7, <3>2 DEF ListInv, ListType, ToCome, old, c
      <4>2. Newer(c, s) => Below(s, c)
        BY <1>1, <1>2, <3>2, <4>1, BelowIsOlder
      <4>3. DOMAIN old = 1..p
        BY <1>1 DEF p
      <4> QED BY <4>1, <4>2, <4>3 DEF Found, Matches, Range
    <3> QED BY <1>1, <3>1, <3>2
  <2>2. row'[s].state = "committed" /\ Suits(row[s])' /\ page'.pc # "idle"
    <3>1. Suits(row[s])' <=> Suits(row[s])
      BY <1>1 DEF Suits, HasRequired
    <3> QED BY <1>1, <1>6, <1>13, <2>1, <3>1
  <2>3. CASE \E i \in 1..p : old[i] = s
    <3>1. PICK i \in 1..p : old[i] = s
      BY <2>3
    <3>2. i \in 1..(p + q) /\ all[i] = s
      BY <1>8, <1>9, <3>1
    <3> QED BY <1>15, <2>2, <3>2 DEF Range
  <2>4. CASE c # 0 => Below(s, c)
    <3>1. PICK k \in 1..m : result[k] = s
      BY <1>11, <2>1, <2>4
    <3>2. CASE k \in 1..q
      <4>1. p + k \in 1..(p + q) /\ all[p + k] = s
        BY <1>8, <1>9, <1>12, <3>1, <3>2
      <4> QED BY <1>15, <2>2, <4>1 DEF Range
    <3>3. CASE k \notin 1..q
      <4>1. more /\ n \in 1..m /\ n < k /\ n \in 1..q
        BY <1>5, <1>8, <3>1, <3>3 DEF more, m, q
      <4>2. page'.pc = "open" /\ page'.cursor = result[n]
        BY <1>6, <1>12, <4>1
      <4>3. Newer(result[n], s)
        BY <1>11, <3>1, <4>1
      <4>4. Newer(page.cursor, s)' <=> Newer(result[n], s)
        BY <1>1, <4>2 DEF Newer
      <4> QED BY <2>2, <4>2, <4>3, <4>4
    <3> QED BY <3>2, <3>3
  <2> QED BY <2>1, <2>3, <2>4
<1> QED BY <1>17, <1>18, <1>19, <1>20, <1>21 DEF ListInv

LEMMA ListInvStep == ListInv /\ [Next]_vars => ListInv'
PROOF
<1> SUFFICES ASSUME ListInv, [Next]_vars
             PROVE  ListInv'
  OBVIOUS
<1>1. CASE Fetch
  BY <1>1, FetchKeeps
<1>2. CASE Tick \/ (\E w \in Writers : Begin(w)) \/ \E a \in Attributes : Seed(a) \/ LookUp(a)
  <2>1. /\ list' = list /\ requires' = requires /\ limit' = limit /\ page' = page /\ row' = row /\ steady' = steady
    BY <1>2 DEF Tick, Begin, Seed, LookUp
  <2>2. now' \in Nat /\ tx' \in [Writers -> Nat]
    <3>1. now \in Nat /\ tx \in [Writers -> Nat]
      BY DEF ListInv, ListType
    <3>2. CASE Tick
      BY <3>1, <3>2 DEF Tick
    <3>3. CASE \E w \in Writers : Begin(w)
      BY <3>1, <3>3 DEF Begin
    <3>4. CASE \E a \in Attributes : Seed(a) \/ LookUp(a)
      BY <3>1, <3>4 DEF Seed, LookUp
    <3> QED BY <1>2, <3>2, <3>3, <3>4
  <2>3. Meanwhile
    BY <2>1 DEF Meanwhile, ListInv, ToCome
  <2>4. Others
    BY <2>1, <2>2 DEF Others, ListInv, ListType, RowsType, Ended
  <2> QED BY <2>3, <2>4, MeanwhileKeeps
<1>3. CASE \E w \in Writers : Add(w) \/ Commit(w) \/ Rollback(w)
  BY <1>3, AddKeeps, EndsKeeps, MeanwhileKeeps DEF Commit, Rollback
<1>4. CASE \E r \in Ids : Resolve(r) \/ Learn(r) \/ Unlearn(r)
  BY <1>4, ResolveKeeps, LearnKeeps, MeanwhileKeeps
<1>5. CASE UNCHANGED vars
  <2>1. Meanwhile /\ Others
    BY <1>5 DEF vars, Meanwhile, Others, ListInv, ListType, RowsType, Ended, ToCome
  <2> QED BY <2>1, MeanwhileKeeps
<1> QED BY <1>1, <1>2, <1>3, <1>4, <1>5 DEF Next

LEMMA ListInvHolds == Spec => []ListInv
PROOF
<1> QED BY ListInvInit, ListInvStep, PTL DEF Spec

-----------------------------------------------------------------------------
(* The attributes that facts refer to.                                     *)

\* A key's lookup succeeds only while the key has one attribute, and none is
\* removed: of the attributes found by lookups no two have the same key, though
\* the table may hold one for every version.
OneFoundPerKey ==
  /\ found \subseteq seeded
  /\ \A a, b \in found : KeyOf[a] = KeyOf[b] => a = b
  /\ \A r \in Ids : row[r].true \subseteq found \X Sources

LEMMA OneFoundInit == Init => OneFoundPerKey
PROOF
<1> QED BY DEF Init, OneFoundPerKey, NoRow

LEMMA OneFoundStep == ListInv /\ OneFoundPerKey /\ [Next]_vars => OneFoundPerKey'
PROOF
<1> SUFFICES ASSUME ListInv, OneFoundPerKey, [Next]_vars
             PROVE  OneFoundPerKey'
  OBVIOUS
<1>1. row \in [Ids -> Rows]
  BY DEF ListInv, ListType, RowsType
<1>2. CASE Tick \/ Fetch \/ (\E w \in Writers : Begin(w)) \/ UNCHANGED vars
  BY <1>2 DEF Tick, Fetch, Begin, vars, taxonomy, OneFoundPerKey
<1>3. CASE \E w \in Writers : Add(w)
  <2>1. found' = found /\ seeded' = seeded
    BY <1>3 DEF Add, taxonomy
  <2>2. \A r \in Ids : row'[r].true = row[r].true \/ row'[r].true = {}
    BY <1>1, <1>3 DEF Add, NoRow
  <2> QED BY <2>1, <2>2 DEF OneFoundPerKey
<1>4. CASE \E w \in Writers : Commit(w) \/ Rollback(w)
  <2>1. found' = found /\ seeded' = seeded
    BY <1>4 DEF Commit, Rollback, Ends, taxonomy
  <2>2. \A r \in Ids : row'[r].true = row[r].true
    <3> SUFFICES ASSUME NEW r \in Ids
                 PROVE  row'[r].true = row[r].true
      OBVIOUS
    <3>1. row[r] \in Rows
      BY <1>1
    <3>2. \/ row'[r] = row[r]
          \/ \E state : row'[r] = [row[r] EXCEPT !.state = state, !.writer = "nobody"]
      BY <1>4 DEF Commit, Rollback, Ends
    <3> QED BY <3>1, <3>2 DEF Rows
  <2> QED BY <2>1, <2>2 DEF OneFoundPerKey
<1>5. CASE \E r \in Ids : Resolve(r) \/ Learn(r) \/ Unlearn(r)
  <2>1. PICK r \in Ids : Resolve(r) \/ Learn(r) \/ Unlearn(r)
    BY <1>5
  <2>2. row[r] \in Rows /\ row[r].true \subseteq found \X Sources
    BY <1>1 DEF OneFoundPerKey
  <2>3. PICK new : Change(r, new) /\ new.true \subseteq found \X Sources
    <3>1. CASE Resolve(r)
      BY <2>2, <3>1 DEF Resolve, Rows
    <3>2. CASE Learn(r)
      <4>1. PICK f \in Facts : f[1] \in found
                              /\ Change(r, [row[r] EXCEPT !.true = row[r].true \cup {f}])
        BY <3>2 DEF Learn
      <4>2. f \in found \X Sources
        BY <4>1 DEF Facts
      <4> QED BY <2>2, <4>1, <4>2 DEF Rows
    <3>3. CASE Unlearn(r)
      <4>1. PICK f : Change(r, [row[r] EXCEPT !.true = row[r].true \ {f}])
        BY <3>3 DEF Unlearn
      <4> QED BY <2>2, <4>1 DEF Rows
    <3> QED BY <2>1, <3>1, <3>2, <3>3
  <2>4. found' = found /\ seeded' = seeded
    BY <2>3 DEF Change, taxonomy
  <2>5. \A q \in Ids : row'[q] = IF q = r THEN new ELSE row[q]
    BY <1>1, <2>3 DEF Change
  <2> QED BY <2>3, <2>4, <2>5 DEF OneFoundPerKey
<1>6. CASE \E a \in Attributes : Seed(a)
  BY <1>6 DEF Seed, OneFoundPerKey
<1>7. CASE \E a \in Attributes : LookUp(a)
  <2>1. PICK a \in Attributes : /\ { b \in seeded : KeyOf[b] = KeyOf[a] } = {a}
                               /\ found' = found \cup {a} /\ seeded' = seeded /\ row' = row
    BY <1>7 DEF LookUp, OneOfKey
  <2>2. a \in seeded /\ \A b \in seeded : KeyOf[b] = KeyOf[a] => b = a
    BY <2>1
  <2> QED BY <2>1, <2>2 DEF OneFoundPerKey
<1> QED BY <1>2, <1>3, <1>4, <1>5, <1>6, <1>7 DEF Next

LEMMA OneFoundHolds == Spec => []OneFoundPerKey
PROOF
<1> QED BY OneFoundInit, OneFoundStep, ListInvHolds, PTL DEF Spec

-----------------------------------------------------------------------------
(* The theorems.                                                           *)

\* No row is listed twice and the pages together are in order, whatever is
\* committed, resolved or learnt between them (review.py list_review_queue,
\* queries/venues.py _build_base_stmt).
THEOREM PagesInOrder == Spec => []NoneTwice
PROOF
<1>1. ListInv => NoneTwice
  BY DEF ListInv
<1> QED BY <1>1, ListInvHolds, PTL

\* The last page completes what has matched since the first one: no cursor
\* skips a row, not one that shares its created_at with the end of a page
\* (api/v1/pagination.py, venues.py list_venues).
THEOREM CursorSkipsNothing == Spec => []NoneMissed
PROOF
<1>1. ListInv => NoneMissed
  BY DEF ListInv, ToCome, NoneMissed
<1> QED BY <1>1, ListInvHolds, PTL

\* The requires filter finds a venue exactly if it has a live true fact for
\* every required key, whatever versions with the same keys are seeded between
\* the lookups (queries/venues.py, module docstring).
THEOREM RequiresMeansEvery == Spec => []RequiresEvery
PROOF
<1>1. ASSUME ListInv, OneFoundPerKey
      PROVE  RequiresEvery
  <2> SUFFICES ASSUME list = "venues", NEW r \in Ids
               PROVE  Matches(r) <=> \A k \in requires : \E f \in row[r].true : KeyOf[f[1]] = k
    BY DEF RequiresEvery
  <2>1. row[r].true \in SUBSET Facts
    BY <1>1 DEF ListInv, ListType, RowsType, Rows
  <2>2. \A f, g \in row[r].true : KeyOf[f[1]] = KeyOf[g[1]] => f[1] = g[1]
    BY <1>1 DEF OneFoundPerKey
  <2> QED BY <1>1, <2>1, <2>2, CountIsCover DEF Matches, Suits, ListInv, ListType
<1> QED BY <1>1, ListInvHolds, OneFoundHolds, PTL
=============================================================================
