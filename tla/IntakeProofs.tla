---------------------------- MODULE IntakeProofs ----------------------------
(***************************************************************************)
(* Theorems about Seeding and Intake for every number of seeders, every    *)
(* set of releases and every answer.                                       *)
(***************************************************************************)
EXTENDS Intake, FiniteSetTheorems, TLAPS

-----------------------------------------------------------------------------
(* Sequences.                                                              *)

\* A set of natural numbers has a least element.
LEMMA LeastExists ==
  ASSUME NEW S \in SUBSET Nat, S # {}
  PROVE  \E x \in S : \A y \in S : x <= y
PROOF
<1>1. PICK n \in S : TRUE
  OBVIOUS
<1> DEFINE D == { y \in S : y <= n }
           Below(x) == { y \in S : y < x }
           T == { Below(x) : x \in D }
<1>2. IsFiniteSet(D)
  <2>1. IsFiniteSet(0..n)
    BY FS_Interval
  <2>2. ASSUME NEW y \in D
        PROVE  y \in 0..n
    <3>1. y \in Nat /\ n \in Nat
      OBVIOUS
    <3> QED BY <3>1
  <2> QED BY <2>1, <2>2, FS_Subset
<1>3. IsWellFoundedOn(StrictSubsetOrdering(D), SUBSET D)
  BY <1>2, FS_StrictSubsetOrderingWellFounded, FS_FiniteSubsetsOfFinite
<1>4. T \subseteq SUBSET D /\ T # {}
  <2>1. n \in D
    BY <1>1
  <2>2. ASSUME NEW x \in D
        PROVE  Below(x) \subseteq D
    <3> SUFFICES ASSUME NEW y \in S, y < x
                 PROVE  y <= n
      OBVIOUS
    <3>1. y \in Nat /\ n \in Nat /\ x \in Nat /\ x <= n
      OBVIOUS
    <3> QED BY <3>1
  <2> QED BY <2>1, <2>2
<1>5. PICK b \in T : \A c \in T : ~ (<<c, b>> \in StrictSubsetOrdering(D))
  <2> HIDE DEF T
  <2> QED BY <1>3, <1>4, WFMin
<1>6. PICK x \in D : b = Below(x)
  OBVIOUS
<1>7. ASSUME NEW y \in S, ~(x <= y)
      PROVE  FALSE
  <2> y < x /\ x \in Nat /\ y \in Nat /\ y \in D
    BY <1>7
  <2>1. y \in Below(x) /\ y \notin Below(y)
    OBVIOUS
  <2>2. ASSUME NEW z \in S, z < y
        PROVE  z < x
    <3>1. z \in Nat
      OBVIOUS
    <3> QED BY <2>2, <3>1
  <2>3. <<Below(y), b>> \in StrictSubsetOrdering(D)
    BY <1>4, <1>6, <2>1, <2>2 DEF StrictSubsetOrdering
  <2> QED BY <1>5, <2>3
<1> QED BY <1>7

\* A function on a finite set has finitely many values.
LEMMA ImageIsFinite ==
  ASSUME NEW S, IsFiniteSet(S), NEW T, NEW f \in [S -> T],
         \A t \in T : \E x \in S : f[x] = t
  PROVE  IsFiniteSet(T)
PROOF
<1>1. f \in Surjection(S, T)
  BY DEF Surjection
<1> QED BY <1>1, FS_Surjection

\* The sequences of all elements of a finite set have the set as their range.
LEMMA OrderingsAreWhole ==
  ASSUME NEW S, IsFiniteSet(S), NEW f \in SetToSeqs(S)
  PROVE  f \in Seq(S) /\ Range(f) = S
PROOF
<1> DEFINE n == Cardinality(S)
<1>1. n \in Nat
  BY FS_CardinalityType
<1>2. f \in [1..n -> S] /\ \A i, j \in 1..n : i # j => f[i] # f[j]
  BY DEF SetToSeqs
<1>3. f \in Seq(S)
  BY <1>1, <1>2
<1>4. ASSUME NEW x \in S, x \notin Range(f)
      PROVE  FALSE
  <2>1. IsFiniteSet(S \ {x}) /\ Cardinality(S \ {x}) = n - 1
    BY FS_RemoveElement
  <2>2. IsFiniteSet(1..n) /\ Cardinality(1..n) = n
    BY <1>1, FS_Interval
  <2>3. f \in [1..n -> S \ {x}]
    BY <1>2, <1>4 DEF Range
  <2>4. n - 1 < n
    BY <1>1
  <2> HIDE DEF n
  <2>5. \E i, j \in 1..n : i # j /\ f[i] = f[j]
    BY <2>1, <2>2, <2>3, <2>4, FS_PigeonHole
  <2> QED BY <1>2, <2>5
<1>5. Range(f) \subseteq S
  BY <1>2 DEF Range
<1> QED BY <1>3, <1>4, <1>5

\* A sequence of sequences, flattened, is a sequence.
LEMMA FlattenType ==
  ASSUME NEW T, NEW seqs \in Seq(Seq(T))
  PROVE  FlattenSeq(seqs) \in Seq(T)
PROOF
<1> DEFINE n == Len(seqs)
           Upto(m, f) == f = [i \in 1..m |-> IF i = 1 THEN seqs[i] ELSE f[i - 1] \o seqs[i]]
<1>1. n \in Nat /\ \A i \in 1..n : seqs[i] \in Seq(T)
  OBVIOUS
<1>2. CASE n = 0
  <2>1. seqs = <<>>
    BY <1>2
  <2> QED BY <2>1 DEF FlattenSeq
<1>3. CASE n # 0
  <2>1. ASSUME NEW k \in 0..n
        PROVE  \E f : Upto(k, f)
    <3> DEFINE Has(m) == \E f : Upto(m, f)
               S == { m \in 0..n : ~Has(m) }
    <3>1. S \subseteq Nat
      <4> HIDE DEF n, Has
      <4> QED BY <1>1
    <3> SUFFICES ASSUME S # {}
                 PROVE  FALSE
      OBVIOUS
    <3>2. PICK m \in S : \A j \in S : m <= j
      <4> HIDE DEF S
      <4> QED BY <3>1, LeastExists
    <3>3. m # 0
      <4>1. Upto(0, [i \in 1..0 |-> 0])
        OBVIOUS
      <4> QED BY <4>1
    <3>4. m \in Nat /\ m - 1 \in 0..n /\ Has(m - 1)
      <4> HIDE DEF n, Has
      <4>1. m \in Nat /\ m - 1 \in 0..n /\ ~ (m <= m - 1)
        BY <1>1, <3>3
      <4> QED BY <3>2, <4>1
    <3>5. PICK f : Upto(m - 1, f)
      BY <3>4
    <3> DEFINE g == [i \in 1..m |-> IF i = 1 THEN seqs[i] ELSE f[i - 1] \o seqs[i]]
    <3>6. ASSUME NEW i \in 1..(m - 1)
          PROVE  g[i] = f[i]
      <4>1. i \in 1..m
        BY <3>4
      <4>2. f[i] = IF i = 1 THEN seqs[i] ELSE f[i - 1] \o seqs[i]
        BY <3>5
      <4> QED BY <4>1, <4>2
    <3>7. Upto(m, g)
      <4>1. ASSUME NEW i \in 1..m, i # 1
            PROVE  g[i - 1] = f[i - 1]
        <5>1. i - 1 \in 1..(m - 1)
          BY <3>4, <4>1
        <5> HIDE DEF g
        <5> QED BY <3>6, <5>1
      <4> QED BY <4>1
    <3> QED BY <3>7
  <2> DEFINE fl == CHOOSE f : Upto(n, f)
  <2>2. Upto(n, fl)
    <3>1. \E f : Upto(n, f)
      <4>1. n \in 0..n
        BY <1>1
      <4> HIDE DEF n, Upto
      <4> QED BY <2>1, <4>1
    <3> QED BY <3>1, Zenon
  <2>3. FlattenSeq(seqs) = fl[n]
    BY <1>3, Zenon DEF FlattenSeq
  <2> HIDE DEF fl
  <2>4. \A i \in 1..n : fl[i] = IF i = 1 THEN seqs[i] ELSE fl[i - 1] \o seqs[i]
    BY <2>2
  <2>5. \A i \in 1..n : fl[i] \in Seq(T)
    <3> DEFINE S == { m \in 1..n : fl[m] \notin Seq(T) }
    <3>1. S \subseteq Nat
      BY <1>1
    <3> SUFFICES ASSUME S # {}
                 PROVE  FALSE
      OBVIOUS
    <3>2. PICK m \in S : \A k \in S : m <= k
      <4> HIDE DEF S
      <4> QED BY <3>1, LeastExists
    <3>3. m # 1
      BY <1>1, <2>4
    <3>4. m \in Nat /\ m - 1 \in 1..n /\ m - 1 \notin S
      <4>1. m \in Nat /\ m - 1 \in 1..n /\ ~ (m <= m - 1)
        BY <1>1, <3>3
      <4> QED BY <3>2, <4>1
    <3>5. fl[m - 1] \in Seq(T) /\ seqs[m] \in Seq(T)
      BY <1>1, <3>4
    <3>6. fl[m] = fl[m - 1] \o seqs[m]
      BY <2>4, <3>3
    <3>7. m \in 1..n /\ fl[m] \notin Seq(T)
      BY <3>2
    <3>8. fl[m - 1] \o seqs[m] \in Seq(T)
      BY <3>5
    <3> QED BY <3>6, <3>7, <3>8
  <2> QED BY <1>1, <1>3, <2>3, <2>5
<1> QED BY <1>2, <1>3

-----------------------------------------------------------------------------
(* What a release seeds.                                                   *)

Releases == TaxonomyReleases \cup IamReleases

\* Steps over the rows R whose orders are orders of the same rows.
Sound(R) == { st \in [orders : SUBSET Seq(R), flush : {"missing", "never", "always"}] :
                \A o1, o2 \in st.orders : Range(o1) = Range(o2) }

TaxonomyRows(rel) ==
  {Version(rel.version)}
    \cup { Category(rel.version, c.key) : c \in Range(rel.categories) }
    \cup UNION { { Attribute(rel.version, k) : k \in Range(c.attributes) } :
                  c \in Range(rel.categories) }

IamRows(rel) ==
  { Scope(s) : s \in Range(rel.scopes) }
    \cup { Role(r.name) : r \in Range(rel.roles) }
    \cup UNION { { Link(r.name, s) : s \in r.scopes } : r \in Range(rel.roles) }

LEMMA EnsureSound ==
  ASSUME NEW R, NEW r \in R
  PROVE  Ensure(r) \in Sound(R) /\ Ensure(r).flush = "missing"
PROOF
<1>1. <<r>> \in Seq(R)
  OBVIOUS
<1> QED BY <1>1 DEF Ensure, Sound

\* The steps of a taxonomy each flush what they add.
LEMMA TaxonomySound ==
  ASSUME NEW rel \in TaxonomyReleases
  PROVE  /\ TaxonomySteps(rel) \in Seq(Sound(TaxonomyRows(rel)))
         /\ \A i \in DOMAIN TaxonomySteps(rel) : TaxonomySteps(rel)[i].flush = "missing"
         /\ Len(TaxonomySteps(rel)) > 0
PROOF
<1> DEFINE v == rel.version
           cats == rel.categories
           E == { st \in Sound(TaxonomyRows(rel)) : st.flush = "missing" }
           OfCategory(c) == <<Ensure(Category(v, c.key))>> \o
                            [i \in DOMAIN c.attributes |-> Ensure(Attribute(v, c.attributes[i]))]
           first == <<Ensure(Version(v))>>
           rest == FlattenSeq([i \in DOMAIN cats |-> OfCategory(cats[i])])
<1>1. cats \in Seq(Range(cats)) /\ \A c \in Range(cats) : c.attributes \in Seq(Range(c.attributes))
  BY ReleasesAssumption
<1>2. Ensure(Version(v)) \in E
  BY EnsureSound DEF TaxonomyRows
<1>3. ASSUME NEW c \in Range(cats)
      PROVE  OfCategory(c) \in Seq(E)
  <2>1. Ensure(Category(v, c.key)) \in E
    BY EnsureSound DEF TaxonomyRows
  <2>2. ASSUME NEW i \in DOMAIN c.attributes
        PROVE  Ensure(Attribute(v, c.attributes[i])) \in E
    <3>1. c.attributes[i] \in Range(c.attributes)
      BY DEF Range
    <3>2. Attribute(v, c.attributes[i]) \in TaxonomyRows(rel)
      BY <3>1 DEF TaxonomyRows
    <3> QED BY <3>2, EnsureSound
  <2>3. DOMAIN c.attributes = 1..Len(c.attributes) /\ Len(c.attributes) \in Nat
    BY <1>1
  <2> HIDE DEF E
  <2>4. [i \in DOMAIN c.attributes |-> Ensure(Attribute(v, c.attributes[i]))] \in Seq(E)
    BY <2>2, <2>3
  <2>5. <<Ensure(Category(v, c.key))>> \in Seq(E)
    BY <2>1
  <2> QED BY <2>4, <2>5
<1> HIDE DEF E, OfCategory
<1>4. [i \in DOMAIN cats |-> OfCategory(cats[i])] \in Seq(Seq(E))
  <2>1. DOMAIN cats = 1..Len(cats) /\ Len(cats) \in Nat
    BY <1>1
  <2>2. ASSUME NEW i \in DOMAIN cats
        PROVE  OfCategory(cats[i]) \in Seq(E)
    BY <1>3 DEF Range
  <2> QED BY <2>1, <2>2
<1>5. rest \in Seq(E) /\ first \in Seq(E) /\ Len(first) = 1
  BY <1>2, <1>4, FlattenType
<1>6. TaxonomySteps(rel) = first \o rest
  BY DEF TaxonomySteps, OfCategory
<1> HIDE DEF rest, first
<1>7. TaxonomySteps(rel) \in Seq(E) /\ Len(TaxonomySteps(rel)) > 0
  BY <1>5, <1>6
<1>8. E \subseteq Sound(TaxonomyRows(rel)) /\ \A st \in E : st.flush = "missing"
  BY DEF E
<1> HIDE DEF Sound
<1> QED BY <1>7, <1>8

\* Those of the roles end with a flush.
LEMMA IamSound ==
  ASSUME NEW rel \in IamReleases
  PROVE  /\ IamSteps(rel) \in Seq(Sound(IamRows(rel)))
         /\ Len(IamSteps(rel)) > 0
         /\ IamSteps(rel)[Len(IamSteps(rel))].flush = "always"
PROOF
<1> DEFINE E == Sound(IamRows(rel))
           links(r) == { Link(r.name, s) : s \in r.scopes }
           OfRole(r) == << Ensure(Role(r.name)),
                           [orders |-> SetToSeqs(links(r)), flush |-> "never"] >>
           first == <<[orders |-> {[i \in DOMAIN rel.scopes |-> Scope(rel.scopes[i])]},
                       flush |-> "always"]>>
           rest == FlattenSeq([i \in DOMAIN rel.roles |-> OfRole(rel.roles[i])])
           last == [orders |-> {<<>>}, flush |-> "always"]
<1>1. /\ rel.scopes \in Seq(Range(rel.scopes)) /\ rel.roles \in Seq(Range(rel.roles))
      /\ \A r \in Range(rel.roles) : IsFiniteSet(r.scopes)
  BY ReleasesAssumption
<1>2. first \in Seq(E)
  <2> DEFINE o == [i \in DOMAIN rel.scopes |-> Scope(rel.scopes[i])]
  <2>1. DOMAIN rel.scopes = 1..Len(rel.scopes) /\ Len(rel.scopes) \in Nat
    BY <1>1
  <2>2. \A i \in DOMAIN rel.scopes : Scope(rel.scopes[i]) \in IamRows(rel)
    BY DEF IamRows, Range
  <2>3. o \in Seq(IamRows(rel))
    BY <2>1, <2>2
  <2> HIDE DEF o
  <2>4. [orders |-> {o}, flush |-> "always"] \in E
    BY <2>3 DEF Sound
  <2> HIDE DEF E
  <2> QED BY <2>4 DEF o
<1>3. ASSUME NEW r \in Range(rel.roles)
      PROVE  OfRole(r) \in Seq(E)
  <2>1. Ensure(Role(r.name)) \in E
    BY EnsureSound DEF IamRows
  <2>2. IsFiniteSet(links(r))
    <3> DEFINE f == [s \in r.scopes |-> Link(r.name, s)]
    <3>1. f \in [r.scopes -> links(r)]
      OBVIOUS
    <3>2. \A l \in links(r) : \E s \in r.scopes : f[s] = l
      OBVIOUS
    <3> HIDE DEF f, links
    <3> QED BY <1>1, <3>1, <3>2, ImageIsFinite
  <2>3. links(r) \subseteq IamRows(rel)
    BY DEF IamRows
  <2> DEFINE L == links(r)
             st == [orders |-> SetToSeqs(L), flush |-> "never"]
  <2> HIDE DEF links
  <2>4. \A f \in SetToSeqs(L) : f \in Seq(L) /\ Range(f) = L
    BY <2>2, OrderingsAreWhole
  <2>5. SetToSeqs(L) \subseteq Seq(IamRows(rel))
    BY <2>3, <2>4
  <2>6. st \in E
    <3> HIDE DEF L
    <3> QED BY <2>4, <2>5 DEF Sound
  <2> HIDE DEF E, L
  <2>7. <<Ensure(Role(r.name)), st>> \in Seq(E)
    <3> HIDE DEF st
    <3> QED BY <2>1, <2>6
  <2> QED BY <2>7 DEF L
<1>4. last \in E
  <2>1. <<>> \in Seq(IamRows(rel))
    OBVIOUS
  <2> QED BY <2>1 DEF Sound
<1> HIDE DEF E, OfRole, last, first
<1>5. [i \in DOMAIN rel.roles |-> OfRole(rel.roles[i])] \in Seq(Seq(E))
  <2>1. DOMAIN rel.roles = 1..Len(rel.roles) /\ Len(rel.roles) \in Nat
    BY <1>1
  <2>2. ASSUME NEW i \in DOMAIN rel.roles
        PROVE  OfRole(rel.roles[i]) \in Seq(E)
    BY <1>3 DEF Range
  <2> QED BY <2>1, <2>2
<1>6. rest \in Seq(E)
  BY <1>5, FlattenType
<1>7. IamSteps(rel) = first \o rest \o <<last>>
  BY Zenon DEF IamSteps, OfRole, first, last
<1>8. first \o rest \in Seq(E) /\ <<last>> \in Seq(E) /\ Len(first \o rest) \in Nat
  <2> HIDE DEF rest
  <2> QED BY <1>2, <1>4, <1>6
<1>9. /\ IamSteps(rel) \in Seq(E) /\ Len(IamSteps(rel)) = Len(first \o rest) + 1
      /\ IamSteps(rel)[Len(first \o rest) + 1] = last
  <2> DEFINE a == first \o rest
  <2> HIDE DEF a, rest
  <2>1. a \in Seq(E)
    BY <1>8 DEF a
  <2>2. a \o <<last>> \in Seq(E) /\ Len(a \o <<last>>) = Len(a) + 1
        /\ (a \o <<last>>)[Len(a) + 1] = last
    BY <2>1, <1>8
  <2> QED BY <1>7, <2>2 DEF a
<1>10. last.flush = "always"
  BY DEF last
<1> QED BY <1>8, <1>9, <1>10 DEF E

\* A release flushes whatever it adds, at once or at the end.
FlushesLast(rel) == StepsOf[rel][Len(StepsOf[rel])].flush = "always"

LEMMA StepsSound ==
  ASSUME NEW rel \in Releases
  PROVE  /\ DOMAIN StepsOf[rel] = 1..Len(StepsOf[rel]) /\ Len(StepsOf[rel]) \in Nat \ {0}
         /\ FlushesLast(rel) \/ \A i \in DOMAIN StepsOf[rel] : StepsOf[rel][i].flush = "missing"
         /\ \A i \in DOMAIN StepsOf[rel] :
              /\ StepsOf[rel][i].flush \in {"missing", "never", "always"}
              /\ \A o \in StepsOf[rel][i].orders : o \in Seq(RowsOf[rel])
              /\ \A o1, o2 \in StepsOf[rel][i].orders : Range(o1) = Range(o2)
         /\ RowsOf[rel] \subseteq IF rel \in TaxonomyReleases THEN TaxonomyRows(rel)
                                                            ELSE IamRows(rel)
PROOF
<1> DEFINE st == StepsOf[rel]
           R == IF rel \in TaxonomyReleases THEN TaxonomyRows(rel) ELSE IamRows(rel)
<1>1. st = IF rel \in TaxonomyReleases THEN TaxonomySteps(rel) ELSE IamSteps(rel)
  BY DEF Releases, StepsOf
<1>2. /\ st \in Seq(Sound(R)) /\ Len(st) > 0
      /\ st[Len(st)].flush = "always" \/ \A i \in DOMAIN st : st[i].flush = "missing"
  <2>1. CASE rel \in TaxonomyReleases
    BY <1>1, <2>1, TaxonomySound
  <2>2. CASE rel \notin TaxonomyReleases
    BY <1>1, <2>2, IamSound DEF Releases
  <2> QED BY <2>1, <2>2
<1>3. RowsOf[rel] = UNION { UNION { Range(o) : o \in st[i].orders } : i \in DOMAIN st }
  BY DEF RowsOf, Releases
<1> HIDE DEF st, R
<1>4. DOMAIN st = 1..Len(st) /\ Len(st) \in Nat \ {0} /\ \A i \in DOMAIN st : st[i] \in Sound(R)
  BY <1>2
<1>5. ASSUME NEW i \in DOMAIN st
      PROVE  /\ st[i].flush \in {"missing", "never", "always"}
             /\ \A o \in st[i].orders : o \in Seq(R)
             /\ \A o1, o2 \in st[i].orders : Range(o1) = Range(o2)
  <2>1. st[i] \in Sound(R)
    BY <1>4
  <2> QED BY <2>1 DEF Sound
<1>6. ASSUME NEW i \in DOMAIN st, NEW o \in st[i].orders
      PROVE  o \in Seq(RowsOf[rel])
  <2>1. o \in Seq(R)
    BY <1>5
  <2>2. \A n \in DOMAIN o : o[n] \in RowsOf[rel]
    BY <1>3 DEF Range
  <2> QED BY <2>1, <2>2
<1>7. RowsOf[rel] \subseteq R
  <2> SUFFICES ASSUME NEW i \in DOMAIN st, NEW o \in st[i].orders, NEW n \in DOMAIN o
               PROVE  o[n] \in R
    BY <1>3 DEF Range
  <2>1. o \in Seq(R)
    BY <1>5
  <2> QED BY <2>1
<1> QED BY <1>2, <1>4, <1>5, <1>6, <1>7 DEF st, R, FlushesLast

\* The rows that are missing, in their order, are all that are missing.
LEMMA MissingIsWhole ==
  ASSUME NEW R, NEW order \in Seq(R), NEW found, NEW m \in Missing(order, found)
  PROVE  m \in Seq(R) /\ Range(m) = Range(order) \ found
PROOF
<1> DEFINE n == Len(order)
           D == { i \in 1..n : order[i] \notin found }
           S == Range(order) \ found
<1>1. n \in Nat /\ DOMAIN order = 1..n /\ \A i \in 1..n : order[i] \in R
  OBVIOUS
<1>2. IsFiniteSet(D)
  <2>1. IsFiniteSet(1..n)
    BY <1>1, FS_Interval
  <2>2. D \subseteq 1..n
    OBVIOUS
  <2> QED BY <2>1, <2>2, FS_Subset
<1>3. S = { order[i] : i \in D }
  BY <1>1 DEF Range
<1>4. IsFiniteSet(S)
  <2> DEFINE f == [i \in D |-> order[i]]
  <2>1. f \in [D -> S]
    BY <1>3
  <2>2. \A x \in S : \E i \in D : f[i] = x
    BY <1>3
  <2> HIDE DEF D, S, f
  <2> QED BY <1>2, <2>1, <2>2, ImageIsFinite
<1>5. m \in SetToSeqs(S)
  BY DEF Missing
<1>6. m \in Seq(S) /\ Range(m) = S
  <2> HIDE DEF S
  <2> QED BY <1>4, <1>5, OrderingsAreWhole
<1>7. S \subseteq R
  BY <1>1, <1>3
<1> HIDE DEF S
<1>8. m \in Seq(R)
  BY <1>6, <1>7
<1> QED BY <1>6, <1>8 DEF S

-----------------------------------------------------------------------------
(* The seeders.                                                            *)

SeederRows(R) ==
  [pc : {"idle", "looking", "flushing", "committed", "refused", "victim", "dead"},
   at : Nat, added : Seq(R), mine : SUBSET R, began : Nat]

\* What the steps that were looked for ask for is there, inserted, or added.
Covered(a, rel, T) ==
  \A i \in 1..(a.at - 1) : \A o \in StepsOf[rel][i].orders :
    Range(o) \subseteq T \cup a.mine \cup Range(a.added)

\* The state a of a seeder of release rel, over a table T that had the rows o at
\* the beginning: what it has added was not there then, an open one has missed
\* nothing so far, and one that is done has flushed everything.
Sane(a, rel, T, o) ==
  /\ a \in SeederRows(RowsOf[rel]) /\ a.at \in 1..(Len(StepsOf[rel]) + 1)
  /\ a.pc = "idle" => a.at = 1 /\ a.added = <<>> /\ a.mine = {}
  /\ a.pc = "looking" /\ a.added # <<>> => a.at <= Len(StepsOf[rel]) /\ FlushesLast(rel)
  /\ a.pc = "flushing" => a.added # <<>>
  /\ Range(a.added) \cap o = {}
  /\ a.pc \in {"looking", "flushing"} => Covered(a, rel, T)
  /\ a.pc = "committed" => RowsOf[rel] \subseteq T

SeedInv ==
  /\ release \in [Seeders -> Releases]
  /\ old = {} \/ \E rel \in Releases : old = RowsOf[rel]
  /\ seeder = [s \in Seeders |-> seeder[s]]
  /\ \A s \in Seeders : Sane(seeder[s], release[s], Table, old)
  /\ RefusedMeansSeeded

LEMMA SaneGrows ==
  ASSUME NEW a, NEW rel, NEW T, NEW U, NEW o, Sane(a, rel, T, o), T \subseteq U
  PROVE  Sane(a, rel, U, o)
PROOF
<1>1. Covered(a, rel, T) => Covered(a, rel, U)
  BY DEF Covered
<1> HIDE DEF SeederRows, FlushesLast
<1> QED BY <1>1 DEF Sane

LEMMA SaneBegins ==
  ASSUME NEW a, NEW rel \in Releases, NEW T, NEW o, Sane(a, rel, T, o), a.pc = "idle", NEW n \in Nat
  PROVE  Sane([a EXCEPT !.pc = "looking", !.began = n], rel, T, o)
PROOF
<1> DEFINE b == [a EXCEPT !.pc = "looking", !.began = n]
<1>1. a \in SeederRows(RowsOf[rel]) /\ a.at = 1 /\ a.added = <<>> /\ a.mine = {}
  BY DEF Sane
<1>2. /\ b \in SeederRows(RowsOf[rel]) /\ b.pc = "looking" /\ b.at = 1 /\ b.added = <<>>
      /\ b.mine = {}
  BY <1>1 DEF SeederRows
<1> HIDE DEF b
<1>3. Covered(b, rel, T)
  BY <1>2 DEF Covered
<1>4. 1 \in 1..(Len(StepsOf[rel]) + 1)
  BY StepsSound
<1>5. Range(b.added) \cap o = {}
  BY <1>2 DEF Range
<1> QED BY <1>2, <1>3, <1>4, <1>5 DEF Sane, b

\* A look covers one step more.
LEMMA SaneLooks ==
  ASSUME NEW a, NEW rel \in Releases, NEW T, NEW o \in SUBSET T, Sane(a, rel, T, o),
         a.pc = "looking", a.at <= Len(StepsOf[rel]),
         NEW order \in StepsOf[rel][a.at].orders, NEW m \in Missing(order, T \cup a.mine),
         NEW b \in SeederRows(RowsOf[rel]),
         b.at = a.at + 1, b.mine = a.mine, b.added = a.added \o m,
         b.pc = IF /\ \/ StepsOf[rel][a.at].flush = "always"
                      \/ StepsOf[rel][a.at].flush = "missing" /\ m # <<>>
                   /\ b.added # <<>>
                THEN "flushing" ELSE "looking"
  PROVE  Sane(b, rel, T, o)
PROOF
<1> DEFINE st == StepsOf[rel]
<1>1. /\ a \in SeederRows(RowsOf[rel]) /\ a.at \in 1..Len(st) /\ Len(st) \in Nat
      /\ a.added # <<>> => FlushesLast(rel)
      /\ Range(a.added) \cap o = {} /\ Covered(a, rel, T)
  BY StepsSound DEF Sane
<1>2. a.added \in Seq(RowsOf[rel])
  BY <1>1 DEF SeederRows
<1>3. /\ a.at \in DOMAIN st /\ order \in Seq(RowsOf[rel])
      /\ \A q \in st[a.at].orders : Range(q) = Range(order)
  BY <1>1, StepsSound
<1>4. m \in Seq(RowsOf[rel]) /\ Range(m) = Range(order) \ (T \cup a.mine)
  BY <1>3, MissingIsWhole
<1>5. Range(b.added) = Range(a.added) \cup Range(m)
  <2> DEFINE p == a.added
  <2>1. b.added = p \o m /\ p \in Seq(RowsOf[rel])
    BY <1>2
  <2> HIDE DEF p
  <2>2. /\ DOMAIN (p \o m) = 1..(Len(p) + Len(m)) /\ Len(p) \in Nat /\ Len(m) \in Nat
        /\ DOMAIN p = 1..Len(p) /\ DOMAIN m = 1..Len(m)
        /\ \A i \in 1..(Len(p) + Len(m)) : (p \o m)[i] = IF i <= Len(p) THEN p[i] ELSE m[i - Len(p)]
    BY <1>4, <2>1
  <2>3. ASSUME NEW i \in DOMAIN (p \o m)
        PROVE  (p \o m)[i] \in Range(p) \cup Range(m)
    <3>1. CASE i <= Len(p)
      BY <2>2, <3>1 DEF Range
    <3>2. CASE ~(i <= Len(p))
      <4>1. i - Len(p) \in DOMAIN m
        BY <2>2, <3>2
      <4> QED BY <2>2, <3>2, <4>1 DEF Range
    <3> QED BY <3>1, <3>2
  <2>4. ASSUME NEW i \in DOMAIN p
        PROVE  p[i] \in Range(p \o m)
    <3>1. i \in DOMAIN (p \o m) /\ (p \o m)[i] = p[i]
      BY <2>2
    <3> QED BY <3>1 DEF Range
  <2>5. ASSUME NEW i \in DOMAIN m
        PROVE  m[i] \in Range(p \o m)
    <3>1. i + Len(p) \in DOMAIN (p \o m) /\ (p \o m)[i + Len(p)] = m[i]
      BY <2>2
    <3> QED BY <3>1 DEF Range
  <2>6. Range(p \o m) = Range(p) \cup Range(m)
    <3>1. Range(p \o m) \subseteq Range(p) \cup Range(m)
      BY <2>3 DEF Range
    <3>2. Range(p) \subseteq Range(p \o m) /\ Range(m) \subseteq Range(p \o m)
      <4> HIDE DEF Range
      <4>1. \A x \in Range(p) : \E i \in DOMAIN p : x = p[i]
        BY DEF Range
      <4>2. \A x \in Range(m) : \E i \in DOMAIN m : x = m[i]
        BY DEF Range
      <4> QED BY <2>4, <2>5, <4>1, <4>2
    <3> QED BY <3>1, <3>2
  <2> QED BY <2>1, <2>6 DEF p
<1>6. Covered(b, rel, T)
  <2> SUFFICES ASSUME NEW i \in 1..(b.at - 1), NEW q \in st[i].orders
               PROVE  Range(q) \subseteq T \cup b.mine \cup Range(b.added)
    BY DEF Covered
  <2>1. CASE i = a.at
    BY <1>3, <1>4, <1>5, <2>1
  <2>2. CASE i # a.at
    <3>1. i \in 1..(a.at - 1)
      BY <1>1, <2>2
    <3> QED BY <1>1, <1>5, <3>1 DEF Covered
  <2> QED BY <2>1, <2>2
<1>7. Range(b.added) \cap o = {}
  BY <1>1, <1>4, <1>5
<1>8. b.pc = "looking" /\ b.added # <<>> => b.at <= Len(st) /\ FlushesLast(rel)
  <2> SUFFICES ASSUME b.pc = "looking", b.added # <<>>
               PROVE  b.at <= Len(st) /\ FlushesLast(rel)
    OBVIOUS
  <2>1. st[a.at].flush # "always" /\ (st[a.at].flush = "missing" => m = <<>>)
    OBVIOUS
  <2>2. CASE FlushesLast(rel)
    <3>1. a.at # Len(st)
      BY <2>1, <2>2 DEF FlushesLast
    <3> QED BY <1>1, <2>2, <3>1
  <2>3. CASE ~FlushesLast(rel)
    <3>1. st[a.at].flush = "missing"
      BY <1>3, <2>3, StepsSound
    <3>2. a.added = <<>> /\ m = <<>>
      BY <1>1, <2>1, <2>3, <3>1
    <3> QED BY <3>2
  <2> QED BY <2>2, <2>3
<1>9. b.at \in 1..(Len(st) + 1)
  BY <1>1
<1> QED BY <1>6, <1>7, <1>8, <1>9 DEF Sane

LEMMA HeadAndTail ==
  ASSUME NEW R, NEW q \in Seq(R), q # <<>>
  PROVE  /\ Head(q) \in R /\ Tail(q) \in Seq(R)
         /\ Range(q) = {Head(q)} \cup Range(Tail(q))
         /\ Len(q) = 1 <=> Tail(q) = <<>>
PROOF
<1>1. /\ Len(q) \in Nat \ {0} /\ DOMAIN q = 1..Len(q) /\ Head(q) = q[1]
      /\ Tail(q) \in Seq(R) /\ Len(Tail(q)) = Len(q) - 1
      /\ DOMAIN Tail(q) = 1..(Len(q) - 1)
      /\ \A i \in 1..(Len(q) - 1) : Tail(q)[i] = q[i + 1]
  OBVIOUS
<1>2. ASSUME NEW i \in DOMAIN q
      PROVE  q[i] \in {Head(q)} \cup Range(Tail(q))
  <2>1. CASE i = 1
    BY <1>1, <2>1
  <2>2. CASE i # 1
    <3>1. i - 1 \in DOMAIN Tail(q) /\ Tail(q)[i - 1] = q[i]
      BY <1>1, <2>2
    <3> QED BY <3>1 DEF Range
  <2> QED BY <2>1, <2>2
<1>3. ASSUME NEW i \in DOMAIN Tail(q)
      PROVE  Tail(q)[i] \in Range(q)
  <2>1. i + 1 \in DOMAIN q /\ Tail(q)[i] = q[i + 1]
    BY <1>1
  <2> QED BY <2>1 DEF Range
<1>4. Range(q) = {Head(q)} \cup Range(Tail(q))
  <2>1. Range(q) \subseteq {Head(q)} \cup Range(Tail(q))
    BY <1>2 DEF Range
  <2>2. Head(q) \in Range(q)
    BY <1>1 DEF Range
  <2>3. Range(Tail(q)) \subseteq Range(q)
    <3>1. \A x \in Range(Tail(q)) : \E i \in DOMAIN Tail(q) : x = Tail(q)[i]
      BY DEF Range
    <3> QED BY <1>3, <3>1
  <2> HIDE DEF Range
  <2> QED BY <2>1, <2>2, <2>3
<1>5. Len(q) = 1 <=> Tail(q) = <<>>
  <2> DEFINE t == Tail(q)
  <2>1. t \in Seq(R) /\ Len(t) = Len(q) - 1
    BY <1>1
  <2> HIDE DEF t
  <2>2. t = <<>> => Len(t) = 0
    OBVIOUS
  <2>3. Len(t) = 0 => t = <<>>
    BY <2>1
  <2> QED BY <1>1, <2>1, <2>2, <2>3 DEF t
<1>6. Head(q) \in R
  BY <1>1
<1> QED BY <1>1, <1>4, <1>5, <1>6

\* An insert takes a row from those added to those inserted.
LEMMA SaneInserts ==
  ASSUME NEW a, NEW rel \in Releases, NEW T, NEW o, Sane(a, rel, T, o), a.pc = "flushing",
         NEW b \in SeederRows(RowsOf[rel]), b.at = a.at,
         b.mine = a.mine \cup {Head(a.added)}, b.added = Tail(a.added),
         b.pc = IF Len(a.added) = 1 THEN "looking" ELSE "flushing"
  PROVE  Sane(b, rel, T, o)
PROOF
<1>1. /\ a.added \in Seq(RowsOf[rel]) /\ a.added # <<>> /\ Covered(a, rel, T)
      /\ Range(a.added) \cap o = {} /\ a.at \in 1..(Len(StepsOf[rel]) + 1)
  BY DEF Sane, SeederRows
<1>2. /\ Range(a.added) = {Head(a.added)} \cup Range(b.added)
      /\ Len(a.added) = 1 <=> b.added = <<>>
  BY <1>1, HeadAndTail
<1>3. Covered(b, rel, T)
  <2> SUFFICES ASSUME NEW i \in 1..(b.at - 1), NEW q \in StepsOf[rel][i].orders
               PROVE  Range(q) \subseteq T \cup b.mine \cup Range(b.added)
    BY DEF Covered
  <2>1. Range(q) \subseteq T \cup a.mine \cup Range(a.added)
    BY <1>1 DEF Covered
  <2> QED BY <1>2, <2>1
<1> QED BY <1>1, <1>2, <1>3 DEF Sane

\* What is committed is there; a row that is there came with a whole release.
LEMMA TableHas ==
  /\ old \subseteq Table
  /\ \A s \in Seeders : Committed(s) => seeder[s].mine \subseteq Table
  /\ \A r \in Table : r \in old \/ \E s \in Seeders : Committed(s) /\ r \in seeder[s].mine
BY DEF Table

LEMMA WholeReleases ==
  ASSUME SeedInv, NEW r \in Table
  PROVE  \E rel \in Releases : r \in RowsOf[rel] /\ RowsOf[rel] \subseteq Table
PROOF
<1>1. CASE r \in old
  BY <1>1, TableHas DEF SeedInv
<1>2. ASSUME NEW s \in Seeders, Committed(s), r \in seeder[s].mine
      PROVE  \E rel \in Releases : r \in RowsOf[rel] /\ RowsOf[rel] \subseteq Table
  <2>1. Sane(seeder[s], release[s], Table, old) /\ release[s] \in Releases
    BY DEF SeedInv
  <2> DEFINE a == seeder[s]
             rel == release[s]
  <2>2. RowsOf[rel] \subseteq Table
    BY <1>2, <2>1 DEF Sane, Committed
  <2>3. a.mine \subseteq RowsOf[rel]
    BY <2>1 DEF Sane, SeederRows
  <2> QED BY <1>2, <2>1, <2>2, <2>3
<1> QED BY <1>1, <1>2, TableHas

-----------------------------------------------------------------------------
(* The steps of a seeder.                                                  *)

\* Only an open seeder moves, one at a time, and what it does to the table is
\* to add to it.
LEMMA OneMoves ==
  ASSUME SeedInv, NEW s \in Seeders, NEW b, seeder' = [seeder EXCEPT ![s] = b],
         old' = old, ~Committed(s)
  PROVE  /\ seeder' = [t \in Seeders |-> seeder'[t]]
         /\ seeder'[s] = b /\ \A t \in Seeders \ {s} : seeder'[t] = seeder[t]
         /\ Table \subseteq Table'
         /\ b.pc = "committed" => b.mine \subseteq Table'
PROOF
<1>1. /\ seeder' = [t \in Seeders |-> seeder'[t]]
      /\ seeder'[s] = b /\ \A t \in Seeders \ {s} : seeder'[t] = seeder[t]
  BY DEF SeedInv
<1>2. \A t \in Seeders : Committed(t) => t # s /\ seeder'[t] = seeder[t]
  BY <1>1
<1>3. Table' = old \cup UNION { seeder'[t].mine : t \in { u \in Seeders : seeder'[u].pc = "committed" } }
  BY DEF Table, Committed
<1>4. ASSUME NEW r \in Table
      PROVE  r \in Table'
  <2>1. CASE r \in old
    BY <1>3, <2>1
  <2>2. ASSUME NEW t \in Seeders, Committed(t), r \in seeder[t].mine
        PROVE  r \in Table'
    <3>1. seeder'[t] = seeder[t] /\ seeder'[t].pc = "committed"
      BY <1>2, <2>2 DEF Committed
    <3> QED BY <1>3, <2>2, <3>1
  <2> QED BY <2>1, <2>2, TableHas
<1>5. b.pc = "committed" => b.mine \subseteq Table'
  BY <1>1, <1>3
<1> QED BY <1>1, <1>4, <1>5

\* The invariant after a step of s, when its new state is sane.
LEMMA SeedInvKept ==
  ASSUME SeedInv, NEW s \in Seeders, NEW b, seeder' = [seeder EXCEPT ![s] = b],
         UNCHANGED <<old, release>>, ~Committed(s),
         Sane(b, release[s], Table', old),
         b.pc = "refused" => \E t \in Seeders \ {s} : Committed(t)
  PROVE  SeedInv'
PROOF
<1> DEFINE U == Table'
<1>1. /\ seeder' = [t \in Seeders |-> seeder'[t]]
      /\ seeder'[s] = b /\ \A t \in Seeders \ {s} : seeder'[t] = seeder[t]
      /\ Table \subseteq U
  BY OneMoves
<1>2. ASSUME NEW t \in Seeders
      PROVE  Sane(seeder'[t], release[t], U, old)
  <2>1. CASE t = s
    BY <1>1, <2>1
  <2>2. CASE t # s
    <3>1. Sane(seeder[t], release[t], Table, old)
      BY DEF SeedInv
    <3>2. seeder'[t] = seeder[t]
      BY <1>1, <2>2
    <3> HIDE DEF U
    <3> QED BY <1>1, <3>1, <3>2, SaneGrows
  <2> QED BY <2>1, <2>2
<1>3. ASSUME NEW t \in Seeders, Committed(t)
      PROVE  t # s /\ seeder'[t].pc = "committed" /\ RowsOf[release[t]] \subseteq U
  <2>1. t # s /\ seeder'[t] = seeder[t]
    BY <1>1, <1>3
  <2>2. seeder'[t].pc = "committed"
    BY <1>3, <2>1 DEF Committed
  <2>3. Sane(seeder'[t], release[t], U, old)
    BY <1>2
  <2> HIDE DEF U
  <2> QED BY <2>1, <2>2, <2>3 DEF Sane
<1>4. ASSUME NEW t \in Seeders, seeder'[t].pc = "refused"
      PROVE  \E u \in Seeders \ {t} : seeder'[u].pc = "committed" /\ RowsOf[release[u]] \subseteq U
  <2>1. CASE t = s
    BY <1>1, <1>3, <1>4, <2>1
  <2>2. CASE t # s
    <3>1. seeder[t].pc = "refused"
      BY <1>1, <1>4, <2>2
    <3>2. PICK u \in Seeders \ {t} : Committed(u)
      BY <3>1 DEF SeedInv, RefusedMeansSeeded
    <3> QED BY <1>3, <3>2
  <2> QED BY <2>1, <2>2
<1>5. RefusedMeansSeeded'
  BY <1>4 DEF RefusedMeansSeeded, Committed
<1> QED BY <1>1, <1>2, <1>5 DEF SeedInv

\* An end without a commit takes everything back.
LEMMA SaneEnds ==
  ASSUME NEW a, NEW rel \in Releases, NEW T, NEW o, Sane(a, rel, T, o),
         NEW pc \in {"refused", "victim", "dead"}
  PROVE  Sane([a EXCEPT !.pc = pc, !.added = <<>>, !.mine = {}], rel, T, o)
PROOF
<1> DEFINE b == [a EXCEPT !.pc = pc, !.added = <<>>, !.mine = {}]
<1>1. a \in SeederRows(RowsOf[rel]) /\ a.at \in 1..(Len(StepsOf[rel]) + 1)
  BY DEF Sane
<1>2. b \in SeederRows(RowsOf[rel]) /\ b.pc = pc /\ b.at = a.at /\ b.added = <<>> /\ b.mine = {}
  <2>1. <<>> \in Seq(RowsOf[rel])
    OBVIOUS
  <2> QED BY <1>1, <2>1 DEF SeederRows
<1> HIDE DEF b
<1>3. Range(b.added) \cap o = {}
  BY <1>2 DEF Range
<1> QED BY <1>1, <1>2, <1>3 DEF Sane, b

\* A seeder that has looked for everything and has nothing left to flush has
\* inserted all that was not there.
LEMMA SaneCommits ==
  ASSUME NEW a, NEW rel \in Releases, NEW T, NEW o, Sane(a, rel, T, o),
         a.pc = "looking", a.at > Len(StepsOf[rel]),
         NEW U, T \subseteq U, a.mine \subseteq U
  PROVE  Sane([a EXCEPT !.pc = "committed", !.added = <<>>], rel, U, o)
PROOF
<1> DEFINE b == [a EXCEPT !.pc = "committed", !.added = <<>>]
           st == StepsOf[rel]
<1>1. a \in SeederRows(RowsOf[rel]) /\ a.at \in 1..(Len(st) + 1) /\ Covered(a, rel, T)
  BY DEF Sane
<1>2. Len(st) \in Nat /\ DOMAIN st = 1..Len(st)
  BY StepsSound
<1>3. a.added = <<>> /\ a.at = Len(st) + 1
  BY <1>1, <1>2 DEF Sane
<1>4. ASSUME NEW i \in DOMAIN st, NEW q \in st[i].orders
      PROVE  Range(q) \subseteq U
  <2>1. i \in 1..(a.at - 1)
    BY <1>2, <1>3
  <2>2. Range(q) \subseteq T \cup a.mine \cup Range(a.added)
    BY <1>1, <2>1 DEF Covered
  <2>3. Range(a.added) = {}
    BY <1>3 DEF Range
  <2> QED BY <2>2, <2>3
<1>5. RowsOf[rel] \subseteq U
  <2>1. RowsOf[rel] = UNION { UNION { Range(q) : q \in st[i].orders } : i \in DOMAIN st }
    BY DEF RowsOf, Releases
  <2> HIDE DEF st, Range
  <2> QED BY <1>4, <2>1
<1>6. b \in SeederRows(RowsOf[rel]) /\ b.pc = "committed" /\ b.at = a.at /\ b.added = <<>>
  <2>1. <<>> \in Seq(RowsOf[rel])
    OBVIOUS
  <2> QED BY <1>1, <2>1 DEF SeederRows
<1> HIDE DEF b
<1>7. Range(b.added) \cap o = {}
  BY <1>6 DEF Range
<1> QED BY <1>1, <1>5, <1>6, <1>7 DEF Sane, b

LEMMA BeginKeeps ==
  ASSUME SeedInv, NEW s \in Seeders, Begin(s)
  PROVE  SeedInv'
PROOF
<1> DEFINE a == seeder[s]
           n == 1 + Cardinality({ t \in Seeders : seeder[t].pc # "idle" })
           b == [a EXCEPT !.pc = "looking", !.began = n]
           U == Table'
<1>1. n \in Nat
  <2>1. IsFiniteSet({ t \in Seeders : seeder[t].pc # "idle" })
    BY SeedersAssumption, FS_Subset
  <2> QED BY <2>1, FS_CardinalityType
<1>2. a.pc = "idle" /\ UNCHANGED <<old, release>> /\ ~Committed(s)
  BY DEF Begin, Committed
<1>3. seeder' = [seeder EXCEPT ![s] = b]
  BY DEF Begin, SeedInv
<1>4. Sane(a, release[s], Table, old) /\ release[s] \in Releases
  BY DEF SeedInv
<1> HIDE DEF n
<1>5. Sane(b, release[s], Table, old)
  BY <1>1, <1>2, <1>4, SaneBegins
<1>6. b.pc = "looking"
  BY <1>4 DEF Sane, SeederRows
<1> HIDE DEF b, a
<1>7. Table \subseteq U
  BY <1>2, <1>3, OneMoves
<1>8. Sane(b, release[s], U, old)
  <2> HIDE DEF U
  <2> QED BY <1>5, <1>7, SaneGrows
<1> QED BY <1>2, <1>3, <1>6, <1>8, SeedInvKept

LEMMA LookKeeps ==
  ASSUME SeedInv, NEW s \in Seeders, Look(s)
  PROVE  SeedInv'
PROOF
<1> DEFINE a == seeder[s]
           rel == release[s]
           st == StepsOf[rel]
           b == seeder'[s]
           U == Table'
<1>1. a.pc = "looking" /\ a.at <= Len(st) /\ UNCHANGED <<old, release>> /\ ~Committed(s)
  BY DEF Look, Steps, Committed
<1>2. PICK order \in st[a.at].orders : \E m \in Missing(order, Table \cup a.mine) : LookFor(s, m)
  BY DEF Look, Steps
<1>3. PICK m \in Missing(order, Table \cup a.mine) : LookFor(s, m)
  BY <1>2
<1>4. Sane(a, rel, Table, old) /\ rel \in Releases /\ a \in SeederRows(RowsOf[rel])
  BY DEF SeedInv, Sane
<1>5. /\ a.at \in 1..Len(st) /\ a.at \in DOMAIN st
      /\ a.added \in Seq(RowsOf[rel]) /\ a.at \in Nat
  BY <1>1, <1>4, StepsSound DEF Sane, SeederRows
<1>6. m \in Seq(RowsOf[rel])
  <2>1. order \in Seq(RowsOf[rel])
    BY <1>4, <1>5, StepsSound
  <2> QED BY <2>1, MissingIsWhole
<1> DEFINE pc == IF /\ \/ st[a.at].flush = "always"
                       \/ st[a.at].flush = "missing" /\ m # <<>>
                    /\ a.added \o m # <<>>
                 THEN "flushing" ELSE "looking"
           c == [a EXCEPT !.at = a.at + 1, !.added = a.added \o m, !.pc = pc]
<1>7. seeder' = [seeder EXCEPT ![s] = c]
  BY <1>3 DEF LookFor, Steps, SeedInv
<1>8. b = c
  BY <1>7 DEF SeedInv
<1>9. a.added \o m \in Seq(RowsOf[rel]) /\ a.at + 1 \in Nat
  <2> DEFINE p == a.added
             R == RowsOf[rel]
  <2>1. p \in Seq(R) /\ m \in Seq(R)
    BY <1>5, <1>6
  <2> HIDE DEF p, R
  <2>2. p \o m \in Seq(R)
    BY <2>1
  <2> QED BY <1>5, <2>2 DEF p, R
<1>10. /\ c \in SeederRows(RowsOf[rel]) /\ c.at = a.at + 1 /\ c.mine = a.mine
       /\ c.added = a.added \o m /\ c.pc = pc
  <2>1. pc \in {"looking", "flushing"}
    OBVIOUS
  <2> HIDE DEF pc
  <2> QED BY <1>4, <1>9, <2>1 DEF SeederRows
<1>11. Sane(c, rel, Table, old)
  <2>1. old \subseteq Table
    BY TableHas
  <2> HIDE DEF c, a, rel
  <2> QED BY <1>1, <1>2, <1>3, <1>4, <1>10, <2>1, SaneLooks DEF a, rel
<1>12. c.pc # "refused"
  BY <1>10
<1> HIDE DEF c, a, rel, b
<1>13. Table \subseteq U
  BY <1>1, <1>7, OneMoves
<1>14. Sane(c, rel, U, old)
  <2> HIDE DEF U
  <2> QED BY <1>11, <1>13, SaneGrows
<1> QED BY <1>1, <1>7, <1>12, <1>14, SeedInvKept DEF rel

LEMMA InsertKeeps ==
  ASSUME SeedInv, NEW s \in Seeders, Insert(s)
  PROVE  SeedInv'
PROOF
<1> DEFINE a == seeder[s]
           rel == release[s]
           pc == IF Len(a.added) = 1 THEN "looking" ELSE "flushing"
           c == [a EXCEPT !.mine = @ \cup {Head(a.added)}, !.added = Tail(@), !.pc = pc]
           U == Table'
<1>1. a.pc = "flushing" /\ UNCHANGED <<old, release>> /\ ~Committed(s)
  BY DEF Insert, Committed
<1>2. seeder' = [seeder EXCEPT ![s] = c]
  BY DEF Insert, SeedInv
<1>3. Sane(a, rel, Table, old) /\ rel \in Releases /\ a \in SeederRows(RowsOf[rel])
  BY DEF SeedInv, Sane
<1>4. a.added \in Seq(RowsOf[rel]) /\ a.added # <<>> /\ a.mine \subseteq RowsOf[rel]
  BY <1>1, <1>3 DEF Sane, SeederRows
<1>5. Head(a.added) \in RowsOf[rel] /\ Tail(a.added) \in Seq(RowsOf[rel])
  BY <1>4, HeadAndTail
<1>6. /\ c \in SeederRows(RowsOf[rel]) /\ c.at = a.at /\ c.mine = a.mine \cup {Head(a.added)}
      /\ c.added = Tail(a.added) /\ c.pc = pc
  <2>1. pc \in {"looking", "flushing"}
    OBVIOUS
  <2>2. a.mine \cup {Head(a.added)} \subseteq RowsOf[rel]
    BY <1>4, <1>5
  <2> HIDE DEF pc
  <2> QED BY <1>3, <1>5, <2>1, <2>2 DEF SeederRows
<1>7. Sane(c, rel, Table, old)
  <2> HIDE DEF c, a, rel
  <2> QED BY <1>1, <1>3, <1>6, SaneInserts DEF rel
<1>8. c.pc # "refused"
  BY <1>6
<1> HIDE DEF c, a, rel
<1>9. Table \subseteq U
  BY <1>1, <1>2, OneMoves
<1>10. Sane(c, rel, U, old)
  <2> HIDE DEF U
  <2> QED BY <1>7, <1>9, SaneGrows
<1> QED BY <1>1, <1>2, <1>8, <1>10, SeedInvKept DEF rel

LEMMA CommitKeeps ==
  ASSUME SeedInv, NEW s \in Seeders, Commit(s)
  PROVE  SeedInv'
PROOF
<1> DEFINE a == seeder[s]
           rel == release[s]
           c == [a EXCEPT !.pc = "committed", !.added = <<>>]
           U == Table'
<1>1. /\ a.pc = "looking" /\ a.at > Len(StepsOf[rel])
      /\ UNCHANGED <<old, release>> /\ ~Committed(s)
  BY DEF Commit, Ends, Steps, Committed
<1>2. seeder' = [seeder EXCEPT ![s] = c]
  BY DEF Commit, Ends, SeedInv
<1>3. Sane(a, rel, Table, old) /\ rel \in Releases
  BY DEF SeedInv
<1>4. c.mine = a.mine /\ c.pc = "committed"
  BY <1>3 DEF Sane, SeederRows
<1> HIDE DEF rel
<1>5. Table \subseteq U /\ a.mine \subseteq U
  <2> HIDE DEF c
  <2> QED BY <1>1, <1>2, <1>4, OneMoves
<1>6. Sane(c, rel, U, old)
  <2> HIDE DEF U, a
  <2> QED BY <1>1, <1>3, <1>5, SaneCommits
<1> HIDE DEF c
<1> QED BY <1>1, <1>2, <1>4, <1>6, SeedInvKept DEF rel

LEMMA EndsKeeps ==
  ASSUME SeedInv, NEW s \in Seeders, IsOpen(s), NEW pc \in {"refused", "victim", "dead"},
         Ends(s, pc), pc = "refused" => \E t \in Seeders \ {s} : Committed(t)
  PROVE  SeedInv'
PROOF
<1> DEFINE a == seeder[s]
           rel == release[s]
           c == [a EXCEPT !.pc = pc, !.added = <<>>, !.mine = {}]
           U == Table'
<1>1. UNCHANGED <<old, release>> /\ ~Committed(s) /\ pc # "committed"
  BY DEF Ends, IsOpen, Committed
<1>2. seeder' = [seeder EXCEPT ![s] = c]
  BY <1>1 DEF Ends, SeedInv
<1>3. Sane(a, rel, Table, old) /\ rel \in Releases
  BY DEF SeedInv
<1>4. c.pc = pc
  BY <1>3 DEF Sane, SeederRows
<1> HIDE DEF rel
<1>5. Sane(c, rel, Table, old)
  BY <1>3, SaneEnds
<1> HIDE DEF c, a
<1>6. Table \subseteq U
  BY <1>1, <1>2, OneMoves
<1>7. Sane(c, rel, U, old)
  <2> HIDE DEF U
  <2> QED BY <1>5, <1>6, SaneGrows
<1> QED BY <1>1, <1>2, <1>4, <1>7, SeedInvKept DEF rel

\* The row that refuses a seeder is one that another has committed.
LEMMA RefusedKeeps ==
  ASSUME SeedInv, NEW s \in Seeders, Refused(s)
  PROVE  SeedInv'
PROOF
<1> DEFINE a == seeder[s]
<1>1. IsOpen(s) /\ a.pc = "flushing" /\ Head(a.added) \in Table /\ Ends(s, "refused")
  BY DEF Refused, IsOpen
<1>2. Sane(a, release[s], Table, old)
  BY DEF SeedInv
<1>3. a.added \in Seq(RowsOf[release[s]]) /\ a.added # <<>> /\ Range(a.added) \cap old = {}
  BY <1>1, <1>2 DEF Sane, SeederRows
<1>4. Head(a.added) \notin old
  BY <1>3, HeadAndTail
<1>5. PICK t \in Seeders : Committed(t)
  BY <1>1, <1>4, TableHas
<1>6. t # s
  BY <1>1, <1>5 DEF Committed
<1> QED BY <1>1, <1>5, <1>6, EndsKeeps

LEMMA SeedInvInit == SeedInit => SeedInv
PROOF
<1> SUFFICES ASSUME SeedInit
             PROVE  SeedInv
  OBVIOUS
<1>1. release \in [Seeders -> Releases]
  BY DEF SeedInit, Releases
<1>2. old = {} \/ \E rel \in Releases : old = RowsOf[rel]
  BY DEF SeedInit, Releases
<1>3. seeder = [s \in Seeders |-> Idle]
  BY DEF SeedInit
<1>4. ASSUME NEW s \in Seeders
      PROVE  Sane(Idle, release[s], Table, old)
  <2> DEFINE R == RowsOf[release[s]]
  <2>1. Idle.pc = "idle" /\ Idle.at = 1 /\ Idle.added = <<>> /\ Idle.mine = {}
    BY DEF Idle
  <2>2. Idle \in SeederRows(R)
    <3>1. <<>> \in Seq(R)
      OBVIOUS
    <3> QED BY <3>1 DEF Idle, SeederRows
  <2>3. 1 \in 1..(Len(StepsOf[release[s]]) + 1)
    BY <1>1, StepsSound
  <2>4. Range(Idle.added) = {}
    BY <2>1 DEF Range
  <2> QED BY <2>1, <2>2, <2>3, <2>4 DEF Sane
<1>5. RefusedMeansSeeded
  BY <1>3 DEF RefusedMeansSeeded, Idle
<1> QED BY <1>1, <1>2, <1>3, <1>4, <1>5 DEF SeedInv

LEMMA SeedInvNext == SeedInv /\ (SeedNext \/ UNCHANGED seedVars) => SeedInv'
PROOF
<1>1. ASSUME SeedInv, NEW s \in Seeders, Begin(s)
      PROVE  SeedInv'
  BY <1>1, BeginKeeps
<1>2. ASSUME SeedInv, NEW s \in Seeders, SeedStep(s)
      PROVE  SeedInv'
  <2>1. CASE Look(s)
    BY <1>2, <2>1, LookKeeps
  <2>2. CASE Insert(s)
    BY <1>2, <2>2, InsertKeeps
  <2>3. CASE Commit(s)
    BY <1>2, <2>3, CommitKeeps
  <2>4. CASE Refused(s)
    BY <1>2, <2>4, RefusedKeeps
  <2>5. CASE DeadlockVictim(s)
    <3>1. IsOpen(s) /\ Ends(s, "victim")
      BY <2>5 DEF DeadlockVictim, Blockers, IsOpen
    <3> QED BY <1>2, <3>1, EndsKeeps
  <2> QED BY <1>2, <2>1, <2>2, <2>3, <2>4, <2>5 DEF SeedStep
<1>3. ASSUME SeedInv, NEW s \in Seeders, Crash(s)
      PROVE  SeedInv'
  BY <1>3, EndsKeeps DEF Crash
<1>4. ASSUME SeedInv, UNCHANGED seedVars
      PROVE  SeedInv'
  <2>1. UNCHANGED <<old, release, seeder>> /\ Table' = Table
    BY <1>4 DEF seedVars, Table, Committed
  <2>2. RefusedMeansSeeded'
    BY <1>4, <2>1 DEF SeedInv, RefusedMeansSeeded, Committed
  <2> QED BY <1>4, <2>1, <2>2 DEF SeedInv
<1> QED BY <1>1, <1>2, <1>3, <1>4 DEF SeedNext

LEMMA SeedInvAlways == Spec => []SeedInv
PROOF
<1>1. Init => SeedInv
  BY SeedInvInit DEF Init
<1>2. SeedInv /\ [Next]_vars => SeedInv'
  <2>1. [Next]_vars => SeedNext \/ UNCHANGED seedVars
    BY DEF Next, JobStep, PickVersion, PickAttributes, Answer, FlagUnknown, Store, vars
  <2> QED BY <2>1, SeedInvNext
<1> QED BY <1>1, <1>2, PTL DEF Spec

\* A seeder that has committed has left its whole release in the database,
\* whoever else has seeded, been refused, or crashed (seed.py, seed_iam.py).
THEOREM SeedIsWhole == Spec => []SeededWhole
PROOF
<1>1. SeedInv => SeededWhole
  BY DEF SeedInv, Sane, SeededWhole, Committed
<1> QED BY <1>1, SeedInvAlways, PTL

\* A seeder is refused only by one that has committed its whole release, never
\* by an open or failed rival and never by the rows that were there before.
THEOREM RefusedByWhole == Spec => []RefusedMeansSeeded
PROOF
<1>1. SeedInv => RefusedMeansSeeded
  BY DEF SeedInv
<1> QED BY <1>1, SeedInvAlways, PTL

-----------------------------------------------------------------------------
(* The job.                                                                *)

\* A row of a version comes with a whole release of that version.
LEMMA VersionFrom ==
  ASSUME SeedInv, NEW v, Version(v) \in Table
  PROVE  \E rel \in TaxonomyReleases : rel.version = v /\ RowsOf[rel] \subseteq Table
PROOF
<1>1. PICK rel \in Releases : Version(v) \in RowsOf[rel] /\ RowsOf[rel] \subseteq Table
  BY WholeReleases
<1>2. Version(v) \notin IamRows(rel)
  BY DEF Version, IamRows, Scope, Role, Link
<1>3. rel \in TaxonomyReleases /\ Version(v) \in TaxonomyRows(rel)
  BY <1>1, <1>2, StepsSound DEF Releases
<1>4. rel.version = v
  BY <1>3 DEF TaxonomyRows, Version, Category, Attribute
<1> QED BY <1>1, <1>3, <1>4

LEMMA AttributeFrom ==
  ASSUME SeedInv, NEW v, NEW k, Attribute(v, k) \in Table
  PROVE  \E rel \in TaxonomyReleases :
           rel.version = v /\ Attribute(v, k) \in RowsOf[rel] /\ RowsOf[rel] \subseteq Table
PROOF
<1>1. PICK rel \in Releases : Attribute(v, k) \in RowsOf[rel] /\ RowsOf[rel] \subseteq Table
  BY WholeReleases
<1>2. Attribute(v, k) \notin IamRows(rel)
  BY DEF Attribute, IamRows, Scope, Role, Link
<1>3. rel \in TaxonomyReleases /\ Attribute(v, k) \in TaxonomyRows(rel)
  BY <1>1, <1>2, StepsSound DEF Releases
<1>4. rel.version = v
  BY <1>3 DEF TaxonomyRows, Version, Category, Attribute
<1> QED BY <1>1, <1>3, <1>4

\* Nobody takes a row away.
LEMMA TableGrows ==
  ASSUME SeedInv, SeedNext
  PROVE  Table \subseteq Table'
PROOF
<1>1. PICK s \in Seeders : Begin(s) \/ SeedStep(s) \/ Crash(s)
  BY DEF SeedNext
<1>2. ASSUME NEW pc, Ends(s, pc)
      PROVE  seeder' = [seeder EXCEPT ![s] = seeder'[s]] /\ old' = old
  BY <1>2 DEF Ends, SeedInv
<1>3. ASSUME NEW m, LookFor(s, m)
      PROVE  seeder' = [seeder EXCEPT ![s] = seeder'[s]]
  BY <1>3 DEF LookFor, SeedInv
<1>4. CASE Begin(s)
  <2>1. seeder' = [seeder EXCEPT ![s] = seeder'[s]] /\ old' = old /\ ~Committed(s)
    BY <1>4 DEF Begin, SeedInv, Committed
  <2> QED BY <2>1, OneMoves
<1>5. CASE Look(s)
  <2>1. seeder' = [seeder EXCEPT ![s] = seeder'[s]] /\ old' = old /\ ~Committed(s)
    BY <1>3, <1>5 DEF Look, Committed
  <2> QED BY <2>1, OneMoves
<1>6. CASE Insert(s)
  <2>1. seeder' = [seeder EXCEPT ![s] = seeder'[s]] /\ old' = old /\ ~Committed(s)
    BY <1>6 DEF Insert, SeedInv, Committed
  <2> QED BY <2>1, OneMoves
<1>7. CASE Commit(s) \/ Refused(s) \/ DeadlockVictim(s) \/ Crash(s)
  <2>1. seeder' = [seeder EXCEPT ![s] = seeder'[s]] /\ old' = old
    BY <1>2, <1>7 DEF Commit, Refused, DeadlockVictim, Crash
  <2>2. ~Committed(s)
    BY <1>7 DEF Commit, Refused, DeadlockVictim, Blockers, Crash, IsOpen, Committed
  <2> QED BY <2>1, <2>2, OneMoves
<1> QED BY <1>1, <1>4, <1>5, <1>6, <1>7 DEF SeedStep

\* The transactions are numbered in the order in which they begin.
Places == 0..(1 + Cardinality(Seeders))
Begun  == \A s \in Seeders : seeder[s].began \in Places

LEMMA BegunKept ==
  ASSUME SeedInv, Begun, SeedNext
  PROVE  Begun'
PROOF
<1>1. PICK s \in Seeders : Begin(s) \/ SeedStep(s) \/ Crash(s)
  BY DEF SeedNext
<1>2. seeder[s] \in SeederRows(RowsOf[release[s]])
  BY DEF SeedInv, Sane
<1>3. SUFFICES ASSUME NEW t \in Seeders
               PROVE  seeder'[t].began \in Places
  BY DEF Begun
<1>4. CASE Begin(s)
  <2> DEFINE busy == { u \in Seeders : seeder[u].pc # "idle" }
  <2>1. Cardinality(busy) \in Nat /\ Cardinality(Seeders) \in Nat
        /\ Cardinality(busy) <= Cardinality(Seeders)
    BY SeedersAssumption, FS_Subset, FS_CardinalityType
  <2>2. seeder'[t].began = seeder[t].began \/ seeder'[t].began = 1 + Cardinality(busy)
    BY <1>2, <1>4 DEF Begin, SeedInv, SeederRows
  <2> HIDE DEF busy
  <2> QED BY <2>1, <2>2 DEF Begun, Places
<1>5. CASE SeedStep(s) \/ Crash(s)
  <2>1. seeder'[t].began = seeder[t].began
    <3>1. ASSUME NEW m, LookFor(s, m)
          PROVE  seeder'[t].began = seeder[t].began
      BY <1>2, <3>1 DEF LookFor, SeedInv, SeederRows
    <3>2. CASE Look(s)
      BY <3>1, <3>2 DEF Look
    <3>3. ASSUME NEW pc, Ends(s, pc)
          PROVE  seeder'[t].began = seeder[t].began
      BY <1>2, <3>3 DEF Ends, SeedInv, SeederRows
    <3>4. CASE Insert(s)
      BY <1>2, <3>4 DEF Insert, SeedInv, SeederRows
    <3> QED BY <1>5, <3>2, <3>3, <3>4 DEF SeedStep, Commit, Refused, DeadlockVictim, Crash
  <2> QED BY <2>1 DEF Begun
<1> QED BY <1>1, <1>4, <1>5

\* One of the versions that are listed is the latest.
LEMMA LatestIsListed ==
  ASSUME SeedInv, Begun, Listed # {}
  PROVE  Latest \in Listed
PROOF
<1> DEFINE n == 1 + Cardinality(Seeders)
<1>1. n \in Nat /\ Places = 0..n
  BY SeedersAssumption, FS_CardinalityType DEF Places
<1>2. ASSUME NEW v \in Listed
      PROVE  PublishedAt(v) \in Places
  <2>1. CASE Version(v) \in old
    <3>1. PublishedAt(v) = 0
      BY <2>1 DEF PublishedAt
    <3> QED BY <1>1, <3>1
  <2>2. CASE Version(v) \notin old
    <3>1. \E s \in Seeders : Committed(s) /\ Version(v) \in seeder[s].mine
      BY <2>2, TableHas DEF Listed
    <3> DEFINE s == CHOOSE s \in Seeders : Committed(s) /\ Version(v) \in seeder[s].mine
    <3>2. s \in Seeders
      BY <3>1
    <3>3. PublishedAt(v) = seeder[s].began
      BY <2>2 DEF PublishedAt
    <3> HIDE DEF s
    <3> QED BY <3>2, <3>3 DEF Begun
  <2> QED BY <2>1, <2>2
<1> HIDE DEF n
<1> DEFINE S == { d \in Nat : \E v \in Listed : d = n - PublishedAt(v) }
<1>3. S # {}
  <2>1. PICK v \in Listed : TRUE
    OBVIOUS
  <2>2. PublishedAt(v) \in 0..n
    BY <1>1, <1>2
  <2>3. n - PublishedAt(v) \in Nat
    BY <1>1, <2>2
  <2> QED BY <2>3
<1>4. PICK d \in S : \A e \in S : d <= e
  <2> HIDE DEF S
  <2>1. S \in SUBSET Nat
    BY DEF S
  <2> QED BY <1>3, <2>1, LeastExists
<1>5. PICK v \in Listed : d = n - PublishedAt(v)
  OBVIOUS
<1>6. ASSUME NEW w \in Listed
      PROVE  PublishedAt(w) <= PublishedAt(v)
  <2>1. PublishedAt(w) \in 0..n /\ PublishedAt(v) \in 0..n
    BY <1>1, <1>2
  <2>2. n - PublishedAt(w) \in Nat
    BY <1>1, <2>1
  <2>3. d <= n - PublishedAt(w)
    BY <1>4, <2>2
  <2> QED BY <1>1, <1>5, <2>1, <2>3
<1> QED BY <1>6, Zenon DEF Latest

-----------------------------------------------------------------------------
(* The job's invariant.                                                    *)

Fates == {"none", "flagged", "dropped", "missed", "reviewed", "written"}

JobType ==
  job \in [pc : {"start", "picked", "asking", "raised", "routing", "storing", "stored",
                 "ambiguous"},
           version : Versions \cup {NoVersion}, allowed : SUBSET Keys,
           answer : Seq(Entry), fate : Seq(Fates)]

\* The version that was picked is there, and with it what its attributes are
\* read from; every key the snapshot allows is in the table.
Picked ==
  /\ job.pc = "start" => job.version = NoVersion
  /\ job.pc = "picked" => job.version # NoVersion
  /\ job.version = NoVersion => job.allowed = {}
  /\ job.version # NoVersion => Version(job.version) \in Table
  /\ \A k \in job.allowed : Carriers(k) # {}

\* What has become of an entry by the time the candidates are stored.
Fated(i) ==
  LET e     == job.answer[i]
      known == i \in Known(job.answer, job.allowed)
  IN  /\ ~e.object => job.fate[i] = "none"
      /\ e.object => (job.fate[i] = "flagged" <=> ~known)
      /\ job.fate[i] \in {"written", "reviewed"} => known /\ e.confidence # "low"
      /\ job.fate[i] = "dropped" => known /\ e.confidence = "low"

Routed ==
  /\ job.pc \in {"routing", "storing", "stored"} => DOMAIN job.fate = DOMAIN job.answer
  /\ job.pc \in {"storing", "stored"} => \A i \in DOMAIN job.answer : Fated(i)
  /\ job.pc = "stored" => Left = {}

JobInv == JobType /\ Picked /\ SnapshotIsWhole /\ Routed /\ FilterHolds

IntakeInv == SeedInv /\ Begun /\ JobInv

LEMMA IntakeInvInit == Init => IntakeInv
PROOF
<1> SUFFICES ASSUME Init
             PROVE  IntakeInv
  OBVIOUS
<1>1. SeedInv
  BY SeedInvInit DEF Init
<1>2. Begun
  BY SeedersAssumption, FS_CardinalityType DEF Init, SeedInit, Idle, Begun, Places
<1>3. /\ job.pc = "start" /\ job.version = NoVersion /\ job.allowed = {} /\ job.fate = <<>>
      /\ job.answer = <<>>
  BY DEF Init
<1>4. JobType
  BY DEF Init, JobType
<1>5. FilterHolds
  BY <1>3 DEF FilterHolds
<1> QED BY <1>1, <1>2, <1>3, <1>4, <1>5 DEF IntakeInv, JobInv, Picked, SnapshotIsWhole, Routed

\* The seeders leave the job's invariant alone.
LEMMA SeedersKeepJob ==
  ASSUME IntakeInv, SeedNext \/ UNCHANGED seedVars, UNCHANGED job
  PROVE  IntakeInv'
PROOF
<1>1. SeedInv' /\ Begun'
  BY SeedInvNext, BegunKept DEF IntakeInv, Begun, seedVars
<1>2. Table \subseteq Table'
  BY TableGrows DEF IntakeInv, seedVars, Table, Committed
<1>3. JobType' /\ SnapshotIsWhole' /\ FilterHolds'
  BY DEF IntakeInv, JobInv, JobType, SnapshotIsWhole, FilterHolds
<1>4. Routed'
  BY DEF IntakeInv, JobInv, Routed, Fated, Left
<1>5. Picked'
  <2> DEFINE U == Table'
  <2>1. \A k : Carriers(k)' = { v \in Versions : Attribute(v, k) \in U }
    BY DEF Carriers
  <2>2. \A k : Carriers(k) = { v \in Versions : Attribute(v, k) \in Table }
    BY DEF Carriers
  <2>3. \A k : Carriers(k) # {} => Carriers(k)' # {}
    BY <1>2, <2>1, <2>2
  <2>4. Picked
    BY DEF IntakeInv, JobInv
  <2>5. job' = job
    OBVIOUS
  <2>6. \A k \in job.allowed : Carriers(k)' # {}
    BY <2>3, <2>4 DEF Picked
  <2> QED BY <1>2, <2>4, <2>5, <2>6 DEF Picked
<1> QED BY <1>1, <1>3, <1>4, <1>5 DEF IntakeInv, JobInv

\* What a step of the job does not touch.
LEMMA JobStepsAlone ==
  ASSUME UNCHANGED seedVars
  PROVE  /\ Table' = Table /\ (Begun => Begun') /\ (SeedInv => SeedInv')
         /\ \A k : Carriers(k)' = Carriers(k)
PROOF
<1>1. Table' = Table /\ (Begun => Begun')
  BY DEF seedVars, Table, Committed, Begun
<1>2. SeedInv => SeedInv'
  BY SeedInvNext
<1> QED BY <1>1, <1>2 DEF Carriers

LEMMA PickVersionKeeps ==
  ASSUME IntakeInv, PickVersion
  PROVE  JobInv'
PROOF
<1>1. UNCHANGED seedVars /\ SeedInv /\ Begun /\ JobType /\ job.pc = "start" /\ Picked /\ FilterHolds
  BY DEF PickVersion, IntakeInv, JobInv
<1>2. Table' = Table /\ \A k : Carriers(k)' = Carriers(k)
  BY <1>1, JobStepsAlone
<1>3. job.version = NoVersion /\ job.allowed = {}
  BY <1>1 DEF Picked
<1>4. CASE Listed = {}
  <2>1. /\ job' = [job EXCEPT !.pc = "asking"]
        /\ job'.version = NoVersion /\ job'.allowed = {} /\ job'.fate = job.fate
        /\ job'.answer = job.answer /\ job'.pc = "asking"
    BY <1>1, <1>3, <1>4 DEF PickVersion, JobType
  <2>2. JobType'
    BY <1>1, <2>1 DEF JobType
  <2>3. SnapshotIsWhole'
    BY <2>1 DEF SnapshotIsWhole
  <2>4. FilterHolds'
    BY <1>1, <2>1 DEF FilterHolds
  <2> QED BY <2>1, <2>2, <2>3, <2>4 DEF JobInv, Picked, Routed
<1>5. CASE Listed # {}
  <2>1. Latest \in Listed
    BY <1>1, <1>5, LatestIsListed
  <2>2. Latest \in Versions /\ Version(Latest) \in Table /\ Latest # NoVersion
    BY <2>1, VersionAssumption DEF Listed, Versions
  <2>3. /\ job' = [job EXCEPT !.pc = "picked", !.version = Latest]
        /\ job'.version = Latest /\ job'.allowed = {} /\ job'.fate = job.fate
        /\ job'.pc = "picked"
    BY <1>1, <1>3, <1>5 DEF PickVersion, JobType
  <2> DEFINE v == Latest
  <2> HIDE DEF v
  <2>4. JobType'
    BY <1>1, <2>2, <2>3 DEF JobType, v
  <2>5. FilterHolds'
    BY <1>1, <2>3 DEF FilterHolds
  <2>6. Picked'
    BY <1>2, <2>2, <2>3 DEF Picked, v
  <2> QED BY <2>3, <2>4, <2>5, <2>6 DEF JobInv, SnapshotIsWhole, Routed
<1> QED BY <1>4, <1>5

LEMMA PickAttributesKeeps ==
  ASSUME IntakeInv, PickAttributes
  PROVE  JobInv'
PROOF
<1> DEFINE v == job.version
           rels == { rel \in TaxonomyReleases : rel.version = v /\ RowsOf[rel] \subseteq Table }
<1>1. /\ UNCHANGED seedVars /\ SeedInv /\ JobType /\ job.pc = "picked" /\ Picked /\ FilterHolds
      /\ v # NoVersion /\ Version(v) \in Table /\ v \in Versions
  BY DEF PickAttributes, IntakeInv, JobInv, Picked, JobType
<1>2. Table' = Table /\ \A k : Carriers(k)' = Carriers(k)
  BY <1>1, JobStepsAlone
<1>3. /\ job'.version = v /\ job'.allowed = KeysOf(v) /\ job'.fate = job.fate
      /\ job'.answer = job.answer /\ job'.pc = "asking"
      /\ job' = [job EXCEPT !.pc = "asking", !.allowed = KeysOf(v)]
  BY <1>1 DEF PickAttributes, JobType
<1>4. KeysOf(v) \subseteq Keys /\ \A k \in KeysOf(v) : Carriers(k) # {}
  BY <1>1 DEF KeysOf, Carriers
<1>5. rels # {}
  BY <1>1, VersionFrom
<1>6. KeysOf(v) = { k \in Keys : \E rel \in rels : Attribute(rel.version, k) \in RowsOf[rel] }
  <2>1. ASSUME NEW k \in Keys, Attribute(v, k) \in Table
        PROVE  \E rel \in rels : Attribute(rel.version, k) \in RowsOf[rel]
    BY <1>1, <2>1, AttributeFrom
  <2>2. ASSUME NEW k \in Keys, NEW rel \in rels, Attribute(rel.version, k) \in RowsOf[rel]
        PROVE  Attribute(v, k) \in Table
    BY <2>2
  <2> HIDE DEF v, rels
  <2> QED BY <2>1, <2>2 DEF KeysOf
<1>7. rels \in SUBSET { rel \in TaxonomyReleases : rel.version = v }
  OBVIOUS
<1>8. JobType'
  BY <1>1, <1>3, <1>4 DEF JobType
<1> HIDE DEF v, rels
<1>9. SnapshotIsWhole'
  BY <1>3, <1>5, <1>6, <1>7 DEF SnapshotIsWhole
<1>10. Picked'
  BY <1>1, <1>2, <1>3, <1>4 DEF Picked
<1>11. FilterHolds'
  BY <1>1, <1>3 DEF FilterHolds
<1> QED BY <1>3, <1>8, <1>9, <1>10, <1>11 DEF JobInv, Routed

LEMMA AnswerKeeps ==
  ASSUME IntakeInv, Answer
  PROVE  JobInv'
PROOF
<1>1. UNCHANGED seedVars /\ JobType /\ job.pc = "asking" /\ Picked /\ SnapshotIsWhole /\ FilterHolds
  BY DEF Answer, IntakeInv, JobInv
<1>2. Table' = Table /\ \A k : Carriers(k)' = Carriers(k)
  BY <1>1, JobStepsAlone
<1>3. CASE job' = [job EXCEPT !.pc = "raised"]
  <2>1. /\ job'.pc = "raised" /\ job'.fate = job.fate
        /\ job'.version = job.version /\ job'.allowed = job.allowed
    BY <1>1, <1>3 DEF JobType
  <2>2. JobType'
    BY <1>1, <1>3 DEF JobType
  <2> QED BY <1>1, <1>2, <2>1, <2>2 DEF JobInv, Picked, SnapshotIsWhole, FilterHolds, Routed
<1>4. ASSUME NEW answer \in Answers, Illegible(answer),
             job' = [job EXCEPT !.pc = "raised", !.answer = answer]
      PROVE  JobInv'
  <2>1. answer \in Seq(Entry)
    BY AnswersAssumption
  <2>2. /\ job'.pc = "raised" /\ job'.fate = job.fate
        /\ job'.version = job.version /\ job'.allowed = job.allowed
    BY <1>1, <1>4 DEF JobType
  <2>3. JobType'
    BY <1>1, <1>4, <2>1 DEF JobType
  <2>4. FilterHolds'
    BY <1>1, <2>2 DEF FilterHolds
  <2> QED BY <1>1, <1>2, <2>2, <2>3, <2>4 DEF JobInv, Picked, SnapshotIsWhole, Routed
<1>5. ASSUME NEW answer \in Answers, ~Illegible(answer),
             job' = [job EXCEPT !.pc = "routing", !.answer = answer,
                                !.fate = [i \in DOMAIN answer |-> "none"]]
      PROVE  JobInv'
  <2> DEFINE fate == [i \in DOMAIN answer |-> "none"]
  <2>1. answer \in Seq(Entry)
    BY AnswersAssumption
  <2>2. fate \in Seq(Fates) /\ \A i \in DOMAIN fate : fate[i] = "none"
    BY <2>1 DEF Fates
  <2>3. DOMAIN fate = DOMAIN answer
    OBVIOUS
  <2>4. job' = [job EXCEPT !.pc = "routing", !.answer = answer, !.fate = fate]
    BY <1>5
  <2> HIDE DEF fate
  <2>5. /\ job'.pc = "routing" /\ job'.answer = answer /\ job'.fate = fate
        /\ job'.version = job.version /\ job'.allowed = job.allowed
    BY <1>1, <2>4 DEF JobType
  <2>6. JobType'
    BY <1>1, <2>1, <2>2, <2>4 DEF JobType
  <2>7. FilterHolds'
    BY <2>2, <2>5 DEF FilterHolds
  <2>8. Picked' /\ SnapshotIsWhole'
    BY <1>1, <1>2, <2>5 DEF Picked, SnapshotIsWhole
  <2> QED BY <2>3, <2>5, <2>6, <2>7, <2>8 DEF JobInv, Routed
<1> QED BY <1>3, <1>4, <1>5 DEF Answer

LEMMA FlagUnknownKeeps ==
  ASSUME IntakeInv, FlagUnknown
  PROVE  JobInv'
PROOF
<1> DEFINE fate == [i \in DOMAIN job.answer |-> IF i \in Flagged THEN "flagged" ELSE "none"]
<1>1. UNCHANGED seedVars /\ JobType /\ job.pc = "routing" /\ Picked /\ SnapshotIsWhole
  BY DEF FlagUnknown, IntakeInv, JobInv
<1>2. Table' = Table /\ \A k : Carriers(k)' = Carriers(k)
  BY <1>1, JobStepsAlone
<1>3. job' = [job EXCEPT !.pc = "storing", !.fate = fate]
  BY DEF FlagUnknown
<1>4. job.answer \in Seq(Entry)
  BY <1>1 DEF JobType
<1>5. fate \in Seq(Fates) /\ DOMAIN fate = DOMAIN job.answer
  BY <1>4 DEF Fates
<1>6. \A i \in DOMAIN job.answer : fate[i] = IF i \in Flagged THEN "flagged" ELSE "none"
  OBVIOUS
<1> HIDE DEF fate
<1>7. /\ job'.version = job.version /\ job'.allowed = job.allowed /\ job'.pc = "storing"
      /\ job'.answer = job.answer /\ job'.fate = fate
  BY <1>1, <1>3 DEF JobType
<1>8. JobType'
  BY <1>1, <1>3, <1>5 DEF JobType
<1>9. Picked' /\ SnapshotIsWhole'
  BY <1>1, <1>2, <1>7 DEF Picked, SnapshotIsWhole
<1>10. FilterHolds'
  BY <1>5, <1>6, <1>7 DEF FilterHolds
<1>11. ASSUME NEW i \in DOMAIN job.answer
       PROVE  Fated(i)'
  <2>1. i \in Flagged <=> job.answer[i].object /\ i \notin Known(job.answer, job.allowed)
    BY <1>11 DEF Flagged, Unknown, Objects
  <2> QED BY <1>6, <1>7, <2>1 DEF Fated
<1> QED BY <1>5, <1>7, <1>8, <1>9, <1>10, <1>11 DEF JobInv, Routed

\* A candidate the snapshot allows is found again; two rows of one key belong
\* to releases of different versions.
LEMMA CarriersDiffer ==
  ASSUME SeedInv, NEW k, Cardinality(Carriers(k)) > 1, Carriers(k) # {}
  PROVE  \E r1, r2 \in TaxonomyReleases :
           /\ r1.version # r2.version
           /\ Attribute(r1.version, k) \in RowsOf[r1] /\ Attribute(r2.version, k) \in RowsOf[r2]
PROOF
<1>1. PICK v \in Carriers(k) : TRUE
  OBVIOUS
<1>2. PICK w \in Carriers(k) : w # v
  <2> SUFFICES ASSUME \A w \in Carriers(k) : w = v
               PROVE  FALSE
    OBVIOUS
  <2>1. Carriers(k) = {v}
    BY <1>1
  <2>2. Cardinality({v}) = 1
    BY FS_Singleton
  <2> QED BY <2>1, <2>2
<1>3. Attribute(v, k) \in Table /\ Attribute(w, k) \in Table
  BY DEF Carriers
<1> QED BY <1>2, <1>3, AttributeFrom

LEMMA StoreKeeps ==
  ASSUME IntakeInv, Store
  PROVE  JobInv'
PROOF
<1> DEFINE next == CHOOSE i \in Left : \A j \in Left : i <= j
           e == job.answer[next]
<1>1. /\ UNCHANGED seedVars /\ SeedInv /\ JobType /\ job.pc = "storing" /\ Picked
      /\ SnapshotIsWhole /\ Routed /\ FilterHolds
  BY DEF Store, IntakeInv, JobInv
<1>2. Table' = Table /\ \A k : Carriers(k)' = Carriers(k)
  BY <1>1, JobStepsAlone
<1>3. /\ job.answer \in Seq(Entry) /\ job.fate \in Seq(Fates) /\ DOMAIN job.fate = DOMAIN job.answer
      /\ \A i \in DOMAIN job.answer : Fated(i)
  BY <1>1 DEF JobType, Routed
<1>4. CASE Left = {}
  <2>1. job' = [job EXCEPT !.pc = "stored"]
    BY <1>4 DEF Store
  <2>2. /\ job'.version = job.version /\ job'.allowed = job.allowed /\ job'.pc = "stored"
        /\ job'.answer = job.answer /\ job'.fate = job.fate
    BY <1>1, <2>1 DEF JobType
  <2>3. JobType' /\ Picked' /\ SnapshotIsWhole' /\ FilterHolds'
    BY <1>1, <1>2, <2>1, <2>2 DEF JobType, Picked, SnapshotIsWhole, FilterHolds
  <2>4. Routed'
    BY <1>3, <1>4, <2>2 DEF Routed, Fated, Left
  <2> QED BY <2>3, <2>4 DEF JobInv
<1>5. CASE Left # {}
  <2>1. next \in Left
    <3>1. Left \subseteq Nat
      BY <1>3 DEF Left, Known, Objects
    <3>2. \E i \in Left : \A j \in Left : i <= j
      BY <1>5, <3>1, LeastExists
    <3> QED BY <3>2, Zenon
  <2>2. job' = IF e.confidence # "low" /\ Cardinality(Carriers(e.key)) > 1
               THEN [job EXCEPT !.pc = "ambiguous"]
               ELSE [job EXCEPT !.fate[next] = Route(next)]
    BY <1>5 DEF Store
  <2> HIDE DEF next
  <2>3. /\ next \in DOMAIN job.answer /\ next \in Known(job.answer, job.allowed)
        /\ e.object /\ e.key \in job.allowed
    BY <2>1 DEF Left, Known, Objects
  <2>4. Carriers(e.key) # {}
    BY <1>1, <2>3 DEF Picked
  <2>5. CASE e.confidence # "low" /\ Cardinality(Carriers(e.key)) > 1
    <3>1. job' = [job EXCEPT !.pc = "ambiguous"]
      BY <2>2, <2>5
    <3>2. /\ job'.version = job.version /\ job'.allowed = job.allowed /\ job'.pc = "ambiguous"
          /\ job'.answer = job.answer /\ job'.fate = job.fate
      BY <1>1, <3>1 DEF JobType
    <3>3. JobType' /\ Picked' /\ SnapshotIsWhole' /\ Routed'
      BY <1>1, <1>2, <3>1, <3>2 DEF JobType, Picked, SnapshotIsWhole, Routed
    <3>4. \E r1, r2 \in TaxonomyReleases :
            /\ r1.version # r2.version
            /\ Attribute(r1.version, e.key) \in RowsOf[r1]
            /\ Attribute(r2.version, e.key) \in RowsOf[r2]
      BY <1>1, <2>4, <2>5, CarriersDiffer
    <3>5. FilterHolds'
      BY <1>1, <2>3, <3>2, <3>4 DEF FilterHolds
    <3> QED BY <3>3, <3>5 DEF JobInv
  <2>6. CASE ~(e.confidence # "low" /\ Cardinality(Carriers(e.key)) > 1)
    <3>1. /\ Route(next) \in {"dropped", "reviewed", "written"}
          /\ Route(next) = "dropped" <=> e.confidence = "low"
      BY <2>4 DEF Route
    <3> DEFINE fate == [job.fate EXCEPT ![next] = Route(next)]
    <3>2. job' = [job EXCEPT !.fate = fate]
      BY <1>1, <2>2, <2>6 DEF JobType
    <3>3. fate \in Seq(Fates) /\ DOMAIN fate = DOMAIN job.fate
      <4> DEFINE f == job.fate
                 r == Route(next)
      <4>1. f \in Seq(Fates) /\ r \in Fates
        BY <1>3, <3>1 DEF Fates
      <4> HIDE DEF f, r
      <4> DEFINE n == Len(f)
                 g == [f EXCEPT ![next] = r]
      <4>2. n \in Nat /\ f \in [1..n -> Fates]
        BY <4>1
      <4> HIDE DEF n
      <4>3. g \in [1..n -> Fates]
        BY <4>1, <4>2
      <4>4. DOMAIN g = DOMAIN f
        OBVIOUS
      <4> HIDE DEF g
      <4>5. g \in Seq(Fates)
        BY <4>2, <4>3
      <4> QED BY <4>4, <4>5 DEF f, r, g
    <3>4. fate[next] = Route(next) /\ \A i \in DOMAIN job.answer \ {next} : fate[i] = job.fate[i]
      BY <1>3, <2>3
    <3> HIDE DEF fate
    <3>5. /\ job'.version = job.version /\ job'.allowed = job.allowed /\ job'.pc = "storing"
          /\ job'.answer = job.answer /\ job'.fate = fate
      BY <1>1, <3>2 DEF JobType
    <3>6. JobType' /\ Picked' /\ SnapshotIsWhole'
      BY <1>1, <1>2, <3>2, <3>3, <3>5 DEF JobType, Picked, SnapshotIsWhole
    <3>7. FilterHolds'
      <4>1. \A i \in DOMAIN fate : fate[i] # "missed"
        BY <1>1, <1>3, <3>1, <3>3, <3>4 DEF FilterHolds
      <4> QED BY <3>5, <4>1 DEF FilterHolds
    <3>8. ASSUME NEW i \in DOMAIN job.answer
          PROVE  Fated(i)'
      <4>1. CASE i = next
        BY <2>3, <3>1, <3>4, <3>5, <4>1 DEF Fated
      <4>2. CASE i # next
        BY <1>3, <3>4, <3>5, <4>2 DEF Fated
      <4> QED BY <4>1, <4>2
    <3>9. Routed'
      BY <1>3, <3>3, <3>5, <3>8 DEF Routed
    <3> QED BY <3>6, <3>7, <3>9 DEF JobInv
  <2> QED BY <2>5, <2>6
<1> QED BY <1>4, <1>5

LEMMA IntakeInvAlways == Spec => []IntakeInv
PROOF
<1>1. IntakeInv /\ [Next]_vars => IntakeInv'
  <2> SUFFICES ASSUME IntakeInv, [Next]_vars
               PROVE  IntakeInv'
    OBVIOUS
  <2>1. CASE (SeedNext \/ UNCHANGED seedVars) /\ UNCHANGED job
    BY <2>1, SeedersKeepJob
  <2>2. CASE JobStep
    <3>1. UNCHANGED seedVars
      BY <2>2 DEF JobStep, PickVersion, PickAttributes, Answer, FlagUnknown, Store
    <3>2. JobInv'
      BY <2>2, PickVersionKeeps, PickAttributesKeeps, AnswerKeeps, FlagUnknownKeeps, StoreKeeps
      DEF JobStep
    <3> QED BY <3>1, <3>2, JobStepsAlone DEF IntakeInv
  <2> QED BY <2>1, <2>2 DEF Next, vars
<1> QED BY <1>1, IntakeInvInit, PTL DEF Spec

\* What the extractor may use is what whole releases of one version list, though
\* version and attributes are read by two statements (_current_taxonomy).
THEOREM SnapshotWhole == Spec => []SnapshotIsWhole
PROOF
<1>1. IntakeInv => SnapshotIsWhole
  BY DEF IntakeInv, JobInv
<1> QED BY <1>1, IntakeInvAlways, PTL

\* Every object of a stored answer under an unknown key is flagged, every valid
\* candidate a fact, a review item, or dropped for its low confidence, and
\* nothing invalid a fact (_parse_response, persist_extraction).
THEOREM NothingIsSwallowed == Spec => []NothingSwallowed
PROOF
<1>1. IntakeInv => NothingSwallowed
  <2> SUFFICES ASSUME IntakeInv, job.pc = "stored", NEW i \in Objects(job.answer)
               PROVE  LET e      == job.answer[i]
                          listed == e.key \in job.allowed
                      IN  /\ ~listed => job.fate[i] = "flagged"
                          /\ listed /\ e.valid => IF e.confidence = "low"
                                                  THEN job.fate[i] = "dropped"
                                                  ELSE job.fate[i] \in {"written", "reviewed"}
                          /\ ~e.valid => job.fate[i] \notin {"written", "reviewed"}
    BY DEF NothingSwallowed
  <2>1. i \in DOMAIN job.answer /\ job.answer[i].object
    BY DEF Objects
  <2>2. Fated(i) /\ Left = {} /\ DOMAIN job.fate = DOMAIN job.answer /\ JobType /\ FilterHolds
    BY <2>1 DEF IntakeInv, JobInv, Routed
  <2>3. i \in Known(job.answer, job.allowed) <=>
          job.answer[i].key \in job.allowed /\ job.answer[i].valid
    BY <2>1 DEF Known, Objects
  <2>4. i \in Known(job.answer, job.allowed) => job.fate[i] # "none"
    BY <2>2 DEF Left
  <2>5. job.fate[i] \in Fates /\ job.fate[i] # "missed"
    BY <2>1, <2>2 DEF JobType, FilterHolds
  <2> QED BY <2>1, <2>2, <2>3, <2>4, <2>5 DEF Fated, Fates
<1> QED BY <1>1, IntakeInvAlways, PTL

\* The lookup of a candidate finds what the filter before it let through, and
\* meets two rows only where two versions list the key (persist.py).
THEOREM FilterIsKept == Spec => []FilterHolds
PROOF
<1>1. IntakeInv => FilterHolds
  BY DEF IntakeInv, JobInv
<1> QED BY <1>1, IntakeInvAlways, PTL
=============================================================================
