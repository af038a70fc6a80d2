------------------------ MODULE CircuitBreakerProofs ------------------------
(***************************************************************************)
(* The breaker opens on a burst of failures, and only on one, and a half-  *)
(* open breaker has a probe out: for any number of jobs and any limits.    *)
(***************************************************************************)
EXTENDS CircuitBreaker, SequenceTheorems, FiniteSetTheorems, TLAPS

-----------------------------------------------------------------------------
(* Recent and Aged.                                                        *)

\* A finite set of numbers that is not empty has a least member, and Min is
\* it: the fewest smaller ones are none.
LEMMA MinIsLeast ==
  ASSUME NEW S \in SUBSET Nat, IsFiniteSet(S), S # {}
  PROVE  Min(S) \in S /\ \A y \in S : Min(S) <= y
PROOF
<1> DEFINE Below(x) == { y \in S : y < x }
           T == { Below(x) : x \in S }
<1>1. IsWellFoundedOn(StrictSubsetOrdering(S), SUBSET S)
  BY FS_StrictSubsetOrderingWellFounded, FS_FiniteSubsetsOfFinite
<1>2. T \subseteq SUBSET S /\ T # {}
  OBVIOUS
<1>3. PICK b \in T : \A c \in T : ~ (<<c, b>> \in StrictSubsetOrdering(S))
  <2> HIDE DEF T
  <2> QED BY <1>1, <1>2, WFMin
<1>4. PICK x \in S : b = Below(x)
  OBVIOUS
<1>5. ASSUME NEW y \in S, ~(x <= y) PROVE FALSE
  <2> y < x /\ x \in Nat /\ y \in Nat
    BY <1>5
  <2>1. y \in Below(x) /\ y \notin Below(y)
    OBVIOUS
  <2>2. Below(y) \subseteq Below(x)
    <3> SUFFICES ASSUME NEW z \in S, z < y PROVE z < x
      OBVIOUS
    <3> z \in Nat
      OBVIOUS
    <3> QED OBVIOUS
  <2>3. <<Below(y), b>> \in StrictSubsetOrdering(S)
    BY <1>2, <1>4, <2>1, <2>2 DEF StrictSubsetOrdering
  <2> QED BY <1>3, <2>3
<1> QED BY <1>5 DEF Min

\* The front of a sequence up to the first age that counts.
Drops(ages, n) ==
  /\ n <= Len(ages)
  /\ \A i \in 1..n : ages[i] > Window
  /\ n < Len(ages) => ages[n + 1] <= Window

\* Recent drops such a front ...
LEMMA SomeDrop ==
  ASSUME NEW s \in Seq(Nat)
  PROVE  \E n \in Nat : Drops(s, n)
PROOF
<1> DEFINE R == { i \in DOMAIN s : s[i] <= Window }
<1>1. DOMAIN s = 1..Len(s) /\ Len(s) \in Nat /\ \A i \in 1..Len(s) : s[i] \in Nat
  BY LenProperties
<1>2. CASE R = {}
  <2>1. Drops(s, Len(s))
    BY <1>1, <1>2, LimitsAssumption DEF Drops
  <2> QED BY <1>1, <2>1
<1>3. CASE R # {}
  <2>1. IsFiniteSet(R) /\ R \in SUBSET Nat
    BY <1>1, FS_BoundedSetOfNaturals
  <2> DEFINE m == Min(R)
  <2>2. m \in R /\ \A y \in R : m <= y
    BY <1>3, <2>1, MinIsLeast
  <2> HIDE DEF m
  <2>3. Drops(s, m - 1)
    BY <1>1, <2>2, LimitsAssumption DEF Drops
  <2> QED BY <2>2, <2>3, <1>1
<1> QED BY <1>2, <1>3

\* ... and there is one such front only.
LEMMA RecentDrops ==
  ASSUME NEW s \in Seq(Nat), NEW n \in Nat, Drops(s, n)
  PROVE  Recent(s) = SubSeq(s, n + 1, Len(s))
PROOF
<1> DEFINE R == { i \in DOMAIN s : s[i] <= Window }
<1>1. DOMAIN s = 1..Len(s) /\ Len(s) \in Nat /\ \A i \in 1..Len(s) : s[i] \in Nat
  BY LenProperties
<1>2. CASE n = Len(s)
  <2>1. R = {}
    BY <1>1, <1>2, LimitsAssumption DEF Drops
  <2>2. SubSeq(s, n + 1, Len(s)) = <<>>
    BY <1>1, <1>2, SubSeqEmpty
  <2> QED BY <2>1, <2>2 DEF Recent
<1>3. CASE n < Len(s)
  <2>1. n + 1 \in R /\ \A i \in R : n + 1 <= i
    BY <1>1, <1>3, LimitsAssumption DEF Drops
  <2>2. Min(R) = n + 1
    <3>1. R \in SUBSET Nat /\ \A i \in R : i <= Len(s)
      BY <1>1
    <3>2. n + 1 \in R /\ \A i \in R : n + 1 <= i
      BY <2>1
    <3> HIDE DEF R
    <3>3. IsFiniteSet(R)
      BY <1>1, <3>1, FS_BoundedSetOfNaturals
    <3>4. Min(R) \in R /\ \A y \in R : Min(R) <= y
      BY <3>1, <3>2, <3>3, MinIsLeast
    <3> DEFINE m == Min(R)
    <3> HIDE DEF m
    <3>5. m \in Nat /\ m <= n + 1 /\ n + 1 <= m
      BY <3>1, <3>2, <3>4 DEF m
    <3>6. m = n + 1
      BY <3>5
    <3> QED BY <3>6 DEF m
  <2>3. Recent(s) = IF R = {} THEN <<>> ELSE SubSeq(s, Min(R), Len(s))
    BY DEF Recent
  <2> HIDE DEF R
  <2> QED BY <2>1, <2>2, <2>3
<1>4. n = Len(s) \/ n < Len(s)
  <2>1. n <= Len(s) /\ Len(s) \in Nat
    BY LenProperties DEF Drops
  <2> QED BY <2>1
<1> QED BY <1>2, <1>3, <1>4

\* What is left is recent at the front and of the type it was.
LEMMA RecentType ==
  ASSUME NEW S \in SUBSET Nat, NEW s \in Seq(S)
  PROVE  /\ Recent(s) \in Seq(S)
         /\ Len(Recent(s)) \in 0..Len(s)
         /\ Recent(s) # <<>> => Recent(s)[1] <= Window
         /\ \A i \in 1..Len(Recent(s)) : Recent(s)[i] = s[Len(s) - Len(Recent(s)) + i]
PROOF
<1>1. s \in Seq(Nat) /\ Len(s) \in Nat /\ \A i \in 1..Len(s) : s[i] \in S
  BY LenProperties, SeqMonotonic
<1>2. PICK n \in Nat : Drops(s, n)
  BY <1>1, SomeDrop
<1>3. Recent(s) = SubSeq(s, n + 1, Len(s))
  BY <1>1, <1>2, RecentDrops
<1>4. /\ Recent(s) \in Seq(S)
      /\ Len(Recent(s)) = IF n + 1 <= Len(s) THEN Len(s) - n ELSE 0
      /\ \A i \in 1..(Len(s) - n) : Recent(s)[i] = s[n + i]
  <2>1. \A i \in (n + 1)..Len(s) : s[i] \in S
    BY <1>1
  <2> QED BY <1>1, <1>3, <2>1, SubSeqProperties
<1>5. Recent(s) # <<>> => Len(Recent(s)) # 0
  BY <1>4, EmptySeq
<1>6. n <= Len(s)
  BY <1>2 DEF Drops
<1>7. Len(Recent(s)) \in 0..Len(s) /\ Len(s) - Len(Recent(s)) = n
  BY <1>1, <1>4, <1>6
<1>8. ASSUME Recent(s) # <<>> PROVE Recent(s)[1] <= Window
  <2>1. n < Len(s) /\ 1 \in 1..(Len(s) - n)
    BY <1>1, <1>5, <1>6, <1>7, <1>8
  <2>2. s[n + 1] <= Window
    BY <1>2, <2>1 DEF Drops
  <2> QED BY <1>4, <2>1, <2>2
<1>9. ASSUME NEW i \in 1..Len(Recent(s))
      PROVE  Recent(s)[i] = s[Len(s) - Len(Recent(s)) + i]
  <2>1. i \in 1..(Len(s) - n)
    BY <1>1, <1>6, <1>7
  <2> QED BY <1>4, <1>7, <2>1
<1> QED BY <1>4, <1>7, <1>8, <1>9

\* A new failure joins what is left of the older ones.
LEMMA RecentAppend ==
  ASSUME NEW s \in Seq(Nat)
  PROVE  Recent(Append(s, 0)) = Append(Recent(s), 0)
PROOF
<1> DEFINE t == Append(s, 0)
<1>1. PICK n \in Nat : Drops(s, n)
  BY SomeDrop
<1>2. /\ t \in Seq(Nat) /\ Len(t) = Len(s) + 1 /\ Len(s) \in Nat
      /\ \A i \in 1..Len(s) : t[i] = s[i] /\ s[i] \in Nat
      /\ t[Len(s) + 1] = 0
  BY AppendProperties, LenProperties
<1> HIDE DEF t
<1>3. n <= Len(s) /\ Drops(t, n)
  <2>1. n <= Len(s) /\ \A i \in 1..n : s[i] > Window
    BY <1>1 DEF Drops
  <2>2. ASSUME NEW i \in 1..n PROVE t[i] > Window
    <3>1. i \in 1..Len(s) /\ s[i] > Window
      BY <1>2, <2>1
    <3>2. t[i] = s[i]
      BY <1>2, <3>1
    <3> QED BY <3>1, <3>2
  <2>3. t[n + 1] <= Window
    <3>1. CASE n = Len(s)
      BY <1>2, <3>1, LimitsAssumption
    <3>2. CASE n < Len(s)
      <4>1. s[n + 1] <= Window
        BY <1>1, <3>2 DEF Drops
      <4>2. n + 1 \in 1..Len(s)
        BY <1>2, <3>2
      <4>3. t[n + 1] = s[n + 1]
        BY <1>2, <4>2
      <4> QED BY <4>1, <4>3
    <3> QED BY <1>2, <2>1, <3>1, <3>2
  <2> QED BY <1>2, <2>1, <2>2, <2>3 DEF Drops
<1>4. Recent(t) = SubSeq(t, n + 1, Len(t)) /\ Recent(s) = SubSeq(s, n + 1, Len(s))
  BY <1>1, <1>2, <1>3, RecentDrops
<1>5. /\ Recent(s) \in Seq(Nat) /\ Len(Recent(s)) = Len(s) - n
      /\ \A i \in 1..(Len(s) - n) : Recent(s)[i] = s[n + i]
  <2>1. \A i \in (n + 1)..Len(s) : s[i] \in Nat
    BY <1>2
  <2> QED BY <1>2, <1>3, <1>4, <2>1, SubSeqProperties
<1>6. /\ Recent(t) \in Seq(Nat) /\ Len(Recent(t)) = Len(s) + 1 - n
      /\ \A i \in 1..(Len(s) + 1 - n) : Recent(t)[i] = t[n + i]
  <2>1. \A i \in (n + 1)..Len(t) : t[i] \in Nat
    BY <1>2, LenProperties
  <2> QED BY <1>2, <1>3, <1>4, <2>1, SubSeqProperties
<1>7. /\ Append(Recent(s), 0) \in Seq(Nat) /\ Len(Append(Recent(s), 0)) = Len(s) + 1 - n
      /\ \A i \in 1..(Len(s) - n) : Append(Recent(s), 0)[i] = Recent(s)[i]
      /\ Append(Recent(s), 0)[Len(s) + 1 - n] = 0
  <2> DEFINE v == Recent(s)
  <2>1. v \in Seq(Nat) /\ Len(v) = Len(s) - n
    BY <1>5
  <2> HIDE DEF v
  <2>2. /\ Append(v, 0) \in Seq(Nat) /\ Len(Append(v, 0)) = Len(v) + 1
        /\ \A i \in 1..Len(v) : Append(v, 0)[i] = v[i]
        /\ Append(v, 0)[Len(v) + 1] = 0
    BY <2>1, AppendProperties
  <2>3. Len(v) + 1 = Len(s) + 1 - n
    BY <1>2, <2>1
  <2> QED BY <2>1, <2>2, <2>3 DEF v
<1>8. ASSUME NEW i \in 1..(Len(s) + 1 - n)
      PROVE  Recent(t)[i] = Append(Recent(s), 0)[i]
  <2>1. Recent(t)[i] = t[n + i]
    BY <1>6
  <2>2. CASE i = Len(s) + 1 - n
    BY <1>2, <1>7, <2>1, <2>2
  <2>3. CASE i \in 1..(Len(s) - n)
    <3>1. n + i \in 1..Len(s)
      BY <1>2, <1>3, <2>3
    <3> QED BY <1>2, <1>5, <1>7, <2>1, <2>3, <3>1
  <2>4. i = Len(s) + 1 - n \/ i \in 1..(Len(s) - n)
    BY <1>2, <1>3
  <2> QED BY <2>2, <2>3, <2>4
<1>9. Recent(t) = Append(Recent(s), 0)
  <2> DEFINE u == Append(Recent(s), 0)
  <2>1. u \in Seq(Nat) /\ Len(u) = Len(Recent(t)) /\ Recent(t) \in Seq(Nat)
    BY <1>6, <1>7
  <2>2. \A i \in 1..Len(Recent(t)) : Recent(t)[i] = u[i]
    BY <1>6, <1>8
  <2> HIDE DEF u
  <2>3. Recent(t) = u
    BY <2>1, <2>2, SeqEqual
  <2> QED BY <2>3 DEF u
<1> QED BY <1>9 DEF t

\* Dropping twice, also with time in between, is dropping once.
LEMMA RecentTwice ==
  ASSUME NEW s \in Seq(Nat), NEW t \in Seq(Nat), Len(t) = Len(s),
         \A i \in 1..Len(s) : s[i] > Window => t[i] > Window,
         NEW r \in Seq(Nat), Len(r) = Len(Recent(s)),
         \A i \in 1..Len(r) : r[i] = t[Len(s) - Len(r) + i]
  PROVE  Recent(r) = Recent(t)
PROOF
<1>1. PICK n \in Nat : Drops(s, n)
  BY SomeDrop
<1>2. PICK m \in Nat : Drops(t, m)
  BY SomeDrop
<1>3. \A i \in 1..Len(s) : s[i] \in Nat /\ t[i] \in Nat
  BY LenProperties
<1>4. Len(s) \in Nat /\ n <= Len(s) /\ m <= Len(s)
  BY <1>1, <1>2, LenProperties DEF Drops
<1>5. Len(r) = Len(s) - n
  <2>1. Recent(s) = SubSeq(s, n + 1, Len(s))
    BY <1>1, RecentDrops
  <2>2. \A i \in (n + 1)..Len(s) : s[i] \in Nat
    BY <1>3
  <2>3. Len(Recent(s)) = IF n + 1 <= Len(s) THEN Len(s) - (n + 1) + 1 ELSE 0
    BY <1>4, <2>1, <2>2, SubSeqProperties
  <2> QED BY <1>4, <2>3
<1>6. n <= m
  <2> SUFFICES ASSUME m < n PROVE FALSE
    OBVIOUS
  <2>1. t[m + 1] <= Window
    BY <1>2, <1>4 DEF Drops
  <2>2. m + 1 \in 1..n /\ m + 1 \in 1..Len(s)
    BY <1>4
  <2>3. s[m + 1] > Window
    BY <1>1, <2>2 DEF Drops
  <2> QED BY <1>3, <2>1, <2>2, <2>3, LimitsAssumption
<1>7. Drops(r, m - n)
  <2>1. m - n \in Nat /\ m - n <= Len(r)
    BY <1>4, <1>5, <1>6
  <2>2. \A i \in 1..Len(r) : r[i] = t[n + i]
    BY <1>4, <1>5
  <2>3. ASSUME NEW i \in 1..(m - n) PROVE r[i] > Window
    <3>1. i \in 1..Len(r) /\ n + i \in 1..m
      BY <1>4, <1>5, <1>6
    <3>2. t[n + i] > Window
      BY <1>2, <3>1 DEF Drops
    <3>3. r[i] = t[n + i]
      BY <2>2, <3>1
    <3> QED BY <3>2, <3>3
  <2>4. ASSUME m - n < Len(r) PROVE r[m - n + 1] <= Window
    <3>1. m - n + 1 \in 1..Len(r) /\ n + (m - n + 1) = m + 1 /\ m < Len(s)
      BY <1>4, <1>5, <1>6, <2>4
    <3>2. t[m + 1] <= Window
      BY <1>2, <3>1 DEF Drops
    <3>3. r[m - n + 1] = t[n + (m - n + 1)]
      BY <2>2, <3>1
    <3> QED BY <3>1, <3>2, <3>3
  <2> QED BY <2>1, <2>3, <2>4 DEF Drops
<1>8. Recent(r) = SubSeq(r, m - n + 1, Len(r)) /\ Recent(t) = SubSeq(t, m + 1, Len(t))
  <2>1. m - n \in Nat
    BY <1>4, <1>6
  <2> QED BY <1>2, <1>7, <2>1, RecentDrops
<1>9. /\ Recent(r) \in Seq(Nat) /\ Len(Recent(r)) = Len(s) - m
      /\ \A i \in 1..(Len(s) - m) : Recent(r)[i] = r[m - n + i]
  <2>1. \A i \in (m - n + 1)..Len(r) : r[i] \in Nat
    BY <1>4, <1>6, LenProperties
  <2>2. m - n + 1 \in Int /\ Len(r) \in Int
    BY <1>4, <1>5, <1>6
  <2>3. /\ Recent(r) \in Seq(Nat)
        /\ Len(Recent(r)) = IF m - n + 1 <= Len(r) THEN Len(r) - (m - n + 1) + 1 ELSE 0
        /\ \A i \in 1..(Len(r) - (m - n + 1) + 1) :
             Recent(r)[i] = r[(m - n + 1) + i - 1]
    BY <1>8, <2>1, <2>2, SubSeqProperties
  <2> QED BY <1>4, <1>5, <1>6, <2>3
<1>10. /\ Recent(t) \in Seq(Nat) /\ Len(Recent(t)) = Len(s) - m
      /\ \A i \in 1..(Len(s) - m) : Recent(t)[i] = t[m + i]
  <2>1. \A i \in (m + 1)..Len(t) : t[i] \in Nat
    BY <1>3, <1>4
  <2>2. m + 1 \in Int /\ Len(t) \in Int
    BY <1>4
  <2>3. /\ Recent(t) \in Seq(Nat)
        /\ Len(Recent(t)) = IF m + 1 <= Len(t) THEN Len(t) - (m + 1) + 1 ELSE 0
        /\ \A i \in 1..(Len(t) - (m + 1) + 1) : Recent(t)[i] = t[(m + 1) + i - 1]
    BY <1>8, <2>1, <2>2, SubSeqProperties
  <2> QED BY <1>4, <2>3
<1>11. ASSUME NEW i \in 1..(Len(s) - m) PROVE Recent(r)[i] = Recent(t)[i]
  <2>1. m - n + i \in 1..Len(r) /\ Len(s) - Len(r) + (m - n + i) = m + i
    BY <1>4, <1>5, <1>6
  <2> QED BY <1>9, <1>10, <2>1
<1> QED BY <1>9, <1>10, <1>11, SeqEqual
-----------------------------------------------------------------------------
(* What time does to the ages.                                             *)

LEMMA AgedType ==
  ASSUME NEW s \in Seq(Ages)
  PROVE  /\ Aged(s) \in Seq(Ages) /\ Len(Aged(s)) = Len(s)
         /\ \A i \in 1..Len(s) : Aged(s)[i] = IF s[i] > Window THEN s[i] ELSE s[i] + 1
PROOF
<1>1. Len(s) \in Nat /\ DOMAIN s = 1..Len(s)
  BY LenProperties
<1>2. \A i \in 1..Len(s) : s[i] \in Ages
  BY LenProperties
<1>3. Aged(s) = [i \in 1..Len(s) |-> IF s[i] > Window THEN s[i] ELSE s[i] + 1]
  BY <1>1 DEF Aged
<1>4. \A i \in 1..Len(s) : (IF s[i] > Window THEN s[i] ELSE s[i] + 1) \in Ages
  BY <1>2, LimitsAssumption DEF Ages
<1>5. Aged(s) \in [1..Len(s) -> Ages]
  BY <1>3, <1>4
<1>6. Aged(s) \in Seq(Ages)
  BY <1>1, <1>5, SeqDef
<1>7. Len(Aged(s)) = Len(s)
  BY <1>1, <1>5, <1>6, LenProperties
<1> QED BY <1>3, <1>6, <1>7

\* Oldest first.
Oldest(s) == \A i, j \in 1..Len(s) : i <= j => s[j] <= s[i]

LEMMA AgesAreNat == Ages \in SUBSET Nat /\ 0..Window \in SUBSET Ages /\ 0 \in 0..Window
BY LimitsAssumption DEF Ages

\* The recent ages are recent, all of them: the oldest is.
LEMMA OldestRecent ==
  ASSUME NEW s \in Seq(Ages), Oldest(s)
  PROVE  Recent(s) \in Seq(0..Window) /\ Oldest(Recent(s))
PROOF
<1> DEFINE r == Recent(s)
           d == Len(s) - Len(r)
<1>1. /\ r \in Seq(Ages) /\ Len(r) \in 0..Len(s)
      /\ r # <<>> => r[1] <= Window
      /\ \A i \in 1..Len(r) : r[i] = s[d + i]
  BY RecentType, AgesAreNat
<1> HIDE DEF r
<1>2. Len(s) \in Nat /\ Len(r) \in Nat /\ d \in Nat
  BY <1>1, LenProperties
<1>3. Oldest(r)
  <2> SUFFICES ASSUME NEW i \in 1..Len(r), NEW j \in 1..Len(r), i <= j
               PROVE  r[j] <= r[i]
    BY DEF Oldest
  <2>1. d + i \in 1..Len(s) /\ d + j \in 1..Len(s) /\ d + i <= d + j
    BY <1>2
  <2>2. s[d + j] <= s[d + i]
    BY <2>1 DEF Oldest
  <2> QED BY <1>1, <2>2
<1>4. ASSUME NEW i \in 1..Len(r) PROVE r[i] \in 0..Window
  <2>1. 1 \in 1..Len(r) /\ 1 <= i /\ r # <<>>
    BY <1>2, EmptySeq
  <2>2. r[i] <= r[1] /\ r[1] <= Window
    BY <1>1, <1>3, <2>1 DEF Oldest
  <2>3. r[i] \in Nat /\ r[1] \in Nat
    BY <1>1, <2>1, LenProperties, AgesAreNat
  <2> QED BY <2>2, <2>3, LimitsAssumption
<1>5. r \in [1..Len(r) -> 0..Window]
  BY <1>1, <1>4, LenProperties
<1>6. r \in Seq(0..Window)
  <2> DEFINE T == 0..Window
  <2>1. r \in [1..Len(r) -> T]
    BY <1>5
  <2> HIDE DEF T
  <2>2. r \in Seq(T)
    BY <1>2, <2>1, SeqDef
  <2> QED BY <2>2 DEF T
<1> QED BY <1>3, <1>6 DEF r

\* A step of time leaves a streak a streak that is no longer ...
LEMMA StreakAges ==
  ASSUME NEW s \in Seq(0..Window), Oldest(s)
  PROVE  /\ Recent(Aged(s)) \in Seq(0..Window) /\ Oldest(Recent(Aged(s)))
         /\ Len(Recent(Aged(s))) <= Len(s)
PROOF
<1>1. s \in Seq(Ages)
  BY AgesAreNat, SeqMonotonic
<1>2. /\ Aged(s) \in Seq(Ages) /\ Len(Aged(s)) = Len(s)
      /\ \A i \in 1..Len(s) : Aged(s)[i] = IF s[i] > Window THEN s[i] ELSE s[i] + 1
  BY <1>1, AgedType
<1>3. Oldest(Aged(s))
  <2> SUFFICES ASSUME NEW i \in 1..Len(s), NEW j \in 1..Len(s), i <= j
               PROVE  Aged(s)[j] <= Aged(s)[i]
    BY <1>2 DEF Oldest
  <2>1. s[i] \in 0..Window /\ s[j] \in 0..Window /\ s[j] <= s[i]
    BY LenProperties DEF Oldest
  <2> QED BY <1>2, <2>1, LimitsAssumption
<1>4. Recent(Aged(s)) \in Seq(0..Window) /\ Oldest(Recent(Aged(s)))
  BY <1>2, <1>3, OldestRecent
<1>5. Len(Recent(Aged(s))) \in 0..Len(s) /\ Len(s) \in Nat
  BY <1>2, RecentType, AgesAreNat, LenProperties
<1> QED BY <1>4, <1>5

\* ... and so does a new failure, which makes it longer by one.
LEMMA StreakGrows ==
  ASSUME NEW s \in Seq(0..Window), Oldest(s)
  PROVE  /\ Append(s, 0) \in Seq(0..Window) /\ Oldest(Append(s, 0))
         /\ Len(Append(s, 0)) = Len(s) + 1
PROOF
<1> DEFINE t == Append(s, 0)
<1>1. /\ t \in Seq(0..Window) /\ Len(t) = Len(s) + 1
      /\ \A i \in 1..Len(s) : t[i] = s[i]
      /\ t[Len(s) + 1] = 0
  BY AppendProperties, AgesAreNat
<1>2. Len(s) \in Nat
  BY LenProperties
<1> HIDE DEF t
<1>3. ASSUME NEW i \in 1..Len(t), NEW j \in 1..Len(t), i <= j PROVE t[j] <= t[i]
  <2>1. t[i] \in Nat
    BY <1>1, LenProperties, LimitsAssumption
  <2>2. CASE j = Len(s) + 1
    BY <1>1, <2>1, <2>2
  <2>3. CASE j # Len(s) + 1
    <3>1. i \in 1..Len(s) /\ j \in 1..Len(s)
      BY <1>1, <1>2, <1>3, <2>3
    <3>2. s[j] <= s[i]
      BY <1>3, <3>1 DEF Oldest
    <3> QED BY <1>1, <3>1, <3>2
  <2> QED BY <2>2, <2>3
<1> QED BY <1>1, <1>3 DEF Oldest, t

\* What was dropped before a step of time would be dropped after it.
LEMMA RecentAged ==
  ASSUME NEW f \in Seq(Ages)
  PROVE  Recent(Aged(Recent(f))) = Recent(Aged(f))
PROOF
<1> DEFINE g == Recent(f)
           t == Aged(f)
           r == Aged(g)
<1>1. /\ g \in Seq(Ages) /\ Len(g) \in 0..Len(f)
      /\ \A i \in 1..Len(g) : g[i] = f[Len(f) - Len(g) + i]
  BY RecentType, AgesAreNat
<1>2. /\ t \in Seq(Ages) /\ Len(t) = Len(f)
      /\ \A i \in 1..Len(f) : t[i] = IF f[i] > Window THEN f[i] ELSE f[i] + 1
  BY AgedType
<1>3. /\ r \in Seq(Ages) /\ Len(r) = Len(g)
      /\ \A i \in 1..Len(g) : r[i] = IF g[i] > Window THEN g[i] ELSE g[i] + 1
  <2> HIDE DEF g
  <2> QED BY <1>1, AgedType
<1>4. f \in Seq(Nat) /\ t \in Seq(Nat) /\ r \in Seq(Nat)
  <2> HIDE DEF t, r
  <2> QED BY <1>2, <1>3, AgesAreNat, SeqMonotonic
<1>5. \A i \in 1..Len(f) : f[i] > Window => t[i] > Window
  BY <1>2
<1>6. ASSUME NEW i \in 1..Len(r) PROVE r[i] = t[Len(f) - Len(r) + i]
  <2> HIDE DEF g, t, r
  <2>1. Len(f) \in Nat
    BY LenProperties
  <2>2. i \in 1..Len(g) /\ Len(f) - Len(g) + i \in 1..Len(f)
    BY <1>1, <1>3, <2>1
  <2>3. g[i] = f[Len(f) - Len(g) + i]
    BY <1>1, <2>2
  <2> QED BY <1>2, <1>3, <2>2, <2>3
<1>7. Len(r) = Len(Recent(f)) /\ Len(t) = Len(f)
  BY <1>2, <1>3
<1> HIDE DEF t, r
<1>8. Recent(r) = Recent(t)
  BY <1>4, <1>5, <1>6, <1>7, RecentTwice
<1> QED BY <1>8 DEF t, r

LEMMA RecentRecent ==
  ASSUME NEW f \in Seq(Ages)
  PROVE  Recent(Recent(f)) = Recent(f)
PROOF
<1> DEFINE r == Recent(f)
<1>1. /\ r \in Seq(Ages)
      /\ \A i \in 1..Len(r) : r[i] = f[Len(f) - Len(r) + i]
  BY RecentType, AgesAreNat
<1>2. Len(r) = Len(Recent(f))
  OBVIOUS
<1> HIDE DEF r
<1>3. f \in Seq(Nat) /\ r \in Seq(Nat)
  BY <1>1, AgesAreNat, SeqMonotonic
<1>4. Recent(r) = Recent(f)
  BY <1>1, <1>2, <1>3, RecentTwice
<1> QED BY <1>4 DEF r

-----------------------------------------------------------------------------
(* The inductive invariant: while the circuit is closed the failures the   *)
(* breaker remembers are, the too old ones aside, the streak, and too few. *)

InStep ==
  breaker = "closed" => streak = Recent(failures) /\ Len(streak) < FailsToOpen

Inv == TypeOK /\ Oldest(streak) /\ InStep /\ HalfOpenHasProbe

LEMMA InitInv == Init => Inv
PROOF
<1> SUFFICES ASSUME Init PROVE Inv
  OBVIOUS
<1>1. <<>> \in Seq(Ages) /\ <<>> \in Seq(0..Window) /\ Len(<<>>) = 0
  BY EmptySeq
<1>2. Recent(<<>>) = <<>>
  <2>1. Len(Recent(<<>>)) \in 0..0 /\ Recent(<<>>) \in Seq(Ages)
    BY <1>1, RecentType, AgesAreNat
  <2> QED BY <2>1, EmptySeq
<1>3. TypeOK
  <2>1. 0 \in 0..OpenFor /\ 0 \in 0..MaxAttempts
    BY LimitsAssumption
  <2>2. attempt \in [Jobs -> 0..MaxAttempts]
    BY <2>1 DEF Init
  <2>3. pc \in [Jobs -> Pcs] /\ admitted \in [Jobs -> {"none", "closed", "half_open"}]
    BY DEF Init, Pcs
  <2> QED BY <1>1, <2>1, <2>2, <2>3 DEF Init, TypeOK
<1>4. Oldest(streak)
  BY <1>1 DEF Init, Oldest
<1>5. InStep
  BY <1>1, <1>2, LimitsAssumption DEF Init, InStep
<1> QED BY <1>3, <1>4, <1>5 DEF Init, Inv, HalfOpenHasProbe

\* Time passes.
LEMMA TickKeeps == Inv /\ Tick => Inv'
PROOF
<1> SUFFICES ASSUME Inv, Tick PROVE Inv'
  OBVIOUS
<1>1. /\ failures \in Seq(Ages) /\ streak \in Seq(0..Window) /\ Oldest(streak)
      /\ openAge \in 0..OpenFor
  BY DEF Inv, TypeOK
<1>2. failures' \in Seq(Ages)
  BY <1>1, AgedType DEF Tick
<1>3. streak' \in Seq(0..Window) /\ Oldest(streak') /\ Len(streak') <= Len(streak)
  BY <1>1, StreakAges DEF Tick
<1>4. openAge' \in 0..OpenFor
  BY <1>1, LimitsAssumption DEF Tick
<1>5. TypeOK'
  BY <1>2, <1>3, <1>4 DEF Inv, Tick, TypeOK
<1>6. InStep'
  <2> SUFFICES ASSUME breaker' = "closed"
               PROVE  streak' = Recent(failures') /\ Len(streak') < FailsToOpen
    BY DEF InStep
  <2>1. streak = Recent(failures) /\ Len(streak) < FailsToOpen
    BY DEF Inv, Tick, InStep
  <2>2. streak' = Recent(failures')
    BY <1>1, <2>1, RecentAged DEF Tick
  <2>3. Len(streak) \in Nat /\ Len(streak') \in Nat
    BY <1>1, <1>3, LenProperties
  <2> QED BY <1>3, <2>1, <2>2, <2>3, LimitsAssumption
<1>7. HalfOpenHasProbe'
  BY DEF Inv, Tick, HalfOpenHasProbe
<1> QED BY <1>3, <1>5, <1>6, <1>7 DEF Inv

\* A call fails: it joins the streak, and the breaker, when it is closed,
\* remembers that streak and opens once it is long enough.
LEMMA FailureCounts ==
  ASSUME Inv, OnFailure, streak' = Append(streak, 0)
  PROVE  /\ breaker' \in {"closed", "open"} /\ breaker' # "half_open"
         /\ openAge' \in 0..OpenFor /\ inFlight' \in BOOLEAN
         /\ failures' \in Seq(Ages) /\ streak' \in Seq(0..Window) /\ Oldest(streak')
         /\ InStep'
         /\ breaker = "closed" /\ breaker' = "open" => Len(streak') >= FailsToOpen
PROOF
<1>1. /\ failures \in Seq(Ages) /\ streak \in Seq(0..Window) /\ Oldest(streak)
      /\ openAge \in 0..OpenFor /\ inFlight \in BOOLEAN
      /\ breaker \in {"closed", "open", "half_open"}
  BY DEF Inv, TypeOK
<1>2. streak' \in Seq(0..Window) /\ Oldest(streak') /\ Len(streak') = Len(streak) + 1
  BY <1>1, StreakGrows
<1> DEFINE kept == Recent(Append(failures, 0))
<1>3. Append(failures, 0) \in Seq(Ages)
  BY <1>1, AppendProperties, AgesAreNat
<1>4. kept \in Seq(Ages) /\ Recent(kept) = kept /\ Len(kept) \in Nat
  BY <1>3, RecentType, RecentRecent, AgesAreNat, LenProperties
<1>5. breaker = "closed" => kept = streak'
  <2>1. failures \in Seq(Nat)
    BY <1>1, AgesAreNat, SeqMonotonic
  <2> QED BY <2>1, RecentAppend DEF Inv, InStep
<1>6. /\ breaker = "half_open" =>
           /\ breaker' = "open" /\ openAge' = 0 /\ inFlight' = FALSE /\ failures' = failures
      /\ breaker # "half_open" =>
           /\ failures' = kept /\ inFlight' = inFlight
           /\ Len(kept) >= FailsToOpen => breaker' = "open" /\ openAge' = 0
           /\ ~(Len(kept) >= FailsToOpen) => breaker' = breaker /\ openAge' = openAge
  BY DEF OnFailure
<1> HIDE DEF kept
<1>7. breaker' = "closed" => breaker = "closed" /\ ~(Len(kept) >= FailsToOpen)
  BY <1>1, <1>6
<1>8. InStep'
  BY <1>4, <1>5, <1>6, <1>7, LimitsAssumption DEF InStep
<1>9. failures' \in Seq(Ages) /\ openAge' \in 0..OpenFor /\ inFlight' \in BOOLEAN
  <2>1. 0 \in 0..OpenFor
    BY LimitsAssumption
  <2>2. CASE breaker = "half_open"
    BY <1>1, <1>6, <2>1, <2>2
  <2>3. CASE breaker # "half_open"
    BY <1>1, <1>4, <1>6, <2>1, <2>3
  <2> QED BY <2>2, <2>3
<1>10. breaker' \in {"closed", "open"}
  BY <1>1, <1>6
<1>11. breaker = "closed" /\ breaker' = "open" => Len(streak') >= FailsToOpen
  BY <1>5, <1>6
<1> QED BY <1>2, <1>8, <1>9, <1>10, <1>11

LEMMA FailKeeps ==
  ASSUME Inv, NEW j \in Jobs, FailRetryable(j) \/ FailHard(j)
  PROVE  Inv' /\ (breaker = "closed" /\ breaker' = "open" => Len(streak') >= FailsToOpen)
PROOF
<1>1. OnFailure /\ streak' = Append(streak, 0) /\ lost' = lost
  BY DEF FailRetryable, FailHard
<1>2. /\ pc' \in [Jobs -> Pcs] /\ attempt' \in [Jobs -> 0..MaxAttempts]
      /\ admitted' \in [Jobs -> {"none", "closed", "half_open"}]
  <2>1. pc \in [Jobs -> Pcs] /\ attempt \in [Jobs -> 0..MaxAttempts]
        /\ admitted \in [Jobs -> {"none", "closed", "half_open"}]
    BY DEF Inv, TypeOK
  <2>2. CASE FailRetryable(j)
    <3>1. CASE attempt[j] = MaxAttempts
      BY <2>1, <2>2, <3>1 DEF FailRetryable, EndCall, Pcs
    <3>2. CASE attempt[j] # MaxAttempts
      <4>1. attempt[j] + 1 \in 0..MaxAttempts
        BY <2>1, <3>2, LimitsAssumption
      <4> QED BY <2>1, <2>2, <3>2, <4>1 DEF FailRetryable, EndCall, Pcs
    <3> QED BY <3>1, <3>2
  <2>3. CASE FailHard(j)
    BY <2>1, <2>3 DEF FailHard, EndCall, Pcs
  <2> QED BY <2>2, <2>3
<1>3. TypeOK'
  BY <1>1, <1>2, FailureCounts DEF Inv, TypeOK
<1> QED BY <1>1, <1>3, FailureCounts DEF Inv, HalfOpenHasProbe

\* A call succeeds: everything is forgotten.
LEMMA SucceedKeeps ==
  ASSUME Inv, NEW j \in Jobs, Succeed(j)
  PROVE  Inv'
PROOF
<1>1. <<>> \in Seq(Ages) /\ <<>> \in Seq(0..Window) /\ Len(<<>>) = 0
  BY EmptySeq
<1>2. Recent(<<>>) = <<>>
  <2>1. Len(Recent(<<>>)) \in 0..0 /\ Recent(<<>>) \in Seq(Ages)
    BY <1>1, RecentType, AgesAreNat
  <2> QED BY <2>1, EmptySeq
<1>3. TypeOK'
  BY <1>1 DEF Inv, TypeOK, Succeed, EndCall, Pcs
<1>4. Oldest(streak')
  BY <1>1 DEF Succeed, Oldest
<1>5. InStep'
  BY <1>1, <1>2, LimitsAssumption DEF Succeed, InStep
<1> QED BY <1>3, <1>4, <1>5 DEF Succeed, Inv, HalfOpenHasProbe

\* The other steps leave what has failed alone.
LEMMA OthersKeep ==
  ASSUME Inv, NEW j \in Jobs, Start(j) \/ Admit(j) \/ Refuse(j) \/ Wake(j) \/ Cancel(j)
  PROVE  Inv' /\ ~(breaker = "closed" /\ breaker' = "open")
PROOF
<1>1. /\ failures' = failures /\ streak' = streak /\ openAge' = openAge
      /\ breaker' = "closed" => breaker = "closed"
      /\ ~(breaker = "closed" /\ breaker' = "open")
  BY DEF Start, Admit, Refuse, Wake, Cancel, breakerVars
<1>2. TypeOK'
  <2> USE DEF Inv, TypeOK, Pcs, breakerVars
  <2>1. CASE Start(j)
    BY <2>1, LimitsAssumption DEF Start
  <2>2. CASE Admit(j)
    BY <2>2 DEF Admit, Allows, CooledDown
  <2>3. CASE Refuse(j)
    BY <2>3 DEF Refuse
  <2>4. CASE Wake(j)
    BY <2>4 DEF Wake
  <2>5. CASE Cancel(j)
    BY <2>5 DEF Cancel, EndCall
  <2> QED BY <2>1, <2>2, <2>3, <2>4, <2>5
<1>3. Oldest(streak') /\ InStep'
  BY <1>1 DEF Inv, InStep
<1>4. HalfOpenHasProbe'
  <2> USE DEF HalfOpenHasProbe, Inv, TypeOK, breakerVars
  <2>1. CASE Start(j)
    BY <2>1 DEF Start
  <2>2. CASE Admit(j)
    BY <2>2 DEF Admit, Allows, CooledDown
  <2>3. CASE Refuse(j)
    BY <2>3 DEF Refuse
  <2>4. CASE Wake(j)
    BY <2>4 DEF Wake
  <2>5. CASE Cancel(j)
    BY <2>5 DEF Cancel, EndCall
  <2> QED BY <2>1, <2>2, <2>3, <2>4, <2>5
<1> QED BY <1>1, <1>2, <1>3, <1>4 DEF Inv

\* A step of the worker keeps the invariant and opens the circuit on a burst.
LEMMA StepKeeps ==
  Inv /\ [Next]_vars =>
    Inv' /\ (breaker = "closed" /\ breaker' = "open" => Len(streak') >= FailsToOpen)
PROOF
<1> SUFFICES ASSUME Inv, [Next]_vars
             PROVE  Inv' /\ (breaker = "closed" /\ breaker' = "open"
                                => Len(streak') >= FailsToOpen)
  OBVIOUS
<1>1. CASE Tick
  BY <1>1, TickKeeps DEF Tick
<1>2. ASSUME NEW j \in Jobs, Succeed(j) PROVE Inv' /\ breaker' = "closed"
  BY <1>2, SucceedKeeps DEF Succeed
<1>3. CASE UNCHANGED vars
  BY <1>3 DEF vars, Inv, TypeOK, InStep, HalfOpenHasProbe
<1>4. \/ Tick \/ UNCHANGED vars
      \/ \E j \in Jobs : \/ Start(j) \/ Admit(j) \/ Refuse(j) \/ Wake(j) \/ Cancel(j)
                        \/ Succeed(j) \/ FailRetryable(j) \/ FailHard(j)
  BY DEF Next, Answer
<1> QED BY <1>1, <1>2, <1>3, <1>4, FailKeeps, OthersKeep

LEMMA Invariance == Spec => []Inv
PROOF
<1>1. Init => Inv
  BY InitInv
<1>2. Inv /\ [Next]_vars => Inv'
  BY StepKeeps
<1> QED BY <1>1, <1>2, PTL DEF Spec

-----------------------------------------------------------------------------
\* Every state of the breaker and of the calls is well typed; the streak that
\* the other theorems speak of holds recent failures only.
THEOREM TypeCorrect == Spec => []TypeOK
PROOF
<1>1. Inv => TypeOK
  BY DEF Inv
<1> QED BY <1>1, Invariance, PTL

\* However many calls overlap: as many recent failures as the limit, with no
\* success between, never leave the circuit closed (circuit.py on_failure).
THEOREM OpensOnBurst == Spec => []BurstOpens
PROOF
<1>1. Inv => BurstOpens
  <2> SUFFICES ASSUME Inv, breaker = "closed" PROVE ~(Len(streak) >= FailsToOpen)
    BY DEF BurstOpens
  <2>1. Len(streak) \in Nat
    BY LenProperties DEF Inv, TypeOK
  <2> QED BY <2>1, LimitsAssumption DEF Inv, InStep
<1> QED BY <1>1, Invariance, PTL

\* It opens on such a burst only: failures that are too old, or that came
\* before a success, never add up to one (circuit.py on_failure, on_success).
THEOREM OpensOnlyThen == Spec => OpensOnBurstOnly
PROOF
<1>1. Inv /\ [Next]_vars =>
        [breaker = "closed" /\ breaker' = "open" => Len(streak') >= FailsToOpen]_vars
  BY StepKeeps
<1> QED BY <1>1, Invariance, PTL DEF Spec, OpensOnBurstOnly

\* A half-open circuit has a probe out, unless a probe was cancelled, whatever
\* late answers of other calls arrive (circuit.py before_call, on_failure).
THEOREM ProbeIsOut == Spec => []HalfOpenHasProbe
PROOF
<1>1. Inv => HalfOpenHasProbe
  BY DEF Inv
<1> QED BY <1>1, Invariance, PTL
=============================================================================
