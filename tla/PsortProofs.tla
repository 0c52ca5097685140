---------------------------- MODULE PsortProofs ----------------------------
(***************************************************************************)
(* Theorems about Psort, for every input, every control file and every     *)
(* order of events and failures: the passes over the patterns are one sort *)
(* by priority, and a program that is killed, or cannot write, leaves      *)
(* nothing but a part of its result.                                       *)
(***************************************************************************)
EXTENDS Psort, FunctionTheorems, FiniteSetTheorems, SequenceTheorems, WellFoundedInduction,
        TLAPS

\* How many lines of s are in A.
Count(s, A) == Cardinality({i \in DOMAIN s : s[i] \in A})

\* No line of s comes after one that it is before.
InOrder(s, before) == \A j, k \in DOMAIN s : j < k => <<s[k], s[j]>> \notin before

StrictOrder(before) ==
  /\ \A a, b \in Lines : a = b \/ <<a, b>> \in before \/ <<b, a>> \in before
  /\ \A a \in Lines : <<a, a>> \notin before
  /\ \A a, b, c \in Lines : <<a, b>> \in before /\ <<b, c>> \in before => <<a, c>> \in before

----------------------------------------------------------------------------
(* Positions in an order.                                                  *)

\* A set of numbers has a smallest one.
LEMMA Smallest ==
  ASSUME NEW S \in SUBSET Nat, S # {}
  PROVE  \E m \in S : \A n \in S : m <= n
<1> DEFINE below == {0..n : n \in S}
<1>1. below \subseteq FiniteSubsetsOf(Nat)
  <2>1. \A n \in Nat : 0..n \in SUBSET Nat /\ IsFiniteSet(0..n)
    BY FS_Interval
  <2> QED
    BY <2>1 DEF FiniteSubsetsOf
<1>2. below # {}
  OBVIOUS
<1>3. IsWellFoundedOn(StrictSubsetOrdering(Nat), FiniteSubsetsOf(Nat))
  BY FS_StrictSubsetOrderingWellFounded
<1> HIDE DEF below
<1>4. PICK x \in below : \A y \in below : ~(<<y, x>> \in StrictSubsetOrdering(Nat))
  BY <1>1, <1>2, <1>3, WFMin
<1>5. PICK m \in S : x = 0..m
  BY DEF below
<1>6. ASSUME NEW n \in S, n < m PROVE FALSE
  <2>1. 0..n \in below
    BY DEF below
  <2>2. 0..n \subseteq 0..m /\ 0..n # 0..m /\ 0..n \subseteq Nat /\ 0..m \subseteq Nat
    <3>1. m \in 0..m /\ m \notin 0..n
      BY <1>6
    <3> QED
      BY <1>6, <3>1
  <2> QED
    BY <1>4, <1>5, <2>1, <2>2 DEF StrictSubsetOrdering
<1> QED
  BY <1>6

\* The positions in at, one after the other in the order upto, with its place
\* in the list the number of those up to it.
LEMMA Listing ==
  ASSUME NEW at, IsFiniteSet(at), NEW upto,
         \A i, j \in at : <<i, j>> \in upto \/ <<j, i>> \in upto,
         \A i, j \in at : <<i, j>> \in upto /\ <<j, i>> \in upto => i = j,
         \A i, j, k \in at : <<i, j>> \in upto /\ <<j, k>> \in upto => <<i, k>> \in upto
  PROVE  \E p \in Bijection(1..Cardinality(at), at) :
           \A j, k \in 1..Cardinality(at) : j < k => <<p[k], p[j]>> \notin upto
<1> DEFINE n       == Cardinality(at)
           up(i)   == {j \in at : <<j, i>> \in upto}
           place   == [i \in at |-> Cardinality(up(i))]
<1>1. n \in Nat /\ IsFiniteSet(1..n) /\ Cardinality(1..n) = n
  BY FS_CardinalityType, FS_Interval
<1>2. ASSUME NEW i \in at
      PROVE  IsFiniteSet(up(i)) /\ Cardinality(up(i)) \in 1..n
  <2>1. up(i) \in SUBSET at /\ i \in up(i)
    OBVIOUS
  <2>2. IsFiniteSet(up(i)) /\ Cardinality(up(i)) <= n
    BY <2>1, FS_Subset
  <2>3. Cardinality(up(i)) \in Nat /\ Cardinality(up(i)) # 0
    BY <2>1, <2>2, FS_CardinalityType, FS_EmptySet
  <2> HIDE DEF up, n
  <2> QED
    BY <1>1, <2>2, <2>3
<1>3. ASSUME NEW i \in at, NEW j \in at, i # j, <<i, j>> \in upto
      PROVE  Cardinality(up(i)) < Cardinality(up(j))
  <2>1. up(i) \in SUBSET up(j) /\ j \in up(j) /\ j \notin up(i)
    BY <1>3
  <2>2. up(i) # up(j)
    BY <2>1
  <2>3. /\ IsFiniteSet(up(j)) /\ Cardinality(up(i)) \in 1..n /\ Cardinality(up(j)) \in 1..n
    BY <1>2
  <2> HIDE DEF up, n
  <2>4. Cardinality(up(i)) <= Cardinality(up(j)) /\ Cardinality(up(i)) # Cardinality(up(j))
    BY <2>1, <2>2, <2>3, FS_Subset
  <2> QED
    BY <1>1, <2>3, <2>4
<1>4. \A i, j \in at : i # j => place[i] # place[j]
  <2> TAKE i, j \in at
  <2> HAVE i # j
  <2>1. Cardinality(up(i)) \in 1..n /\ Cardinality(up(j)) \in 1..n
    BY <1>2
  <2>2. Cardinality(up(i)) < Cardinality(up(j)) \/ Cardinality(up(j)) < Cardinality(up(i))
    <3>1. CASE <<i, j>> \in upto
      BY <1>3, <3>1
    <3>2. CASE <<j, i>> \in upto
      BY <1>3, <3>2
    <3> QED
      BY <3>1, <3>2
  <2>3. place[i] = Cardinality(up(i)) /\ place[j] = Cardinality(up(j))
    OBVIOUS
  <2> HIDE DEF up, n, place
  <2> QED
    BY <1>1, <2>1, <2>2, <2>3
<1>5. place \in [at -> 1..n]
  BY <1>2
<1>6. \A i \in at : place[i] = Cardinality(up(i))
  OBVIOUS
<1> HIDE DEF n, place
<1>7. place \in Injection(at, 1..n)
  BY <1>4, <1>5 DEF Injection, IsInjective
<1>8. place \in Surjection(at, 1..n)
  BY <1>1, <1>7, FS_Injection DEF n
<1>9. place \in Bijection(at, 1..n)
  BY <1>7, <1>8 DEF Bijection
<1> DEFINE p == Inverse(place, at, 1..n)
<1>10. p \in Bijection(1..n, at) /\ \A i \in at : p[place[i]] = i
  BY <1>9, Fun_BijInverse
<1> HIDE DEF p
<1>11. \A k \in 1..n : p[k] \in at /\ place[p[k]] = k
  <2> TAKE k \in 1..n
  <2>1. PICK i \in at : place[i] = k
    BY <1>8 DEF Surjection
  <2> QED
    BY <1>10, <2>1
<1>12. ASSUME NEW j \in 1..n, NEW k \in 1..n, j < k, <<p[k], p[j]>> \in upto PROVE FALSE
  <2>1. p[k] # p[j]
    BY <1>1, <1>11, <1>12
  <2>2. Cardinality(up(p[k])) < Cardinality(up(p[j]))
    BY <1>3, <1>11, <1>12, <2>1
  <2>3. place[p[k]] = Cardinality(up(p[k])) /\ place[p[j]] = Cardinality(up(p[j]))
    BY <1>6, <1>11
  <2> HIDE DEF up
  <2>4. k < j
    BY <1>11, <2>2, <2>3
  <2> QED
    BY <1>1, <1>12, <2>4
<1> QED
  BY <1>10, <1>12 DEF n

\* Listed is such a list of the positions, for an order in which some may be
\* equal: those keep their order.
LEMMA ListedIsList ==
  ASSUME NEW at \in SUBSET Nat, IsFiniteSet(at), NEW before,
         \A i \in at : <<i, i>> \notin before,
         \A i, j, k \in at : <<i, j>> \in before /\ <<j, k>> \in before => <<i, k>> \in before,
         \A i, j, k \in at : <<i, j>> \in before => <<i, k>> \in before \/ <<k, j>> \in before
  PROVE  /\ Listed(at, before) \in Bijection(1..Cardinality(at), at)
         /\ \A j, k \in 1..Cardinality(at) :
              j < k => <<Listed(at, before)[k], Listed(at, before)[j]>> \notin before
<1> DEFINE n == Cardinality(at)
           upto == {q \in at \X at : \/ <<q[1], q[2]>> \in before
                                     \/ <<q[2], q[1]>> \notin before /\ q[1] <= q[2]}
<1>1. \A i, j \in at : <<i, j>> \in upto <=> \/ <<i, j>> \in before
                                             \/ <<j, i>> \notin before /\ i <= j
  OBVIOUS
<1> HIDE DEF upto
<1>0. \A i, j \in at : i \in Nat /\ j \in Nat /\ (i <= j \/ j <= i) /\ (i <= j /\ j <= i => i = j)
  OBVIOUS
<1>2. ASSUME NEW i \in at, NEW j \in at PROVE <<i, j>> \in upto \/ <<j, i>> \in upto
  BY <1>0, <1>1
<1>3. ASSUME NEW i \in at, NEW j \in at, <<i, j>> \in upto, <<j, i>> \in upto PROVE i = j
  <2>1. ~(<<i, j>> \in before /\ <<j, i>> \in before)
    OBVIOUS
  <2> QED
    BY <1>0, <1>1, <1>3, <2>1
<1>4. ASSUME NEW i \in at, NEW j \in at, NEW k \in at, <<i, j>> \in upto, <<j, k>> \in upto
      PROVE  <<i, k>> \in upto
  <2>1. i \in Nat /\ j \in Nat /\ k \in Nat /\ (i <= j /\ j <= k => i <= k)
    OBVIOUS
  <2>2. CASE <<i, j>> \in before
    <3>1. <<i, k>> \in before \/ <<k, j>> \in before
      BY <2>2
    <3>2. ~(<<k, j>> \in before /\ <<j, k>> \in before)
      OBVIOUS
    <3>3. <<k, j>> \notin before
      BY <1>1, <1>4, <3>2
    <3> QED
      BY <1>1, <3>1, <3>3
  <2>3. CASE <<j, k>> \in before
    <3>1. <<j, i>> \in before \/ <<i, k>> \in before
      BY <2>3
    <3>2. ~(<<j, i>> \in before /\ <<i, j>> \in before)
      OBVIOUS
    <3>3. <<j, i>> \notin before
      BY <1>1, <1>4, <3>2
    <3> QED
      BY <1>1, <3>1, <3>3
  <2>4. CASE <<i, j>> \notin before /\ <<j, k>> \notin before
    <3>1. <<j, i>> \notin before /\ i <= j /\ <<k, j>> \notin before /\ j <= k
      BY <1>1, <1>4, <2>4
    <3>2. <<k, i>> \in before => <<k, j>> \in before \/ <<j, i>> \in before
      OBVIOUS
    <3> QED
      BY <1>1, <2>1, <3>1, <3>2
  <2> QED
    BY <2>2, <2>3, <2>4
<1>5. PICK p \in Bijection(1..n, at) :
        \A j, k \in 1..n : j < k => <<p[k], p[j]>> \notin upto
  <2> HIDE DEF n
  <2> QED
    BY <1>2, <1>3, <1>4, Listing DEF n
<1>6. \A k \in 1..n : p[k] \in at
  <2> HIDE DEF n
  <2>1. p \in [1..n -> at]
    BY Fun_BijectionProperties
  <2> QED
    BY <2>1
<1>7. \A j, k \in 1..n : j < k => <<p[k], p[j]>> \notin before
  BY <1>1, <1>5, <1>6
<1>8. \A f \in Bijection(1..n, at) : DOMAIN f = 1..n
  BY DEF Bijection, Injection, IsInjective
<1> HIDE DEF n
<1> DEFINE IsList(f) == \A j, k \in DOMAIN f : j < k => <<f[k], f[j]>> \notin before
<1>9. IsList(p)
  BY <1>7, <1>8
<1>10. Listed(at, before) = CHOOSE f \in Bijection(1..n, at) : IsList(f)
  BY DEF Listed, n
<1>11. Listed(at, before) \in Bijection(1..n, at) /\ IsList(Listed(at, before))
  <2> HIDE DEF IsList
  <2> QED
    BY <1>9, <1>10
<1> QED
  BY <1>8, <1>11 DEF n

----------------------------------------------------------------------------
(* Counting lines.                                                         *)

LEMMA UpTo ==
  ASSUME NEW n \in Nat
  PROVE  IsFiniteSet(1..n) /\ Cardinality(1..n) = n
<1>1. IsFiniteSet(1..n) /\ Cardinality(1..n) = IF 1 > n THEN 0 ELSE n - 1 + 1
  BY FS_Interval
<1> QED
  BY <1>1

LEMMA Positions ==
  ASSUME NEW s \in Seq(Lines)
  PROVE  /\ Len(s) \in Nat /\ DOMAIN s = 1..Len(s) /\ DOMAIN s \in SUBSET Nat
         /\ IsFiniteSet(DOMAIN s) /\ Cardinality(DOMAIN s) = Len(s)
         /\ \A k \in DOMAIN s : s[k] \in Lines
<1>1. Len(s) \in Nat /\ DOMAIN s = 1..Len(s) /\ \A k \in 1..Len(s) : s[k] \in Lines
  BY LenProperties, ElementOfSeq
<1>2. IsFiniteSet(1..Len(s)) /\ Cardinality(1..Len(s)) = Len(s)
  BY <1>1, UpTo
<1> QED
  BY <1>1, <1>2

LEMMA CountTypes ==
  ASSUME NEW s \in Seq(Lines), NEW A
  PROVE  /\ Count(s, A) \in Nat /\ Count(s, A) <= Len(s) /\ Count(s, Lines) = Len(s)
         /\ Count(s, A) > 0 <=> \E k \in DOMAIN s : s[k] \in A
         /\ IsFiniteSet({i \in DOMAIN s : s[i] \in A})
<1> DEFINE at == {i \in DOMAIN s : s[i] \in A}
<1>1. at \in SUBSET DOMAIN s /\ IsFiniteSet(DOMAIN s) /\ Cardinality(DOMAIN s) = Len(s)
  BY Positions
<1>2. IsFiniteSet(at) /\ Cardinality(at) <= Len(s) /\ Cardinality(at) \in Nat
  BY <1>1, FS_Subset, FS_CardinalityType
<1>3. Cardinality(at) = 0 <=> at = {}
  BY <1>2, FS_EmptySet
<1>4. Cardinality(at) > 0 <=> \E k \in DOMAIN s : s[k] \in A
  <2>1. at # {} <=> \E k \in DOMAIN s : s[k] \in A
    OBVIOUS
  <2> HIDE DEF at
  <2> QED
    BY <1>2, <1>3, <2>1
<1>5. {i \in DOMAIN s : s[i] \in Lines} = DOMAIN s
  BY Positions
<1> QED
  BY <1>1, <1>2, <1>4, <1>5 DEF Count

\* A list of the positions in T has as many of each kind as T has.
LEMMA Renamed ==
  ASSUME NEW S, NEW T, IsFiniteSet(S), NEW p \in Bijection(S, T),
         NEW to \in SUBSET T, NEW from, from = {k \in S : p[k] \in to}
  PROVE  Cardinality(from) = Cardinality(to)
<1> DEFINE q == [k \in from |-> p[k]]
<1>1. /\ p \in [S -> T] /\ \A a, b \in S : p[a] = p[b] => a = b
      /\ \A t \in T : \E k \in S : p[k] = t
  BY DEF Bijection, Injection, Surjection, IsInjective
<1>2. from \in SUBSET S /\ IsFiniteSet(from)
  <2>1. from \in SUBSET S
    OBVIOUS
  <2> QED
    BY <2>1, FS_Subset
<1>3. q \in [from -> to]
  BY <1>1
<1>4. q \in Injection(from, to)
  BY <1>1, <1>3 DEF Injection, IsInjective
<1>5. q \in Surjection(from, to)
  BY <1>1, <1>3 DEF Surjection
<1> HIDE DEF q
<1>6. q \in Bijection(from, to)
  BY <1>4, <1>5 DEF Bijection
<1> QED
  BY <1>2, <1>6, FS_Bijection DEF ExistsBijection

LEMMA FunctionIsSeq ==
  ASSUME NEW S, NEW n \in Nat, NEW f \in [1..n -> S]
  PROVE  f \in Seq(S) /\ Len(f) = n
OBVIOUS

\* The lines of s in the order p of positions.
LEMMA RenamedLines ==
  ASSUME NEW s \in Seq(Lines), NEW at \in SUBSET DOMAIN s,
         NEW p \in Bijection(1..Cardinality(at), at), NEW t,
         t = [k \in 1..Cardinality(at) |-> s[p[k]]]
  PROVE  /\ t \in Seq(Lines) /\ Len(t) = Cardinality(at) /\ IsFiniteSet(at)
         /\ \A k \in 1..Cardinality(at) : p[k] \in at /\ t[k] = s[p[k]]
         /\ \A A : Count(t, A) = Cardinality({i \in at : s[i] \in A})
<1> DEFINE n == Cardinality(at)
<1>1. IsFiniteSet(at) /\ n \in Nat /\ IsFiniteSet(1..n)
  <2>1. IsFiniteSet(at)
    BY Positions, FS_Subset
  <2> QED
    BY <2>1, FS_CardinalityType, UpTo
<1>2. p \in Bijection(1..n, at) /\ t = [k \in 1..n |-> s[p[k]]]
  OBVIOUS
<1> HIDE DEF n
<1>9. p \in [1..n -> at]
  BY <1>2, Fun_BijectionProperties
<1>3. \A i \in at : s[i] \in Lines
  BY Positions
<1>4. t \in [1..n -> Lines] /\ DOMAIN t = 1..n
  BY <1>2, <1>3, <1>9
<1>5. t \in Seq(Lines) /\ Len(t) = n
  BY <1>1, <1>4, FunctionIsSeq
<1>6. \A k \in 1..n : p[k] \in at /\ t[k] = s[p[k]]
  BY <1>2, <1>9
<1>7. ASSUME NEW A PROVE Count(t, A) = Cardinality({i \in at : s[i] \in A})
  <2> DEFINE to == {i \in at : s[i] \in A}  from == {k \in 1..n : p[k] \in to}
  <2>1. {k \in DOMAIN t : t[k] \in A} = from
    BY <1>4, <1>6
  <2>2. to \in SUBSET at
    OBVIOUS
  <2>3. Cardinality(from) = Cardinality(to)
    <3> HIDE DEF to
    <3> QED
      BY <1>1, <1>2, <2>2, Renamed
  <2> QED
    BY <2>1, <2>3 DEF Count
<1> QED
  BY <1>1, <1>5, <1>6, <1>7 DEF n

\* copy_if takes the lines in P, all of them.
LEMMA TakenIs ==
  ASSUME NEW s \in Seq(Lines), NEW P
  PROVE  /\ Taken(s, P) \in Seq(Lines)
         /\ \A A : Count(Taken(s, P), A) = Count(s, A \cap P)
<1> DEFINE at     == {i \in DOMAIN s : s[i] \in P}
           before == {q \in at \X at : q[1] < q[2]}
           p      == Listed(at, before)
<1>1. at \in SUBSET DOMAIN s /\ at \in SUBSET Nat /\ IsFiniteSet(at)
  BY Positions, FS_Subset
<1>2. \A i, j \in at : <<i, j>> \in before <=> i < j
  OBVIOUS
<1>3. Taken(s, P) = [k \in 1..Cardinality(at) |-> s[p[k]]]
  BY DEF Taken
<1>4. ASSUME NEW A PROVE {i \in at : s[i] \in A} = {i \in DOMAIN s : s[i] \in A \cap P}
  OBVIOUS
<1> HIDE DEF at, before
<1>5. p \in Bijection(1..Cardinality(at), at)
  <2>1. /\ \A i \in at : <<i, i>> \notin before
        /\ \A i, j, k \in at : <<i, j>> \in before /\ <<j, k>> \in before => <<i, k>> \in before
        /\ \A i, j, k \in at : <<i, j>> \in before => <<i, k>> \in before \/ <<k, j>> \in before
    BY <1>1, <1>2
  <2> QED
    BY <1>1, <2>1, ListedIsList
<1> HIDE DEF p
<1>6. /\ Taken(s, P) \in Seq(Lines)
      /\ \A A : Count(Taken(s, P), A) = Cardinality({i \in at : s[i] \in A})
  BY <1>1, <1>3, <1>5, RenamedLines
<1> QED
  BY <1>4, <1>6 DEF Count

\* sort puts the lines in order and keeps them all.
LEMMA SortedIs ==
  ASSUME NEW s \in Seq(Lines), NEW before, StrictOrder(before)
  PROVE  /\ Sorted(s, before) \in Seq(Lines) /\ InOrder(Sorted(s, before), before)
         /\ \A A : Count(Sorted(s, before), A) = Count(s, A)
<1> DEFINE at == DOMAIN s
           follows == {q \in at \X at : <<s[q[1]], s[q[2]]>> \in before}
           p == Listed(at, follows)
           t == Sorted(s, before)
<1>1. /\ at \in SUBSET DOMAIN s /\ at \in SUBSET Nat /\ IsFiniteSet(at)
      /\ at = 1..Cardinality(at) /\ \A i \in at : s[i] \in Lines
  BY Positions
<1>2. \A i, j \in at : <<i, j>> \in follows <=> <<s[i], s[j]>> \in before
  OBVIOUS
<1>3. t = [k \in at |-> s[p[k]]]
  BY DEF Sorted
<1>4. \A A : Count(s, A) = Cardinality({i \in at : s[i] \in A})
  BY DEF Count
<1> HIDE DEF at, follows, t
<1>5. /\ p \in Bijection(1..Cardinality(at), at)
      /\ \A j, k \in 1..Cardinality(at) : j < k => <<p[k], p[j]>> \notin follows
  <2>1. \A i \in at : <<i, i>> \notin follows
    BY <1>1, <1>2 DEF StrictOrder
  <2>2. \A i, j, k \in at : <<i, j>> \in follows /\ <<j, k>> \in follows => <<i, k>> \in follows
    <3> TAKE i, j, k \in at
    <3>1. s[i] \in Lines /\ s[j] \in Lines /\ s[k] \in Lines
      BY <1>1
    <3> QED
      BY <1>2, <3>1 DEF StrictOrder
  <2>3. \A i, j, k \in at : <<i, j>> \in follows => <<i, k>> \in follows \/ <<k, j>> \in follows
    <3> TAKE i, j, k \in at
    <3>1. s[i] \in Lines /\ s[j] \in Lines /\ s[k] \in Lines
      BY <1>1
    <3>2. s[i] = s[k] \/ <<s[i], s[k]>> \in before \/ <<s[k], s[i]>> \in before
      BY <3>1 DEF StrictOrder
    <3>3. <<s[k], s[i]>> \in before /\ <<s[i], s[j]>> \in before => <<s[k], s[j]>> \in before
      BY <3>1 DEF StrictOrder
    <3> QED
      BY <1>2, <3>2, <3>3
  <2> QED
    BY <1>1, <2>1, <2>2, <2>3, ListedIsList
<1> HIDE DEF p
<1>6. t = [k \in 1..Cardinality(at) |-> s[p[k]]]
  BY <1>1, <1>3
<1>7. /\ t \in Seq(Lines) /\ Len(t) = Cardinality(at)
      /\ \A k \in 1..Cardinality(at) : p[k] \in at /\ t[k] = s[p[k]]
      /\ \A A : Count(t, A) = Cardinality({i \in at : s[i] \in A})
  BY <1>1, <1>5, <1>6, RenamedLines
<1>8. InOrder(t, before)
  <2>1. DOMAIN t = 1..Cardinality(at)
    BY <1>6
  <2> QED
    BY <1>2, <1>5, <1>7, <2>1 DEF InOrder
<1> QED
  BY <1>4, <1>7, <1>8 DEF t

LEMMA Regrouped ==
  ASSUME NEW a \in Seq(Lines), NEW b \in Seq(Lines), NEW c \in Seq(Lines)
  PROVE  (a \o b) \o c = a \o (b \o c)
BY ConcatAssociative

LEMMA CountConcat ==
  ASSUME NEW s \in Seq(Lines), NEW t \in Seq(Lines), NEW A
  PROVE  s \o t \in Seq(Lines) /\ Count(s \o t, A) = Count(s, A) + Count(t, A)
<1> DEFINE m == Len(s)  n == Len(t)  u == s \o t
           inS == {i \in DOMAIN s : s[i] \in A}
           inT == {i \in DOMAIN t : t[i] \in A}
           p   == [k \in (m + 1)..(m + n) |-> k - m]
           in  == {k \in (m + 1)..(m + n) : p[k] \in inT}
<1>1. /\ m \in Nat /\ n \in Nat /\ DOMAIN s = 1..m /\ DOMAIN t = 1..n
      /\ u \in Seq(Lines) /\ Len(u) = m + n /\ DOMAIN u = 1..(m + n)
      /\ \A k \in 1..m : u[k] = s[k]
      /\ \A k \in (m + 1)..(m + n) : u[k] = t[k - m]
  <2>1. m \in Nat /\ n \in Nat /\ DOMAIN s = 1..m /\ DOMAIN t = 1..n
    BY LenProperties
  <2>2. u \in Seq(Lines) /\ Len(u) = m + n
    BY ConcatProperties
  <2>3. \A k \in 1..(m + n) : u[k] = IF k <= m THEN s[k] ELSE t[k - m]
    BY ConcatProperties
  <2>4. DOMAIN u = 1..(m + n)
    BY <2>2, LenProperties
  <2> HIDE DEF m, n, u
  <2> QED
    BY <2>1, <2>2, <2>3, <2>4
<1>2. IsFiniteSet(inS) /\ IsFiniteSet(inT) /\ inT \in SUBSET (1..n)
  BY <1>1, CountTypes
<1> HIDE DEF m, n, u
<1>3. p \in Bijection((m + 1)..(m + n), 1..n)
  <2>1. p \in [(m + 1)..(m + n) -> 1..n] /\ IsInjective(p)
    BY <1>1 DEF IsInjective
  <2>2. \A i \in 1..n : i + m \in (m + 1)..(m + n) /\ p[i + m] = i
    BY <1>1
  <2> QED
    BY <2>1, <2>2 DEF Bijection, Injection, Surjection
<1>4. {k \in DOMAIN u : u[k] \in A} = inS \cup in
  BY <1>1
<1>5. inS \cap in = {}
  BY <1>1
<1>6. IsFiniteSet((m + 1)..(m + n)) /\ in \in SUBSET ((m + 1)..(m + n))
  BY <1>1, FS_Interval
<1> HIDE DEF p, inT
<1>7. Cardinality(in) = Cardinality(inT)
  <2> DEFINE S == (m + 1)..(m + n)  T == 1..n
  <2>1. in = {k \in S : p[k] \in inT}
    OBVIOUS
  <2>2. p \in Bijection(S, T) /\ IsFiniteSet(S) /\ inT \in SUBSET T
    BY <1>2, <1>3, <1>6
  <2> HIDE DEF in, S, T
  <2> QED
    BY <2>1, <2>2, Renamed
<1>8. IsFiniteSet(in)
  BY <1>6, FS_Subset
<1> HIDE DEF in, inS
<1>9. Cardinality(inS \cup in) = Cardinality(inS) + Cardinality(in)
  <2>1. /\ Cardinality(inS \cup in) = Cardinality(inS) + Cardinality(in) - Cardinality(inS \cap in)
        /\ Cardinality(inS \cap in) = 0
    BY <1>2, <1>5, <1>8, FS_Union, FS_EmptySet
  <2>2. Cardinality(inS) \in Nat /\ Cardinality(in) \in Nat
    BY <1>2, <1>8, FS_CardinalityType
  <2> QED
    BY <2>1, <2>2
<1> QED
  BY <1>1, <1>4, <1>7, <1>9 DEF Count, inS, inT, u

\* Two sequences in order that have the same lines do not differ: not where the
\* one has an earlier line than the other...
LEMMA NoEarlierLine ==
  ASSUME NEW s \in Seq(Lines), NEW t \in Seq(Lines), NEW before, StrictOrder(before),
         InOrder(s, before), InOrder(t, before), Len(s) = Len(t),
         \A A \in SUBSET Lines : Count(s, A) = Count(t, A),
         NEW i \in 1..Len(s), <<s[i], t[i]>> \in before
  PROVE  FALSE
<1> DEFINE A   == {a \in Lines : a = s[i] \/ <<a, s[i]>> \in before}
           inS == {k \in DOMAIN s : s[k] \in A}
           inT == {k \in DOMAIN t : t[k] \in A}
<1>1. /\ Len(s) \in Nat /\ i \in Nat /\ DOMAIN s = 1..Len(s) /\ DOMAIN t = 1..Len(s)
      /\ \A k \in 1..Len(s) : s[k] \in Lines /\ t[k] \in Lines
  BY Positions
<1>2. 1..i \subseteq inS
  <2> SUFFICES ASSUME NEW k \in 1..i PROVE k \in 1..Len(s) /\ s[k] \in A
    BY <1>1
  <2>1. k \in 1..Len(s) /\ (k < i \/ k = i)
    BY <1>1
  <2>2. <<s[i], s[k]>> \notin before
    BY <1>1, <2>1 DEF InOrder, StrictOrder
  <2> QED
    BY <1>1, <2>1, <2>2 DEF StrictOrder
<1>3. inT \subseteq 1..(i - 1)
  <2> SUFFICES ASSUME NEW k \in 1..Len(s), t[k] \in A, ~(k < i) PROVE FALSE
    BY <1>1
  <2>1. k = i \/ i < k
    BY <1>1
  <2>2. <<t[k], t[i]>> \in before
    BY <1>1 DEF StrictOrder
  <2> QED
    BY <1>1, <2>1, <2>2 DEF InOrder, StrictOrder
<1>4. Count(s, A) = Count(t, A)
  <2>1. A \in SUBSET Lines
    OBVIOUS
  <2> HIDE DEF A
  <2> QED
    BY <2>1
<1>5. Cardinality(inS) = Cardinality(inT) /\ IsFiniteSet(inS) /\ IsFiniteSet(inT)
  BY <1>4, CountTypes DEF Count
<1> HIDE DEF A, inS, inT
<1>6. i <= Cardinality(inS)
  <2>1. Cardinality(1..i) = i
    BY <1>1, UpTo
  <2> QED
    BY <1>2, <1>5, <2>1, FS_Subset
<1>7. Cardinality(inT) <= i - 1
  <2>1. i - 1 \in Nat
    BY <1>1
  <2>2. IsFiniteSet(1..(i - 1)) /\ Cardinality(1..(i - 1)) = i - 1
    BY <2>1, UpTo
  <2> QED
    BY <1>3, <2>2, FS_Subset
<1>8. Cardinality(inT) \in Nat
  BY <1>5, FS_CardinalityType
<1> QED
  BY <1>1, <1>5, <1>6, <1>7, <1>8

\* ...and so nowhere.
LEMMA OneOrder ==
  ASSUME NEW s \in Seq(Lines), NEW t \in Seq(Lines), NEW before, StrictOrder(before),
         InOrder(s, before), InOrder(t, before),
         \A A \in SUBSET Lines : Count(s, A) = Count(t, A)
  PROVE  s = t
<1>1. Len(s) = Len(t)
  <2>1. Count(s, Lines) = Len(s) /\ Count(t, Lines) = Len(t)
    BY CountTypes
  <2> QED
    BY <2>1
<1>2. ASSUME NEW i \in 1..Len(s), s[i] # t[i] PROVE FALSE
  <2>1. s[i] \in Lines /\ t[i] \in Lines
    BY <1>1, Positions
  <2>2. <<s[i], t[i]>> \in before \/ <<t[i], s[i]>> \in before
    BY <1>2, <2>1 DEF StrictOrder
  <2> QED
    BY <1>1, <2>2, NoEarlierLine
<1> QED
  BY <1>1, <1>2, SeqEqual

----------------------------------------------------------------------------
(* The state.                                                              *)

Written == Output \o buffer

TypeInv ==
  /\ TypeOK
  /\ argc \in {1, 2, 3} /\ control \in Controls
  /\ readable \in SeqOf(Lines, MaxLen)
  /\ IF inplace THEN stdout = << >> ELSE file = << >>
  /\ "open" \in bad => inplace

\* Nothing is written before everything is read.
ReadInv ==
  pc \in {"args", "read"} =>
    /\ next = 1 /\ buffer = << >> /\ bad = {} /\ stdout = << >>
    /\ newsgroups \o unread = readable
    /\ file = IF inplace THEN source ELSE << >>

\* What has been written is in order, and before everything that has not.
MatchInv ==
  pc = "match" =>
    /\ \A A \in SUBSET Lines : Count(Written, A) + Count(newsgroups, A) = Count(readable, A)
    /\ InOrder(Written, Priority)
    /\ \A k \in DOMAIN Written : Rank(Written[k]) < next
    /\ \A k \in DOMAIN newsgroups : Rank(newsgroups[k]) >= next

EndInv ==
  /\ pc = "end" \/ (pc = "exit" /\ argc # 1) => Written = Reference
  /\ pc = "exit" /\ argc = 2 /\ bad = {} => buffer = << >>
  /\ pc = "killed" => (inplace /\ file = source) \/ IsPrefix(Output, Reference)
  /\ "open" \in bad => file = source

IInv == TypeInv /\ ReadInv /\ MatchInv /\ EndInv

LEMMA Texts ==
  ASSUME NEW s
  PROVE  s \in SeqOf(Lines, MaxLen) <=> s \in Seq(Lines) /\ Len(s) <= MaxLen
<1>1. MaxLen \in Nat
  BY PsortAssumption
<1>2. ASSUME s \in SeqOf(Lines, MaxLen) PROVE s \in Seq(Lines) /\ Len(s) <= MaxLen
  <2>1. PICK m \in 0..MaxLen : s \in [1..m -> Lines]
    BY <1>2 DEF SeqOf
  <2>2. s \in Seq(Lines) /\ Len(s) = m
    BY <1>1, <2>1, FunctionIsSeq
  <2> QED
    BY <1>1, <2>1, <2>2
<1>3. ASSUME s \in Seq(Lines), Len(s) <= MaxLen PROVE s \in SeqOf(Lines, MaxLen)
  <2>1. Len(s) \in 0..MaxLen /\ s \in [1..Len(s) -> Lines]
    BY <1>1, <1>3, LenProperties
  <2> QED
    BY <2>1 DEF SeqOf
<1> QED
  BY <1>2, <1>3

LEMMA EmptyText ==
  << >> \in SeqOf(Lines, MaxLen) /\ \A A : Count(<< >>, A) = 0
<1>1. MaxLen \in Nat
  BY PsortAssumption
<1>2. PICK e : e = << >>
  OBVIOUS
<1>3. e \in Seq(Lines) /\ Len(e) = 0 /\ DOMAIN e = {}
  BY <1>2
<1>7. Len(e) <= MaxLen
  BY <1>1, <1>3
<1>4. e \in SeqOf(Lines, MaxLen)
  <2>1. e \in Seq(Lines) /\ Len(e) <= MaxLen
    BY <1>3, <1>7
  <2> QED
    BY <2>1, Texts, Zenon
<1>5. \A A : {i \in DOMAIN e : e[i] \in A} = {}
  BY <1>3
<1>6. \A A : Count(e, A) = 0
  BY <1>5, FS_EmptySet DEF Count
<1> QED
  BY <1>2, <1>4, <1>6

LEMMA Types ==
  ASSUME TypeInv
  PROVE  /\ readable \in Seq(Lines) /\ unread \in Seq(Lines) /\ newsgroups \in Seq(Lines)
         /\ buffer \in Seq(Lines) /\ stdout \in Seq(Lines) /\ file \in Seq(Lines)
         /\ Output \in Seq(Lines) /\ Written \in Seq(Lines)
         /\ Len(readable) <= MaxLen /\ Len(readable) \in Nat /\ MaxLen \in Nat
         /\ control \in Seq(SUBSET Lines) /\ Len(control) \in Nat
         /\ \A k \in 1..Len(control) : control[k] \subseteq Lines
         /\ next \in 1..(Len(control) + 1)
<1>1. /\ readable \in Seq(Lines) /\ unread \in Seq(Lines) /\ newsgroups \in Seq(Lines)
      /\ buffer \in Seq(Lines) /\ stdout \in Seq(Lines) /\ file \in Seq(Lines)
      /\ Len(readable) <= MaxLen
  BY Texts DEF TypeInv, TypeOK
<1>2. Output \in Seq(Lines)
  BY <1>1 DEF Output
<1>3. Written \in Seq(Lines)
  BY <1>1, <1>2, ConcatProperties DEF Written
<1>4. control \in Seq(SUBSET Lines) /\ next \in 1..(Len(control) + 1) /\ MaxLen \in Nat
  BY PsortAssumption DEF TypeInv, TypeOK
<1>5. Len(control) \in Nat /\ \A k \in 1..Len(control) : control[k] \in SUBSET Lines
  BY <1>4, LenProperties, ElementOfSeq
<1> QED
  BY <1>1, <1>2, <1>3, <1>4, <1>5, LenProperties

\* The first pattern that matches, or the number behind the last one.
LEMMA RankIs ==
  ASSUME control \in Seq(SUBSET Lines), NEW a
  PROVE  /\ Rank(a) \in 1..(Len(control) + 1) /\ Len(control) \in Nat
         /\ \A n \in 1..Len(control) : a \in control[n] => Rank(a) <= n
         /\ Rank(a) <= Len(control) => a \in control[Rank(a)]
<1> DEFINE matching == {k \in DOMAIN control : a \in control[k]}
<1>1. Len(control) \in Nat /\ DOMAIN control = 1..Len(control)
  BY LenProperties
<1>2. Rank(a) = IF matching = {} THEN Len(control) + 1
                ELSE CHOOSE k \in matching : \A j \in matching : k <= j
  BY DEF Rank
<1>3. CASE matching = {}
  BY <1>1, <1>2, <1>3
<1>4. CASE matching # {}
  <2>1. matching \in SUBSET Nat
    BY <1>1
  <2> HIDE DEF matching
  <2>2. \E k \in matching : \A j \in matching : k <= j
    BY <1>4, <2>1, Smallest
  <2>3. Rank(a) \in matching /\ \A j \in matching : Rank(a) <= j
    BY <1>2, <1>4, <2>2
  <2> QED
    BY <1>1, <2>3 DEF matching
<1> QED
  BY <1>3, <1>4

LEMMA Orders ==
  ASSUME control \in Seq(SUBSET Lines)
  PROVE  StrictOrder(Alphabetic) /\ StrictOrder(Priority)
<1>1. \A a, b \in Lines : /\ <<a, b>> \in Alphabetic <=> a < b
                          /\ <<a, b>> \in Priority <=>
                               Rank(a) < Rank(b) \/ (Rank(a) = Rank(b) /\ a < b)
  BY DEF Alphabetic, Priority
<1>2. \A a \in Lines : a \in Nat
  BY PsortAssumption
<1>3. \A a \in Lines : Rank(a) \in Nat
  BY RankIs
<1>4. StrictOrder(Alphabetic)
  BY <1>1, <1>2 DEF StrictOrder
<1>5. StrictOrder(Priority)
  BY <1>1, <1>2, <1>3 DEF StrictOrder
<1> QED
  BY <1>4, <1>5

\* Lines of one rank are in order if they are in alphabetical order.
LEMMA SameRank ==
  ASSUME control \in Seq(SUBSET Lines), NEW u \in Seq(Lines), InOrder(u, Alphabetic),
         NEW n, \A k \in DOMAIN u : Rank(u[k]) = n
  PROVE  InOrder(u, Priority)
<1>1. \A k \in DOMAIN u : u[k] \in Lines /\ u[k] \in Nat /\ Rank(u[k]) \in Nat
  <2>1. \A k \in DOMAIN u : u[k] \in Lines
    BY Positions
  <2>2. \A a \in Lines : a \in Nat /\ Rank(a) \in Nat
    <3>1. \A a \in Lines : a \in Nat
      BY PsortAssumption
    <3> QED
      BY <3>1, RankIs
  <2> QED
    BY <2>1, <2>2
<1>2. \A j, k \in DOMAIN u : <<u[k], u[j]>> \in Priority => <<u[k], u[j]>> \in Alphabetic
  BY <1>1 DEF Priority, Alphabetic
<1> QED
  BY <1>2 DEF InOrder

\* Two parts in order, the first of lower rank than the second.
LEMMA InOrderConcat ==
  ASSUME control \in Seq(SUBSET Lines), NEW w \in Seq(Lines), NEW u \in Seq(Lines),
         InOrder(w, Priority), InOrder(u, Priority), NEW n \in Nat,
         \A k \in DOMAIN w : Rank(w[k]) < n, \A k \in DOMAIN u : Rank(u[k]) >= n
  PROVE  InOrder(w \o u, Priority)
<1> DEFINE v == w \o u  m == Len(w)
<1>1. /\ m \in Nat /\ Len(u) \in Nat /\ DOMAIN w = 1..m /\ DOMAIN u = 1..Len(u)
      /\ v \in Seq(Lines) /\ Len(v) = m + Len(u) /\ DOMAIN v = 1..(m + Len(u))
      /\ \A k \in 1..(m + Len(u)) : v[k] = IF k <= m THEN w[k] ELSE u[k - m]
  BY LenProperties, ConcatProperties
<1> HIDE DEF v, m
<1> SUFFICES ASSUME NEW j \in DOMAIN v, NEW k \in DOMAIN v, j < k
             PROVE  <<v[k], v[j]>> \notin Priority
  BY DEF InOrder, v
<1>2. j \in Nat /\ k \in Nat /\ v[j] \in Lines /\ v[k] \in Lines
  BY <1>1, Positions
<1>3. CASE k <= m
  BY <1>1, <1>2, <1>3 DEF InOrder
<1>4. CASE ~(j <= m)
  <2>1. j - m \in DOMAIN u /\ k - m \in DOMAIN u /\ j - m < k - m
    BY <1>1, <1>2, <1>4
  <2>2. v[j] = u[j - m] /\ v[k] = u[k - m]
    BY <1>1, <1>2, <1>4
  <2> QED
    BY <2>1, <2>2 DEF InOrder
<1>5. CASE j <= m /\ ~(k <= m)
  <2>1. j \in DOMAIN w /\ k - m \in DOMAIN u /\ v[j] = w[j] /\ v[k] = u[k - m]
    BY <1>1, <1>2, <1>5
  <2>2. Rank(v[j]) < n /\ Rank(v[k]) >= n
    BY <2>1
  <2>3. Rank(v[j]) \in Nat /\ Rank(v[k]) \in Nat
    BY RankIs
  <2>4. ~(Rank(v[k]) <= Rank(v[j]))
    BY <2>2, <2>3
  <2> QED
    BY <2>3, <2>4 DEF Priority
<1> QED
  BY <1>2, <1>3, <1>4, <1>5

LEMMA ReferenceIs ==
  ASSUME control \in Seq(SUBSET Lines), readable \in Seq(Lines)
  PROVE  /\ Reference \in Seq(Lines) /\ InOrder(Reference, Priority)
         /\ \A A : Count(Reference, A) = Count(readable, A)
         /\ Len(Reference) = Len(readable)
<1>1. /\ Reference \in Seq(Lines) /\ InOrder(Reference, Priority)
      /\ \A A : Count(Reference, A) = Count(readable, A)
  BY Orders, SortedIs DEF Reference
<1>2. Len(Reference) = Len(readable)
  BY <1>1, CountTypes
<1> QED
  BY <1>1, <1>2

LEMMA PrefixOfConcat ==
  ASSUME NEW u \in Seq(Lines), NEW v \in Seq(Lines)
  PROVE  IsPrefix(u, u \o v)
<1>1. /\ Len(u) \in Nat /\ Len(v) \in Nat /\ u \o v \in Seq(Lines)
      /\ Len(u \o v) = Len(u) + Len(v) /\ \A k \in 1..Len(u) : (u \o v)[k] = u[k]
  BY LenProperties, ConcatProperties
<1>2. SubSeq(u, 1, Len(u)) = SubSeq(u \o v, 1, Len(u))
  BY <1>1
<1> QED
  BY <1>1, <1>2 DEF IsPrefix

----------------------------------------------------------------------------
(* The passes.                                                             *)

\* Where lines go, and where they do not.
LEMMA PutIs ==
  ASSUME TypeInv, NEW l \in Seq(Lines), Put(l), UNCHANGED <<given, bad>>, "open" \notin bad
  PROVE  /\ Output' = Output \o l /\ Output' \in Seq(Lines)
         /\ stdout' \in Seq(Lines) /\ file' \in Seq(Lines)
         /\ Len(stdout') <= Len(Output') /\ Len(file') <= Len(Output')
         /\ IF inplace THEN stdout' = << >> ELSE file' = << >>
<1>1. /\ stdout \in Seq(Lines) /\ file \in Seq(Lines)
      /\ (inplace => stdout = << >>) /\ (~inplace => file = << >>)
  BY Types DEF TypeInv
<1>2. /\ stdout \o l \in Seq(Lines) /\ file \o l \in Seq(Lines)
      /\ Len(stdout \o l) \in Nat /\ Len(file \o l) \in Nat
  BY <1>1, ConcatProperties, LenProperties
<1>3. Len(<< >>) = 0 /\ << >> \in Seq(Lines)
  OBVIOUS
<1>4. CASE inplace
  <2>1. /\ file' = file \o l /\ stdout' = stdout /\ stdout = << >>
        /\ Output = file /\ Output' = file'
    BY <1>1, <1>4 DEF Put, Output, inplace, given
  <2> QED
    BY <1>2, <1>3, <1>4, <2>1
<1>5. CASE ~inplace
  <2>1. /\ stdout' = stdout \o l /\ file' = file /\ file = << >>
        /\ Output = stdout /\ Output' = stdout'
    BY <1>1, <1>5 DEF Put, Output, inplace, given
  <2> QED
    BY <1>2, <1>3, <1>5, <2>1
<1> QED
  BY <1>4, <1>5

\* The parts of a sequence that is being written are not longer than the input.
LEMMA PartsFit ==
  ASSUME TypeInv, MatchInv, pc = "match"
  PROVE  Len(Written) + Len(newsgroups) = Len(readable)
<1>1. Count(Written, Lines) + Count(newsgroups, Lines) = Count(readable, Lines)
  BY DEF MatchInv
<1>2. /\ Count(Written, Lines) = Len(Written) /\ Count(newsgroups, Lines) = Len(newsgroups)
      /\ Count(readable, Lines) = Len(readable)
  BY Types, CountTypes
<1> QED
  BY <1>1, <1>2

LEMMA WrittenLen ==
  ASSUME TypeInv
  PROVE  /\ Len(Written) = Len(Output) + Len(buffer)
         /\ Len(Output) \in Nat /\ Len(buffer) \in Nat /\ Len(newsgroups) \in Nat
         /\ Len(stdout) \in Nat /\ Len(file) \in Nat
BY Types, ConcatProperties, LenProperties DEF Written

\* With the rest in order behind it, what has been written is the result.
LEMMA Completes ==
  ASSUME TypeInv, MatchInv, pc = "match"
  PROVE  Written \o Sorted(newsgroups, Priority) = Reference
<1> DEFINE u == Sorted(newsgroups, Priority)
<1>1. /\ control \in Seq(SUBSET Lines) /\ readable \in Seq(Lines)
      /\ Written \in Seq(Lines) /\ newsgroups \in Seq(Lines) /\ next \in Nat
  BY Types
<1>2. StrictOrder(Priority)
  BY <1>1, Orders
<1>3. /\ u \in Seq(Lines) /\ InOrder(u, Priority)
      /\ \A A : Count(u, A) = Count(newsgroups, A)
  BY <1>1, <1>2, SortedIs
<1> HIDE DEF u
<1>4. ASSUME NEW k \in DOMAIN u PROVE Rank(u[k]) >= next
  <2>1. Count(u, {u[k]}) > 0
    BY <1>3, CountTypes
  <2>2. Count(newsgroups, {u[k]}) > 0
    BY <1>3, <2>1
  <2>3. PICK j \in DOMAIN newsgroups : newsgroups[j] \in {u[k]}
    BY <1>1, <2>2, CountTypes
  <2> QED
    BY <2>3 DEF MatchInv
<1>5. InOrder(Written \o u, Priority)
  BY <1>1, <1>3, <1>4, InOrderConcat DEF MatchInv
<1>6. Written \o u \in Seq(Lines)
  BY <1>1, <1>3, ConcatProperties
<1>7. ASSUME NEW A \in SUBSET Lines PROVE Count(Written \o u, A) = Count(Reference, A)
  <2>1. Count(Written \o u, A) = Count(Written, A) + Count(u, A)
    BY <1>1, <1>3, CountConcat
  <2>2. Count(Reference, A) = Count(readable, A) /\ Count(u, A) = Count(newsgroups, A)
    BY <1>1, <1>3, ReferenceIs
  <2> QED
    BY <2>1, <2>2 DEF MatchInv
<1>8. Written \o u = Reference
  BY <1>1, <1>2, <1>5, <1>6, <1>7, ReferenceIs, OneOrder
<1> QED
  BY <1>8 DEF u

\* What is out is a part of the result.
LEMMA OutputIsPrefix ==
  ASSUME TypeInv, MatchInv, EndInv, pc \in {"match", "end"} \/ (pc = "exit" /\ argc # 1)
  PROVE  IsPrefix(Output, Reference)
<1>1. /\ Output \in Seq(Lines) /\ buffer \in Seq(Lines) /\ Written = Output \o buffer
      /\ control \in Seq(SUBSET Lines) /\ newsgroups \in Seq(Lines)
  BY Types DEF Written
<1>2. CASE pc = "match"
  <2> DEFINE u == Sorted(newsgroups, Priority)
  <2>1. u \in Seq(Lines)
    BY <1>1, Orders, SortedIs
  <2>2. (Output \o buffer) \o u = Reference
    BY <1>1, <1>2, Completes
  <2> HIDE DEF u
  <2>3. buffer \o u \in Seq(Lines)
    BY <1>1, <2>1, ConcatProperties
  <2>4. (Output \o buffer) \o u = Output \o (buffer \o u)
    BY <1>1, <2>1, Regrouped, Zenon
  <2> QED
    BY <1>1, <2>2, <2>3, <2>4, PrefixOfConcat
<1>3. CASE pc = "end" \/ (pc = "exit" /\ argc # 1)
  <2>1. Output \o buffer = Reference
    BY <1>1, <1>3 DEF EndInv
  <2> QED
    BY <1>1, <2>1, PrefixOfConcat
<1> QED
  BY <1>2, <1>3

----------------------------------------------------------------------------
(* The steps.                                                              *)

\* What the properties speak of, and what stays.
Same == UNCHANGED <<given, bad>>

LEMMA SameReference ==
  ASSUME UNCHANGED given
  PROVE  /\ Reference' = Reference /\ Priority' = Priority /\ inplace' = inplace
         /\ \A a : Rank(a)' = Rank(a)
<1>1. \A a : Rank(a)' = Rank(a)
  BY DEF given, Rank
<1>2. Priority' = Priority
  BY <1>1 DEF Priority
<1> QED
  BY <1>1, <1>2 DEF given, Reference, inplace

LEMMA InitInv == Init => IInv
<1> SUFFICES ASSUME Init PROVE IInv
  OBVIOUS
<1>1. control \in Seq(SUBSET Lines) /\ Len(control) \in Nat /\ MaxLen \in Nat
  BY PsortAssumption, LenProperties DEF Init
<1>2. /\ source \in SeqOf(Lines, MaxLen) /\ << >> \in SeqOf(Lines, MaxLen)
      /\ readable \in Seq(Lines) /\ readable \in SeqOf(Lines, MaxLen)
  <2>1. source \in SeqOf(Lines, MaxLen)
    BY DEF Init
  <2>2. source \in Seq(Lines) /\ Len(source) <= MaxLen /\ Len(source) \in Nat
    BY <2>1, Texts, LenProperties
  <2>3. readable = source \/ \E n \in 0..Len(source) : readable = SubSeq(source, 1, n)
    BY DEF Init
  <2>4. CASE readable = source
    BY <2>1, <2>2, <2>4, EmptyText
  <2>5. ASSUME NEW n \in 0..Len(source), readable = SubSeq(source, 1, n)
        PROVE  readable \in Seq(Lines) /\ Len(readable) <= MaxLen
    <3>1. \A k \in 1..Len(source) : source[k] \in Lines
      BY <2>2, ElementOfSeq
    <3>2. SubSeq(source, 1, n) \in Seq(Lines) /\ Len(SubSeq(source, 1, n)) = n
      BY <2>2, <3>1, SubSeqProperties
    <3> QED
      BY <1>1, <2>2, <2>5, <3>2
  <2> QED
    BY <2>1, <2>3, <2>4, <2>5, Texts, EmptyText
<1>3. TypeInv
  BY <1>1, <1>2 DEF Init, TypeInv, TypeOK, inplace
<1>4. ReadInv
  BY <1>2, ConcatEmptySeq DEF Init, ReadInv
<1> QED
  BY <1>3, <1>4 DEF Init, IInv, MatchInv, EndInv

LEMMA UsageStep == IInv /\ Usage => IInv'
<1> SUFFICES ASSUME IInv, Usage PROVE IInv'
  OBVIOUS
<1>1. TypeInv' /\ argc' = 1 /\ pc' = "exit"
  BY DEF IInv, TypeInv, TypeOK, Usage, Goto, inplace, given
<1> QED
  <2>1. "open" \notin bad'
    BY DEF IInv, ReadInv, Usage, Goto
  <2> QED
    BY <1>1, <2>1 DEF IInv, ReadInv, MatchInv, EndInv

LEMMA OpenInputStep == IInv /\ OpenInput => IInv'
<1> SUFFICES ASSUME IInv, OpenInput PROVE IInv'
  OBVIOUS
<1>1. TypeInv'
  BY DEF IInv, TypeInv, TypeOK, OpenInput, Goto, given, inplace
<1>2. ReadInv'
  BY DEF IInv, ReadInv, OpenInput, Goto, given, inplace
<1> QED
  BY <1>1, <1>2 DEF IInv, OpenInput, Goto, given, MatchInv, EndInv

LEMMA ReadLineStep == IInv /\ ReadLine => IInv'
<1> SUFFICES ASSUME IInv, ReadLine PROVE IInv'
  OBVIOUS
<1>1. TypeInv /\ pc = "read" /\ newsgroups \o unread = readable /\ unread # << >>
  BY DEF IInv, ReadInv, ReadLine, Goto, given
<1>2. newsgroups \in Seq(Lines) /\ unread \in Seq(Lines) /\ readable \in Seq(Lines)
  BY <1>1, Types
<1>3. newsgroups' = Append(newsgroups, Head(unread)) /\ unread' = Tail(unread)
  BY DEF ReadLine
<1>4. /\ Head(unread) \in Lines /\ unread' \in Seq(Lines) /\ unread = <<Head(unread)>> \o unread'
  BY <1>1, <1>2, <1>3, HeadTailProperties
<1>5. newsgroups' \in Seq(Lines) /\ newsgroups' = newsgroups \o <<Head(unread)>>
  BY <1>2, <1>3, <1>4, AppendProperties, AppendIsConcat
<1>6. newsgroups' \o unread' = readable
  <2>1. <<Head(unread)>> \in Seq(Lines)
    BY <1>4
  <2>2. (newsgroups \o <<Head(unread)>>) \o unread' = newsgroups \o (<<Head(unread)>> \o unread')
    BY <1>2, <1>4, <2>1, Regrouped, Zenon
  <2> QED
    BY <1>1, <1>4, <1>5, <2>2
<1>7. newsgroups' \in SeqOf(Lines, MaxLen) /\ unread' \in SeqOf(Lines, MaxLen)
  <2>1. /\ Len(newsgroups') + Len(unread') = Len(readable) /\ Len(readable) <= MaxLen
        /\ Len(newsgroups') \in Nat /\ Len(unread') \in Nat /\ Len(readable) \in Nat
        /\ MaxLen \in Nat
    BY <1>1, <1>4, <1>5, <1>6, ConcatProperties, LenProperties, Types
  <2>2. Len(newsgroups') <= MaxLen /\ Len(unread') <= MaxLen
    BY <2>1
  <2> QED
    BY <1>4, <1>5, <2>2, Texts
<1>8. TypeInv'
  BY <1>1, <1>7 DEF TypeInv, TypeOK, ReadLine, Goto, given, inplace
<1>9. ReadInv'
  BY <1>1, <1>6 DEF IInv, ReadInv, ReadLine, Goto, given, inplace
<1> QED
  BY <1>8, <1>9 DEF IInv, ReadLine, Goto, given, MatchInv, EndInv

LEMMA OpenOutputStep == IInv /\ OpenOutput => IInv'
<1> SUFFICES ASSUME IInv, OpenOutput PROVE IInv'
  OBVIOUS
<1>1. /\ TypeInv /\ pc = "read" /\ next = 1 /\ buffer = << >> /\ bad = {} /\ stdout = << >>
      /\ newsgroups \o unread = readable /\ unread = << >>
      /\ file = IF inplace THEN source ELSE << >>
      /\ UNCHANGED <<given, next, unread, newsgroups, buffer, stdout>>
  BY DEF IInv, ReadInv, OpenOutput, Goto
<1>2. newsgroups = readable /\ readable \in Seq(Lines) /\ control \in Seq(SUBSET Lines)
  BY <1>1, Types, ConcatEmptySeq
<1>3. << >> \in SeqOf(Lines, MaxLen) /\ inplace' = inplace
  BY <1>1, EmptyText DEF given, inplace
<1>4. \/ bad' = {} /\ file' = << >>
      \/ bad' = {"open"} /\ inplace /\ file' = source /\ file' = file
  BY <1>1 DEF OpenOutput
<1>5. TypeInv'
  <2>1. file' \in SeqOf(Lines, MaxLen) /\ bad' \in {{}, {"open"}, {"write"}}
    BY <1>1, <1>3, <1>4 DEF TypeInv, TypeOK
  <2>2. (inplace => stdout = << >>) /\ (~inplace => file' = << >>) /\ ("open" \in bad' => inplace)
    BY <1>1, <1>4
  <2>3. /\ argc' \in {1, 2, 3} /\ control' \in Controls /\ readable' \in SeqOf(Lines, MaxLen)
        /\ next' \in 1..(Len(control') + 1)
        /\ \A s \in {unread', newsgroups', buffer', stdout'} : s \in SeqOf(Lines, MaxLen)
    BY <1>1 DEF given, TypeInv, TypeOK
  <2>4. pc' = "match"
    BY DEF OpenOutput, Goto
  <2> QED
    BY <1>1, <1>3, <2>1, <2>2, <2>3, <2>4 DEF TypeInv, TypeOK
<1>6. /\ Written' = << >> /\ newsgroups' = readable
      /\ readable' = readable /\ control' = control /\ next' = 1
  <2>1. Output' = << >>
    BY <1>1, <1>4 DEF Output
  <2> QED
    BY <1>1, <1>2, <2>1 DEF Written, given
<1>7. MatchInv'
  <2>1. \A A : Count(<< >>, A) = 0
    BY EmptyText
  <2>2. \A A : Count(readable, A) \in Nat
    BY <1>2, CountTypes
  <2>3. \A k \in DOMAIN readable : Rank(readable[k])' >= 1
    <3>1. \A a : Rank(a)' = Rank(a)
      BY <1>6 DEF Rank
    <3> QED
      BY <1>2, <1>6, <3>1, RankIs
  <2> QED
    BY <1>6, <2>1, <2>2, <2>3 DEF MatchInv, InOrder
<1>8. "open" \in bad' => file' = source'
  BY <1>1, <1>4 DEF given
<1> QED
  BY <1>5, <1>7, <1>8 DEF IInv, OpenOutput, Goto, ReadInv, EndInv

\* A pass of n moves the lines u behind what has been written.
LEMMA PassStep ==
  ASSUME TypeInv, MatchInv, pc = "match", Same, NEW u \in Seq(Lines), NEW r \in Seq(Lines),
         UNCHANGED <<stdout, file>>, buffer' = buffer \o u,
         InOrder(u, Alphabetic), \A k \in DOMAIN u : Rank(u[k]) = next,
         \A A \in SUBSET Lines : Count(u, A) + Count(r, A) = Count(newsgroups, A)
  PROVE  /\ Written' = Written \o u /\ Written' \in Seq(Lines) /\ InOrder(Written', Priority')
         /\ \A k \in DOMAIN Written' : Rank(Written'[k]) <= next
         /\ \A A \in SUBSET Lines : Count(Written', A) + Count(r, A) = Count(readable, A)
<1>1. /\ control \in Seq(SUBSET Lines) /\ Written \in Seq(Lines) /\ newsgroups \in Seq(Lines)
      /\ Output \in Seq(Lines) /\ buffer \in Seq(Lines) /\ readable \in Seq(Lines)
      /\ next \in Nat
  BY Types
<1>2. Written' = Written \o u
  <2>1. Output' = Output
    BY DEF Output, Same, given, inplace
  <2>2. Written' = Output \o (buffer \o u)
    BY <2>1 DEF Written
  <2>3. (Output \o buffer) \o u = Output \o (buffer \o u)
    <3>1. Output \in Seq(Lines) /\ buffer \in Seq(Lines) /\ u \in Seq(Lines)
      BY <1>1
    <3> QED
      BY <3>1, Regrouped, Zenon
  <2> QED
    BY <2>2, <2>3 DEF Written
<1>3. Written \o u \in Seq(Lines)
  BY <1>1, ConcatProperties
<1>4. InOrder(Written \o u, Priority)
  <2>1. InOrder(u, Priority)
    BY <1>1, SameRank
  <2>2. \A k \in DOMAIN u : Rank(u[k]) >= next
    BY <1>1
  <2> QED
    BY <1>1, <2>1, <2>2, InOrderConcat DEF MatchInv
<1>5. ASSUME NEW k \in DOMAIN (Written \o u) PROVE Rank((Written \o u)[k]) <= next
  <2>1. /\ Len(Written) \in Nat /\ Len(u) \in Nat
        /\ DOMAIN Written = 1..Len(Written) /\ DOMAIN u = 1..Len(u)
        /\ k \in 1..(Len(Written) + Len(u))
        /\ (Written \o u)[k] = IF k <= Len(Written) THEN Written[k] ELSE u[k - Len(Written)]
    BY <1>1, <1>3, LenProperties, ConcatProperties
  <2>2. Rank((Written \o u)[k]) < next \/ Rank((Written \o u)[k]) = next
    <3>1. CASE k <= Len(Written)
      BY <2>1, <3>1 DEF MatchInv
    <3>2. CASE ~(k <= Len(Written))
      <4>1. k - Len(Written) \in DOMAIN u
        BY <2>1, <3>2
      <4> QED
        BY <2>1, <3>2, <4>1
    <3> QED
      BY <3>1, <3>2
  <2>3. Rank((Written \o u)[k]) \in Nat
    BY <1>1, RankIs
  <2> QED
    BY <1>1, <2>2, <2>3
<1>6. ASSUME NEW A \in SUBSET Lines PROVE Count(Written \o u, A) + Count(r, A) = Count(readable, A)
  <2>1. Count(Written \o u, A) = Count(Written, A) + Count(u, A)
    BY <1>1, CountConcat
  <2>2. Count(Written, A) + Count(newsgroups, A) = Count(readable, A)
    BY DEF MatchInv
  <2>3. Count(Written, A) \in Nat /\ Count(u, A) \in Nat /\ Count(r, A) \in Nat
    BY <1>1, CountTypes
  <2> QED
    BY <2>1, <2>2, <2>3
<1> QED
  BY <1>2, <1>3, <1>4, <1>5, <1>6, SameReference DEF Same

\* The lines in P and those that are not make up all of them.
LEMMA CountSplit ==
  ASSUME NEW s \in Seq(Lines), NEW P, NEW A \in SUBSET Lines
  PROVE  Count(s, A \cap P) + Count(s, A \cap (Lines \ P)) = Count(s, A)
<1> DEFINE inP  == {i \in DOMAIN s : s[i] \in A \cap P}
           notP == {i \in DOMAIN s : s[i] \in A \cap (Lines \ P)}
<1>1. IsFiniteSet(inP) /\ IsFiniteSet(notP)
  BY CountTypes
<1>2. {i \in DOMAIN s : s[i] \in A} = inP \cup notP /\ inP \cap notP = {}
  OBVIOUS
<1>3. /\ Count(s, A \cap P) = Cardinality(inP)
      /\ Count(s, A \cap (Lines \ P)) = Cardinality(notP)
      /\ Count(s, A) = Cardinality(inP \cup notP)
  BY <1>2 DEF Count
<1> HIDE DEF inP, notP
<1>4. /\ Cardinality(inP \cup notP)
           = Cardinality(inP) + Cardinality(notP) - Cardinality(inP \cap notP)
      /\ Cardinality(inP \cap notP) = 0
  BY <1>1, <1>2, FS_Union, FS_EmptySet
<1>5. Cardinality(inP) \in Nat /\ Cardinality(notP) \in Nat
  BY <1>1, FS_CardinalityType
<1> QED
  BY <1>3, <1>4, <1>5

\* The elements of a sequence that has lines of s only are lines of s.
LEMMA LineOf ==
  ASSUME NEW s \in Seq(Lines), NEW t \in Seq(Lines), NEW P,
         \A A : Count(t, A) = Count(s, A \cap P), NEW k \in DOMAIN t
  PROVE  \E j \in DOMAIN s : s[j] = t[k] /\ t[k] \in P
<1>1. Count(t, {t[k]}) > 0
  BY CountTypes
<1>2. Count(s, {t[k]} \cap P) > 0
  BY <1>1
<1>3. PICK j \in DOMAIN s : s[j] \in {t[k]} \cap P
  BY <1>2, CountTypes
<1> QED
  BY <1>3

\* After a pass nothing is longer than the input.
LEMMA PassFits ==
  ASSUME TypeInv, MatchInv, pc = "match", Same, NEW u \in Seq(Lines), NEW r \in Seq(Lines),
         UNCHANGED <<stdout, file>>, buffer' = buffer \o u,
         Written' = Written \o u,
         \A A \in SUBSET Lines : Count(Written', A) + Count(r, A) = Count(readable, A)
  PROVE  buffer' \in SeqOf(Lines, MaxLen) /\ r \in SeqOf(Lines, MaxLen)
<1>1. /\ Written \in Seq(Lines) /\ buffer \in Seq(Lines) /\ readable \in Seq(Lines)
      /\ Len(readable) <= MaxLen /\ Len(readable) \in Nat /\ MaxLen \in Nat
  BY Types
<1>2. /\ Written \o u \in Seq(Lines) /\ Len(Written \o u) = Len(Written) + Len(u)
      /\ buffer \o u \in Seq(Lines) /\ Len(buffer \o u) = Len(buffer) + Len(u)
      /\ Len(u) \in Nat /\ Len(r) \in Nat
  BY <1>1, ConcatProperties, LenProperties
<1>3. Len(Written \o u) + Len(r) = Len(readable)
  <2>1. Count(Written \o u, Lines) + Count(r, Lines) = Count(readable, Lines)
    OBVIOUS
  <2>2. /\ Count(Written \o u, Lines) = Len(Written \o u)
        /\ Count(r, Lines) = Len(r) /\ Count(readable, Lines) = Len(readable)
    BY <1>1, <1>2, CountTypes
  <2> QED
    BY <2>1, <2>2
<1>4. /\ Len(Written) = Len(Output) + Len(buffer) /\ Len(Output) \in Nat
      /\ Len(buffer) \in Nat
  BY WrittenLen
<1>5. Len(buffer \o u) <= MaxLen /\ Len(r) <= MaxLen
  BY <1>1, <1>2, <1>3, <1>4
<1> QED
  BY <1>2, <1>5, Texts

LEMMA MatchStep == IInv /\ Match => IInv'
<1> SUFFICES ASSUME IInv, Match PROVE IInv'
  OBVIOUS
<1> DEFINE P == control[next]
           t == Taken(newsgroups, P)
           r == Taken(newsgroups, Lines \ P)
           u == SortLines(t)
<1>1. /\ TypeInv /\ MatchInv /\ pc = "match" /\ pc' = "match" /\ Same
      /\ next <= Len(control) /\ next' = next + 1 /\ UNCHANGED <<unread, stdout, file>>
  BY DEF IInv, Match, Goto, Same, given
<1>2. newsgroups' = r /\ buffer' = buffer \o u
  BY DEF Match
<1>3. /\ control \in Seq(SUBSET Lines) /\ newsgroups \in Seq(Lines)
      /\ next \in 1..Len(control) /\ next \in Nat /\ Len(control) \in Nat
  <2>1. /\ control \in Seq(SUBSET Lines) /\ newsgroups \in Seq(Lines)
        /\ next \in 1..(Len(control) + 1) /\ Len(control) \in Nat
    BY <1>1, Types
  <2> QED
    BY <1>1, <2>1
<1> HIDE DEF P
<1>4. /\ t \in Seq(Lines) /\ \A A : Count(t, A) = Count(newsgroups, A \cap P)
      /\ r \in Seq(Lines) /\ \A A : Count(r, A) = Count(newsgroups, A \cap (Lines \ P))
  BY <1>3, TakenIs
<1> HIDE DEF t, r
<1>5. /\ u \in Seq(Lines) /\ InOrder(u, Alphabetic)
      /\ \A A : Count(u, A) = Count(t, A)
  BY <1>3, <1>4, Orders, SortedIs DEF SortLines
<1> HIDE DEF u
<1>6. ASSUME NEW a \in Lines, Rank(a) >= next
      PROVE  IF a \in P THEN Rank(a) = next ELSE Rank(a) >= next + 1
  <2>1. /\ Rank(a) \in 1..(Len(control) + 1) /\ (a \in P => Rank(a) <= next)
        /\ (Rank(a) <= Len(control) => a \in control[Rank(a)])
    BY <1>3, RankIs DEF P
  <2>2. Rank(a) = next => a \in P
    BY <1>1, <2>1 DEF P
  <2> QED
    BY <1>3, <1>6, <2>1, <2>2
<1>7. \A j \in DOMAIN newsgroups : newsgroups[j] \in Lines /\ Rank(newsgroups[j]) >= next
  BY <1>1, <1>3, Positions DEF MatchInv
<1>8. ASSUME NEW k \in DOMAIN u PROVE Rank(u[k]) = next
  <2>1. \A A : Count(u, A) = Count(newsgroups, A \cap P)
    BY <1>4, <1>5
  <2>2. PICK j \in DOMAIN newsgroups : newsgroups[j] = u[k] /\ u[k] \in P
    BY <1>3, <1>5, <2>1, LineOf
  <2> QED
    BY <1>6, <1>7, <2>2
<1>9. ASSUME NEW k \in DOMAIN r PROVE Rank(r[k]) >= next + 1
  <2>1. PICK j \in DOMAIN newsgroups : newsgroups[j] = r[k] /\ r[k] \in Lines \ P
    BY <1>3, <1>4, LineOf
  <2> QED
    BY <1>6, <1>7, <2>1
<1>10. ASSUME NEW A \in SUBSET Lines PROVE Count(u, A) + Count(r, A) = Count(newsgroups, A)
  <2>1. Count(newsgroups, A \cap P) + Count(newsgroups, A \cap (Lines \ P)) = Count(newsgroups, A)
    BY <1>3, CountSplit
  <2>2. /\ Count(u, A) = Count(newsgroups, A \cap P)
        /\ Count(r, A) = Count(newsgroups, A \cap (Lines \ P))
    BY <1>4, <1>5
  <2> QED
    BY <2>1, <2>2
<1>11. /\ Written' = Written \o u /\ Written' \in Seq(Lines) /\ InOrder(Written', Priority')
       /\ \A k \in DOMAIN Written' : Rank(Written'[k]) <= next
       /\ \A A \in SUBSET Lines : Count(Written', A) + Count(r, A) = Count(readable, A)
  BY <1>1, <1>2, <1>4, <1>5, <1>8, <1>10, PassStep
<1>12. buffer' \in SeqOf(Lines, MaxLen) /\ newsgroups' \in SeqOf(Lines, MaxLen)
  BY <1>1, <1>2, <1>4, <1>5, <1>11, PassFits
<1>13. TypeInv'
  <2>1. next' \in 1..(Len(control') + 1)
    BY <1>1, <1>3 DEF Same, given
  <2> QED
    BY <1>1, <1>12, <2>1 DEF TypeInv, TypeOK, Same, given, inplace
<1>14. MatchInv'
  <2>1. \A a : Rank(a)' = Rank(a)
    BY <1>1, SameReference DEF Same
  <2>2. \A k \in DOMAIN Written' : Rank(Written[k])' < next'
    <3> TAKE k \in DOMAIN Written'
    <3>1. Rank(Written'[k]) <= next /\ Rank(Written'[k]) \in Nat
      BY <1>3, <1>11, RankIs
    <3>2. Rank(Written'[k]) < next'
      BY <1>1, <1>3, <3>1
    <3> QED
      BY <1>1, <3>2 DEF Same, given, Rank
  <2>3. \A k \in DOMAIN newsgroups' : Rank(newsgroups[k])' >= next'
    <3> TAKE k \in DOMAIN newsgroups'
    <3>1. Rank(newsgroups'[k]) >= next'
      BY <1>1, <1>2, <1>9
    <3> QED
      BY <1>1, <3>1 DEF Same, given, Rank
  <2> QED
    BY <1>1, <1>2, <1>11, <2>2, <2>3 DEF MatchInv, Same, given
<1> QED
  BY <1>1, <1>13, <1>14 DEF IInv, ReadInv, EndInv, Same, given

LEMMA RestStep == IInv /\ Rest => IInv'
<1> SUFFICES ASSUME IInv, Rest PROVE IInv'
  OBVIOUS
<1> DEFINE u == SortLines(newsgroups)
<1>1. /\ TypeInv /\ MatchInv /\ pc = "match" /\ pc' = "end" /\ Same
      /\ next > Len(control) /\ UNCHANGED <<next, unread, stdout, file>>
      /\ newsgroups' = u /\ buffer' = buffer \o u
  BY DEF IInv, Rest, Goto, Same, given
<1>2. /\ control \in Seq(SUBSET Lines) /\ newsgroups \in Seq(Lines) /\ readable \in Seq(Lines)
      /\ next \in 1..(Len(control) + 1) /\ next \in Nat /\ Len(control) \in Nat
  BY <1>1, Types
<1>3. /\ u \in Seq(Lines) /\ InOrder(u, Alphabetic)
      /\ \A A : Count(u, A) = Count(newsgroups, A)
  BY <1>2, Orders, SortedIs DEF SortLines
<1> HIDE DEF u
<1>4. ASSUME NEW k \in DOMAIN u PROVE Rank(u[k]) = next
  <2>1. \A A : Count(u, A) = Count(newsgroups, A \cap Lines)
    <3>1. ASSUME NEW A PROVE Count(newsgroups, A) = Count(newsgroups, A \cap Lines)
      <4>1. \A j \in DOMAIN newsgroups : newsgroups[j] \in Lines
        BY <1>2, Positions
      <4>2. {i \in DOMAIN newsgroups : newsgroups[i] \in A}
              = {i \in DOMAIN newsgroups : newsgroups[i] \in A \cap Lines}
        BY <4>1
      <4> QED
        BY <4>2 DEF Count
    <3> QED
      BY <1>3, <3>1
  <2>2. PICK j \in DOMAIN newsgroups : newsgroups[j] = u[k] /\ u[k] \in Lines
    BY <1>2, <1>3, <2>1, LineOf
  <2>3. Rank(u[k]) >= next
    BY <1>1, <2>2 DEF MatchInv
  <2>4. Rank(u[k]) \in 1..(Len(control) + 1)
    BY <1>2, RankIs
  <2> QED
    BY <1>1, <1>2, <2>3, <2>4
<1>5. PICK e : e = << >>
  OBVIOUS
<1>6. e \in Seq(Lines) /\ \A A : Count(e, A) = 0
  BY <1>5, EmptyText, Texts, Zenon
<1>7. \A A : Count(u, A) \in Nat /\ Count(u, A) + Count(e, A) = Count(newsgroups, A)
  <2>1. \A A : Count(u, A) \in Nat
    BY <1>3, CountTypes
  <2> QED
    BY <1>3, <1>6, <2>1
<1>8. /\ Written' = Written \o u /\ Written' \in Seq(Lines) /\ InOrder(Written', Priority')
      /\ \A A \in SUBSET Lines : Count(Written', A) + Count(e, A) = Count(readable, A)
  BY <1>1, <1>3, <1>4, <1>6, <1>7, PassStep
<1>9. Written' = Reference'
  <2>1. Priority' = Priority /\ Reference' = Reference
    BY <1>1, SameReference DEF Same
  <2>2. \A A \in SUBSET Lines : Count(Written', A) = Count(Reference, A)
    <3> TAKE A \in SUBSET Lines
    <3>1. Count(Written', A) + Count(e, A) = Count(readable, A) /\ Count(e, A) = 0
      BY <1>6, <1>8
    <3>2. Count(Written', A) \in Nat /\ Count(readable, A) = Count(Reference, A)
      BY <1>2, <1>8, CountTypes, ReferenceIs
    <3> QED
      BY <3>1, <3>2
  <2>3. /\ StrictOrder(Priority) /\ Reference \in Seq(Lines)
        /\ InOrder(Reference, Priority) /\ InOrder(Written', Priority)
    BY <1>2, <1>8, <2>1, Orders, ReferenceIs
  <2>4. Written' = Reference
    BY <1>8, <2>2, <2>3, OneOrder
  <2> QED
    BY <2>1, <2>4
<1>10. buffer' \in SeqOf(Lines, MaxLen)
  BY <1>1, <1>3, <1>6, <1>8, PassFits
<1>11. newsgroups' \in SeqOf(Lines, MaxLen)
  <2>1. Len(u) = Len(newsgroups)
    BY <1>2, <1>3, CountTypes
  <2>2. Len(newsgroups) <= MaxLen
    BY <1>1, Texts DEF TypeInv, TypeOK
  <2> QED
    BY <1>1, <1>3, <2>1, <2>2, Texts
<1>12. TypeInv'
  BY <1>1, <1>10, <1>11 DEF TypeInv, TypeOK, Same, given, inplace
<1> QED
  BY <1>1, <1>9, <1>12 DEF IInv, ReadInv, MatchInv, EndInv, Same, given

\* What is out and what is in the buffer come to the same after a write.
LEMMA WriteIs ==
  ASSUME TypeInv, NEW n \in 0..Len(buffer), Write(n), Same, "open" \notin bad
  PROVE  /\ Written' = Written /\ Output' \in Seq(Lines) /\ buffer' \in Seq(Lines)
         /\ stdout' \in Seq(Lines) /\ file' \in Seq(Lines)
         /\ Len(stdout') <= Len(Output') /\ Len(file') <= Len(Output')
         /\ IF inplace THEN stdout' = << >> ELSE file' = << >>
<1>2. /\ buffer \in Seq(Lines) /\ Output \in Seq(Lines) /\ Len(buffer) \in Nat
      /\ UNCHANGED <<given, bad>>
  BY Types, LenProperties DEF Same
<1> DEFINE l == SubSeq(buffer, 1, n)  m == SubSeq(buffer, n + 1, Len(buffer))
<1>3. l \in Seq(Lines) /\ m \in Seq(Lines)
  <2>1. \A i \in 1..Len(buffer) : buffer[i] \in Lines
    BY <1>2, ElementOfSeq
  <2> QED
    BY <1>2, <2>1, SubSeqProperties
<1>4. l \o m = buffer
  <2>1. /\ 1 \in 1..(Len(buffer) + 1) /\ n \in (1 - 1)..Len(buffer)
        /\ Len(buffer) \in n..Len(buffer)
    BY <1>2
  <2>2. l \o m = SubSeq(buffer, 1, Len(buffer))
    <3>1. buffer \in Seq(Lines)
      BY <1>2
    <3> QED
      BY ONLY <2>1, <3>1, ConcatAdjacentSubSeq
  <2> QED
    BY <1>2, <2>2, SubSeqFull
<1>5. Put(l) /\ buffer' = m
  BY DEF Write
<1> HIDE DEF l, m
<1>6. Output' = Output \o l /\ Output' \in Seq(Lines)
  BY <1>2, <1>3, <1>5, PutIs
<1>7. (Output \o l) \o m = Output \o (l \o m)
  <2>1. Output \in Seq(Lines) /\ l \in Seq(Lines) /\ m \in Seq(Lines)
    BY <1>2, <1>3
  <2> QED
    BY <2>1, Regrouped, Zenon
<1>8. Written' = Written
  BY <1>4, <1>5, <1>6, <1>7 DEF Written
<1> QED
  BY <1>2, <1>3, <1>5, <1>8, PutIs

\* A write makes nothing longer than the input.
LEMMA WriteFits ==
  ASSUME TypeInv, MatchInv, EndInv, pc \in {"match", "end"},
         NEW n \in 0..Len(buffer), Write(n), Same, "open" \notin bad
  PROVE  /\ buffer' \in SeqOf(Lines, MaxLen) /\ stdout' \in SeqOf(Lines, MaxLen)
         /\ file' \in SeqOf(Lines, MaxLen)
<1>2. /\ Written' = Written /\ Output' \in Seq(Lines) /\ buffer' \in Seq(Lines)
      /\ stdout' \in Seq(Lines) /\ file' \in Seq(Lines)
      /\ Len(stdout') <= Len(Output') /\ Len(file') <= Len(Output')
  BY WriteIs
<1>3. Len(Written) <= Len(readable) /\ Len(Written) \in Nat
  <2>1. CASE pc = "match"
    <3>1. Len(Written) + Len(newsgroups) = Len(readable) /\ Len(newsgroups) \in Nat
      BY <2>1, PartsFit, WrittenLen
    <3> QED
      BY <3>1, Types, LenProperties
  <2>2. CASE pc = "end"
    BY <2>2, Types, ReferenceIs, LenProperties DEF EndInv
  <2> QED
    BY <2>1, <2>2
<1>4. /\ Len(Written') = Len(Output') + Len(buffer') /\ Len(Output') \in Nat
      /\ Len(buffer') \in Nat /\ Len(stdout') \in Nat /\ Len(file') \in Nat
  BY <1>2, ConcatProperties, LenProperties DEF Written
<1>5. Len(buffer') <= MaxLen /\ Len(stdout') <= MaxLen /\ Len(file') <= MaxLen
  <2>1. Len(readable) <= MaxLen /\ Len(readable) \in Nat /\ MaxLen \in Nat
    BY Types
  <2>2. Len(Written') <= MaxLen
    BY <1>2, <1>3, <2>1
  <2>3. Len(Output') <= MaxLen /\ Len(buffer') <= MaxLen
    BY <1>4, <2>1, <2>2
  <2> QED
    BY <1>2, <1>4, <2>1, <2>3
<1> QED
  BY <1>2, <1>5, Texts

\* What MatchInv says does not change when lines come out of the buffer.
LEMMA MatchStays ==
  ASSUME MatchInv, UNCHANGED <<given, next, pc, newsgroups, Written>>
  PROVE  MatchInv'
<1>1. Priority' = Priority /\ UNCHANGED <<readable, control>> /\ \A a : Rank(a)' = Rank(a)
  BY SameReference DEF given
<1>2. pc' = "match" =>
        /\ \A A \in SUBSET Lines : Count(Written', A) + Count(newsgroups', A) = Count(readable', A)
        /\ InOrder(Written', Priority')
  BY <1>1 DEF MatchInv
<1>3. pc' = "match" => /\ \A k \in DOMAIN Written' : Rank(Written[k])' < next'
                       /\ \A k \in DOMAIN newsgroups' : Rank(newsgroups[k])' >= next'
  <2> SUFFICES ASSUME pc' = "match"
               PROVE  /\ \A k \in DOMAIN Written' : Rank(Written[k])' < next'
                      /\ \A k \in DOMAIN newsgroups' : Rank(newsgroups[k])' >= next'
    OBVIOUS
  <2>1. /\ \A k \in DOMAIN Written' : Rank(Written'[k]) < next'
        /\ \A k \in DOMAIN newsgroups' : Rank(newsgroups'[k]) >= next'
    BY DEF MatchInv
  <2> QED
    BY <1>1, <2>1 DEF Rank
<1> QED
  BY <1>2, <1>3 DEF MatchInv

LEMMA SpillStep == IInv /\ Spill => IInv'
<1> SUFFICES ASSUME IInv, Spill PROVE IInv'
  OBVIOUS
<1>1. /\ TypeInv /\ MatchInv /\ EndInv /\ pc \in {"match", "end"} /\ Same
      /\ UNCHANGED <<given, next, pc, unread, newsgroups, bad>> /\ bad = {}
  BY DEF IInv, Spill, Same
<1>2. PICK n \in 1..Len(buffer) : Write(n)
  BY DEF Spill
<1>3. n \in 0..Len(buffer)
  BY <1>1, <1>2, Types, LenProperties
<1>4. Written' = Written /\ IF inplace THEN stdout' = << >> ELSE file' = << >>
  BY <1>1, <1>2, <1>3, WriteIs
<1>5. /\ buffer' \in SeqOf(Lines, MaxLen) /\ stdout' \in SeqOf(Lines, MaxLen)
      /\ file' \in SeqOf(Lines, MaxLen)
  BY <1>1, <1>2, <1>3, WriteFits
<1>6. TypeInv'
  BY <1>1, <1>4, <1>5 DEF TypeInv, TypeOK, given, inplace
<1>7. MatchInv'
  BY <1>1, <1>4, MatchStays
<1>8. EndInv'
  BY <1>1, <1>4, SameReference DEF EndInv
<1> QED
  BY <1>1, <1>6, <1>7, <1>8 DEF IInv, ReadInv

LEMMA WriteFailsStep == IInv /\ WriteFails => IInv'
<1> SUFFICES ASSUME IInv, WriteFails PROVE IInv'
  OBVIOUS
<1>1. /\ TypeInv /\ MatchInv /\ EndInv /\ pc \in {"match", "end"} /\ bad = {}
      /\ bad' = {"write"}
      /\ UNCHANGED <<given, next, pc, unread, newsgroups, buffer, stdout, file>>
  BY DEF IInv, WriteFails
<1>2. "open" \notin bad /\ "open" \notin bad'
  BY <1>1
<1>3. Written' = Written
  BY <1>1, <1>2 DEF Written, Output, given, inplace
<1>4. TypeInv'
  <2>1. bad' \in {{}, {"open"}, {"write"}}
    BY <1>1
  <2> QED
    BY <1>1, <1>2, <2>1 DEF TypeInv, TypeOK, given, inplace
<1>5. MatchInv'
  BY <1>1, <1>3, MatchStays
<1>6. EndInv'
  BY <1>1, <1>2, <1>3, SameReference DEF EndInv
<1> QED
  BY <1>1, <1>4, <1>5, <1>6 DEF IInv, ReadInv

LEMMA ExitStep == IInv /\ Exit => IInv'
<1> SUFFICES ASSUME IInv, Exit PROVE IInv'
  OBVIOUS
<1>1. /\ TypeInv /\ MatchInv /\ EndInv /\ pc = "end" /\ Written = Reference /\ pc' = "exit"
      /\ Same /\ UNCHANGED <<given, next, unread, newsgroups, bad>>
  BY DEF IInv, EndInv, Exit, Goto, Same
<1>2. PICK n \in 0..Len(buffer) :
        /\ n < Len(buffer) => inplace \/ bad # {}
        /\ "open" \in bad => n = 0
        /\ Write(n)
  BY DEF Exit
<1>3. buffer \in Seq(Lines) /\ file \in Seq(Lines) /\ stdout \in Seq(Lines) /\ Len(buffer) \in Nat
  BY <1>1, Types, LenProperties
<1>4. Reference' = Reference /\ inplace' = inplace
  BY <1>1, SameReference
<1>5. CASE "open" \in bad
  <2>1. SubSeq(buffer, 1, n) = << >> /\ SubSeq(buffer, n + 1, Len(buffer)) = buffer
    <3>1. n = 0
      BY <1>2, <1>5
    <3> QED
      BY <1>3, <3>1, SubSeqFull
  <2>2. UNCHANGED <<buffer, stdout, file>>
    <3>1. file \o << >> = file /\ stdout \o << >> = stdout
      BY <1>3, ConcatEmptySeq
    <3> QED
      BY <1>2, <2>1, <3>1 DEF Write, Put
  <2>3. Written' = Written
    BY <1>1, <2>2 DEF Written, Output, given, inplace
  <2>4. TypeInv'
    BY <1>1, <2>2 DEF TypeInv, TypeOK, given, inplace
  <2>5. EndInv'
    BY <1>1, <1>4, <1>5, <2>2, <2>3 DEF EndInv, given
  <2> QED
    BY <1>1, <2>4, <2>5 DEF IInv, ReadInv, MatchInv
<1>6. CASE "open" \notin bad
  <2>1. Written' = Written /\ IF inplace THEN stdout' = << >> ELSE file' = << >>
    BY <1>1, <1>2, <1>6, WriteIs
  <2>2. /\ buffer' \in SeqOf(Lines, MaxLen) /\ stdout' \in SeqOf(Lines, MaxLen)
        /\ file' \in SeqOf(Lines, MaxLen)
    BY <1>1, <1>2, <1>6, WriteFits
  <2>3. TypeInv'
    BY <1>1, <2>1, <2>2 DEF TypeInv, TypeOK, given, inplace
  <2>4. argc' = 2 /\ bad' = {} => buffer' = << >>
    <3> SUFFICES ASSUME argc' = 2, bad' = {} PROVE buffer' = << >>
      OBVIOUS
    <3>1. n = Len(buffer)
      BY <1>1, <1>2, <1>3 DEF given, inplace
    <3>2. buffer' = SubSeq(buffer, Len(buffer) + 1, Len(buffer))
      BY <1>2, <3>1 DEF Write
    <3> QED
      BY <1>3, <3>2, SubSeqEmpty
  <2>5. EndInv'
    BY <1>1, <1>4, <1>6, <2>1, <2>4 DEF EndInv
  <2> QED
    BY <1>1, <2>3, <2>5 DEF IInv, ReadInv, MatchInv
<1> QED
  BY <1>5, <1>6

LEMMA NothingWritten ==
  ASSUME TypeInv, ReadInv, pc \in {"args", "read"}
  PROVE  (inplace /\ file = source) \/ IsPrefix(Output, Reference)
<1>1. (inplace => file = source) /\ (~inplace => Output = << >>)
  BY DEF ReadInv, Output
<1>2. Reference \in Seq(Lines)
  BY Types, ReferenceIs
<1>3. << >> \in Seq(Lines) /\ << >> \o Reference = Reference
  BY <1>2, ConcatEmptySeq
<1>4. IsPrefix(<< >>, Reference)
  BY <1>2, <1>3, PrefixOfConcat
<1> QED
  BY <1>1, <1>4

LEMMA KilledStep == IInv /\ Killed => IInv'
<1> SUFFICES ASSUME IInv, Killed PROVE IInv'
  OBVIOUS
<1>1. /\ TypeInv /\ ReadInv /\ MatchInv /\ EndInv /\ pc \in {"args", "read", "match", "end"}
      /\ pc' = "killed"
      /\ UNCHANGED <<given, next, unread, newsgroups, buffer, bad, stdout, file>>
  BY DEF IInv, TypeInv, TypeOK, Killed
<1>2. TypeInv' /\ Output' = Output /\ Reference' = Reference /\ inplace' = inplace
  BY <1>1, SameReference DEF TypeInv, TypeOK, given, inplace, Output
<1>3. (inplace /\ file = source) \/ IsPrefix(Output, Reference)
  BY <1>1, NothingWritten, OutputIsPrefix
<1>4. EndInv'
  BY <1>1, <1>2, <1>3 DEF EndInv, given
<1> QED
  BY <1>1, <1>2, <1>4 DEF IInv, ReadInv, MatchInv

LEMMA NextInv == IInv /\ [Next]_vars => IInv'
<1> SUFFICES ASSUME IInv, [Next]_vars PROVE IInv'
  OBVIOUS
<1>1. CASE UNCHANGED vars
  <2>1. /\ Written' = Written /\ Reference' = Reference /\ Output' = Output
        /\ UNCHANGED <<given, next, pc, unread, newsgroups, buffer, bad, stdout, file>>
    BY <1>1, SameReference DEF vars, Written, Output, inplace, given
  <2>2. TypeInv' /\ ReadInv'
    BY <2>1 DEF IInv, TypeInv, TypeOK, ReadInv, inplace, given
  <2>3. MatchInv'
    BY <2>1, MatchStays DEF IInv
  <2>4. EndInv'
    BY <2>1 DEF IInv, EndInv, inplace, given
  <2> QED
    BY <2>2, <2>3, <2>4 DEF IInv
<1> QED
  BY <1>1, UsageStep, OpenInputStep, ReadLineStep, OpenOutputStep, MatchStep, RestStep,
     SpillStep, WriteFailsStep, ExitStep, KilledStep DEF Next, Program

LEMMA SpecInv == Spec => []IInv
  BY InitInv, NextInv, PTL DEF Spec

----------------------------------------------------------------------------
(* The theorems.                                                           *)

\* Neither the table of lines nor a stream ever holds more than a whole input,
\* and no pattern is looked for behind the last one of the control file.
THEOREM TypeCorrect == Spec => []TypeOK
<1>1. IInv => TypeOK
  BY DEF IInv, TypeInv
<1> QED
  BY <1>1, SpecInv, PTL

\* The loop over the control file that takes, sorts and writes the lines of one
\* pattern after the other comes to the same as one sort of everything that was
\* read by the first pattern that matches and then by the alphabet, and when no
\* write has failed all of that is on stdout at the end.
THEOREM SortedByPriority == Spec => []PrioritySorted
<1>1. IInv => PrioritySorted
  <2> SUFFICES ASSUME IInv, pc = "exit", argc = 2, bad = {} PROVE stdout = Reference
    BY DEF PrioritySorted
  <2>1. Written = Reference /\ buffer = << >>
    BY DEF IInv, EndInv
  <2>2. stdout \in Seq(Lines)
    BY Types DEF IInv
  <2>3. Written = stdout \o << >>
    BY <2>1 DEF Written, Output, inplace
  <2> QED
    BY <2>1, <2>2, <2>3, ConcatEmptySeq
<1> QED
  BY <1>1, SpecInv, PTL

\* Whenever the program is killed or a write fails, between two writes or before
\* the first, the file is either still what it was, and was never opened for
\* writing, or holds the first lines of the result.
THEOREM KilledLeavesPart == Spec => []KilledLeavesPrefix
<1>1. IInv => KilledLeavesPrefix
  <2> SUFFICES ASSUME IInv PROVE KilledLeavesPrefix
    OBVIOUS
  <2>1. TypeInv /\ MatchInv /\ EndInv /\ pc \in {"args", "read", "match", "end", "exit", "killed"}
    BY DEF IInv, TypeInv, TypeOK
  <2>2. argc # 1 => (inplace /\ file = source /\ pc \in {"args", "read", "killed"})
                      \/ (IsPrefix(Output, Reference) /\ (inplace => pc \notin {"args", "read"}))
    <3> SUFFICES ASSUME argc # 1
                 PROVE  (inplace /\ file = source /\ pc \in {"args", "read", "killed"})
                          \/ (IsPrefix(Output, Reference) /\ (inplace => pc \notin {"args", "read"}))
      OBVIOUS
    <3>1. CASE pc \in {"match", "end", "exit"}
      BY <2>1, <3>1, OutputIsPrefix
    <3>2. CASE pc \in {"args", "read"}
      BY <3>2, NothingWritten DEF IInv, ReadInv
    <3>3. CASE pc = "killed"
      BY <2>1, <3>3 DEF EndInv
    <3> QED
      BY <2>1, <3>1, <3>2, <3>3
  <2>3. "open" \in bad => inplace /\ file = source
    BY <2>1 DEF TypeInv, EndInv
  <2> QED
    BY <2>2, <2>3 DEF KilledLeavesPrefix, Untouched, Output, inplace
<1> QED
  BY <1>1, SpecInv, PTL
============================================================================
