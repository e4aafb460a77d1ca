----------------------- MODULE ParityBitmapSketchProofs -----------------------
(***************************************************************************)
(* Facts about the operators of XorKeys, for every set of bit positions,   *)
(* and what the operators of ParityBitmapSketch do to the group table of   *)
(* an object, for every number of groups, block length, capacity and       *)
(* number of sub-groups.                                                   *)
(***************************************************************************)
EXTENDS ParityBitmapSketch, FiniteSetTheorems, FunctionTheorems,
        SequenceTheorems, TLAPS

-------------------------------------------------------------------------------
(* Keys, and the XOR of keys.                                              *)
(* The XOR of two keys, and the XOR of a set of keys, are keys. *)
LEMMA XorIsKey == \A x, y \in Key : x (+) y \in Key
BY DEF Key, (+)

LEMMA XorSumIsKey == \A S : XorSum(S) \in Key
BY DEF Key, XorSum

(* The XOR of no key. *)
LEMMA XorSumOfNone == XorSum({}) = {}
<1>1. \A b : {k \in {} : b \in k} = {}
  OBVIOUS
<1>2. ~IsOdd(Cardinality({}))
  BY FS_EmptySet DEF IsOdd
<1> QED
  BY <1>1, <1>2 DEF XorSum

(* The XOR of one key. *)
LEMMA XorSumOfOne == \A k \in Key : XorSum({k}) = k
<1> SUFFICES ASSUME NEW k \in Key, NEW b \in Bit PROVE b \in XorSum({k}) <=> b \in k
  BY DEF Key, XorSum
<1>1. CASE b \in k
  <2>1. {x \in {k} : b \in x} = {k}
    BY <1>1
  <2>2. Cardinality({x \in {k} : b \in x}) = 1
    BY <2>1, FS_Singleton
  <2> QED BY <1>1, <2>2 DEF XorSum, IsOdd
<1>2. CASE b \notin k
  <2>1. {x \in {k} : b \in x} = {}
    BY <1>2
  <2>2. Cardinality({x \in {k} : b \in x}) = 0
    BY <2>1, FS_EmptySet
  <2> QED BY <1>2, <2>2 DEF XorSum, IsOdd
<1> QED BY <1>1, <1>2

(* Of the members of a symmetric difference there is an odd number when    *)
(* one set has an odd number and the other has not: common members are     *)
(* counted twice.                                                          *)
LEMMA OddDifference ==
    ASSUME NEW X, NEW Y, IsFiniteSet(X), IsFiniteSet(Y)
    PROVE  IsOdd(Cardinality(X (+) Y)) <=> ~(IsOdd(Cardinality(X)) <=> IsOdd(Cardinality(Y)))
<1> DEFINE both == Cardinality(X \cap Y)
<1>2. IsFiniteSet(X \ Y) /\ Cardinality(X \ Y) = Cardinality(X) - both
  BY FS_Difference
<1>3. IsFiniteSet(Y \ X) /\ Cardinality(Y \ X) = Cardinality(Y) - Cardinality(Y \cap X)
  BY FS_Difference
<1>4. Y \cap X = X \cap Y
  OBVIOUS
<1>5. Cardinality((X \ Y) \union (Y \ X)) = Cardinality(X \ Y) + Cardinality(Y \ X)
  <2>1. (X \ Y) \cap (Y \ X) = {}
    OBVIOUS
  <2>2. Cardinality((X \ Y) \cap (Y \ X)) = 0
    BY <2>1, FS_EmptySet
  <2>3. Cardinality(X \ Y) \in Nat /\ Cardinality(Y \ X) \in Nat
    BY <1>2, <1>3, FS_CardinalityType
  <2>4. Cardinality((X \ Y) \union (Y \ X))
           = Cardinality(X \ Y) + Cardinality(Y \ X) - Cardinality((X \ Y) \cap (Y \ X))
    BY <1>2, <1>3, FS_Union
  <2> QED BY <2>2, <2>3, <2>4
<1>6. Cardinality(X) \in Nat /\ Cardinality(Y) \in Nat /\ both \in Nat
  <2>1. IsFiniteSet(X \cap Y)
    BY FS_Subset
  <2> QED BY <2>1, FS_CardinalityType
<1>7. Cardinality(X (+) Y) = Cardinality(X) + Cardinality(Y) - 2 * both
  <2>1. Cardinality(X (+) Y) = Cardinality(X \ Y) + Cardinality(Y \ X)
    BY <1>5 DEF (+)
  <2>2. Cardinality(Y \ X) = Cardinality(Y) - both
    BY <1>3, <1>4
  <2> HIDE DEF both
  <2> QED BY <1>2, <1>6, <2>1, <2>2
<1>8. Cardinality(X (+) Y) \in Nat
  <2>1. IsFiniteSet(X (+) Y)
    BY <1>2, <1>3, FS_Union DEF (+)
  <2> QED BY <2>1, FS_CardinalityType
<1>9. \A x, y, z, n \in Nat :
          n = x + y - 2 * z => ((n % 2 = 1) <=> ~((x % 2 = 1) <=> (y % 2 = 1)))
  OBVIOUS
<1> HIDE DEF both
<1> QED BY <1>6, <1>7, <1>8, <1>9 DEF IsOdd

(* XOR does not see a key that two accumulators share: subtracting tables  *)
(* and comparing sketches rest on it.                                      *)
LEMMA XorSumOfDifference ==
    ASSUME NEW S, NEW T, IsFiniteSet(S), IsFiniteSet(T)
    PROVE  XorSum(S (+) T) = XorSum(S) (+) XorSum(T)
<1> SUFFICES ASSUME NEW b \in Bit
             PROVE  b \in XorSum(S (+) T) <=> b \in XorSum(S) (+) XorSum(T)
  BY DEF XorSum, (+)
<1> DEFINE X == {k \in S : b \in k}
           Y == {k \in T : b \in k}
<1>1. IsFiniteSet(X) /\ IsFiniteSet(Y)
  BY FS_Subset
<1>2. {k \in S (+) T : b \in k} = X (+) Y
  BY Zenon DEF (+)
<1>3. IsOdd(Cardinality({k \in S (+) T : b \in k}))
         <=> ~(IsOdd(Cardinality(X)) <=> IsOdd(Cardinality(Y)))
  BY <1>1, <1>2, OddDifference
<1> QED BY <1>3 DEF XorSum, (+)

(* Ordered(S) enumerates a set of group ids, each once and in increasing   *)
(* order: the loops of threeWaySplit_ and doDecodeCheck_ visit the groups  *)
(* in this order on both sides.                                            *)
LEMMA OrderedProperties ==
    ASSUME NEW n \in Nat, NEW S \in SUBSET (1..n)
    PROVE  /\ Cardinality(S) \in Nat
           /\ Cardinality(S) <= n
           /\ Ordered(S) \in [1..Cardinality(S) -> S]
           /\ \A i, j \in 1..Cardinality(S) : i < j => Ordered(S)[i] < Ordered(S)[j]
<1> DEFINE c == Cardinality(S)
           Upto(g) == {h \in S : h <= g}
           rank == [g \in S |-> Cardinality(Upto(g))]
<1>0. \A g \in S : g \in Nat
  OBVIOUS
<1>1. IsFiniteSet(S) /\ c \in Nat /\ c <= n
  <2>1. IsFiniteSet(1..n) /\ Cardinality(1..n) = n
    BY FS_Interval
  <2>2. IsFiniteSet(S) /\ c <= n
    BY <2>1, FS_Subset
  <2> QED BY <2>2, FS_CardinalityType
<1>2. \A g \in S : /\ IsFiniteSet(Upto(g)) /\ Cardinality(Upto(g)) \in Nat
                   /\ Cardinality(Upto(g)) <= c
  BY <1>1, FS_Subset, FS_CardinalityType
<1>3. \A g \in S : Cardinality(Upto(g)) \in 1..c
  <2> TAKE g \in S
  <2>1. g \in Upto(g)
    BY <1>0
  <2>2. Cardinality(Upto(g)) # 0
    BY <1>2, <2>1, FS_EmptySet
  <2> QED BY <1>1, <1>2, <2>2
<1>4. \A g, h \in S : g < h => Cardinality(Upto(g)) < Cardinality(Upto(h))
  <2> SUFFICES ASSUME NEW g \in S, NEW h \in S, g < h
               PROVE  Cardinality(Upto(g)) < Cardinality(Upto(h))
    OBVIOUS
  <2>1. Upto(g) \subseteq Upto(h)
    <3> SUFFICES ASSUME NEW x \in S, x <= g PROVE x <= h
      OBVIOUS
    <3> QED BY <1>0
  <2>2. h \in Upto(h) /\ h \notin Upto(g)
    BY <1>0
  <2>3. Cardinality(Upto(g)) <= Cardinality(Upto(h)) /\ Cardinality(Upto(g)) # Cardinality(Upto(h))
    BY <1>2, <2>1, <2>2, FS_Subset
  <2> QED BY <1>2, <2>3
<1>5. rank \in Injection(S, 1..c)
  <2>1. rank \in [S -> 1..c]
    BY <1>3
  <2>2. \A g, h \in S : g # h => rank[g] # rank[h]
    <3> SUFFICES ASSUME NEW g \in S, NEW h \in S, g # h PROVE rank[g] # rank[h]
      OBVIOUS
    <3>1. g < h \/ h < g
      BY <1>0
    <3> QED BY <1>2, <1>4, <3>1
  <2> QED BY <2>1, <2>2, Fun_IsInj
<1>6. rank \in Surjection(S, 1..c)
  <2>1. IsFiniteSet(1..c) /\ Cardinality(1..c) = c
    BY <1>1, FS_Interval
  <2> QED BY <1>5, <2>1, FS_Injection
<1>7. \A i \in 1..c : \E g \in S : Cardinality(Upto(g)) = i
  <2> TAKE i \in 1..c
  <2>1. \E g \in S : rank[g] = i
    <3> HIDE DEF rank
    <3> QED BY <1>6 DEF Surjection
  <2> QED BY <2>1
<1>8. \A i \in 1..c : Ordered(S)[i] \in S /\ Cardinality(Upto(Ordered(S)[i])) = i
  BY <1>7 DEF Ordered, Rank
<1>9. Ordered(S) \in [1..c -> S]
  BY <1>8 DEF Ordered
<1>10. ASSUME NEW i \in 1..c, NEW j \in 1..c, i < j
       PROVE  Ordered(S)[i] < Ordered(S)[j]
  <2> DEFINE g == Ordered(S)[i]
             h == Ordered(S)[j]
  <2>1. g \in S /\ h \in S /\ Cardinality(Upto(g)) = i /\ Cardinality(Upto(h)) = j
    BY <1>8
  <2>2. CASE h < g
    <3>1. j < i
      BY <1>4, <2>1, <2>2
    <3> QED BY <3>1, <1>10
  <2>3. CASE h = g
    BY <2>1, <2>3, <1>10
  <2>4. g \in Nat /\ h \in Nat
    BY <1>0, <2>1
  <2> QED BY <2>2, <2>3, <2>4
<1> QED BY <1>1, <1>9, <1>10

(* Induction over the naturals, for sets (the induction theorems of the    *)
(* library are about operators, which the provers cannot instantiate): if  *)
(* n is not in S, i |-> i + 1 maps the members of S up to n into           *)
(* themselves, one to one, and misses 0.                                   *)
LEMMA SetInduction ==
    ASSUME NEW S \in SUBSET Nat, 0 \in S, \A n \in S : n + 1 \in S
    PROVE  S = Nat
<1> SUFFICES ASSUME NEW n \in Nat, n \notin S PROVE FALSE
  OBVIOUS
<1> DEFINE T == {i \in 0..n : i \in S}
           next == [i \in T |-> i + 1]
<1>1. IsFiniteSet(T)
  <2>1. IsFiniteSet(0..n)
    BY FS_Interval
  <2> QED BY <2>1, FS_Subset
<1>2. next \in [T -> T]
  <2> SUFFICES ASSUME NEW i \in T PROVE i + 1 \in T
    OBVIOUS
  <2>1. i \in S /\ i # n /\ i \in 0..n
    OBVIOUS
  <2> QED BY <2>1
<1>3. next \in Injection(T, T)
  <2>1. \A i, j \in T : i # j => next[i] # next[j]
    OBVIOUS
  <2> QED BY <1>2, <2>1, Fun_IsInj
<1>4. next \in Surjection(T, T)
  BY <1>1, <1>3, FS_Injection
<1>5. 0 \in T
  OBVIOUS
<1>6. \E i \in T : next[i] = 0
  <2> HIDE DEF next, T
  <2> QED BY <1>4, <1>5 DEF Surjection
<1>7. \A i \in T : i + 1 # 0
  OBVIOUS
<1> QED BY <1>6, <1>7

(* A set of keys is finite. *)
LEMMA KeysAreFinite == \A S \in SUBSET Key : IsFiniteSet(S)
<1>1. IsFiniteSet(Key)
  BY BitAssumption, FS_SUBSET DEF Key
<1> QED
  BY <1>1, FS_Subset

-------------------------------------------------------------------------------
(* The keys in an odd number of the sets F[i], i in I: what is left of a   *)
(* family of sets under exclusive or.                                      *)
Toggled(I, F) == {k \in Key : IsOdd(Cardinality({i \in I : k \in F[i]}))}

LEMMA ToggledIsKeys == \A I, F : Toggled(I, F) \in SUBSET Key
BY DEF Toggled

LEMMA ToggledOfNone == \A F : Toggled({}, F) = {}
<1> SUFFICES ASSUME NEW F, NEW k \in Key PROVE k \notin Toggled({}, F)
  BY DEF Toggled
<1>1. {i \in {} : k \in F[i]} = {}
  OBVIOUS
<1> QED
  BY <1>1, FS_EmptySet DEF Toggled, IsOdd

LEMMA ToggledOfOne ==
    ASSUME NEW i, NEW F, F[i] \in SUBSET Key
    PROVE  Toggled({i}, F) = F[i]
<1> SUFFICES ASSUME NEW k \in Key PROVE k \in Toggled({i}, F) <=> k \in F[i]
  BY DEF Toggled
<1>1. CASE k \in F[i]
  <2>1. {j \in {i} : k \in F[j]} = {i}
    BY <1>1
  <2>2. Cardinality({j \in {i} : k \in F[j]}) = 1
    BY <2>1, FS_Singleton
  <2> QED BY <1>1, <2>2 DEF Toggled, IsOdd
<1>2. CASE k \notin F[i]
  <2>1. {j \in {i} : k \in F[j]} = {}
    BY <1>2
  <2> QED BY <1>2, <2>1, FS_EmptySet DEF Toggled, IsOdd
<1> QED BY <1>1, <1>2

LEMMA ToggledOfUnion ==
    ASSUME NEW I, NEW J, IsFiniteSet(I), IsFiniteSet(J), I \cap J = {}, NEW F
    PROVE  Toggled(I \union J, F) = Toggled(I, F) (+) Toggled(J, F)
<1> SUFFICES ASSUME NEW k \in Key
             PROVE  k \in Toggled(I \union J, F) <=> k \in Toggled(I, F) (+) Toggled(J, F)
  BY DEF Toggled, (+)
<1> DEFINE X == {i \in I : k \in F[i]}
           Y == {j \in J : k \in F[j]}
<1>1. IsFiniteSet(X) /\ IsFiniteSet(Y)
  BY FS_Subset
<1>2. {i \in I \union J : k \in F[i]} = X (+) Y
  BY Zenon DEF (+)
<1>3. IsOdd(Cardinality(X (+) Y)) <=> ~(IsOdd(Cardinality(X)) <=> IsOdd(Cardinality(Y)))
  BY <1>1, OddDifference
<1> QED BY <1>2, <1>3 DEF Toggled, (+)

LEMMA ToggledOfXor ==
    ASSUME NEW I, IsFiniteSet(I), NEW F, NEW G, NEW H, \A i \in I : H[i] = F[i] (+) G[i]
    PROVE  Toggled(I, H) = Toggled(I, F) (+) Toggled(I, G)
<1> SUFFICES ASSUME NEW k \in Key
             PROVE  k \in Toggled(I, H) <=> k \in Toggled(I, F) (+) Toggled(I, G)
  BY DEF Toggled, (+)
<1> DEFINE X == {i \in I : k \in F[i]}
           Y == {i \in I : k \in G[i]}
<1>1. IsFiniteSet(X) /\ IsFiniteSet(Y)
  BY FS_Subset
<1>2. {i \in I : k \in H[i]} = X (+) Y
  BY DEF (+)
<1>3. IsOdd(Cardinality(X (+) Y)) <=> ~(IsOdd(Cardinality(X)) <=> IsOdd(Cardinality(Y)))
  BY <1>1, OddDifference
<1> QED BY <1>2, <1>3 DEF Toggled, (+)

(* Families that hold a key equally often.                                 *)
LEMMA ToggledAlike ==
    ASSUME NEW I, IsFiniteSet(I), NEW F, NEW J, NEW G,
           \A k \in Key : ExistsBijection({i \in I : k \in F[i]}, {j \in J : k \in G[j]})
    PROVE  Toggled(I, F) = Toggled(J, G)
<1> SUFFICES ASSUME NEW k \in Key PROVE k \in Toggled(I, F) <=> k \in Toggled(J, G)
  BY DEF Toggled
<1> DEFINE X == {i \in I : k \in F[i]}
           Y == {j \in J : k \in G[j]}
<1>1. IsFiniteSet(X)
  BY FS_Subset
<1>2. Cardinality(X) = Cardinality(Y)
  BY <1>1, FS_Bijection
<1> QED BY <1>2 DEF Toggled

LEMMA ToggledSame ==
    ASSUME NEW I, NEW F, NEW G, \A i \in I : F[i] = G[i]
    PROVE  Toggled(I, F) = Toggled(I, G)
<1>1. \A k : {i \in I : k \in F[i]} = {i \in I : k \in G[i]}
  OBVIOUS
<1> QED BY <1>1 DEF Toggled

(* Sets with the same XOR, one by one, leave the same XOR: this is how the *)
(* checksums of single groups add up.                                      *)
LEMMA SameXorSums ==
    ASSUME NEW n \in Nat, NEW I \in SUBSET (1..n), NEW F, NEW G,
           \A i \in I : /\ F[i] \in SUBSET Key /\ G[i] \in SUBSET Key
                        /\ XorSum(F[i]) = XorSum(G[i])
    PROVE  XorSum(Toggled(I, F)) = XorSum(Toggled(I, G))
<1> DEFINE Upto(m) == {i \in I : i <= m}
           Q(m) == XorSum(Toggled(Upto(m), F)) = XorSum(Toggled(Upto(m), G))
           S == {m \in Nat : Q(m)}
<1>0. \A i \in I : i \in Nat /\ 1 <= i /\ i <= n
  OBVIOUS
<1>1. 0 \in S
  <2>1. \A i \in I : ~(i <= 0)
    BY <1>0
  <2>2. Upto(0) = {}
    BY <2>1
  <2> QED BY <2>2, ToggledOfNone
<1>2. ASSUME NEW m \in S
      PROVE  m + 1 \in S
  <2>1. m \in Nat /\ Q(m)
    OBVIOUS
  <2>2. CASE m + 1 \notin I
    <3>0. \A i \in I : i <= m + 1 <=> i <= m
      BY <1>0, <2>1, <2>2
    <3>1. Upto(m + 1) = Upto(m)
      BY <3>0
    <3> QED BY <2>1, <3>1
  <2>3. CASE m + 1 \in I
    <3>0. /\ \A i \in I : i <= m + 1 <=> i <= m \/ i = m + 1
          /\ ~(m + 1 <= m)
      BY <1>0, <2>1
    <3>1. Upto(m + 1) = Upto(m) \union {m + 1} /\ Upto(m) \cap {m + 1} = {}
      BY <2>3, <3>0
    <3>2. IsFiniteSet(Upto(m)) /\ IsFiniteSet({m + 1})
      <4>1. IsFiniteSet(1..n)
        BY FS_Interval
      <4> QED BY <4>1, FS_Subset, FS_Singleton
    <3> HIDE DEF Upto
    <3>3. ASSUME NEW E, E[m + 1] \in SUBSET Key
          PROVE  XorSum(Toggled(Upto(m + 1), E)) =
                     XorSum(Toggled(Upto(m), E)) (+) XorSum(E[m + 1])
      <4>1. Toggled(Upto(m + 1), E) = Toggled(Upto(m), E) (+) E[m + 1]
        BY <3>1, <3>2, <3>3, ToggledOfUnion, ToggledOfOne
      <4>2. IsFiniteSet(Toggled(Upto(m), E)) /\ IsFiniteSet(E[m + 1])
        BY <3>3, KeysAreFinite, ToggledIsKeys
      <4> QED BY <4>1, <4>2, XorSumOfDifference
    <3> QED BY <2>1, <2>3, <3>3
  <2> QED BY <2>2, <2>3
<1>3. S = Nat
  <2>1. S \in SUBSET Nat
    OBVIOUS
  <2> HIDE DEF S
  <2> QED BY <1>1, <1>2, <2>1, SetInduction
<1>4. Q(n)
  BY <1>3
<1>5. Upto(n) = I
  BY <1>0
<1> QED BY <1>4, <1>5

-------------------------------------------------------------------------------
(* The group table.                                                        *)

(* A function over 1..n is a sequence of length n. *)
LEMMA FunctionIsSeq ==
    \A S : \A n \in Nat : \A f \in [1..n -> S] : f \in Seq(S) /\ Len(f) = n
OBVIOUS

LEMMA EmptyRowType == EmptyRow \in [Bins -> Key]
BY DEF EmptyRow, Key

(* What the operations on the group table leave alone. *)
SameBesideTable(p, q) ==
    /\ q.sketches = p.sketches   /\ q.remaining = p.remaining
    /\ q.round = p.round         /\ q.role = p.role
    /\ q.hintRange = p.hintRange /\ q.exceptions = p.exceptions
    /\ q.failed = p.failed       /\ q.recovered = p.recovered

(* Appending groups keeps the table parallel and touches nothing else. *)
LEMMA AppendGroupsProperties ==
    ASSUME NEW p \in Pbs, Parallel(p),
           NEW c \in Seq(SUBSET Key), NEW o \in Seq(GroupId), Len(c) = Len(o)
    PROVE  LET q == AppendGroups(p, c, o)
           IN  /\ q \in Pbs
               /\ Parallel(q)
               /\ q.groups = p.groups \o c
               /\ q.origin = p.origin \o o
               /\ SameBesideTable(p, q)
               /\ Len(q.groups) = Len(p.groups) + Len(c)
<1> DEFINE x == [i \in 1..Len(c) |-> EmptyRow]
           s == [i \in 1..Len(c) |-> {}]
           q == AppendGroups(p, c, o)
<1>1. x \in Seq([Bins -> Key]) /\ Len(x) = Len(c)
  BY EmptyRowType
<1>2. s \in Seq(Key) /\ Len(s) = Len(c)
  BY DEF Key
<1>3. q = [p EXCEPT !.groups = p.groups \o c, !.origin = p.origin \o o,
                    !.xors = p.xors \o x, !.checksums = p.checksums \o s]
  BY DEF AppendGroups, Pbs
<1> HIDE DEF x, s, q
<1>4. /\ p.groups \in Seq(SUBSET Key) /\ p.origin \in Seq(GroupId)
      /\ p.xors \in Seq([Bins -> Key]) /\ p.checksums \in Seq(Key)
  BY DEF Pbs
<1>5. /\ p.groups \o c \in Seq(SUBSET Key) /\ Len(p.groups \o c) = Len(p.groups) + Len(c)
      /\ p.origin \o o \in Seq(GroupId) /\ Len(p.origin \o o) = Len(p.origin) + Len(o)
      /\ p.xors \o x \in Seq([Bins -> Key]) /\ Len(p.xors \o x) = Len(p.xors) + Len(x)
      /\ p.checksums \o s \in Seq(Key) /\ Len(p.checksums \o s) = Len(p.checksums) + Len(s)
  BY <1>1, <1>2, <1>4, ConcatProperties
<1>6. q \in Pbs
  BY <1>3, <1>5 DEF Pbs
<1>7. /\ q.groups = p.groups \o c /\ q.origin = p.origin \o o
      /\ q.xors = p.xors \o x /\ q.checksums = p.checksums \o s
  BY <1>3 DEF Pbs
<1>8. Parallel(q)
  BY <1>1, <1>2, <1>5, <1>7 DEF Parallel
<1>9. SameBesideTable(p, q)
  BY <1>3 DEF Pbs, SameBesideTable
<1> QED BY <1>5, <1>6, <1>7, <1>8, <1>9 DEF q

(* The i-th of the Splits * n pieces of n groups comes from one of them. *)
LEMMA SplitIndexing ==
    ASSUME NEW n \in Nat
    PROVE  /\ Splits * n \in Nat
           /\ \A i \in 1..(Splits * n) : ((i - 1) \div Splits) + 1 \in 1..n
<1>1. Splits \in Nat /\ Splits > 0
  BY SketchAssumption
<1>2. Splits * n \in Nat
  BY <1>1
<1>3. ASSUME NEW i \in 1..(Splits * n)
      PROVE  ((i - 1) \div Splits) + 1 \in 1..n
  <2> DEFINE q == (i - 1) \div Splits
  <2>1. i - 1 \in Nat /\ i - 1 < Splits * n
    BY <1>2
  <2>2. q \in Nat /\ Splits * q <= i - 1
    BY <1>1, <2>1
  <2>3. q < n
    BY <1>1, <2>1, <2>2, SMTT(30)
  <2> QED BY <2>2, <2>3
<1> QED BY <1>2, <1>3

(* The pieces of a split, and what a move appends.                         *)
LEMMA PiecesType ==
    ASSUME NEW p \in Pbs, Parallel(p), NEW h,
           NEW n \in Nat, n <= Len(p.groups),
           NEW m \in Nat, NEW ids \in [1..m -> 1..n]
    PROVE  /\ Splits * m \in Nat
           /\ Pieces(p, h, ids) \in [1..(Splits * m) -> SUBSET Key]
           /\ PieceOrigins(p, ids) \in [1..(Splits * m) -> GroupId]
           /\ InOriginalGroup(p, h) =>
                 \A i \in 1..(Splits * m) : \A k \in Pieces(p, h, ids)[i] :
                     getGroupId_(h, k) = PieceOrigins(p, ids)[i]
<1>1. Len(ids) = m /\ Splits * m \in Nat
  BY SplitIndexing
<1>2. /\ p.groups \in Seq(SUBSET Key) /\ p.origin \in Seq(GroupId)
      /\ Len(p.origin) = Len(p.groups)
  BY DEF Pbs, Parallel
<1>3. \A i \in 1..(Splits * m) : SplitSource(ids, i) \in 1..Len(p.groups)
  <2> TAKE i \in 1..(Splits * m)
  <2>1. ((i - 1) \div Splits) + 1 \in 1..m
    BY SplitIndexing
  <2>2. SplitSource(ids, i) \in 1..n
    BY <2>1 DEF SplitSource
  <2>3. Len(p.groups) \in Nat
    BY <1>2
  <2> QED BY <2>2, <2>3
<1>4. \A i \in 1..(Splits * m) : /\ p.groups[SplitSource(ids, i)] \in SUBSET Key
                                 /\ p.origin[SplitSource(ids, i)] \in GroupId
  BY <1>2, <1>3, ElementOfSeq
<1>5. /\ Pieces(p, h, ids) \in [1..(Splits * m) -> SUBSET Key]
      /\ PieceOrigins(p, ids) \in [1..(Splits * m) -> GroupId]
  BY <1>1, <1>4 DEF Pieces, PieceOrigins
<1>6. ASSUME InOriginalGroup(p, h), NEW i \in 1..(Splits * m), NEW k \in Pieces(p, h, ids)[i]
      PROVE  getGroupId_(h, k) = PieceOrigins(p, ids)[i]
  <2>1. k \in p.groups[SplitSource(ids, i)]
    BY <1>1, <1>6 DEF Pieces
  <2>2. getGroupId_(h, k) = p.origin[SplitSource(ids, i)]
    BY <1>3, <1>6, <2>1 DEF InOriginalGroup
  <2> QED BY <1>1, <2>2 DEF PieceOrigins
<1> QED BY <1>1, <1>5, <1>6

LEMMA MovedType ==
    ASSUME NEW p \in Pbs, Parallel(p), NEW h,
           NEW m \in Nat, NEW ids \in [1..m -> 1..Len(p.groups)]
    PROVE  /\ MovedGroups(p, ids) \in [1..m -> SUBSET Key]
           /\ MovedOrigins(p, ids) \in [1..m -> GroupId]
           /\ InOriginalGroup(p, h) =>
                 \A i \in 1..m : \A k \in MovedGroups(p, ids)[i] :
                     getGroupId_(h, k) = MovedOrigins(p, ids)[i]
<1>1. Len(ids) = m
  OBVIOUS
<1>2. /\ p.groups \in Seq(SUBSET Key) /\ p.origin \in Seq(GroupId)
      /\ Len(p.origin) = Len(p.groups)
  BY DEF Pbs, Parallel
<1>3. \A i \in 1..m : p.groups[ids[i]] \in SUBSET Key /\ p.origin[ids[i]] \in GroupId
  BY <1>2, ElementOfSeq
<1>4. /\ MovedGroups(p, ids) \in [1..m -> SUBSET Key]
      /\ MovedOrigins(p, ids) \in [1..m -> GroupId]
  BY <1>1, <1>3 DEF MovedGroups, MovedOrigins
<1>5. InOriginalGroup(p, h) =>
         \A i \in 1..m : \A k \in MovedGroups(p, ids)[i] :
             getGroupId_(h, k) = MovedOrigins(p, ids)[i]
  BY <1>1 DEF InOriginalGroup, MovedGroups, MovedOrigins
<1> QED BY <1>4, <1>5

(* In a list of ids no group is named twice. *)
LEMMA MovedOnce ==
    ASSUME NEW p, NEW n, NEW ids, IdList(ids, n)
    PROVE  MovedGroups(p, ids) = [i \in 1..Len(ids) |-> p.groups[ids[i]]]
<1>1. \A i \in 1..Len(ids) : ~ \E j \in 1..(i - 1) : ids[j] = ids[i]
  BY DEF IdList
<1> QED
  BY <1>1 DEF MovedGroups

(* Groups appended with keys of their original group keep the table so.    *)
LEMMA AppendStaysInGroup ==
    ASSUME NEW p \in Pbs, Parallel(p), NEW h, InOriginalGroup(p, h),
           NEW n \in Nat,
           NEW c \in [1..n -> SUBSET Key], NEW o \in [1..n -> GroupId],
           \A i \in 1..n : \A k \in c[i] : getGroupId_(h, k) = o[i]
    PROVE  InOriginalGroup(AppendGroups(p, c, o), h)
<1> DEFINE q == AppendGroups(p, c, o)
           l == Len(p.groups)
<1>1. /\ p.groups \in Seq(SUBSET Key) /\ p.origin \in Seq(GroupId)
      /\ Len(p.origin) = l /\ l \in Nat
  BY DEF Pbs, Parallel
<1>2. c \in Seq(SUBSET Key) /\ o \in Seq(GroupId) /\ Len(c) = n /\ Len(o) = n
  BY FunctionIsSeq
<1>3. q.groups = p.groups \o c /\ q.origin = p.origin \o o /\ Len(q.groups) = l + n
  BY <1>2, AppendGroupsProperties
<1> HIDE DEF q
<1>4. \A g \in 1..(l + n) : q.groups[g] = IF g <= l THEN p.groups[g] ELSE c[g - l]
  BY <1>1, <1>2, <1>3, ConcatProperties
<1>5. \A g \in 1..(l + n) : q.origin[g] = IF g <= l THEN p.origin[g] ELSE o[g - l]
  <2>1. \A g \in 1..(Len(p.origin) + Len(o)) :
           (p.origin \o o)[g] = IF g <= Len(p.origin) THEN p.origin[g] ELSE o[g - Len(p.origin)]
    BY <1>1, <1>2, ConcatProperties
  <2> HIDE DEF l
  <2> QED BY <1>1, <1>2, <1>3, <2>1
<1> HIDE DEF l
<1>6. ASSUME NEW g \in 1..(l + n), NEW k \in q.groups[g]
      PROVE  getGroupId_(h, k) = q.origin[g]
  <2>1. CASE g <= l
    <3>1. g \in 1..Len(p.groups) /\ k \in p.groups[g] /\ q.origin[g] = p.origin[g]
      BY <1>1, <1>4, <1>5, <1>6, <2>1 DEF l
    <3> QED BY <3>1 DEF InOriginalGroup
  <2>2. CASE ~(g <= l)
    <3>1. g - l \in 1..n /\ k \in c[g - l] /\ q.origin[g] = o[g - l]
      BY <1>1, <1>4, <1>5, <1>6, <2>2
    <3> QED BY <3>1
  <2> QED BY <2>1, <2>2
<1>7. InOriginalGroup(q, h)
  BY <1>3, <1>6 DEF InOriginalGroup, l
<1> QED BY <1>7 DEF q

LEMMA PieceCountIsNat ==
    ASSUME NEW ids, Len(ids) \in Nat
    PROVE  /\ PieceCount(ids) \in Nat
           /\ Len(ids) = 0 <=> PieceCount(ids) = 0
BY SketchAssumption DEF PieceCount

LEMMA SplitProperties ==
    ASSUME NEW p \in Pbs, Parallel(p), NEW h,
           NEW n \in Nat, n <= Len(p.groups),
           NEW m \in Nat, NEW ids \in [1..m -> 1..n]
    PROVE  LET q == threeWaySplit_(p, h, ids)
           IN  /\ q \in Pbs
               /\ Parallel(q)
               /\ q.groups = p.groups \o Pieces(p, h, ids)
               /\ q.origin = p.origin \o PieceOrigins(p, ids)
               /\ SameBesideTable(p, q)
               /\ Len(q.groups) = Len(p.groups) + PieceCount(ids)
               /\ InOriginalGroup(p, h) => InOriginalGroup(q, h)
<1> DEFINE c == Pieces(p, h, ids)
           o == PieceOrigins(p, ids)
<1>1. /\ Splits * m \in Nat
      /\ c \in [1..(Splits * m) -> SUBSET Key] /\ o \in [1..(Splits * m) -> GroupId]
      /\ InOriginalGroup(p, h) =>
            \A i \in 1..(Splits * m) : \A k \in c[i] : getGroupId_(h, k) = o[i]
  <2>1. Splits * m \in Nat
    BY SplitIndexing
  <2>2. /\ Pieces(p, h, ids) \in [1..(Splits * m) -> SUBSET Key]
        /\ PieceOrigins(p, ids) \in [1..(Splits * m) -> GroupId]
    BY PiecesType
  <2>3. InOriginalGroup(p, h) =>
           \A i \in 1..(Splits * m) : \A k \in Pieces(p, h, ids)[i] :
               getGroupId_(h, k) = PieceOrigins(p, ids)[i]
    BY PiecesType
  <2> QED BY <2>1, <2>2, <2>3
<1>2. threeWaySplit_(p, h, ids) = AppendGroups(p, c, o)
  BY DEF threeWaySplit_
<1> HIDE DEF c, o
<1>3. /\ c \in Seq(SUBSET Key) /\ Len(c) = Splits * m
      /\ o \in Seq(GroupId) /\ Len(o) = Splits * m
  BY <1>1, FunctionIsSeq
<1>4. LET q == AppendGroups(p, c, o)
      IN  /\ q \in Pbs /\ Parallel(q)
          /\ q.groups = p.groups \o c /\ q.origin = p.origin \o o
          /\ SameBesideTable(p, q)
          /\ Len(q.groups) = Len(p.groups) + Splits * m
  BY <1>3, AppendGroupsProperties
<1>5. InOriginalGroup(p, h) => InOriginalGroup(AppendGroups(p, c, o), h)
  BY <1>1, AppendStaysInGroup
<1>6. PieceCount(ids) = Splits * m
  BY DEF PieceCount
<1> QED BY <1>2, <1>4, <1>5, <1>6 DEF c, o

LEMMA MoveProperties ==
    ASSUME NEW p \in Pbs, Parallel(p), NEW h,
           NEW m \in Nat, NEW ids \in [1..m -> 1..Len(p.groups)]
    PROVE  LET q == MoveGroups(p, ids)
           IN  /\ q \in Pbs
               /\ Parallel(q)
               /\ q.groups = p.groups \o MovedGroups(p, ids)
               /\ q.origin = p.origin \o MovedOrigins(p, ids)
               /\ SameBesideTable(p, q)
               /\ Len(q.groups) = Len(p.groups) + m
               /\ InOriginalGroup(p, h) => InOriginalGroup(q, h)
<1> DEFINE c == MovedGroups(p, ids)
           o == MovedOrigins(p, ids)
<1>1. /\ c \in [1..m -> SUBSET Key] /\ o \in [1..m -> GroupId]
      /\ InOriginalGroup(p, h) =>
            \A i \in 1..m : \A k \in c[i] : getGroupId_(h, k) = o[i]
  BY MovedType
<1>2. MoveGroups(p, ids) = AppendGroups(p, c, o)
  BY DEF MoveGroups
<1> HIDE DEF c, o
<1>3. c \in Seq(SUBSET Key) /\ Len(c) = m /\ o \in Seq(GroupId) /\ Len(o) = m
  BY <1>1, FunctionIsSeq
<1>4. LET q == AppendGroups(p, c, o)
      IN  /\ q \in Pbs /\ Parallel(q)
          /\ q.groups = p.groups \o c /\ q.origin = p.origin \o o
          /\ SameBesideTable(p, q)
          /\ Len(q.groups) = Len(p.groups) + m
  BY <1>3, AppendGroupsProperties
<1>5. InOriginalGroup(p, h) => InOriginalGroup(AppendGroups(p, c, o), h)
  BY <1>1, AppendStaysInGroup
<1> QED BY <1>2, <1>4, <1>5 DEF c, o

(* What is left of a sequence behind its first n elements.                 *)
LEMMA BehindProperties ==
    ASSUME NEW S, NEW s \in Seq(S), NEW n \in Nat, n <= Len(s)
    PROVE  /\ Behind(s, n) \in Seq(S)
           /\ Len(Behind(s, n)) = Len(s) - n
           /\ \A i \in 1..(Len(s) - n) : Behind(s, n)[i] = s[n + i]
<1>1. Len(s) \in Nat /\ n + 1 \in Int
  OBVIOUS
<1>2. \A i \in (n + 1)..Len(s) : s[i] \in S
  BY <1>1, ElementOfSeq
<1>3. /\ SubSeq(s, n + 1, Len(s)) \in Seq(S)
      /\ Len(SubSeq(s, n + 1, Len(s))) =
            IF n + 1 <= Len(s) THEN Len(s) - (n + 1) + 1 ELSE 0
      /\ \A i \in 1..(Len(s) - (n + 1) + 1) :
            SubSeq(s, n + 1, Len(s))[i] = s[(n + 1) + i - 1]
  BY <1>1, <1>2, SubSeqProperties
<1>4. Len(Behind(s, n)) = Len(s) - n
  BY <1>1, <1>3 DEF Behind
<1>5. ASSUME NEW i \in 1..(Len(s) - n)
      PROVE  Behind(s, n)[i] = s[n + i]
  <2>1. i \in 1..(Len(s) - (n + 1) + 1) /\ (n + 1) + i - 1 = n + i
    BY <1>1
  <2> QED BY <1>3, <2>1 DEF Behind
<1> QED BY <1>3, <1>4, <1>5 DEF Behind

(* removeCompletedGroups_ keeps what was appended behind the first         *)
(* remaining groups.                                                       *)
LEMMA RemoveProperties ==
    ASSUME NEW p \in Pbs, Parallel(p), p.remaining <= Len(p.groups), NEW h
    PROVE  LET q == removeCompletedGroups_(p)
           IN  /\ q \in Pbs
               /\ Parallel(q)
               /\ q.groups = Behind(p.groups, p.remaining)
               /\ q.origin = Behind(p.origin, p.remaining)
               /\ q.remaining = Len(p.groups) - p.remaining
               /\ Len(q.groups) = q.remaining
               /\ q.hintRange = IF p.role = "Alice" THEN p.remaining ELSE p.hintRange
               /\ q.sketches = p.sketches /\ q.round = p.round /\ q.role = p.role
               /\ q.exceptions = p.exceptions /\ q.failed = p.failed
               /\ q.recovered = p.recovered
               /\ InOriginalGroup(p, h) => InOriginalGroup(q, h)
<1> DEFINE q == removeCompletedGroups_(p)
           n == p.remaining
           l == Len(p.groups)
<1>1. /\ p.groups \in Seq(SUBSET Key) /\ p.origin \in Seq(GroupId)
      /\ p.xors \in Seq([Bins -> Key]) /\ p.checksums \in Seq(Key)
      /\ n \in Nat /\ l \in Nat /\ n <= l
      /\ Len(p.origin) = l /\ Len(p.xors) = l /\ Len(p.checksums) = l
  BY DEF Pbs, Parallel
<1>2. /\ Behind(p.groups, n) \in Seq(SUBSET Key) /\ Len(Behind(p.groups, n)) = l - n
      /\ Behind(p.origin, n) \in Seq(GroupId) /\ Len(Behind(p.origin, n)) = l - n
      /\ Behind(p.xors, n) \in Seq([Bins -> Key]) /\ Len(Behind(p.xors, n)) = l - n
      /\ Behind(p.checksums, n) \in Seq(Key) /\ Len(Behind(p.checksums, n)) = l - n
  <2>1. ASSUME NEW S, NEW s \in Seq(S), Len(s) = l
        PROVE  Behind(s, n) \in Seq(S) /\ Len(Behind(s, n)) = l - n
    <3>1. n \in Nat /\ n <= Len(s)
      BY <1>1, <2>1
    <3> HIDE DEF n, l
    <3> QED BY <2>1, <3>1, BehindProperties
  <2> QED BY <1>1, <2>1
<1>3. q = [p EXCEPT !.hintRange = IF p.role = "Alice" THEN n ELSE p.hintRange,
                    !.groups = Behind(p.groups, n), !.origin = Behind(p.origin, n),
                    !.xors = Behind(p.xors, n), !.checksums = Behind(p.checksums, n),
                    !.remaining = l - n]
  BY DEF removeCompletedGroups_, Pbs
<1> HIDE DEF q
<1>4. /\ q.groups = Behind(p.groups, n) /\ q.origin = Behind(p.origin, n)
      /\ q.xors = Behind(p.xors, n) /\ q.checksums = Behind(p.checksums, n)
      /\ q.remaining = l - n
      /\ q.hintRange = IF p.role = "Alice" THEN n ELSE p.hintRange
      /\ q.sketches = p.sketches /\ q.round = p.round /\ q.role = p.role
      /\ q.exceptions = p.exceptions /\ q.failed = p.failed
      /\ q.recovered = p.recovered
  BY <1>3 DEF Pbs
<1>5. q \in Pbs
  <2>1. (IF p.role = "Alice" THEN n ELSE p.hintRange) \in Nat /\ l - n \in Nat
    BY <1>1 DEF Pbs
  <2> QED BY <1>2, <1>3, <2>1 DEF Pbs
<1>6. Parallel(q)
  BY <1>2, <1>4 DEF Parallel
<1>7. ASSUME InOriginalGroup(p, h) PROVE InOriginalGroup(q, h)
  <2>1. \A i \in 1..(l - n) : q.groups[i] = p.groups[n + i] /\ q.origin[i] = p.origin[n + i]
    <3>1. ASSUME NEW S, NEW s \in Seq(S), Len(s) = l
          PROVE  \A i \in 1..(l - n) : Behind(s, n)[i] = s[n + i]
      <4>1. n \in Nat /\ n <= Len(s)
        BY <1>1, <3>1
      <4> HIDE DEF n, l
      <4> QED BY <3>1, <4>1, BehindProperties
    <3> QED BY <1>1, <1>4, <3>1
  <2>2. ASSUME NEW i \in 1..(l - n), NEW k \in q.groups[i]
        PROVE  getGroupId_(h, k) = q.origin[i]
    <3>1. n + i \in 1..l
      BY <1>1
    <3> QED BY <1>7, <2>1, <2>2, <3>1 DEF InOriginalGroup
  <2> QED BY <1>2, <1>4, <2>2 DEF InOriginalGroup
<1> QED BY <1>2, <1>4, <1>5, <1>6, <1>7 DEF q

(* Encoding rewrites the sketches, the rows and the checksums.             *)
LEMMA EncodeProperties ==
    ASSUME NEW p \in Pbs, Parallel(p), NEW h
    PROVE  LET q == doEncode_(p, h)
           IN  /\ q \in Pbs
               /\ Parallel(q)
               /\ q.groups = p.groups /\ q.origin = p.origin
               /\ Len(q.sketches) = p.remaining
               /\ q.remaining = p.remaining /\ q.round = p.round /\ q.role = p.role
               /\ q.hintRange = p.hintRange /\ q.exceptions = p.exceptions
               /\ q.failed = p.failed /\ q.recovered = p.recovered
               /\ InOriginalGroup(p, h) => InOriginalGroup(q, h)
<1> DEFINE q == doEncode_(p, h)
           k == [g \in 1..p.remaining |->
                    {b \in Bins : IsOdd(Cardinality(KeysInBin(p, h, g, b)))}]
           x == [g \in 1..Len(p.xors) |->
                    IF g > p.remaining THEN p.xors[g]
                    ELSE [b \in Bins |-> p.xors[g][b] (+) XorSum(KeysInBin(p, h, g, b))]]
           s == [g \in 1..Len(p.checksums) |->
                    IF g > p.remaining THEN p.checksums[g]
                    ELSE p.checksums[g] (+) XorSum(p.groups[g])]
<1>1. q = [p EXCEPT !.sketches = k, !.xors = x, !.checksums = s]
  BY DEF doEncode_, Pbs
<1>2. /\ p.xors \in Seq([Bins -> Key]) /\ p.checksums \in Seq(Key)
      /\ p.remaining \in Nat /\ Len(p.xors) \in Nat /\ Len(p.checksums) \in Nat
  BY DEF Pbs
<1>3. k \in Seq(SUBSET Bins) /\ Len(k) = p.remaining
  BY <1>2
<1>4. x \in Seq([Bins -> Key]) /\ Len(x) = Len(p.xors)
  <2>1. \A g \in 1..Len(p.xors) : p.xors[g] \in [Bins -> Key]
    BY <1>2, ElementOfSeq
  <2>2. \A g \in 1..Len(p.xors) : \A b \in Bins :
           p.xors[g][b] (+) XorSum(KeysInBin(p, h, g, b)) \in Key
    BY <2>1, XorIsKey, XorSumIsKey
  <2>3. \A g \in 1..Len(p.xors) : x[g] \in [Bins -> Key]
    BY <2>1, <2>2
  <2>4. x \in [1..Len(p.xors) -> [Bins -> Key]]
    BY <2>3
  <2> QED BY <1>2, <2>4, FunctionIsSeq
<1>5. s \in Seq(Key) /\ Len(s) = Len(p.checksums)
  <2>1. \A g \in 1..Len(p.checksums) : s[g] \in Key
    BY <1>2, ElementOfSeq, XorIsKey, XorSumIsKey
  <2>2. s \in [1..Len(p.checksums) -> Key]
    BY <2>1
  <2> QED BY <1>2, <2>2, FunctionIsSeq
<1> HIDE DEF q, k, x, s
<1>6. q \in Pbs
  BY <1>1, <1>3, <1>4, <1>5 DEF Pbs
<1>7. /\ q.sketches = k /\ q.xors = x /\ q.checksums = s
      /\ q.groups = p.groups /\ q.origin = p.origin
      /\ q.remaining = p.remaining /\ q.round = p.round /\ q.role = p.role
      /\ q.hintRange = p.hintRange /\ q.exceptions = p.exceptions
      /\ q.failed = p.failed /\ q.recovered = p.recovered
  BY <1>1 DEF Pbs
<1>8. Parallel(q)
  BY <1>4, <1>5, <1>7 DEF Parallel
<1>9. InOriginalGroup(p, h) => InOriginalGroup(q, h)
  BY <1>7 DEF InOriginalGroup
<1> QED BY <1>3, <1>6, <1>7, <1>8, <1>9 DEF q

-------------------------------------------------------------------------------
(* The member functions.                                                   *)

LEMMA ConstructProperties ==
    ASSUME NEW S \in SUBSET Key, NEW h \in Hash
    PROVE  LET p == Construct(S, h)
           IN  /\ p \in Pbs
               /\ Parallel(p)
               /\ InOriginalGroup(p, h)
               /\ Len(p.groups) = NumGroups
<1> DEFINE p == Construct(S, h)
           c == [g \in GroupId |-> {k \in S : getGroupId_(h, k) = g}]
           o == [g \in GroupId |-> g]
           x == [g \in GroupId |-> EmptyRow]
           z == [g \in GroupId |-> {}]
<1>1. NumGroups \in Nat /\ GroupId = 1..NumGroups
  BY SketchAssumption DEF GroupId
<1>2. c \in [1..NumGroups -> SUBSET Key] /\ o \in [1..NumGroups -> GroupId]
  BY <1>1
<1>3. x \in [1..NumGroups -> [Bins -> Key]] /\ z \in [1..NumGroups -> Key]
  BY <1>1, EmptyRowType DEF Key
<1>4. /\ c \in Seq(SUBSET Key) /\ Len(c) = NumGroups
      /\ o \in Seq(GroupId) /\ Len(o) = NumGroups
      /\ x \in Seq([Bins -> Key]) /\ Len(x) = NumGroups
      /\ z \in Seq(Key) /\ Len(z) = NumGroups
  BY <1>1, <1>2, <1>3, FunctionIsSeq
<1>5. p = [groups |-> c, origin |-> o, xors |-> x, checksums |-> z, sketches |-> << >>,
           remaining |-> NumGroups, round |-> 0, role |-> "Undetermined",
           hintRange |-> NumGroups, exceptions |-> << >>, failed |-> << >>,
           recovered |-> << >>]
  BY DEF Construct
<1>6. \A g \in 1..NumGroups : \A k \in c[g] : getGroupId_(h, k) = o[g]
  BY <1>1
<1> HIDE DEF c, o, x, z
<1>7. p \in Pbs
  BY <1>1, <1>4, <1>5 DEF Pbs
<1>8. Parallel(p) /\ Len(p.groups) = NumGroups
  BY <1>4, <1>5 DEF Parallel
<1>9. InOriginalGroup(p, h)
  BY <1>4, <1>5, <1>6 DEF InOriginalGroup
<1> QED BY <1>7, <1>8, <1>9

(* Bob follows a hint: his table becomes the pieces of the groups BCH      *)
(* could not decode, then the groups named by the hint.                    *)
LEMMA WithHintProperties ==
    ASSUME NEW p \in Pbs, Parallel(p), p.remaining <= Len(p.groups), NEW h,
           NEW m \in Nat, NEW ids \in [1..m -> 1..Len(p.groups)]
    PROVE  LET q == WithHint(p, ids)
           IN  /\ q \in Pbs
               /\ Parallel(q)
               /\ q.origin = Behind(p.origin \o MovedOrigins(p, ids), p.remaining)
               /\ q.remaining = Len(p.groups) + m - p.remaining
               /\ Len(q.groups) = q.remaining
               /\ q.round = p.round /\ q.role = p.role /\ q.failed = << >>
               /\ p.role = "Bob" => q.hintRange = p.hintRange
               /\ InOriginalGroup(p, h) => InOriginalGroup(q, h)
<1> DEFINE r == MoveGroups(p, ids)
           s == [r EXCEPT !.failed = << >>]
<1>1. /\ r \in Pbs /\ Parallel(r)
      /\ r.origin = p.origin \o MovedOrigins(p, ids)
      /\ SameBesideTable(p, r)
      /\ Len(r.groups) = Len(p.groups) + m
      /\ InOriginalGroup(p, h) => InOriginalGroup(r, h)
  BY MoveProperties
<1> HIDE DEF r
<1>2. s \in Pbs
  <2>1. << >> \in Seq(Nat)
    BY EmptySeq
  <2> QED BY <1>1, <2>1 DEF Pbs
<1>3. /\ s.groups = r.groups /\ s.origin = r.origin /\ s.xors = r.xors
      /\ s.checksums = r.checksums /\ s.remaining = p.remaining /\ s.round = p.round
      /\ s.role = p.role /\ s.hintRange = p.hintRange /\ s.failed = << >>
  BY <1>1 DEF Pbs, SameBesideTable
<1>4. Parallel(s) /\ (InOriginalGroup(p, h) => InOriginalGroup(s, h))
  BY <1>1, <1>3 DEF Parallel, InOriginalGroup
<1>5. s.remaining <= Len(s.groups)
  <2>1. Len(p.groups) \in Nat /\ p.remaining \in Nat
    BY DEF Pbs
  <2> QED BY <1>1, <1>3, <2>1
<1>6. WithHint(p, ids) = removeCompletedGroups_(s)
  BY DEF WithHint, r
<1> HIDE DEF s
<1>7. LET q == removeCompletedGroups_(s)
      IN  /\ q \in Pbs /\ Parallel(q)
          /\ q.origin = Behind(s.origin, s.remaining)
          /\ q.remaining = Len(s.groups) - s.remaining
          /\ Len(q.groups) = q.remaining
          /\ q.hintRange = IF s.role = "Alice" THEN s.remaining ELSE s.hintRange
          /\ q.round = s.round /\ q.role = s.role /\ q.failed = s.failed
          /\ InOriginalGroup(s, h) => InOriginalGroup(q, h)
  BY <1>2, <1>4, <1>5, RemoveProperties
<1> DEFINE q == WithHint(p, ids)
<1> HIDE DEF q
<1>8. /\ q \in Pbs /\ Parallel(q)
      /\ q.origin = Behind(p.origin \o MovedOrigins(p, ids), p.remaining)
      /\ q.remaining = Len(p.groups) + m - p.remaining
      /\ Len(q.groups) = q.remaining
      /\ q.round = p.round /\ q.role = p.role /\ q.failed = << >>
  <2>1. q \in Pbs /\ Parallel(q) /\ Len(q.groups) = q.remaining
    BY <1>6, <1>7 DEF q
  <2>2. q.origin = Behind(p.origin \o MovedOrigins(p, ids), p.remaining)
    BY <1>1, <1>3, <1>6, <1>7 DEF q
  <2>3. q.remaining = Len(p.groups) + m - p.remaining
    <3>1. Len(p.groups) \in Nat /\ p.remaining \in Nat
      BY DEF Pbs
    <3>2. Len(s.groups) = Len(p.groups) + m /\ s.remaining = p.remaining
      BY <1>1, <1>3
    <3>3. q.remaining = Len(s.groups) - s.remaining
      BY <1>6, <1>7 DEF q
    <3> QED BY <3>1, <3>2, <3>3
  <2>4. q.round = p.round /\ q.role = p.role /\ q.failed = << >>
    BY <1>3, <1>6, <1>7 DEF q
  <2> QED BY <2>1, <2>2, <2>3, <2>4
<1>9. p.role = "Bob" => q.hintRange = p.hintRange
  BY <1>3, <1>6, <1>7 DEF q
<1>10. InOriginalGroup(p, h) => InOriginalGroup(q, h)
  BY <1>4, <1>6, <1>7 DEF q
<1> QED BY <1>8, <1>9, <1>10 DEF q

(* The ids of the groups that BCH could not decode.                        *)
LEMMA FailedIdsType ==
    ASSUME NEW p \in Pbs, NEW h, NEW other
    PROVE  /\ Len(FailedIds(p, h, other)) \in Nat
           /\ FailedIds(p, h, other) \in
                 [1..Len(FailedIds(p, h, other)) -> 1..p.remaining]
<1> DEFINE F == {g \in 1..p.remaining : ~DecodeOf(p, h, other, g).ok}
<1>1. p.remaining \in Nat /\ F \in SUBSET (1..p.remaining)
  BY DEF Pbs
<1> HIDE DEF F
<1>2. Cardinality(F) \in Nat /\ Ordered(F) \in [1..Cardinality(F) -> F]
  BY <1>1, OrderedProperties
<1>3. Len(Ordered(F)) = Cardinality(F)
  BY <1>2
<1>4. Ordered(F) \in [1..Cardinality(F) -> 1..p.remaining]
  BY <1>1, <1>2
<1>5. FailedIds(p, h, other) = Ordered(F)
  BY DEF FailedIds, F
<1> QED BY <1>2, <1>3, <1>4, <1>5

LEMMA DecodeProperties ==
    ASSUME NEW p \in Pbs, Parallel(p), NEW h, NEW other \in Seq(SUBSET Bins),
           Len(p.groups) = p.remaining, Len(p.sketches) = p.remaining,
           Len(other) = p.remaining, p.failed = << >>
    PROVE  LET q == decode(p, h, other)
               ids == FailedIds(p, h, other)
           IN  /\ q \in Pbs
               /\ Parallel(q)
               /\ q.origin = p.origin \o PieceOrigins(p, ids)
               /\ Len(q.groups) = p.remaining + PieceCount(ids)
               /\ q.remaining = p.remaining /\ q.hintRange = p.remaining
               /\ q.role = "Bob" /\ q.round = p.round + 1 /\ q.failed = ids
               /\ InOriginalGroup(p, h) => InOriginalGroup(q, h)
<1> DEFINE ids == FailedIds(p, h, other)
           r == threeWaySplit_(p, h, ids)
           k == [g \in 1..Len(p.sketches) |-> p.sketches[g] (+) other[g]]
<1>1. p.remaining \in Nat /\ Len(ids) \in Nat /\ ids \in [1..Len(ids) -> 1..p.remaining]
  BY FailedIdsType DEF Pbs
<1>2. ids \in Seq(Nat)
  <2>1. ids \in [1..Len(ids) -> Nat]
    BY <1>1
  <2> QED BY <1>1, <2>1, FunctionIsSeq
<1>3. k \in Seq(SUBSET Bins)
  <2>1. p.sketches \in Seq(SUBSET Bins)
    BY DEF Pbs
  <2>2. \A g \in 1..p.remaining : p.sketches[g] \in SUBSET Bins /\ other[g] \in SUBSET Bins
    BY <2>1, ElementOfSeq
  <2>3. k \in [1..p.remaining -> SUBSET Bins]
    BY <2>2 DEF (+)
  <2> QED BY <1>1, <2>3, FunctionIsSeq
<1> HIDE DEF ids, k
<1>4. /\ r \in Pbs /\ Parallel(r)
      /\ r.origin = p.origin \o PieceOrigins(p, ids)
      /\ SameBesideTable(p, r)
      /\ Len(r.groups) = Len(p.groups) + PieceCount(ids)
      /\ InOriginalGroup(p, h) => InOriginalGroup(r, h)
  <2> DEFINE n == p.remaining
             m == Len(ids)
  <2>1. n \in Nat /\ n <= Len(p.groups) /\ m \in Nat /\ ids \in [1..m -> 1..n]
    BY <1>1
  <2> HIDE DEF n, m
  <2>2. r \in Pbs /\ Parallel(r)
    BY <2>1, SplitProperties
  <2>3. r.origin = p.origin \o PieceOrigins(p, ids)
    BY <2>1, SplitProperties
  <2>4. SameBesideTable(p, r)
    BY <2>1, SplitProperties
  <2>5. Len(r.groups) = Len(p.groups) + PieceCount(ids)
    BY <2>1, SplitProperties
  <2>6. InOriginalGroup(p, h) => InOriginalGroup(r, h)
    BY <2>1, SplitProperties
  <2> QED BY <2>2, <2>3, <2>4, <2>5, <2>6
<1> DEFINE q == decode(p, h, other)
<1> HIDE DEF r
<1>5. ids \in Seq(Nat) /\ << >> \o ids = ids
  BY <1>2, ConcatEmptySeq
<1>6. q = [r EXCEPT !.hintRange = p.remaining, !.role = "Bob", !.sketches = k,
                    !.failed = ids, !.round = p.round + 1]
  <2>1. r.sketches = p.sketches /\ r.failed = << >> /\ r.round = p.round
    BY <1>4 DEF SameBesideTable
  <2>2. q = [r EXCEPT !.hintRange = p.remaining, !.role = "Bob",
                      !.sketches = [g \in 1..Len(r.sketches) |-> r.sketches[g] (+) other[g]],
                      !.failed = r.failed \o ids, !.round = r.round + 1]
    BY <1>4 DEF decode, r, ids, Pbs
  <2> QED BY <1>5, <2>1, <2>2 DEF k
<1> HIDE DEF q
<1>7. q \in Pbs
  <2>1. p.round + 1 \in Nat
    BY DEF Pbs
  <2> QED BY <1>1, <1>3, <1>4, <1>5, <1>6, <2>1 DEF Pbs
<1>8. /\ q.groups = r.groups /\ q.origin = r.origin /\ q.xors = r.xors
      /\ q.checksums = r.checksums /\ q.remaining = p.remaining
      /\ q.hintRange = p.remaining /\ q.role = "Bob"
      /\ q.round = p.round + 1 /\ q.failed = ids
  BY <1>4, <1>6 DEF Pbs, SameBesideTable
<1>9. Parallel(q) /\ (InOriginalGroup(r, h) => InOriginalGroup(q, h))
  BY <1>4, <1>8 DEF Parallel, InOriginalGroup
<1> QED BY <1>4, <1>7, <1>8, <1>9 DEF q, ids
(* The message names the groups that failed, and is well formed.           *)
LEMMA XorAtIsKey ==
    ASSUME NEW p \in Pbs, Parallel(p), NEW g \in 1..Len(p.groups),
           NEW b \in Position, NEW e \in Key
    PROVE  XorAt(p, g, b, e) \in Key
<1>1. p.xors \in Seq([Bins -> Key]) /\ g \in 1..Len(p.xors)
  BY DEF Pbs, Parallel
<1>2. p.xors[g] \in [Bins -> Key]
  BY <1>1, ElementOfSeq
<1>3. b \in Bins => p.xors[g][b] \in Key
  BY <1>2
<1>4. {} \in Key
  BY DEF Key
<1> QED BY <1>3, <1>4 DEF XorAt

LEMMA DecodeOfType ==
    ASSUME NEW p \in Pbs, NEW h \in Hash, NEW other \in Seq(SUBSET Bins),
           NEW g \in 1..p.remaining,
           Len(p.sketches) = p.remaining, Len(other) = p.remaining
    PROVE  DecodeOf(p, h, other, g) \in Outcome
<1>1. p.sketches \in Seq(SUBSET Bins)
  BY DEF Pbs
<1>2. p.sketches[g] \in SUBSET Bins /\ other[g] \in SUBSET Bins
  BY <1>1, ElementOfSeq
<1>3. p.sketches[g] (+) other[g] \in SUBSET Bins
  BY <1>2 DEF (+)
<1>4. h.decode \in [SUBSET Bins -> Outcome]
  BY DEF Hash
<1> QED BY <1>3, <1>4 DEF DecodeOf

LEMMA DecodeMessageProperties ==
    ASSUME NEW p \in Pbs, Parallel(p), NEW h \in Hash, NEW other \in Seq(SUBSET Bins),
           Len(p.groups) = p.remaining, Len(p.sketches) = p.remaining,
           Len(other) = p.remaining, NEW e \in Key
    PROVE  LET msg == decodeMessage(p, h, other, e)
           IN  /\ msg \in DecodingMessage
               /\ Len(msg) = p.remaining
               /\ FailedGroups(p.remaining, msg) = FailedIds(p, h, other)
<1> DEFINE msg == decodeMessage(p, h, other, e)
<1>1. p.remaining \in Nat /\ p.checksums \in Seq(Key) /\ Len(p.checksums) = p.remaining
  BY DEF Pbs, Parallel
<1>2. ASSUME NEW g \in 1..p.remaining
      PROVE  /\ msg[g] \in GroupDecoding
             /\ msg[g].ok = DecodeOf(p, h, other, g).ok
  <2> DEFINE out == DecodeOf(p, h, other, g)
             x == [b \in out.at |-> XorAt(p, g, b, e)]
             s == IF out.ok THEN p.checksums[g] ELSE {}
  <2>1. out \in Outcome
    BY DecodeOfType
  <2>2. out.ok \in BOOLEAN /\ out.at \in SUBSET Position
    BY <2>1 DEF Outcome
  <2>3. msg[g] = [ok |-> out.ok, at |-> out.at, xors |-> x, sum |-> s]
    BY DEF decodeMessage
  <2> HIDE DEF out
  <2>4. x \in [out.at -> Key]
    BY <2>2, XorAtIsKey
  <2>5. s \in Key
    BY <1>1, ElementOfSeq DEF Key
  <2> HIDE DEF x, s, msg
  <2>6. msg[g] \in [ok : BOOLEAN, at : {out.at}, xors : [out.at -> Key], sum : Key]
    BY <2>2, <2>3, <2>4, <2>5
  <2>7. msg[g] \in GroupDecoding
    BY <2>2, <2>6 DEF GroupDecoding
  <2>8. msg[g].ok = out.ok
    BY <2>3
  <2> QED BY <2>7, <2>8 DEF out
<1>3. msg = [g \in 1..p.remaining |-> msg[g]]
  BY DEF decodeMessage
<1> HIDE DEF msg
<1>4. msg \in [1..p.remaining -> GroupDecoding]
  BY <1>2, <1>3
<1>5. msg \in Seq(GroupDecoding) /\ Len(msg) = p.remaining
  BY <1>1, <1>4, FunctionIsSeq
<1>6. {g \in 1..p.remaining : ~msg[g].ok} =
         {g \in 1..p.remaining : ~DecodeOf(p, h, other, g).ok}
  BY <1>2
<1>7. FailedGroups(p.remaining, msg) = FailedIds(p, h, other)
  BY <1>6 DEF FailedGroups, FailedIds
<1> QED BY <1>5, <1>7 DEF msg, DecodingMessage

(* What is accepted is a key, and a key of the group it was found in.      *)
LEMMA AcceptedProperties ==
    ASSUME NEW p \in Pbs, Parallel(p), p.remaining <= Len(p.groups), NEW h,
           NEW dec \in DecodingMessage, Len(dec) = p.remaining,
           NEW g \in 1..p.remaining
    PROVE  /\ Accepted(p, h, dec, g) \in SUBSET Key
           /\ \A k \in Accepted(p, h, dec, g) : getGroupId_(h, k) = p.origin[g]
<1>1. p.remaining \in Nat /\ Len(p.groups) \in Nat
  BY DEF Pbs
<1>2. g \in 1..Len(p.groups)
  BY <1>1
<1>3. dec[g] \in GroupDecoding
  BY ElementOfSeq DEF DecodingMessage
<1>4. PICK s \in SUBSET Position :
         dec[g] \in [ok : BOOLEAN, at : {s}, xors : [s -> Key], sum : Key]
  BY <1>3 DEF GroupDecoding
<1>5. dec[g].at = s /\ dec[g].xors \in [s -> Key]
  BY <1>4
<1>6. {} \in Key
  BY DEF Key
<1>7. \A b \in s : Candidate(p, dec, g, b) \in Key
  BY <1>2, <1>5, <1>6, XorAtIsKey, XorIsKey DEF Candidate
<1>8. Accepted(p, h, dec, g) \in SUBSET Key
  BY <1>5, <1>7 DEF Accepted
<1>9. \A k \in Accepted(p, h, dec, g) : getGroupId_(h, k) = p.origin[g]
  BY DEF Accepted, Accepts
<1> QED BY <1>8, <1>9

LEMMA InsertProperties ==
    ASSUME NEW p \in Pbs, Parallel(p), p.remaining <= Len(p.groups), NEW h,
           NEW dec \in DecodingMessage, Len(dec) = p.remaining
    PROVE  LET q == InsertRecovered(p, h, dec)
           IN  /\ q \in Pbs
               /\ Parallel(q)
               /\ SameBesideTable(p, q)
               /\ q.origin = p.origin
               /\ Len(q.groups) = Len(p.groups)
               /\ InOriginalGroup(p, h) => InOriginalGroup(q, h)
<1> DEFINE q == InsertRecovered(p, h, dec)
           E == ExceptionGroups(p, h, dec)
           n == Len(p.groups)
           c == [g \in 1..n |-> IF g \in E THEN p.groups[g] (+) Accepted(p, h, dec, g)
                                ELSE p.groups[g]]
<1>1. n \in Nat /\ p.groups \in Seq(SUBSET Key)
  BY DEF Pbs
<1>2. \A g \in E : g \in 1..p.remaining
  BY DEF ExceptionGroups
<1>3. q = [p EXCEPT !.groups = c]
  BY DEF InsertRecovered, Pbs
<1> HIDE DEF E, q
<1>4. ASSUME NEW g \in 1..n PROVE c[g] \in SUBSET Key
  <2>1. p.groups[g] \in SUBSET Key
    BY <1>1, ElementOfSeq
  <2>2. g \in E => Accepted(p, h, dec, g) \in SUBSET Key
    BY <1>2, AcceptedProperties
  <2> QED BY <2>1, <2>2 DEF (+)
<1>5. c \in [1..n -> SUBSET Key]
  BY <1>4
<1>6. c \in Seq(SUBSET Key) /\ Len(c) = n
  BY <1>1, <1>5, FunctionIsSeq
<1>7. ASSUME InOriginalGroup(p, h), NEW g \in 1..n, NEW k \in c[g]
      PROVE  getGroupId_(h, k) = p.origin[g]
  <2>1. k \in p.groups[g] \/ (g \in E /\ k \in Accepted(p, h, dec, g))
    BY <1>7 DEF (+)
  <2>2. CASE k \in p.groups[g]
    BY <1>7, <2>2 DEF InOriginalGroup
  <2>3. CASE g \in E /\ k \in Accepted(p, h, dec, g)
    BY <1>2, <2>3, AcceptedProperties
  <2> QED BY <2>1, <2>2, <2>3
<1> HIDE DEF c, n
<1>8. q \in Pbs
  BY <1>3, <1>6 DEF Pbs
<1>9. q.groups = c /\ q.origin = p.origin /\ q.xors = p.xors /\ q.checksums = p.checksums
  BY <1>3 DEF Pbs
<1>10. SameBesideTable(p, q)
  BY <1>3 DEF Pbs, SameBesideTable
<1>11. Parallel(q)
  BY <1>6, <1>9 DEF Parallel, n
<1>12. InOriginalGroup(p, h) => InOriginalGroup(q, h)
  BY <1>6, <1>7, <1>9 DEF InOriginalGroup
<1> QED BY <1>6, <1>8, <1>9, <1>10, <1>11, <1>12 DEF q, n
LEMMA OrderedIsIdList ==
    ASSUME NEW n \in Nat, NEW S \in SUBSET (1..n)
    PROVE  IdList(Ordered(S), n) /\ Ordered(S) \in Seq(Nat)
<1>1. /\ Cardinality(S) \in Nat
      /\ Ordered(S) \in [1..Cardinality(S) -> S]
      /\ \A i, j \in 1..Cardinality(S) : i < j => Ordered(S)[i] < Ordered(S)[j]
  BY OrderedProperties
<1>2. Len(Ordered(S)) = Cardinality(S)
  BY <1>1
<1> DEFINE o == Ordered(S)
           c == Cardinality(S)
<1> HIDE DEF o, c
<1>3. o \in [1..c -> 1..n] /\ o \in [1..c -> Nat] /\ c \in Nat
  <2>1. o \in [1..c -> S] /\ c \in Nat
    BY <1>1 DEF o, c
  <2>2. \A i \in 1..c : o[i] \in 1..n
    BY <2>1
  <2> QED BY <2>1, <2>2
<1>4. o \in Seq(Nat)
  BY <1>3, FunctionIsSeq
<1>5. IdList(o, n)
  BY <1>1, <1>2, <1>3 DEF IdList, o, c
<1> QED BY <1>4, <1>5 DEF o

LEMMA FailedGroupsIsIdList ==
    ASSUME NEW n \in Nat, NEW dec
    PROVE  IdList(FailedGroups(n, dec), n) /\ FailedGroups(n, dec) \in Seq(Nat)
<1> DEFINE S == {g \in 1..n : ~dec[g].ok}
<1>1. S \in SUBSET (1..n)
  OBVIOUS
<1> HIDE DEF S
<1>2. IdList(Ordered(S), n) /\ Ordered(S) \in Seq(Nat)
  BY <1>1, OrderedIsIdList
<1> QED BY <1>2 DEF FailedGroups, S

(* Alice's table becomes the pieces of the groups BCH could not decode,    *)
(* then the groups with an exception, of which she keeps the ids.          *)
LEMMA CheckProperties ==
    ASSUME NEW p \in Pbs, Parallel(p), Len(p.groups) = p.remaining, NEW h,
           NEW dec \in DecodingMessage, Len(dec) = p.remaining
    PROVE  LET q == decodeCheck(p, h, dec)
               ids == FailedGroups(p.remaining, dec)
           IN  /\ q \in Pbs
               /\ Parallel(q)
               /\ q.role = "Alice" /\ q.round = p.round + 1
               /\ q.failed = ids
               /\ IdList(q.exceptions, p.remaining)
               /\ q.hintRange = p.remaining
               /\ q.origin = AfterMoves(p.origin \o PieceOrigins(p, ids), q.exceptions, p.remaining)
               /\ Len(q.groups) = q.remaining
               /\ q.remaining = PieceCount(ids) + Len(q.exceptions)
               /\ InOriginalGroup(p, h) => InOriginalGroup(q, h)
<1> DEFINE ids == FailedGroups(p.remaining, dec)
           exc == Ordered(ExceptionGroups(p, h, dec))
           n == p.remaining
           a == InsertRecovered(p, h, dec)
           b == threeWaySplit_(a, h, ids)
           c == MoveGroups(b, exc)
           d == [c EXCEPT !.role = "Alice"]
           e == removeCompletedGroups_(d)
           rec == [g \in 1..p.remaining |-> Accepted(p, h, dec, g)]
           q == decodeCheck(p, h, dec)
<1>1. n \in Nat /\ IdList(ids, n) /\ ids \in Seq(Nat)
  BY FailedGroupsIsIdList DEF Pbs
<1>2. IdList(exc, n) /\ exc \in Seq(Nat)
  BY <1>1, OrderedIsIdList DEF ExceptionGroups
<1>3. rec \in Seq(SUBSET Key)
  <2>1. \A g \in 1..n : Accepted(p, h, dec, g) \in SUBSET Key
    BY <1>1, AcceptedProperties
  <2>2. rec \in [1..n -> SUBSET Key]
    BY <2>1
  <2> HIDE DEF rec, n
  <2> QED BY <1>1, <2>2, FunctionIsSeq
<1>4. /\ a \in Pbs /\ Parallel(a) /\ SameBesideTable(p, a)
      /\ a.origin = p.origin /\ Len(a.groups) = n
      /\ InOriginalGroup(p, h) => InOriginalGroup(a, h)
  BY <1>1, InsertProperties
<1>5. q = [e EXCEPT !.failed = ids, !.exceptions = exc,
                    !.recovered = Append(e.recovered, rec), !.round = e.round + 1]
  <2> HIDE DEF Pbs
  <2> QED BY DEF decodeCheck
<1> HIDE DEF a, ids, exc, rec, q
<1>6. /\ b \in Pbs /\ Parallel(b) /\ SameBesideTable(a, b)
      /\ b.origin = a.origin \o PieceOrigins(a, ids)
      /\ Len(b.groups) = n + PieceCount(ids)
      /\ InOriginalGroup(a, h) => InOriginalGroup(b, h)
  <2> DEFINE m == Len(ids)
  <2>1. n <= Len(a.groups) /\ m \in Nat /\ ids \in [1..m -> 1..n]
    BY <1>1, <1>4 DEF IdList
  <2> HIDE DEF m, n
  <2>2. b \in Pbs /\ Parallel(b)
    BY <1>1, <1>4, <2>1, SplitProperties
  <2>3. SameBesideTable(a, b)
    BY <1>1, <1>4, <2>1, SplitProperties
  <2>4. b.origin = a.origin \o PieceOrigins(a, ids)
    BY <1>1, <1>4, <2>1, SplitProperties
  <2>5. Len(b.groups) = Len(a.groups) + PieceCount(ids)
    BY <1>1, <1>4, <2>1, SplitProperties
  <2>6. InOriginalGroup(a, h) => InOriginalGroup(b, h)
    BY <1>1, <1>4, <2>1, SplitProperties
  <2> QED BY <1>4, <2>2, <2>3, <2>4, <2>5, <2>6
<1> HIDE DEF b
<1>7. /\ c \in Pbs /\ Parallel(c) /\ SameBesideTable(b, c)
      /\ c.origin = b.origin \o MovedOrigins(b, exc)
      /\ Len(c.groups) = Len(b.groups) + Len(exc)
      /\ InOriginalGroup(b, h) => InOriginalGroup(c, h)
  <2> DEFINE m == Len(exc)
  <2>1. m \in Nat /\ exc \in [1..m -> 1..Len(b.groups)]
    <3>1. PieceCount(ids) \in Nat
      BY <1>1, PieceCountIsNat DEF IdList
    <3>2. n <= Len(b.groups) /\ Len(b.groups) \in Nat
      BY <1>1, <1>6, <3>1
    <3> QED BY <1>1, <1>2, <3>2 DEF IdList
  <2> HIDE DEF m
  <2>2. c \in Pbs /\ Parallel(c)
    BY <1>6, <2>1, MoveProperties
  <2>3. SameBesideTable(b, c)
    BY <1>6, <2>1, MoveProperties
  <2>4. c.origin = b.origin \o MovedOrigins(b, exc)
    BY <1>6, <2>1, MoveProperties
  <2>5. Len(c.groups) = Len(b.groups) + m
    BY <1>6, <2>1, MoveProperties
  <2>6. InOriginalGroup(b, h) => InOriginalGroup(c, h)
    BY <1>6, <2>1, MoveProperties
  <2> QED BY <2>2, <2>3, <2>4, <2>5, <2>6 DEF m
<1> HIDE DEF c
<1>8. /\ d \in Pbs
      /\ d.groups = c.groups /\ d.origin = c.origin /\ d.xors = c.xors
      /\ d.checksums = c.checksums /\ d.remaining = c.remaining
      /\ d.round = c.round /\ d.role = "Alice" /\ d.recovered = c.recovered
  BY <1>7 DEF Pbs
<1> HIDE DEF d
<1>9. Parallel(d) /\ (InOriginalGroup(c, h) => InOriginalGroup(d, h))
  BY <1>7, <1>8 DEF Parallel, InOriginalGroup
<1>10. d.remaining = n /\ d.round = p.round /\ d.recovered = p.recovered
  BY <1>4, <1>6, <1>7, <1>8 DEF SameBesideTable
<1>11. PieceCount(ids) \in Nat /\ Len(exc) \in Nat
  BY <1>1, <1>2, PieceCountIsNat DEF IdList
<1>12. Len(d.groups) = n + PieceCount(ids) + Len(exc)
  BY <1>6, <1>7, <1>8
<1>13. d.remaining <= Len(d.groups)
  BY <1>1, <1>10, <1>11, <1>12
<1>14. /\ e \in Pbs /\ Parallel(e)
       /\ e.origin = Behind(d.origin, n)
       /\ e.remaining = Len(d.groups) - n /\ Len(e.groups) = e.remaining
       /\ e.hintRange = n
       /\ e.round = p.round /\ e.role = "Alice" /\ e.recovered = p.recovered
       /\ InOriginalGroup(d, h) => InOriginalGroup(e, h)
  BY <1>8, <1>9, <1>10, <1>13, RemoveProperties
<1> HIDE DEF e
<1>15. Append(e.recovered, rec) \in Seq(Seq(SUBSET Key)) /\ e.round + 1 \in Nat
  <2>1. e.recovered \in Seq(Seq(SUBSET Key)) /\ e.round \in Nat
    BY <1>14 DEF Pbs
  <2> QED
    BY <1>3, <2>1, AppendProperties
<1>16. q \in Pbs
  BY <1>1, <1>2, <1>5, <1>14, <1>15 DEF Pbs
<1>17. /\ q.groups = e.groups /\ q.origin = e.origin /\ q.xors = e.xors
       /\ q.checksums = e.checksums /\ q.remaining = e.remaining
       /\ q.hintRange = e.hintRange /\ q.role = e.role /\ q.round = e.round + 1
       /\ q.failed = ids /\ q.exceptions = exc
  BY <1>5, <1>14 DEF Pbs
<1>18. Parallel(q) /\ (InOriginalGroup(e, h) => InOriginalGroup(q, h))
  BY <1>14, <1>17 DEF Parallel, InOriginalGroup
<1>19. PieceOrigins(a, ids) = PieceOrigins(p, ids)
  BY <1>4 DEF PieceOrigins
<1>20. q.origin = AfterMoves(p.origin \o PieceOrigins(p, ids), exc, n)
  BY <1>4, <1>6, <1>7, <1>8, <1>14, <1>17, <1>19 DEF AfterMoves, MovedOrigins
<1>21. q.remaining = PieceCount(ids) + Len(exc)
  <2> DEFINE x == PieceCount(ids)
  <2>1. q.remaining = (n + x + Len(exc)) - n
    BY <1>12, <1>14, <1>17
  <2> HIDE DEF x, n
  <2>2. q.remaining = x + Len(exc)
    BY <1>1, <1>11, <2>1 DEF x
  <2> QED BY <2>2 DEF x
<1>22. InOriginalGroup(p, h) => InOriginalGroup(q, h)
  BY <1>4, <1>6, <1>7, <1>9, <1>14, <1>18
<1> QED
  BY <1>2, <1>14, <1>16, <1>17, <1>18, <1>20, <1>21, <1>22 DEF ids, q

(* A round is added to what Alice has recovered, and she keeps the ids of  *)
(* the exceptions for her hint.                                            *)
LEMMA CheckRecovers ==
    ASSUME NEW p \in Pbs, NEW h, NEW dec
    PROVE  /\ decodeCheck(p, h, dec).recovered =
                 Append(p.recovered, [g \in 1..p.remaining |-> Accepted(p, h, dec, g)])
           /\ decodeCheck(p, h, dec).exceptions = Ordered(ExceptionGroups(p, h, dec))
<1> DEFINE a == InsertRecovered(p, h, dec)
           b == threeWaySplit_(a, h, FailedGroups(p.remaining, dec))
           c == MoveGroups(b, Ordered(ExceptionGroups(p, h, dec)))
           e == removeCompletedGroups_([c EXCEPT !.role = "Alice"])
           rec == [g \in 1..p.remaining |-> Accepted(p, h, dec, g)]
<1>1. DOMAIN a = DOMAIN p /\ a.recovered = p.recovered
  BY DEF InsertRecovered, Pbs
<1>2. decodeCheck(p, h, dec) =
         [e EXCEPT !.failed = FailedGroups(p.remaining, dec),
                   !.exceptions = Ordered(ExceptionGroups(p, h, dec)),
                   !.recovered = Append(e.recovered, rec),
                   !.round = e.round + 1]
  BY DEF decodeCheck
<1> HIDE DEF a, rec
<1>3. DOMAIN b = DOMAIN p /\ b.recovered = p.recovered
  BY <1>1 DEF threeWaySplit_, AppendGroups, Pbs
<1> HIDE DEF b
<1>4. DOMAIN c = DOMAIN p /\ c.recovered = p.recovered
  BY <1>3 DEF MoveGroups, AppendGroups, Pbs
<1> HIDE DEF c
<1>5. DOMAIN e = DOMAIN p /\ e.recovered = p.recovered
  BY <1>4 DEF removeCompletedGroups_, Pbs
<1> HIDE DEF e
<1> QED
  BY <1>2, <1>5 DEF rec, Pbs

-------------------------------------------------------------------------------
(* Ordered(S) leaves out no member of S. *)
LEMMA OrderedCovers ==
    ASSUME NEW n \in Nat, NEW S \in SUBSET (1..n)
    PROVE  S = {Ordered(S)[i] : i \in 1..Len(Ordered(S))}
<1> DEFINE c == Cardinality(S)
           f == Ordered(S)
<1>1. /\ c \in Nat /\ f \in [1..c -> S]
      /\ \A i, j \in 1..c : i < j => f[i] < f[j]
  BY OrderedProperties
<1>2. IsFiniteSet(S)
  <2>1. IsFiniteSet(1..n)
    BY FS_Interval
  <2> QED BY <2>1, FS_Subset
<1>3. Cardinality(1..c) = c
  BY <1>1, FS_Interval
<1>4. Len(f) = c
  BY <1>1
<1> HIDE DEF c, f
<1>5. f \in Injection(1..c, S)
  <2>1. ASSUME NEW i \in 1..c, NEW j \in 1..c, f[i] = f[j]
        PROVE  i = j
    <3>1. i < j \/ j < i \/ i = j
      OBVIOUS
    <3>2. \A a \in 1..c : f[a] \in Int
      <4>1. \A g \in S : g \in Int
        OBVIOUS
      <4> QED BY <1>1, <4>1
    <3> QED BY <1>1, <2>1, <3>1, <3>2
  <2> QED BY <1>1, <2>1, Fun_IsInj
<1>6. f \in Surjection(1..c, S)
  BY <1>2, <1>3, <1>5, FS_Injection DEF c
<1>7. \A g \in S : \E i \in 1..c : f[i] = g
  BY <1>6 DEF Surjection
<1> QED BY <1>1, <1>4, <1>7 DEF f

(* (+) is an Abelian group in which every element is its own inverse.      *)
LEMMA XorAlgebra ==
    /\ \A x, y : x (+) (x (+) y) = y
    /\ \A x, y, z : (x (+) y) (+) z = x (+) (y (+) z)
    /\ \A x, y : x (+) y = y (+) x
    /\ \A x : x (+) {} = x /\ {} (+) x = x
    /\ \A x : x (+) x = {}
<1>1. \A x, y : x (+) (x (+) y) = y
  BY DEF (+)
<1>2. \A x, y, z : (x (+) y) (+) z = x (+) (y (+) z)
  BY DEF (+)
<1>3. \A x, y : x (+) y = y (+) x
  BY Zenon DEF (+)
<1>4. \A x : x (+) {} = x /\ {} (+) x = x
  BY DEF (+)
<1>5. \A x : x (+) x = {}
  BY DEF (+)
<1> QED
  BY <1>1, <1>2, <1>3, <1>4, <1>5

-------------------------------------------------------------------------------
(* What is recovered, round by round and group by group, as a parity.      *)
Cells(s) == UNION {{r} \X (1..Len(s[r])) : r \in 1..Len(s)}
Entry(s) == [c \in Cells(s) |-> s[c[1]][c[2]]]
ParityOf(s) == Toggled(Cells(s), Entry(s))

LEMMA CellsMembers ==
    \A s, c : c \in Cells(s) <=> \E r \in 1..Len(s) : \E g \in 1..Len(s[r]) : c = <<r, g>>
BY DEF Cells

LEMMA ParityIs ==
    \A s : {k \in Key : IsOdd(Cardinality({c \in Cells(s) : k \in s[c[1]][c[2]]}))} = ParityOf(s)
<1> TAKE s
<1>1. \A k : {c \in Cells(s) : k \in s[c[1]][c[2]]} = {c \in Cells(s) : k \in Entry(s)[c]}
  BY DEF Entry
<1> QED BY <1>1 DEF ParityOf, Toggled

LEMMA ProductIsFinite ==
    \A S, T : IsFiniteSet(S) /\ IsFiniteSet(T) => IsFiniteSet(S \X T)
BY FS_Product

(* There are finitely many lists of recovered keys.                        *)
LEMMA CellsAreFinite ==
    ASSUME NEW s \in Seq(Seq(SUBSET Key))
    PROVE  IsFiniteSet(Cells(s))
<1> DEFINE row == [r \in 1..Len(s) |-> {r} \X (1..Len(s[r]))]
           C == {row[r] : r \in 1..Len(s)}
<1>1. IsFiniteSet(1..Len(s))
  <2>1. Len(s) \in Int
    OBVIOUS
  <2> QED BY <2>1, FS_Interval
<1>2. IsFiniteSet(C)
  <2>1. row \in Surjection(1..Len(s), C)
    BY DEF Surjection
  <2> HIDE DEF row, C
  <2> QED BY <1>1, <2>1, FS_Surjection
<1>3. ASSUME NEW r \in 1..Len(s) PROVE IsFiniteSet({r} \X (1..Len(s[r])))
  <2>1. Len(s[r]) \in Int
    <3>1. s[r] \in Seq(SUBSET Key)
      BY <1>3, ElementOfSeq
    <3> QED BY <3>1
  <2>2. IsFiniteSet(1..Len(s[r]))
    BY <2>1, FS_Interval
  <2>3. IsFiniteSet({r})
    BY FS_Singleton
  <2> QED BY <2>2, <2>3, ProductIsFinite
<1>4. \A c \in C : IsFiniteSet(c)
  BY <1>3
<1>5. UNION C = Cells(s)
  BY DEF Cells
<1> HIDE DEF C
<1> QED BY <1>2, <1>4, <1>5, FS_UNION

(* A round more toggles what was recovered in it.                          *)
LEMMA ParityGrows ==
    ASSUME NEW s \in Seq(Seq(SUBSET Key)), NEW rec \in Seq(SUBSET Key)
    PROVE  ParityOf(Append(s, rec)) = ParityOf(s) (+) Toggled(1..Len(rec), rec)
<1> DEFINE l == Len(s)
           t == Append(s, rec)
           N == {l + 1} \X (1..Len(rec))
<1>1. /\ l \in Nat /\ t \in Seq(Seq(SUBSET Key)) /\ Len(t) = l + 1 /\ t[l + 1] = rec
      /\ \A r \in 1..l : t[r] = s[r]
  BY AppendProperties
<1>2. Len(rec) \in Nat
  OBVIOUS
<1> HIDE DEF t, l
<1>3. Cells(t) = Cells(s) \union N
  <2>1. \A r : r \in 1..(l + 1) <=> r \in 1..l \/ r = l + 1
    BY <1>1
  <2>2. ASSUME NEW c PROVE c \in Cells(t) <=> c \in Cells(s) \/ c \in N
    <3>1. c \in Cells(t) <=> \/ \E r \in 1..l : \E g \in 1..Len(t[r]) : c = <<r, g>>
                             \/ \E g \in 1..Len(t[l + 1]) : c = <<l + 1, g>>
      <4>1. c \in Cells(t) <=> \E r \in 1..(l + 1) : \E g \in 1..Len(t[r]) : c = <<r, g>>
        <5>1. c \in Cells(t) <=> \E r \in 1..Len(t) : \E g \in 1..Len(t[r]) : c = <<r, g>>
          BY CellsMembers
        <5>2. 1..Len(t) = 1..(l + 1)
          BY <1>1
        <5> QED BY <5>1, <5>2, Zenon
      <4> QED BY <2>1, <4>1, Zenon
    <3>2. c \in Cells(s) <=> \E r \in 1..l : \E g \in 1..Len(s[r]) : c = <<r, g>>
      BY CellsMembers DEF l
    <3>3. c \in N <=> \E g \in 1..Len(rec) : c = <<l + 1, g>>
      OBVIOUS
    <3> QED BY <1>1, <3>1, <3>2, <3>3
  <2> QED BY <2>2
<1>4. Cells(s) \cap N = {}
  <2>1. \A c \in Cells(s) : c[1] \in 1..l
    BY CellsMembers DEF l
  <2>2. \A c \in N : c[1] = l + 1
    OBVIOUS
  <2>3. l + 1 \notin 1..l
    BY <1>1
  <2> QED BY <2>1, <2>2, <2>3
<1>5. IsFiniteSet(Cells(s)) /\ IsFiniteSet(N)
  <2>1. IsFiniteSet(1..Len(rec))
    BY <1>2, FS_Interval
  <2>2. IsFiniteSet({l + 1})
    BY FS_Singleton
  <2> QED BY <2>1, <2>2, ProductIsFinite, CellsAreFinite
<1>6. ParityOf(t) = Toggled(Cells(s), Entry(t)) (+) Toggled(N, Entry(t))
  BY <1>3, <1>4, <1>5, ToggledOfUnion DEF ParityOf
<1>7. Toggled(Cells(s), Entry(t)) = ParityOf(s)
  <2>1. ASSUME NEW c \in Cells(s) PROVE Entry(t)[c] = Entry(s)[c]
    <3>1. c[1] \in 1..l
      BY CellsMembers DEF l
    <3> QED BY <1>1, <1>3, <3>1 DEF Entry
  <2> QED BY <2>1, ToggledSame DEF ParityOf
<1>8. Toggled(N, Entry(t)) = Toggled(1..Len(rec), rec)
  <2>1. ASSUME NEW k \in Key
        PROVE  ExistsBijection({c \in N : k \in Entry(t)[c]}, {g \in 1..Len(rec) : k \in rec[g]})
    <3> DEFINE X == {c \in N : k \in Entry(t)[c]}
               Y == {g \in 1..Len(rec) : k \in rec[g]}
               f == [c \in X |-> c[2]]
    <3>1. \A c \in N : Entry(t)[c] = rec[c[2]] /\ c = <<l + 1, c[2]>> /\ c[2] \in 1..Len(rec)
      BY <1>1, <1>3 DEF Entry
    <3>2. f \in [X -> Y]
      BY <3>1
    <3>3. \A c, d \in X : f[c] = f[d] => c = d
      BY <3>1
    <3>4. ASSUME NEW g \in Y PROVE \E c \in X : f[c] = g
      <4>1. <<l + 1, g>> \in N
        OBVIOUS
      <4>2. <<l + 1, g>> \in X
        BY <3>1, <4>1
      <4> QED BY <4>2
    <3>5. f \in Bijection(X, Y)
      <4> HIDE DEF f, X, Y
      <4> QED BY <3>2, <3>3, <3>4, Fun_IsBij
    <3> QED BY <3>5 DEF ExistsBijection
  <2> DEFINE M == Entry(t)
             J == 1..Len(rec)
  <2>2. \A k \in Key : ExistsBijection({c \in N : k \in M[c]}, {g \in J : k \in rec[g]})
    BY <2>1
  <2> HIDE DEF N, M, J
  <2>3. Toggled(N, M) = Toggled(J, rec)
    BY <1>5, <2>2, ToggledAlike
  <2> QED BY <2>3 DEF M, J
<1> QED BY <1>6, <1>7, <1>8 DEF t
===============================================================================
