-------------------------- MODULE PbsMessagesProofs --------------------------
(***************************************************************************)
(* Every message of PBS arrives, whatever the code, the number of groups   *)
(* and the bits in a byte: a receiver that supplies the number of groups   *)
(* and the widths finds what the sender has written.                       *)
(*                                                                         *)
(* The receiver counts, so the proofs are about offsets: FlattenPlaces     *)
(* says where the k-th element of the g-th list is in the lists one after  *)
(* another, and SumUpTo is what the receiver adds up to find it.  Facts    *)
(* about powers and bits are those of BitStreamProofs.                     *)
(***************************************************************************)
EXTENDS PbsMessages, FiniteSetTheorems, TLAPS

(* The facts of BitStreamProofs that are cited here are about numbers, not *)
(* about a stream: its parameters do not matter.                           *)
Stream == INSTANCE BitStreamProofs WITH
              ByteBits <- 1, MaxWidth <- 1, MaxFields <- 1,
              fields <- << >>, writer <- << >>, reader <- << >>, values <- << >>

-------------------------------------------------------------------------------
(* Recursion over 0..n: a solution exists, and there is only one.          *)
LEMMA SetInduction ==
    \A S \in SUBSET Nat : 0 \in S /\ (\A n \in S : n + 1 \in S) => S = Nat
BY Stream!SetInduction

Solves(f, v, next, n) ==
    f[0] = v /\ \A i \in 1..n : f[i] = next[<<i, f[i - 1]>>]

LEMMA RecursionExists ==
    ASSUME NEW V, NEW v \in V, NEW next \in [Nat \X V -> V], NEW n \in Nat
    PROVE  \E f \in [0..n -> V] : Solves(f, v, next, n)
<1> DEFINE S == {m \in Nat : \E f \in [0..m -> V] : Solves(f, v, next, m)}
<1>1. 0 \in S
  <2> DEFINE f == [i \in 0..0 |-> v]
  <2>1. f \in [0..0 -> V] /\ Solves(f, v, next, 0)
    BY DEF Solves
  <2> HIDE DEF f
  <2> QED BY <2>1
<1>2. ASSUME NEW m \in S PROVE m + 1 \in S
  <2>1. PICK f \in [0..m -> V] : Solves(f, v, next, m)
    OBVIOUS
  <2> DEFINE g == [i \in 0..(m + 1) |-> IF i <= m THEN f[i] ELSE next[<<m + 1, f[m]>>]]
  <2>2. f[m] \in V /\ <<m + 1, f[m]>> \in Nat \X V
    OBVIOUS
  <2>3. next[<<m + 1, f[m]>>] \in V
    BY <2>2
  <2>4. g \in [0..(m + 1) -> V]
    BY <2>3
  <2>5. ASSUME NEW i \in 1..(m + 1) PROVE g[i] = next[<<i, g[i - 1]>>]
    <3>1. CASE i \in 1..m
      <4>1. f[i] = next[<<i, f[i - 1]>>]
        BY <2>1, <3>1 DEF Solves
      <4>2. g[i] = f[i] /\ g[i - 1] = f[i - 1]
        BY <3>1
      <4> QED BY <4>1, <4>2
    <3>2. CASE i = m + 1
      <4>1. g[i] = next[<<m + 1, f[m]>>] /\ g[m] = f[m] /\ i - 1 = m
        BY <3>2
      <4> QED BY <3>2, <4>1
    <3> QED BY <3>1, <3>2
  <2>6. g[0] = v
    BY <2>1 DEF Solves
  <2> HIDE DEF g
  <2>7. Solves(g, v, next, m + 1)
    BY <2>5, <2>6 DEF Solves
  <2> QED BY <2>4, <2>7
<1>3. S \in SUBSET Nat
  OBVIOUS
<1> HIDE DEF S
<1>4. S = Nat
  BY <1>1, <1>2, <1>3, SetInduction
<1> QED BY <1>4 DEF S

LEMMA RecursionIsUnique ==
    \A v, next, f, g : \A n \in Nat :
        Solves(f, v, next, n) /\ Solves(g, v, next, n) => \A i \in 0..n : f[i] = g[i]
<1> SUFFICES ASSUME NEW v, NEW next, NEW f, NEW g, NEW n \in Nat,
                    Solves(f, v, next, n), Solves(g, v, next, n)
             PROVE  \A i \in 0..n : f[i] = g[i]
  OBVIOUS
<1> DEFINE S == {i \in Nat : i <= n => f[i] = g[i]}
<1>1. 0 \in S
  BY DEF Solves
<1>2. ASSUME NEW i \in S PROVE i + 1 \in S
  <2> SUFFICES ASSUME i + 1 <= n PROVE f[i + 1] = g[i + 1]
    OBVIOUS
  <2>1. i + 1 \in 1..n /\ (i + 1) - 1 = i /\ f[i] = g[i]
    OBVIOUS
  <2> QED BY <2>1 DEF Solves
<1>3. S \in SUBSET Nat
  OBVIOUS
<1> HIDE DEF S
<1>4. S = Nat
  BY <1>1, <1>2, <1>3, SetInduction
<1> QED BY <1>4 DEF S

-------------------------------------------------------------------------------
(* What the receiver adds up: nothing for a group that failed.             *)
Counted(c) == IF c > 0 THEN c ELSE 0

AreCounts(counts, n) == \A g \in 1..n : counts[g] \in Int

SumStep(counts, n) ==
    [p \in Nat \X Nat |-> p[2] + (IF p[1] \in 1..n THEN Counted(counts[p[1]]) ELSE 0)]

LEMMA SumSolves ==
    ASSUME NEW counts, NEW n \in Nat, AreCounts(counts, n)
    PROVE  \E s \in [0..n -> Nat] :
              Solves(s, 0, SumStep(counts, n), n) /\ SumUpTo(counts, n) = s[n]
<1> DEFINE next == SumStep(counts, n)
           IsSum(s) == s = [g \in 0..n |->
                               IF g = 0 THEN 0
                               ELSE s[g - 1] + (IF counts[g] > 0 THEN counts[g] ELSE 0)]
           sum == CHOOSE s : IsSum(s)
<1>1. \A g \in 1..n : Counted(counts[g]) \in Nat
  BY DEF AreCounts, Counted
<1>2. next \in [Nat \X Nat -> Nat]
  BY <1>1 DEF SumStep
<1>3. \A g \in 1..n : \A x \in Nat :
          next[<<g, x>>] = x + (IF counts[g] > 0 THEN counts[g] ELSE 0)
  BY DEF SumStep, Counted
<1> HIDE DEF next
<1>4. PICK f \in [0..n -> Nat] : Solves(f, 0, next, n)
  BY <1>2, RecursionExists
<1>5. ASSUME NEW g \in 0..n
      PROVE  f[g] = IF g = 0 THEN 0
                    ELSE f[g - 1] + (IF counts[g] > 0 THEN counts[g] ELSE 0)
  <2>1. CASE g = 0
    BY <1>4, <2>1 DEF Solves
  <2>2. CASE g # 0
    <3>1. g \in 1..n /\ g - 1 \in 0..n
      BY <2>2
    <3>2. f[g] = next[<<g, f[g - 1]>>] /\ f[g - 1] \in Nat
      BY <1>4, <3>1 DEF Solves
    <3> QED BY <1>3, <2>2, <3>1, <3>2
  <2> QED BY <2>1, <2>2
<1>6. IsSum(f)
  BY <1>4, <1>5
<1>7. IsSum(sum)
  BY <1>6
<1>8. SumUpTo(counts, n) = sum[n]
  BY DEF SumUpTo
<1> HIDE DEF sum
<1>9. sum = [g \in 0..n |-> IF g = 0 THEN 0
                            ELSE sum[g - 1] + (IF counts[g] > 0 THEN counts[g] ELSE 0)]
  BY <1>7
<1> HIDE DEF IsSum
<1>10. /\ DOMAIN sum = 0..n /\ sum[0] = 0
       /\ \A g \in 1..n : sum[g] = sum[g - 1] + (IF counts[g] > 0 THEN counts[g] ELSE 0)
  BY <1>9
<1>11. \A g \in 0..n : sum[g] \in Nat
  <2> DEFINE S == {g \in Nat : g <= n => sum[g] \in Nat}
  <2>0. S \in SUBSET Nat
    OBVIOUS
  <2>1. 0 \in S
    BY <1>10
  <2>2. ASSUME NEW g \in S PROVE g + 1 \in S
    <3> SUFFICES ASSUME g + 1 <= n PROVE sum[g + 1] \in Nat
      OBVIOUS
    <3>1. g + 1 \in 1..n /\ (g + 1) - 1 = g /\ sum[g] \in Nat
      OBVIOUS
    <3>2. sum[g + 1] = sum[g] + (IF counts[g + 1] > 0 THEN counts[g + 1] ELSE 0)
      BY <1>10, <3>1
    <3> QED BY <3>1, <3>2 DEF AreCounts
  <2>3. \A g \in S : g + 1 \in S
    BY <2>2
  <2> HIDE DEF S
  <2>4. S = Nat
    BY <2>0, <2>1, <2>3, SetInduction
  <2> QED BY <2>4 DEF S
<1>12. Solves(sum, 0, next, n)
  <2> SUFFICES ASSUME NEW g \in 1..n PROVE sum[g] = next[<<g, sum[g - 1]>>]
    BY <1>10 DEF Solves
  <2>1. sum[g - 1] \in Nat
    BY <1>11
  <2> QED BY <1>3, <1>10, <2>1
<1>13. sum \in [0..n -> Nat]
  BY <1>9, <1>11
<1> QED BY <1>8, <1>12, <1>13 DEF next

LEMMA SumOfNone == \A counts : SumUpTo(counts, 0) = 0
<1> SUFFICES ASSUME NEW counts PROVE SumUpTo(counts, 0) = 0
  OBVIOUS
<1>1. AreCounts(counts, 0)
  BY DEF AreCounts
<1>2. PICK s \in [0..0 -> Nat] :
          Solves(s, 0, SumStep(counts, 0), 0) /\ SumUpTo(counts, 0) = s[0]
  BY <1>1, SumSolves
<1> QED BY <1>2 DEF Solves

(* The sum of one count more; of the same counts.                          *)
SumGrows(counts, n) ==
    /\ SumUpTo(counts, n) \in Nat
    /\ SumUpTo(counts, n + 1) = SumUpTo(counts, n) + Counted(counts[n + 1])

LEMMA SumOfSame ==
    ASSUME NEW c, NEW d, NEW n \in Nat, AreCounts(c, n),
           \A g \in 1..n : Counted(d[g]) = Counted(c[g]), AreCounts(d, n)
    PROVE  SumUpTo(c, n) = SumUpTo(d, n)
<1>1. PICK s \in [0..n -> Nat] : Solves(s, 0, SumStep(c, n), n) /\ SumUpTo(c, n) = s[n]
  BY SumSolves
<1>2. PICK t \in [0..n -> Nat] : Solves(t, 0, SumStep(d, n), n) /\ SumUpTo(d, n) = t[n]
  BY SumSolves
<1>3. SumStep(c, n) = SumStep(d, n)
  BY DEF SumStep
<1>4. \A g \in 0..n : s[g] = t[g]
  BY <1>1, <1>2, <1>3, RecursionIsUnique
<1> QED BY <1>1, <1>2, <1>4

LEMMA SumOfNext ==
    ASSUME NEW counts, NEW n \in Nat, AreCounts(counts, n + 1)
    PROVE  SumGrows(counts, n)
<1> DEFINE m == n + 1
<1>1. m \in Nat /\ AreCounts(counts, m) /\ AreCounts(counts, n)
  BY DEF AreCounts
<1>2. PICK s \in [0..n -> Nat] :
          Solves(s, 0, SumStep(counts, n), n) /\ SumUpTo(counts, n) = s[n]
  BY <1>1, SumSolves
<1>a. m = n + 1
  OBVIOUS
<1> HIDE DEF m
<1>3. PICK t : /\ \A g \in 0..m : t[g] \in Nat
               /\ Solves(t, 0, SumStep(counts, m), m) /\ SumUpTo(counts, m) = t[m]
  BY <1>1, SumSolves
<1>4. \A g \in 1..m : t[g] = t[g - 1] + Counted(counts[g])
  <2> SUFFICES ASSUME NEW g \in 1..m PROVE t[g] = t[g - 1] + Counted(counts[g])
    OBVIOUS
  <2>1. t[g] = SumStep(counts, m)[<<g, t[g - 1]>>]
    BY <1>3 DEF Solves
  <2>2. g - 1 \in 0..m /\ g \in Nat
    BY <1>1
  <2>3. <<g, t[g - 1]>> \in Nat \X Nat
    BY <1>3, <2>2
  <2> QED BY <2>1, <2>3 DEF SumStep
<1>5. Solves(t, 0, SumStep(counts, n), n)
  <2> SUFFICES ASSUME NEW g \in 1..n PROVE t[g] = SumStep(counts, n)[<<g, t[g - 1]>>]
    BY <1>3 DEF Solves
  <2>1. g \in 1..m /\ g - 1 \in 0..m
    BY <1>a
  <2>2. <<g, t[g - 1]>> \in Nat \X Nat
    BY <1>3, <2>1
  <2> QED BY <1>4, <2>1, <2>2 DEF SumStep
<1>6. s[n] = t[n]
  <2>1. \A g \in 0..n : s[g] = t[g]
    <3>1. Solves(s, 0, SumStep(counts, n), n)
      BY <1>2
    <3> QED BY <1>5, <3>1, RecursionIsUnique
  <2> QED BY <2>1
<1>7. t[m] = t[n] + Counted(counts[m])
  BY <1>1, <1>4, <1>a
<1>8. s[n] \in Nat
  OBVIOUS
<1> QED BY <1>2, <1>3, <1>6, <1>7, <1>8, <1>a DEF SumGrows

LEMMA SumIsMonotone ==
    ASSUME NEW counts, NEW n \in Nat, AreCounts(counts, n)
    PROVE  /\ \A g \in 0..n : SumUpTo(counts, g) \in Nat
           /\ \A g \in 0..n : SumUpTo(counts, g) <= SumUpTo(counts, n)
<1> DEFINE S == {m \in Nat : m <= n => /\ SumUpTo(counts, m) \in Nat
                                       /\ \A g \in 0..m : SumUpTo(counts, g) <= SumUpTo(counts, m)}
<1>0. S \in SUBSET Nat
  OBVIOUS
<1>1. 0 \in S
  BY SumOfNone
<1>2. ASSUME NEW m \in S PROVE m + 1 \in S
  <2> SUFFICES ASSUME m + 1 <= n
               PROVE  /\ SumUpTo(counts, m + 1) \in Nat
                      /\ \A g \in 0..(m + 1) : SumUpTo(counts, g) <= SumUpTo(counts, m + 1)
    OBVIOUS
  <2>1. AreCounts(counts, m + 1) /\ counts[m + 1] \in Int
    BY DEF AreCounts
  <2>2. SumGrows(counts, m)
    BY <2>1, SumOfNext
  <2>3. SumUpTo(counts, m) \in Nat /\ \A g \in 0..m : SumUpTo(counts, g) <= SumUpTo(counts, m)
    OBVIOUS
  <2>4. Counted(counts[m + 1]) \in Nat
    BY <2>1 DEF Counted
  <2>5. SumUpTo(counts, m + 1) \in Nat /\ SumUpTo(counts, m) <= SumUpTo(counts, m + 1)
    BY <2>2, <2>3, <2>4 DEF SumGrows
  <2>6. ASSUME NEW g \in 0..m PROVE SumUpTo(counts, g) <= SumUpTo(counts, m + 1)
    <3>1. SumUpTo(counts, g) \in Nat
      <4>1. AreCounts(counts, g + 1)
        BY <2>1 DEF AreCounts
      <4> QED BY <4>1, SumOfNext DEF SumGrows
    <3> QED BY <2>3, <2>5, <3>1
  <2> QED BY <2>5, <2>6
<1>3. \A m \in S : m + 1 \in S
  BY <1>2
<1> HIDE DEF S
<1>4. S = Nat
  BY <1>0, <1>1, <1>3, SetInduction
<1>5. ASSUME NEW g \in 0..n PROVE SumUpTo(counts, g) \in Nat
  BY <1>4 DEF S
<1> QED BY <1>4, <1>5 DEF S

-------------------------------------------------------------------------------
(* Lists one after another: how much comes before the g-th list, and what  *)
(* is where.                                                               *)
Lengths(ss) == [g \in 1..Len(ss) |-> Len(ss[g])]

Upto(ss, g) == SumUpTo(Lengths(ss), g)

LEMMA LengthsAreCounts ==
    ASSUME NEW S, NEW ss \in Seq(Seq(S))
    PROVE  AreCounts(Lengths(ss), Len(ss))
BY DEF AreCounts, Lengths

LEMMA UptoGrows ==
    ASSUME NEW S, NEW ss \in Seq(Seq(S))
    PROVE  /\ Upto(ss, 0) = 0
           /\ \A g \in 0..Len(ss) : Upto(ss, g) \in Nat /\ Upto(ss, g) <= Upto(ss, Len(ss))
           /\ \A g \in 1..Len(ss) : Upto(ss, g) = Upto(ss, g - 1) + Len(ss[g])
<1> DEFINE n == Len(ss)
<1>1. n \in Nat /\ AreCounts(Lengths(ss), n)
  BY LengthsAreCounts
<1> HIDE DEF n
<1>2. /\ \A g \in 0..n : Upto(ss, g) \in Nat
      /\ \A g \in 0..n : Upto(ss, g) <= Upto(ss, n)
  BY <1>1, SumIsMonotone DEF Upto
<1>3. ASSUME NEW g \in 1..n PROVE Upto(ss, g) = Upto(ss, g - 1) + Len(ss[g])
  <2>1. PICK h \in Nat : g = h + 1 /\ h = g - 1
    BY <1>1
  <2>2. AreCounts(Lengths(ss), h + 1)
    BY <1>1, <2>1 DEF AreCounts
  <2>3. SumGrows(Lengths(ss), h)
    BY <2>2, SumOfNext
  <2>4. Lengths(ss)[g] = Len(ss[g]) /\ Len(ss[g]) \in Nat
    BY DEF Lengths, n
  <2>5. Counted(Len(ss[g])) = Len(ss[g])
    BY <2>4 DEF Counted
  <2> QED BY <2>1, <2>3, <2>4, <2>5 DEF SumGrows, Upto
<1> QED BY <1>2, <1>3, SumOfNone DEF n, Upto

(* The lists up to the i-th, one after another. *)
Joins(f, ss) ==
    /\ f[0] = << >>
    /\ \A i \in 1..Len(ss) : f[i] = f[i - 1] \o ss[i]

LEMMA FlattenSolves ==
    ASSUME NEW S, NEW ss \in Seq(Seq(S))
    PROVE  \E f : /\ Joins(f, ss)
                  /\ \A i \in 0..Len(ss) : f[i] \in Seq(S)
                  /\ FlattenSeq(ss) = f[Len(ss)]
<1> DEFINE n == Len(ss)
           V == Seq(S)
           next == [p \in Nat \X V |-> p[2] \o (IF p[1] \in 1..n THEN ss[p[1]] ELSE << >>)]
           IsFlat(f) == f = [i \in 1..n |-> IF i = 1 THEN ss[i] ELSE f[i - 1] \o ss[i]]
           flat == CHOOSE f : IsFlat(f)
<1>1. n \in Nat /\ (\A i \in 1..n : ss[i] \in V) /\ << >> \in V
  OBVIOUS
<1>2. CASE n = 0
  <2>1. ss = << >> /\ FlattenSeq(ss) = << >>
    BY <1>2 DEF FlattenSeq
  <2> DEFINE f == [i \in 0..0 |-> << >>]
  <2>2. Joins(f, ss) /\ (\A i \in 0..Len(ss) : f[i] \in Seq(S)) /\ FlattenSeq(ss) = f[Len(ss)]
    BY <1>2, <2>1 DEF Joins
  <2> HIDE DEF f
  <2> QED BY <2>2
<1>3. CASE n # 0
  <2>1. next \in [Nat \X V -> V]
    <3>1. ASSUME NEW p \in Nat \X V
          PROVE  p[2] \o (IF p[1] \in 1..n THEN ss[p[1]] ELSE << >>) \in V
      <4>1. p[2] \in V /\ (IF p[1] \in 1..n THEN ss[p[1]] ELSE << >>) \in V
        BY <1>1
      <4> HIDE DEF n
      <4> QED BY <4>1
    <3> HIDE DEF n, V
    <3> QED BY <3>1
  <2>2. ASSUME NEW i \in 1..n, NEW x \in V PROVE next[<<i, x>>] = x \o ss[i]
    <3> HIDE DEF n, V
    <3>1. <<i, x>> \in Nat \X V
      BY <1>1
    <3> QED BY <3>1
  <2> HIDE DEF next, n, V
  <2>3. PICK f \in [0..n -> V] : Solves(f, << >>, next, n)
    BY <1>1, <2>1, RecursionExists
  <2>4. ASSUME NEW i \in 1..n PROVE f[i] = f[i - 1] \o ss[i]
    <3>1. i - 1 \in 0..n
      BY <1>1
    <3> QED BY <2>2, <2>3, <3>1 DEF Solves
  <2>5. f[1] = ss[1]
    <3>1. 1 \in 1..n /\ 1 - 1 = 0
      BY <1>1, <1>3
    <3>2. f[0] = << >> /\ ss[1] \in V
      BY <1>1, <2>3, <3>1 DEF Solves
    <3>3. f[1] = f[0] \o ss[1]
      BY <2>4, <3>1
    <3> QED BY <3>2, <3>3 DEF V
  <2> DEFINE g == [i \in 1..n |-> f[i]]
  <2>6. ASSUME NEW i \in 1..n PROVE g[i] = IF i = 1 THEN ss[i] ELSE g[i - 1] \o ss[i]
    <3>1. CASE i = 1
      BY <2>5, <3>1
    <3>2. CASE i # 1
      <4>1. i - 1 \in 1..n
        BY <1>1, <3>2
      <4> QED BY <2>4, <3>2, <4>1
    <3> QED BY <3>1, <3>2
  <2>7. IsFlat(g)
    BY <2>6
  <2>8. IsFlat(flat)
    BY <2>7
  <2>9. FlattenSeq(ss) = flat[n]
    BY <1>3 DEF FlattenSeq, n
  <2> HIDE DEF flat
  <2>10. /\ flat[1] = ss[1]
         /\ \A i \in 2..n : flat[i] = flat[i - 1] \o ss[i]
    <3>1. ASSUME NEW i \in 1..n PROVE flat[i] = IF i = 1 THEN ss[i] ELSE flat[i - 1] \o ss[i]
      BY <2>8
    <3> HIDE DEF IsFlat
    <3>2. 1 \in 1..n /\ \A i \in 2..n : i \in 1..n /\ i # 1
      BY <1>1, <1>3
    <3> QED BY <3>1, <3>2
  <2> HIDE DEF IsFlat
  <2> DEFINE e == [i \in 0..n |-> IF i = 0 THEN << >> ELSE flat[i]]
  <2>11. \A i \in 1..n : e[i] = flat[i]
    OBVIOUS
  <2>12. e[0] = << >>
    BY <1>1
  <2>13. ASSUME NEW i \in 1..n PROVE e[i] = e[i - 1] \o ss[i]
    <3>1. CASE i = 1
      <4>1. ss[1] \in V
        BY <1>1, <3>1
      <4>2. e[i - 1] = << >> /\ e[i] = ss[1]
        BY <2>10, <2>11, <2>12, <3>1
      <4>3. << >> \o ss[1] = ss[1]
        BY <4>1 DEF V
      <4> QED BY <3>1, <4>2, <4>3
    <3>2. CASE i # 1
      <4>1. i \in 2..n /\ i - 1 \in 1..n
        BY <1>1, <3>2
      <4> QED BY <2>10, <2>11, <4>1
    <3> QED BY <3>1, <3>2
  <2> HIDE DEF e
  <2>14. \A i \in 0..n : e[i] \in V
    <3> DEFINE T == {i \in Nat : i <= n => e[i] \in V}
    <3>0. T \in SUBSET Nat
      OBVIOUS
    <3>1. 0 \in T
      BY <1>1, <2>12
    <3>2. ASSUME NEW i \in T PROVE i + 1 \in T
      <4> SUFFICES ASSUME i + 1 <= n PROVE e[i + 1] \in V
        OBVIOUS
      <4>1. i + 1 \in 1..n /\ (i + 1) - 1 = i /\ e[i] \in V
        BY <1>1
      <4>2. e[i + 1] = e[i] \o ss[i + 1] /\ ss[i + 1] \in V
        BY <1>1, <2>13, <4>1
      <4> QED BY <4>1, <4>2 DEF V
    <3>3. \A i \in T : i + 1 \in T
      BY <3>2
    <3> HIDE DEF T
    <3>4. T = Nat
      BY <3>0, <3>1, <3>3, SetInduction
    <3> QED BY <1>1, <3>4 DEF T
  <2>15. Joins(e, ss)
    BY <2>12, <2>13 DEF Joins, n
  <2>16. FlattenSeq(ss) = e[n]
    <3>1. n \in 1..n
      BY <1>1, <1>3
    <3> QED BY <2>9, <2>11, <3>1
  <2> QED BY <2>14, <2>15, <2>16 DEF n, V
<1> QED BY <1>2, <1>3

(* The k-th element of the g-th list is behind the lists before it, and    *)
(* there is nothing else.                                                  *)
Placed(s, ss, i) ==
    /\ Len(s) = Upto(ss, i)
    /\ \A g \in 1..i : \A k \in 1..Len(ss[g]) :
          /\ Upto(ss, g - 1) + k \in 1..Upto(ss, i)
          /\ s[Upto(ss, g - 1) + k] = ss[g][k]
    /\ \A j \in 1..Upto(ss, i) :
          \E g \in 1..i : \E k \in 1..Len(ss[g]) : j = Upto(ss, g - 1) + k

LEMMA FlattenPlaces ==
    ASSUME NEW S, NEW ss \in Seq(Seq(S))
    PROVE  FlattenSeq(ss) \in Seq(S) /\ Placed(FlattenSeq(ss), ss, Len(ss))
<1> DEFINE n == Len(ss)
<1>1. n \in Nat /\ \A g \in 1..n : ss[g] \in Seq(S) /\ Len(ss[g]) \in Nat
  OBVIOUS
<1>2. PICK f : /\ Joins(f, ss)
               /\ \A i \in 0..n : f[i] \in Seq(S)
               /\ FlattenSeq(ss) = f[n]
  BY FlattenSolves
<1>3. /\ Upto(ss, 0) = 0
      /\ \A g \in 0..n : Upto(ss, g) \in Nat
      /\ \A g \in 1..n : Upto(ss, g) = Upto(ss, g - 1) + Len(ss[g])
  BY UptoGrows
<1>4. f[0] = << >> /\ \A i \in 1..n : f[i] = f[i - 1] \o ss[i]
  BY <1>2 DEF Joins
<1> HIDE DEF n
<1> DEFINE T == {i \in Nat : i <= n => Placed(f[i], ss, i)}
<1>5. T \in SUBSET Nat
  OBVIOUS
<1>6. 0 \in T
  <2>1. Placed(<< >>, ss, 0)
    BY <1>3 DEF Placed
  <2> QED BY <1>4, <2>1
<1>7. ASSUME NEW i \in T PROVE i + 1 \in T
  <2> SUFFICES ASSUME i + 1 <= n PROVE Placed(f[i + 1], ss, i + 1)
    OBVIOUS
  <2> DEFINE a == f[i]
             b == ss[i + 1]
             U == Upto(ss, i)
             W == Upto(ss, i + 1)
  <2>0. i \in Nat
    OBVIOUS
  <2>1. i \in 0..n /\ i + 1 \in 1..n /\ (i + 1) - 1 = i
    BY <1>1
  <2>2. a \in Seq(S) /\ b \in Seq(S) /\ Len(b) \in Nat
    BY <1>1, <1>2, <2>1
  <2>3. f[i + 1] = a \o b
    BY <1>4, <2>1
  <2>4. U \in Nat /\ W = U + Len(b)
    BY <1>3, <2>1
  <2>5. Placed(a, ss, i)
    BY <2>1
  <2>6. Len(a) = U
    BY <2>5 DEF Placed
  <2>7. /\ Len(a \o b) = W
        /\ \A j \in 1..U : (a \o b)[j] = a[j]
        /\ \A k \in 1..Len(b) : (a \o b)[U + k] = b[k]
    <3> HIDE DEF a, b, U, W
    <3>1. /\ Len(a \o b) = Len(a) + Len(b)
          /\ \A j \in 1..(Len(a) + Len(b)) :
                (a \o b)[j] = IF j <= Len(a) THEN a[j] ELSE b[j - Len(a)]
      BY <2>2
    <3>2. \A j \in 1..U : j \in 1..(U + Len(b)) /\ j <= U
      BY <2>2, <2>4
    <3>3. \A k \in 1..Len(b) : U + k \in 1..(U + Len(b)) /\ ~(U + k <= U) /\ (U + k) - U = k
      BY <2>2, <2>4
    <3> QED BY <2>4, <2>6, <3>1, <3>2, <3>3
  <2> DEFINE c == a \o b
  <2>8. ASSUME NEW g \in 1..(i + 1), NEW k \in 1..Len(ss[g])
        PROVE  /\ Upto(ss, g - 1) + k \in 1..W
               /\ c[Upto(ss, g - 1) + k] = ss[g][k]
    <3>1. CASE g = i + 1
      <4>1. g - 1 = i /\ ss[g] = b /\ k \in 1..Len(b)
        BY <3>1, <2>0
      <4>2. Upto(ss, g - 1) = U
        BY <4>1
      <4> HIDE DEF a, b, U, W
      <4>3. U + k \in 1..W /\ (a \o b)[U + k] = b[k]
        BY <2>2, <2>4, <2>7, <4>1
      <4> QED BY <4>1, <4>2, <4>3
    <3>2. CASE g # i + 1
      <4>1. g \in 1..i
        BY <3>2
      <4>2. Upto(ss, g - 1) + k \in 1..U /\ a[Upto(ss, g - 1) + k] = ss[g][k]
        BY <2>5, <4>1 DEF Placed
      <4> HIDE DEF a, b, U, W
      <4> QED BY <2>2, <2>4, <2>7, <4>2
    <3> QED BY <3>1, <3>2
  <2>9. ASSUME NEW j \in 1..W
        PROVE  \E g \in 1..(i + 1) : \E k \in 1..Len(ss[g]) : j = Upto(ss, g - 1) + k
    <3>1. CASE j \in 1..U
      <4>1. PICK g \in 1..i : \E k \in 1..Len(ss[g]) : j = Upto(ss, g - 1) + k
        BY <2>5, <3>1 DEF Placed
      <4>2. g \in 1..(i + 1)
        BY <2>0
      <4> QED BY <4>1, <4>2
    <3>2. CASE j \notin 1..U
      <4> DEFINE k == j - U
      <4>1. k \in 1..Len(b) /\ j = U + k
        <5> HIDE DEF b, U, W
        <5> QED BY <2>2, <2>4, <3>2
      <4>2. i + 1 \in 1..(i + 1)
        BY <2>0
      <4> HIDE DEF k
      <4> QED BY <2>1, <4>1, <4>2
    <3> QED BY <3>1, <3>2
  <2>10. Placed(c, ss, i + 1)
    <3> HIDE DEF c
    <3> QED BY <2>7, <2>8, <2>9 DEF Placed, c
  <2> QED BY <2>3, <2>10
<1>8. \A i \in T : i + 1 \in T
  BY <1>7
<1> HIDE DEF T
<1>9. T = Nat
  BY <1>5, <1>6, <1>8, SetInduction
<1>10. Placed(f[n], ss, n) /\ f[n] \in Seq(S)
  BY <1>1, <1>2, <1>9 DEF T
<1> QED BY <1>2, <1>10 DEF n

-------------------------------------------------------------------------------
(* A field, and what is read at an offset.                                 *)
Bits == {0, 1}

LEMMA FieldType ==
    ASSUME NEW val \in Nat, NEW width \in Nat
    PROVE  Field(val, width) \in Seq(Bits) /\ Len(Field(val, width)) = width
<1>1. ASSUME NEW i \in 1..width PROVE (val \div 2^(i - 1)) % 2 \in Bits
  <2>1. i - 1 \in Nat /\ 2^(i - 1) \in Nat \ {0}
    BY Stream!PowerType
  <2>2. val \div 2^(i - 1) \in Nat
    BY <2>1
  <2> QED BY <2>2 DEF Bits
<1>2. Field(val, width) \in [1..width -> Bits]
  BY <1>1 DEF Field
<1> QED BY <1>2

AreBits(bits, offset, width) == \A i \in 1..width : BitAt(bits, offset + i) \in Bits

LEMMA ReadSolves ==
    ASSUME NEW bits, NEW offset \in Nat, NEW width \in Nat, AreBits(bits, offset, width)
    PROVE  \E s : /\ s[0] = 0
                  /\ \A i \in 1..width : s[i] = s[i - 1] + BitAt(bits, offset + i) * 2^(i - 1)
                  /\ ReadAt(bits, offset, width) = s[width]
<1> DEFINE n == width
           bit(i) == BitAt(bits, offset + i)
           next == [p \in Nat \X Nat |->
                       p[2] + (IF p[1] \in 1..n THEN bit(p[1]) * 2^(p[1] - 1) ELSE 0)]
           IsRead(s) == s = [i \in 0..n |-> IF i = 0 THEN 0
                                            ELSE s[i - 1] + bit(i) * 2^(i - 1)]
           read == CHOOSE s : IsRead(s)
<1>1. ASSUME NEW i \in 1..n PROVE bit(i) * 2^(i - 1) \in Nat
  <2>1. i - 1 \in Nat /\ 2^(i - 1) \in Nat
    BY Stream!PowerType
  <2>2. bit(i) \in Nat
    BY DEF AreBits, Bits
  <2> HIDE DEF bit
  <2> QED BY <2>1, <2>2
<1> HIDE DEF bit
<1>2. next \in [Nat \X Nat -> Nat]
  <2>1. ASSUME NEW p \in Nat \X Nat
        PROVE  p[2] + (IF p[1] \in 1..n THEN bit(p[1]) * 2^(p[1] - 1) ELSE 0) \in Nat
    <3>1. (IF p[1] \in 1..n THEN bit(p[1]) * 2^(p[1] - 1) ELSE 0) \in Nat /\ p[2] \in Nat
      BY <1>1
    <3> QED BY <3>1
  <2> QED BY <2>1
<1>3. ASSUME NEW i \in 1..n, NEW x \in Nat PROVE next[<<i, x>>] = x + bit(i) * 2^(i - 1)
  <2>1. <<i, x>> \in Nat \X Nat
    OBVIOUS
  <2> QED BY <2>1
<1> HIDE DEF next
<1>4. PICK f \in [0..n -> Nat] : Solves(f, 0, next, n)
  BY <1>2, RecursionExists
<1>5. ASSUME NEW i \in 0..n
      PROVE  f[i] = IF i = 0 THEN 0 ELSE f[i - 1] + bit(i) * 2^(i - 1)
  <2>1. CASE i = 0
    BY <1>4, <2>1 DEF Solves
  <2>2. CASE i # 0
    <3>1. i \in 1..n /\ i - 1 \in 0..n
      BY <2>2
    <3>2. f[i] = next[<<i, f[i - 1]>>] /\ f[i - 1] \in Nat
      BY <1>4, <3>1 DEF Solves
    <3>3. f[i] = f[i - 1] + bit(i) * 2^(i - 1)
      BY <1>3, <3>1, <3>2
    <3> QED BY <2>2, <3>3
  <2> QED BY <2>1, <2>2
<1>6. IsRead(f)
  BY <1>4, <1>5
<1>7. IsRead(read)
  BY <1>6
<1>8. ReadAt(bits, offset, width) = read[n]
  BY DEF ReadAt, bit
<1> HIDE DEF read
<1>9. ASSUME NEW i \in 0..n
      PROVE  read[i] = IF i = 0 THEN 0 ELSE read[i - 1] + bit(i) * 2^(i - 1)
  BY <1>7
<1> HIDE DEF IsRead
<1>10. read[0] = 0 /\ \A i \in 1..n : read[i] = read[i - 1] + bit(i) * 2^(i - 1)
  <2>1. 0 \in 0..n /\ \A i \in 1..n : i \in 0..n /\ i # 0
    OBVIOUS
  <2> QED BY <1>9, <2>1
<1> QED BY <1>8, <1>10 DEF bit

(* The bits of a number, at an offset, are read as the number.             *)
HasAt(bits, offset, val, width) ==
    \A i \in 1..width : BitAt(bits, offset + i) = Field(val, width)[i]

LEMMA ReadsField ==
    ASSUME NEW bits, NEW offset \in Nat, NEW width \in Nat, NEW val \in Nat, val < 2^width,
           HasAt(bits, offset, val, width)
    PROVE  ReadAt(bits, offset, width) = val
<1>1. AreBits(bits, offset, width)
  <2>1. \A i \in 1..width : Field(val, width)[i] \in Bits
    BY FieldType
  <2> QED BY <2>1 DEF AreBits, HasAt
<1>2. PICK s : /\ s[0] = 0
               /\ \A i \in 1..width : s[i] = s[i - 1] + BitAt(bits, offset + i) * 2^(i - 1)
               /\ ReadAt(bits, offset, width) = s[width]
  BY <1>1, ReadSolves
<1> DEFINE low(i) == Stream!Slice(val, 0, i)
           S == {i \in Nat : i <= width => s[i] = low(i)}
<1>3. S \in SUBSET Nat
  OBVIOUS
<1>4. 0 \in S
  BY <1>2, Stream!SliceOfNothing
<1>5. ASSUME NEW i \in S PROVE i + 1 \in S
  <2> SUFFICES ASSUME i + 1 <= width PROVE s[i + 1] = low(i + 1)
    OBVIOUS
  <2>1. i + 1 \in 1..width /\ (i + 1) - 1 = i /\ s[i] = low(i) /\ i \in Nat
    OBVIOUS
  <2>2. s[i + 1] = s[i] + BitAt(bits, offset + (i + 1)) * 2^i
    BY <1>2, <2>1
  <2>3. BitAt(bits, offset + (i + 1)) = (val \div 2^i) % 2
    BY <2>1 DEF HasAt, Field
  <2>4. Stream!SliceLaws(val, 0, i, 1)
    BY <2>1, Stream!SliceSplits
  <2>5. low(i) + Stream!Slice(val, 0 + i, 1) * 2^i = low(i + 1)
    BY <2>4 DEF Stream!SliceLaws
  <2>6. Stream!Slice(val, 0 + i, 1) = (val \div 2^i) % 2
    <3>1. 2^1 = 2
      <4>1. 2^(0 + 1) = 2 * 2^0
        BY Stream!PowerStep
      <4> QED BY <4>1, Stream!PowerOfZero
    <3>2. 0 + i = i
      BY <2>1
    <3> QED BY <3>1, <3>2 DEF Stream!Slice
  <2> QED BY <2>1, <2>2, <2>3, <2>5, <2>6
<1>6. \A i \in S : i + 1 \in S
  BY <1>5
<1> HIDE DEF S
<1>7. S = Nat
  BY <1>3, <1>4, <1>6, SetInduction
<1>8. s[width] = low(width)
  BY <1>7 DEF S
<1>9. low(width) = val
  <2>1. Stream!SliceEnds(val, width, 0, width)
    BY Stream!SliceBeyond
  <2>2. low(width) = val \div 2^0
    BY <2>1 DEF Stream!SliceEnds
  <2> QED BY <2>2, Stream!PowerOfZero
<1> QED BY <1>2, <1>8, <1>9

(* Whatever is read is a number of that many bits.                         *)
LEMMA ReadAtType ==
    ASSUME NEW bits, NEW offset \in Nat, NEW width \in Nat, AreBits(bits, offset, width)
    PROVE  ReadAt(bits, offset, width) \in 0..(2^width - 1)
<1>1. PICK s : /\ s[0] = 0
               /\ \A i \in 1..width : s[i] = s[i - 1] + BitAt(bits, offset + i) * 2^(i - 1)
               /\ ReadAt(bits, offset, width) = s[width]
  BY ReadSolves
<1> DEFINE S == {i \in Nat : i <= width => s[i] \in Nat /\ s[i] < 2^i}
<1>2. S \in SUBSET Nat
  OBVIOUS
<1>3. 0 \in S
  BY <1>1, Stream!PowerOfZero
<1>4. ASSUME NEW i \in S PROVE i + 1 \in S
  <2> SUFFICES ASSUME i + 1 <= width PROVE s[i + 1] \in Nat /\ s[i + 1] < 2^(i + 1)
    OBVIOUS
  <2> DEFINE e == 2^i
             b == BitAt(bits, offset + (i + 1))
  <2>1. i + 1 \in 1..width /\ (i + 1) - 1 = i /\ s[i] \in Nat /\ s[i] < e /\ i \in Nat
    OBVIOUS
  <2>2. s[i + 1] = s[i] + b * e
    BY <1>1, <2>1
  <2>3. b \in Bits
    BY <2>1 DEF AreBits
  <2>4. e \in Nat /\ 2^(i + 1) = 2 * e
    BY <2>1, Stream!PowerType, Stream!PowerStep
  <2> HIDE DEF e, b
  <2> QED BY <2>1, <2>2, <2>3, <2>4 DEF Bits
<1>5. \A i \in S : i + 1 \in S
  BY <1>4
<1> HIDE DEF S
<1>6. S = Nat
  BY <1>2, <1>3, <1>5, SetInduction
<1>7. s[width] \in Nat /\ s[width] < 2^width
  BY <1>6 DEF S
<1>8. 2^width \in Nat
  BY Stream!PowerType
<1> QED BY <1>1, <1>7, <1>8

-------------------------------------------------------------------------------
(* A buffer is the bits and zeros, up to whole bytes.                      *)
WholeBytesLaw(L) ==
    /\ Bits2Bytes(L) \in Nat
    /\ ByteBits * Bits2Bytes(L) \in Nat
    /\ ByteBits * Bits2Bytes(L) >= L
    /\ (ByteBits * Bits2Bytes(L)) \div ByteBits = Bits2Bytes(L)

LEMMA WholeBytes == \A L \in Nat : WholeBytesLaw(L)
<1> SUFFICES ASSUME NEW L \in Nat PROVE WholeBytesLaw(L)
  OBVIOUS
<1> DEFINE B == ByteBits
           q == (L + B - 1) \div B
           r == (L + B - 1) % B
<1>1. B \in Nat \ {0}
  BY ByteAssumption
<1> HIDE DEF B
<1>2. q \in Nat /\ r \in 0..(B - 1) /\ L + B - 1 = B * q + r
  BY <1>1
<1>3. q * B + 0 = B * q /\ 0 \in 0..(B - 1)
  BY <1>1, <1>2
<1>4. (q * B + 0) \div B = q
  BY <1>1, <1>2, <1>3, Stream!Division
<1>5. B * q \in Nat
  BY <1>1, <1>2
<1> HIDE DEF q, r
<1>6. B * q >= L
  BY <1>1, <1>2, <1>5
<1> QED BY <1>2, <1>3, <1>4, <1>5, <1>6 DEF WholeBytesLaw, Bits2Bytes, q, B

LEMMA FlushedPads ==
    ASSUME NEW bits \in Seq(Bits)
    PROVE  /\ Flushed(bits) \in Seq(Bits)
           /\ Len(Flushed(bits)) = ByteBits * Bits2Bytes(Len(bits))
           /\ Len(bits) <= Len(Flushed(bits))
           /\ \A i \in Nat \ {0} : BitAt(Flushed(bits), i) = BitAt(bits, i)
<1> DEFINE L == Len(bits)
           N == ByteBits * Bits2Bytes(L)
           z == [i \in 1..(N - L) |-> 0]
<1>1. L \in Nat /\ N \in Nat /\ N >= L
  BY WholeBytes DEF WholeBytesLaw
<1>2. Flushed(bits) = bits \o z
  BY DEF Flushed
<1> HIDE DEF N
<1>3. z \in Seq(Bits) /\ Len(z) = N - L /\ \A i \in 1..(N - L) : z[i] = 0
  BY <1>1 DEF Bits
<1> HIDE DEF z, L
<1>4. /\ bits \o z \in Seq(Bits) /\ Len(bits \o z) = N
      /\ \A i \in 1..N : (bits \o z)[i] = IF i <= L THEN bits[i] ELSE z[i - L]
  <2>1. /\ bits \o z \in Seq(Bits) /\ Len(bits \o z) = Len(bits) + Len(z)
        /\ \A i \in 1..(Len(bits) + Len(z)) :
              (bits \o z)[i] = IF i <= Len(bits) THEN bits[i] ELSE z[i - Len(bits)]
    BY <1>3
  <2>2. Len(bits) + Len(z) = N
    BY <1>1, <1>3 DEF L
  <2> QED BY <2>1, <2>2 DEF L
<1>5. ASSUME NEW i \in Nat \ {0} PROVE BitAt(bits \o z, i) = BitAt(bits, i)
  <2>1. CASE i <= L
    <3>1. i \in 1..N /\ i <= N
      BY <1>1, <2>1
    <3> QED BY <1>4, <2>1, <3>1 DEF BitAt, L
  <2>2. CASE i > L /\ i <= N
    <3>1. i \in 1..N /\ i - L \in 1..(N - L) /\ ~(i <= L)
      BY <1>1, <2>2
    <3> QED BY <1>3, <1>4, <2>2, <3>1 DEF BitAt, L
  <2>3. CASE i > N
    <3>1. ~(i <= L) /\ ~(i <= N)
      BY <1>1, <2>3
    <3> QED BY <1>4, <3>1 DEF BitAt, L
  <2> QED BY <1>1, <2>1, <2>2, <2>3
<1> QED BY <1>1, <1>2, <1>4, <1>5 DEF L, N

(* n fields of w bits, then l fields of m bits.                            *)
Fields(v, n, w) == [i \in 1..n |-> Field(v[i], w)]

Begins(i, w) == (i - 1) * w

AreValues(v, n) == \A i \in 1..n : v[i] \in Nat

LEMMA FieldsType ==
    ASSUME NEW v, NEW n \in Nat, NEW w \in Nat, AreValues(v, n)
    PROVE  /\ Fields(v, n, w) \in Seq(Seq(Bits)) /\ Len(Fields(v, n, w)) = n
           /\ \A i \in 1..n : Fields(v, n, w)[i] = Field(v[i], w)
           /\ \A i \in 1..n : Len(Fields(v, n, w)[i]) = w
<1>1. ASSUME NEW i \in 1..n PROVE Field(v[i], w) \in Seq(Bits) /\ Len(Field(v[i], w)) = w
  BY FieldType DEF AreValues
<1>2. Fields(v, n, w) \in [1..n -> Seq(Bits)]
  BY <1>1 DEF Fields
<1>3. \A i \in 1..n : Fields(v, n, w)[i] = Field(v[i], w)
  BY DEF Fields
<1> HIDE DEF Fields
<1>4. Fields(v, n, w) \in Seq(Seq(Bits)) /\ Len(Fields(v, n, w)) = n
  BY <1>2
<1> QED BY <1>1, <1>3, <1>4

(* The i-th list begins behind i - 1 lists of the same width. *)
AreOfWidth(ss, a, n, w) == a + n <= Len(ss) /\ \A i \in 1..n : Len(ss[a + i]) = w

LEMMA UptoOfWidth ==
    ASSUME NEW S, NEW ss \in Seq(Seq(S)), NEW a \in Nat, NEW n \in Nat, NEW w \in Nat,
           AreOfWidth(ss, a, n, w)
    PROVE  \A i \in 0..n : Upto(ss, a + i) = Upto(ss, a) + i * w
<1> DEFINE T == {i \in Nat : i <= n => Upto(ss, a + i) = Upto(ss, a) + i * w}
<1>0. /\ \A g \in 0..Len(ss) : Upto(ss, g) \in Nat
      /\ \A g \in 1..Len(ss) : Upto(ss, g) = Upto(ss, g - 1) + Len(ss[g])
  BY UptoGrows
<1>1. T \in SUBSET Nat
  OBVIOUS
<1>2. 0 \in T
  <2>1. Upto(ss, a) \in Nat /\ 0 * w = 0 /\ a + 0 = a
    BY <1>0 DEF AreOfWidth
  <2> QED BY <2>1
<1>3. ASSUME NEW i \in T PROVE i + 1 \in T
  <2> SUFFICES ASSUME i + 1 <= n PROVE Upto(ss, a + (i + 1)) = Upto(ss, a) + (i + 1) * w
    OBVIOUS
  <2>1. /\ i \in Nat /\ i <= n /\ i + 1 \in 1..n
        /\ a + (i + 1) \in 1..Len(ss) /\ (a + (i + 1)) - 1 = a + i
        /\ Len(ss[a + (i + 1)]) = w
    <3>1. i \in Nat
      OBVIOUS
    <3>2. a + n <= Len(ss) /\ Len(ss) \in Nat
      BY DEF AreOfWidth
    <3> HIDE DEF T
    <3>3. i + 1 \in 1..n
      BY <3>1
    <3>4. Len(ss[a + (i + 1)]) = w
      BY <3>3 DEF AreOfWidth
    <3> DEFINE L == Len(ss)
    <3> HIDE DEF L
    <3>5. L \in Nat /\ a + n <= L
      BY <3>2 DEF L
    <3>6. a + (i + 1) \in 1..L /\ (a + (i + 1)) - 1 = a + i
      BY <3>1, <3>3, <3>5
    <3> QED BY <3>1, <3>3, <3>4, <3>6 DEF L
  <2>2. Upto(ss, a + i) = Upto(ss, a) + i * w
    BY <2>1
  <2>3. Upto(ss, a + (i + 1)) = Upto(ss, a + i) + w
    BY <1>0, <2>1
  <2>4. (i + 1) * w = i * w + w /\ i * w \in Nat
    BY <2>1
  <2>5. Upto(ss, a) \in Nat
    BY <1>0 DEF AreOfWidth
  <2> DEFINE U == Upto(ss, a)
             x == i * w
  <2> HIDE DEF U, x
  <2>6. (U + x) + w = U + (x + w)
    BY <2>4, <2>5 DEF U, x
  <2> QED BY <2>2, <2>3, <2>4, <2>6 DEF U, x
<1>4. \A i \in T : i + 1 \in T
  BY <1>3
<1> HIDE DEF T
<1>5. T = Nat
  BY <1>1, <1>2, <1>4, SetInduction
<1>6. ASSUME NEW i \in 0..n PROVE Upto(ss, a + i) = Upto(ss, a) + i * w
  <2>1. i \in T
    BY <1>5
  <2> QED BY <2>1 DEF T
<1> QED BY <1>6

(* Fields in a row, from the a-th list on: where each begins in the buffer. *)
AreFields(ss, a, v, n, w) ==
    /\ AreValues(v, n)
    /\ a + n <= Len(ss)
    /\ \A i \in 1..n : ss[a + i] = Field(v[i], w)

ArePlaced(ss, a, v, n, w) ==
    /\ Upto(ss, a + n) = Upto(ss, a) + n * w
    /\ \A i \in 1..n : /\ Upto(ss, a) + Begins(i, w) \in Nat
                      /\ HasAt(Flushed(FlattenSeq(ss)), Upto(ss, a) + Begins(i, w), v[i], w)

LEMMA FieldsPlaced ==
    ASSUME NEW ss \in Seq(Seq(Bits)), NEW a \in Nat, NEW n \in Nat, NEW w \in Nat,
           NEW v, AreFields(ss, a, v, n, w)
    PROVE  ArePlaced(ss, a, v, n, w)
<1> DEFINE flat == FlattenSeq(ss)
<1>0. /\ AreValues(v, n) /\ a + n <= Len(ss)
      /\ \A i \in 1..n : ss[a + i] = Field(v[i], w)
  BY DEF AreFields
<1>1. flat \in Seq(Bits) /\ Placed(flat, ss, Len(ss))
  BY FlattenPlaces
<1>2. \A i \in Nat \ {0} : BitAt(Flushed(flat), i) = BitAt(flat, i)
  BY <1>1, FlushedPads
<1> HIDE DEF flat
<1>3. AreOfWidth(ss, a, n, w)
  <2>1. ASSUME NEW i \in 1..n PROVE Len(ss[a + i]) = w
    <3>1. v[i] \in Nat /\ ss[a + i] = Field(v[i], w)
      BY <1>0 DEF AreValues
    <3> QED BY <3>1, FieldType
  <2> QED BY <1>0, <2>1 DEF AreOfWidth
<1>4. \A i \in 0..n : Upto(ss, a + i) = Upto(ss, a) + i * w
  BY <1>3, UptoOfWidth
<1>5. Upto(ss, a) \in Nat
  <2>1. a \in 0..Len(ss)
    BY <1>0
  <2> QED BY <2>1, UptoGrows
<1>6. ASSUME NEW i \in 1..n
      PROVE  /\ Upto(ss, a) + Begins(i, w) \in Nat
             /\ HasAt(Flushed(flat), Upto(ss, a) + Begins(i, w), v[i], w)
  <2> DEFINE o == Upto(ss, a) + Begins(i, w)
  <2>1. i - 1 \in 0..n /\ a + (i - 1) = (a + i) - 1 /\ a + i \in 1..Len(ss)
    BY <1>0
  <2>2. Upto(ss, (a + i) - 1) = o
    BY <1>4, <2>1 DEF Begins
  <2>3. o \in Nat
    <3>1. (i - 1) * w \in Nat
      BY <2>1
    <3> QED BY <1>5, <3>1 DEF Begins
  <2> HIDE DEF o
  <2>4. ASSUME NEW k \in 1..w PROVE BitAt(Flushed(flat), o + k) = Field(v[i], w)[k]
    <3>1. k \in 1..Len(ss[a + i])
      BY <1>3 DEF AreOfWidth
    <3>2. o + k \in 1..Upto(ss, Len(ss)) /\ flat[o + k] = ss[a + i][k]
      BY <1>0, <1>1, <2>1, <2>2, <3>1 DEF Placed
    <3>3. o + k \in Nat \ {0} /\ o + k <= Len(flat)
      <4>1. Len(flat) = Upto(ss, Len(ss)) /\ o + k \in Int
        BY <1>1, <2>3 DEF Placed
      <4>2. Len(flat) \in Nat
        BY <1>1
      <4> QED BY <3>2, <4>1, <4>2
    <3> QED BY <1>0, <1>2, <3>2, <3>3 DEF BitAt
  <2> QED BY <2>3, <2>4 DEF HasAt, o
<1>7. n \in 0..n
  OBVIOUS
<1> QED BY <1>4, <1>6, <1>7 DEF flat, ArePlaced

-------------------------------------------------------------------------------
(* The bits of a number below n: enough of them, and not one too many.     *)
LogLaw(n) ==
    /\ CeilLog2(n) \in Nat
    /\ 2^CeilLog2(n) >= n
    /\ n = 1 => CeilLog2(n) = 0
    /\ n > 1 => CeilLog2(n) > 0

LEMMA PowerExceeds == \A n \in Nat : 2^n >= n
<1> DEFINE S == {n \in Nat : 2^n >= n}
<1>1. S \in SUBSET Nat
  OBVIOUS
<1>2. 0 \in S
  BY Stream!PowerOfZero
<1>3. ASSUME NEW n \in S PROVE n + 1 \in S
  <2> DEFINE d == 2^n
  <2>1. n \in Nat /\ d >= n /\ d \in Nat \ {0} /\ 2^(n + 1) = 2 * d
    BY Stream!PowerType, Stream!PowerStep
  <2> HIDE DEF d
  <2> QED BY <2>1
<1>4. \A n \in S : n + 1 \in S
  BY <1>3
<1> HIDE DEF S
<1>5. S = Nat
  BY <1>1, <1>2, <1>4, SetInduction
<1> QED BY <1>5 DEF S

LEMMA LogLaws == \A n \in Nat \ {0} : LogLaw(n)
<1> SUFFICES ASSUME NEW n \in Nat \ {0} PROVE LogLaw(n)
  OBVIOUS
<1> DEFINE Least(k) == 2^k >= n /\ \A j \in 0..(k - 1) : 2^j < n
           S == {m \in Nat : (\A j \in 0..m : 2^j < n) \/ (\E k \in 0..m : Least(k))}
<1>1. S \in SUBSET Nat
  OBVIOUS
<1>2. \A j \in Nat : 2^j \in Nat
  BY Stream!PowerType
<1>3. 0 \in S
  <2>1. CASE 2^0 < n
    BY <2>1
  <2>2. CASE ~(2^0 < n)
    <3>1. Least(0)
      BY <1>2, <2>2
    <3> QED BY <3>1
  <2> QED BY <2>1, <2>2
<1>4. ASSUME NEW m \in S PROVE m + 1 \in S
  <2>1. CASE \E k \in 0..m : Least(k)
    <3>1. \E k \in 0..(m + 1) : Least(k)
      BY <2>1
    <3> HIDE DEF Least
    <3> QED BY <3>1
  <2>2. CASE \A j \in 0..m : 2^j < n
    <3>1. CASE 2^(m + 1) < n
      <4>1. \A j \in 0..(m + 1) : 2^j < n
        BY <2>2, <3>1
      <4> QED BY <4>1
    <3>2. CASE ~(2^(m + 1) < n)
      <4>1. (m + 1) - 1 = m /\ m + 1 \in 0..(m + 1) /\ 2^(m + 1) >= n
        BY <1>2, <3>2
      <4>2. Least(m + 1)
        BY <2>2, <4>1
      <4> HIDE DEF Least
      <4> QED BY <4>1, <4>2
    <3> QED BY <3>1, <3>2
  <2> QED BY <2>1, <2>2
<1>5. \A m \in S : m + 1 \in S
  BY <1>4
<1> HIDE DEF S
<1>6. n \in S
  BY <1>1, <1>3, <1>5, SetInduction
<1>7. 2^n >= n /\ 2^n \in Nat
  BY PowerExceeds, <1>2
<1>8. \E k \in 0..n : Least(k)
  <2>1. ~(\A j \in 0..n : 2^j < n)
    <3>1. n \in 0..n
      OBVIOUS
    <3> QED BY <1>7, <3>1
  <2> QED BY <1>6, <2>1 DEF S
<1> DEFINE c == CeilLog2(n)
<1>9. c \in 0..n /\ Least(c)
  BY <1>8 DEF CeilLog2
<1>10. 2^0 = 1
  BY Stream!PowerOfZero
<1> HIDE DEF c
<1>11. n = 1 => c = 0
  <2> SUFFICES ASSUME n = 1, c # 0 PROVE FALSE
    OBVIOUS
  <2>1. 0 \in 0..(c - 1)
    BY <1>9
  <2>2. 2^0 < n
    BY <1>9, <2>1
  <2> QED BY <1>10, <2>2
<1>12. n > 1 => c > 0
  <2> SUFFICES ASSUME n > 1, c = 0 PROVE FALSE
    BY <1>9
  <2>1. 2^c = 2^0
    OBVIOUS
  <2> QED BY <1>9, <1>10, <2>1
<1> QED BY <1>9, <1>11, <1>12 DEF LogLaw, c

(* The lists that a message can hold.                                      *)
IsIncreasing(s, n) ==
    /\ s \in Seq(Nat)
    /\ \A i \in 1..Len(s) : s[i] < n
    /\ \A i, j \in 1..Len(s) : i < j => s[i] < s[j]

LEMMA IncreasingOfNone == IsIncreasing(<< >>, 0)
BY DEF IsIncreasing

LEMMA IncreasingOfNext ==
    ASSUME NEW n \in Nat, NEW s, IsIncreasing(s, n)
    PROVE  IsIncreasing(s, n + 1) /\ IsIncreasing(Append(s, n), n + 1)
<1> DEFINE t == Append(s, n)
           l == Len(s)
<1>1. s \in Seq(Nat) /\ l \in Nat
  BY DEF IsIncreasing
<1>2. /\ t \in Seq(Nat) /\ Len(t) = l + 1
      /\ \A i \in 1..l : t[i] = s[i]
      /\ t[l + 1] = n
  BY <1>1
<1>3. \A i \in 1..l : s[i] \in Nat /\ s[i] < n
  BY <1>1 DEF IsIncreasing
<1>4. \A i, j \in 1..l : i < j => s[i] < s[j]
  BY DEF IsIncreasing
<1>5. IsIncreasing(s, n + 1)
  BY <1>1, <1>3, <1>4 DEF IsIncreasing
<1> HIDE DEF t, l
<1>6. \A i \in 1..(l + 1) : i \in 1..l \/ i = l + 1
  BY <1>1
<1>7. \A i \in 1..(l + 1) : t[i] < n + 1
  BY <1>2, <1>3, <1>6
<1>8. ASSUME NEW i \in 1..(l + 1), NEW j \in 1..(l + 1), i < j PROVE t[i] < t[j]
  <2>1. i \in 1..l
    <3>1. l \in Nat
      BY <1>1
    <3> QED BY <1>8, <3>1
  <2>2. t[i] = s[i] /\ s[i] < n
    BY <1>2, <1>3, <2>1
  <2>3. CASE j \in 1..l
    <3>1. t[j] = s[j] /\ s[i] < s[j]
      BY <1>2, <1>4, <1>8, <2>1, <2>3
    <3> QED BY <2>2, <3>1
  <2>4. CASE j = l + 1
    BY <1>2, <2>2, <2>4
  <2> QED BY <1>6, <2>3, <2>4
<1>9. IsIncreasing(t, n + 1)
  BY <1>2, <1>7, <1>8 DEF IsIncreasing
<1> QED BY <1>5, <1>9 DEF t

LEMMA IncreasingSeqsAre ==
    ASSUME NEW n \in Nat, NEW s \in IncreasingSeqs(n)
    PROVE  IsIncreasing(s, n)
<1> DEFINE V == SUBSET Seq(Int)
           more(k, b) == b \union {Append(t, k - 1) : t \in b}
           next == [p \in Nat \X V |-> more(p[1], p[2])]
           IsBelow(f) == f = [k \in 0..n |-> IF k = 0 THEN {<< >>}
                                ELSE f[k - 1] \union {Append(t, k - 1) : t \in f[k - 1]}]
           Below == CHOOSE f : IsBelow(f)
<1>1. next \in [Nat \X V -> V]
  <2>1. ASSUME NEW p \in Nat \X V PROVE more(p[1], p[2]) \in V
    <3>1. p[1] - 1 \in Int /\ \A t \in p[2] : t \in Seq(Int)
      OBVIOUS
    <3>2. ASSUME NEW u \in more(p[1], p[2]) PROVE u \in Seq(Int)
      <4>1. CASE u \in p[2]
        BY <3>1, <4>1
      <4>2. ASSUME NEW t \in p[2], u = Append(t, p[1] - 1) PROVE u \in Seq(Int)
        <5>1. t \in Seq(Int) /\ p[1] - 1 \in Int
          BY <3>1
        <5> HIDE DEF more, V
        <5> QED BY <4>2, <5>1
      <4> QED BY <4>1, <4>2
    <3> HIDE DEF more
    <3> QED BY <3>2
  <2> HIDE DEF more, V
  <2> QED BY <2>1
<1>2. ASSUME NEW k \in Nat, NEW b \in V PROVE next[<<k, b>>] = more(k, b)
  <2>1. <<k, b>> \in Nat \X V
    OBVIOUS
  <2> QED BY <2>1
<1>3. {<< >>} \in V
  OBVIOUS
<1> HIDE DEF next, V
<1>4. PICK f \in [0..n -> V] : Solves(f, {<< >>}, next, n)
  BY <1>1, <1>3, RecursionExists
<1>5. ASSUME NEW k \in 0..n
      PROVE  f[k] = IF k = 0 THEN {<< >>} ELSE more(k, f[k - 1])
  <2>1. CASE k = 0
    BY <1>4, <2>1 DEF Solves
  <2>2. CASE k # 0
    <3>1. k \in 1..n /\ k - 1 \in 0..n /\ k \in Nat
      BY <2>2
    <3>2. f[k] = next[<<k, f[k - 1]>>] /\ f[k - 1] \in V
      BY <1>4, <3>1 DEF Solves
    <3>3. f[k] = more(k, f[k - 1])
      BY <1>2, <3>1, <3>2
    <3> QED BY <2>2, <3>3
  <2> QED BY <2>1, <2>2
<1>6. IsBelow(f)
  BY <1>4, <1>5
<1>7. IsBelow(Below)
  BY <1>6
<1>8. IncreasingSeqs(n) = Below[n]
  BY DEF IncreasingSeqs
<1> HIDE DEF Below
<1>9. ASSUME NEW k \in 0..n
      PROVE  Below[k] = IF k = 0 THEN {<< >>} ELSE more(k, Below[k - 1])
  BY <1>7
<1> HIDE DEF IsBelow
<1> DEFINE T == {k \in Nat : k <= n => \A t \in Below[k] : IsIncreasing(t, k)}
<1>10. T \in SUBSET Nat
  OBVIOUS
<1>11. 0 \in T
  <2>1. 0 \in 0..n
    OBVIOUS
  <2>2. Below[0] = {<< >>}
    BY <1>9, <2>1
  <2> QED BY <2>2, IncreasingOfNone
<1>12. ASSUME NEW k \in T PROVE k + 1 \in T
  <2>0. k \in Nat
    OBVIOUS
  <2> SUFFICES ASSUME k + 1 <= n, NEW t \in Below[k + 1] PROVE IsIncreasing(t, k + 1)
    BY <2>0
  <2>1. k + 1 \in 0..n /\ k + 1 # 0 /\ (k + 1) - 1 = k /\ k <= n
    BY <2>0
  <2>2. \A u \in Below[k] : IsIncreasing(u, k)
    BY <2>1
  <2>3. Below[k + 1] = more(k + 1, Below[k])
    BY <1>9, <2>1
  <2>4. PICK u \in Below[k] : t = u \/ t = Append(u, k)
    BY <2>1, <2>3
  <2> QED BY <2>0, <2>2, <2>4, IncreasingOfNext
<1>13. \A k \in T : k + 1 \in T
  BY <1>12
<1> HIDE DEF T
<1>14. T = Nat
  BY <1>10, <1>11, <1>13, SetInduction
<1> QED BY <1>8, <1>14 DEF T

-------------------------------------------------------------------------------
(* The hint.                                                               *)
FitsInto(x, n, w) == x >= n * w => x \div w >= n

LEMMA Quotient == \A x, n \in Nat : \A w \in Nat \ {0} : FitsInto(x, n, w)
<1> SUFFICES ASSUME NEW x \in Nat, NEW n \in Nat, NEW w \in Nat \ {0}, x >= n * w
             PROVE  x \div w >= n
  BY DEF FitsInto
<1> DEFINE q == x \div w
           r == x % w
<1>1. q \in Nat /\ r \in 0..(w - 1) /\ x = w * q + r
  OBVIOUS
<1> HIDE DEF q, r
<1> SUFFICES ASSUME q < n PROVE FALSE
  BY <1>1 DEF q
<1>2. PICK d \in Nat : n = (q + 1) + d
  <2>1. n - (q + 1) \in Nat /\ n = (q + 1) + (n - (q + 1))
    BY <1>1
  <2> QED BY <2>1
<1>3. n * w = w * q + w + d * w
  BY <1>1, <1>2
<1> DEFINE a == w * q
           b == d * w
           c == n * w
<1>4. a \in Nat /\ b \in Nat /\ c = a + w + b /\ x = a + r /\ x >= c
  BY <1>1, <1>2, <1>3
<1> HIDE DEF a, b, c
<1> QED BY <1>1, <1>4

(* Behind the fields there is nothing but zeros. *)
LEMMA ReadsNothing ==
    ASSUME NEW bits \in Seq(Bits), NEW offset \in Nat, NEW width \in Nat, offset >= Len(bits)
    PROVE  ReadAt(Flushed(bits), offset, width) = 0
<1>1. ASSUME NEW i \in 1..width PROVE BitAt(Flushed(bits), offset + i) = 0
  <2>1. offset + i \in Nat \ {0} /\ ~(offset + i <= Len(bits))
    OBVIOUS
  <2>2. BitAt(bits, offset + i) = 0
    BY <2>1 DEF BitAt
  <2> QED BY <2>1, <2>2, FlushedPads
<1>2. ASSUME NEW i \in 1..width PROVE Field(0, width)[i] = 0
  <2>1. i - 1 \in Nat /\ 2^(i - 1) \in Nat \ {0}
    BY Stream!PowerType
  <2> DEFINE d == 2^(i - 1)
  <2> HIDE DEF d
  <2>2. 0 \div d = 0
    <3>1. d \in Nat \ {0}
      BY <2>1 DEF d
    <3>2. 0 \in 0..(d - 1) /\ 0 * d + 0 = 0
      BY <3>1
    <3> QED BY <3>1, <3>2, Stream!Division
  <2>3. 0 % 2 = 0
    OBVIOUS
  <2> QED BY <2>2, <2>3 DEF Field, d
<1>3. HasAt(Flushed(bits), offset, 0, width)
  BY <1>1, <1>2 DEF HasAt
<1>4. 2^width \in Nat \ {0}
  BY Stream!PowerType
<1> QED BY <1>3, <1>4, ReadsField

LEMMA HintIsRead ==
    ASSUME NEW range \in Nat \ {0}, NEW ids, IsIncreasing(ids, range), Len(ids) > 0
    PROVE  ParseHint(range, WriteHint(range, ids))
              = [threw |-> FALSE, ids |-> IF range = 1 THEN << >> ELSE ids]
<1> DEFINE n == Len(ids)
           w == BitsEach(range)
           ss == Fields(ids, n, w)
           flat == FlattenSeq(ss)
           bits == Flushed(flat)
<1>1. ids \in Seq(Nat) /\ n \in Nat \ {0} /\ AreValues(ids, n)
  BY DEF IsIncreasing, AreValues
<1>2. LogLaw(range) /\ w \in Nat
  BY LogLaws DEF LogLaw, BitsEach
<1>3. WriteHint(range, ids) = bits
  BY DEF WriteHint, Fields
<1> HIDE DEF n, w
<1>4. /\ ss \in Seq(Seq(Bits)) /\ Len(ss) = n
      /\ \A i \in 1..n : ss[i] = Field(ids[i], w)
  BY <1>1, <1>2, FieldsType
<1> HIDE DEF ss
<1>5. flat \in Seq(Bits) /\ Placed(flat, ss, n)
  BY <1>4, FlattenPlaces
<1> HIDE DEF flat
<1>6. /\ bits \in Seq(Bits) /\ Len(bits) = ByteBits * Bits2Bytes(Len(flat))
      /\ Len(flat) <= Len(bits)
  BY <1>5, FlushedPads
<1>7. Upto(ss, 0) = 0
  BY <1>4, UptoGrows
<1>8. /\ Upto(ss, 0 + n) = Upto(ss, 0) + n * w
      /\ \A i \in 1..n : /\ Upto(ss, 0) + Begins(i, w) \in Nat
                         /\ HasAt(Flushed(FlattenSeq(ss)), Upto(ss, 0) + Begins(i, w), ids[i], w)
  <2>1. 0 + n <= Len(ss) /\ \A i \in 1..n : ss[0 + i] = Field(ids[i], w)
    BY <1>1, <1>4
  <2>2. AreFields(ss, 0, ids, n, w)
    BY <1>1, <2>1 DEF AreFields
  <2>3. ArePlaced(ss, 0, ids, n, w)
    BY <1>1, <1>2, <1>4, <2>2, FieldsPlaced
  <2> QED BY <2>3 DEF ArePlaced
<1>9. Len(flat) = n * w
  <2>1. n * w \in Nat /\ 0 + n = n
    BY <1>1, <1>2
  <2> QED BY <1>5, <1>7, <1>8, <2>1 DEF Placed
<1>10. ASSUME NEW i \in 1..n PROVE Begins(i, w) \in Nat /\ HasAt(bits, Begins(i, w), ids[i], w)
  <2>1. Begins(i, w) \in Int
    BY <1>1, <1>2 DEF Begins
  <2> QED BY <1>7, <1>8, <2>1 DEF flat
<1> HIDE DEF bits
<1>11. CASE range = 1
  <2>1. w = 0
    BY <1>2, <1>11 DEF LogLaw, w, BitsEach
  <2>2. Len(flat) = 0
    BY <1>1, <1>9, <2>1
  <2>3. Bits2Bytes(0) = 0
    <3>1. ByteBits \in Nat \ {0} /\ 0 * ByteBits + (ByteBits - 1) = 0 + ByteBits - 1
      BY ByteAssumption
    <3>2. (0 * ByteBits + (ByteBits - 1)) \div ByteBits = 0
      BY <3>1, Stream!Division
    <3> QED BY <3>1, <3>2 DEF Bits2Bytes
  <2>4. Len(bits) = 0
    BY <1>6, <2>2, <2>3, ByteAssumption
  <2>5. bits = << >>
    BY <1>6, <2>4
  <2> QED BY <1>3, <1>11, <2>5 DEF ParseHint
<1>12. CASE range # 1
  <2> DEFINE count == HintCount(range, bits)
             Stops == {i \in 2..count : HintId(range, bits, i) = 0}
  <2>1. w \in Nat \ {0} /\ 2^w >= range /\ 2^w \in Nat
    BY <1>2, <1>12, Stream!PowerType DEF LogLaw, w, BitsEach
  <2>2. count = Len(bits) \div w /\ count \in Nat
    BY <1>6, <2>1 DEF HintCount, w
  <2>3. count >= n
    <3>1. Len(bits) \in Nat /\ Len(bits) >= n * w
      <4>1. n * w \in Nat
        BY <1>1, <1>2
      <4> QED BY <1>6, <1>9, <4>1
    <3> QED BY <1>1, <2>1, <2>2, <3>1, Quotient DEF FitsInto
  <2>4. ASSUME NEW i \in 1..n PROVE HintId(range, bits, i) = ids[i]
    <3>1. ids[i] \in Nat /\ ids[i] < range
      BY <1>1 DEF IsIncreasing, n
    <3>2. ids[i] < 2^w
      BY <2>1, <3>1
    <3>3. ReadAt(bits, Begins(i, w), w) = ids[i]
      BY <1>2, <1>10, <3>1, <3>2, ReadsField
    <3> QED BY <3>3 DEF HintId, w, Begins
  <2>5. ASSUME NEW i \in Nat, i > n PROVE HintId(range, bits, i) = 0
    <3>1. PICK d \in Nat : i - 1 = n + d
      <4>1. (i - 1) - n \in Nat /\ i - 1 = n + ((i - 1) - n)
        BY <1>1, <2>5
      <4> QED BY <4>1
    <3>2. (i - 1) * w = n * w + d * w /\ n * w \in Nat /\ d * w \in Nat
      BY <1>1, <1>2, <3>1
    <3> DEFINE o == (i - 1) * w
    <3>3. o \in Nat /\ o >= Len(flat)
      BY <1>9, <3>2
    <3> HIDE DEF o
    <3>4. ReadAt(bits, o, w) = 0
      BY <1>2, <1>5, <3>3, ReadsNothing DEF bits
    <3> QED BY <3>4 DEF HintId, w, o
  <2> HIDE DEF count
  <2>6. ASSUME NEW i \in 2..n PROVE HintId(range, bits, i) # 0
    <3>1. 1 \in 1..n /\ i \in 1..n /\ 1 < i
      BY <1>1
    <3>2. ids[1] < ids[i] /\ ids[1] \in Nat /\ ids[i] \in Nat
      BY <1>1, <3>1 DEF IsIncreasing, n
    <3> QED BY <2>4, <3>1, <3>2
  <2>7. Stops = (n + 1)..count
    <3>1. ASSUME NEW i \in 2..count PROVE HintId(range, bits, i) = 0 <=> i \in (n + 1)..count
      <4>1. CASE i <= n
        BY <1>1, <2>2, <2>6, <4>1
      <4>2. CASE i > n
        BY <1>1, <2>2, <2>5, <4>2
      <4> QED BY <1>1, <2>2, <4>1, <4>2
    <3>2. (n + 1)..count \subseteq 2..count
      BY <1>1, <2>2
    <3> QED BY <3>1, <3>2
  <2> HIDE DEF Stops
  <2>8. HintEnd(range, bits) = n
    <3>1. HintEnd(range, bits) = IF Stops = {} THEN count ELSE Min(Stops) - 1
      BY DEF HintEnd, Stops, count
    <3>2. CASE count = n
      <4>1. Stops = {}
        BY <1>1, <2>7, <3>2
      <4> QED BY <3>1, <3>2, <4>1
    <3>3. CASE count > n
      <4>1. n + 1 \in Stops /\ \A y \in Stops : n + 1 <= y
        BY <1>1, <2>2, <2>7, <3>3
      <4>2. \A x \in Stops : x \in Int /\ ((\A y \in Stops : x <= y) => x = n + 1)
        BY <1>1, <2>2, <2>7, <4>1
      <4>3. Min(Stops) = n + 1
        BY <4>1, <4>2 DEF Min
      <4>4. Stops # {} /\ (n + 1) - 1 = n
        BY <1>1, <4>1
      <4> QED BY <3>1, <4>3, <4>4
    <3> QED BY <1>1, <2>2, <2>3, <3>2, <3>3
  <2> DEFINE got == [i \in 1..HintEnd(range, bits) |-> HintId(range, bits, i)]
  <2>9. got = ids
    <3>1. got = [i \in 1..n |-> ids[i]]
      BY <2>4, <2>8
    <3>2. ids = [i \in 1..n |-> ids[i]]
      BY <1>1 DEF n
    <3> QED BY <3>1, <3>2
  <2>10. bits # << >>
    <3>1. n * w \in Nat \ {0}
      BY <1>1, <2>1
    <3>2. Len(bits) # 0
      BY <1>5, <1>6, <1>9, <3>1
    <3> QED BY <3>2
  <2>11. DOMAIN got = 1..n /\ ~(\E i \in DOMAIN got : got[i] >= range)
    <3>1. DOMAIN got = 1..n
      BY <2>8
    <3>2. \A i \in 1..n : ids[i] \in Nat /\ ids[i] < range
      BY <1>1 DEF IsIncreasing, n
    <3> HIDE DEF got
    <3> QED BY <2>9, <3>1, <3>2
  <2>12. ParseHint(range, bits) = [threw |-> \E i \in DOMAIN got : got[i] >= range, ids |-> got]
    BY <2>10 DEF ParseHint
  <2> HIDE DEF got
  <2> QED BY <1>3, <1>12, <2>9, <2>11, <2>12
<1> QED BY <1>11, <1>12

-------------------------------------------------------------------------------
(* The decoding message, as it is parsed.                                  *)
IsOutcome(s, m, t) ==
    \/ s = Failed
    \/ /\ s # Failed
       /\ s \in Seq(Nat) /\ Len(s) <= t
       /\ \A i \in 1..Len(s) : s[i] < 2^m

AreOutcomes(groups, m, t) ==
    /\ Len(groups) \in Nat /\ groups = [g \in 1..Len(groups) |-> groups[g]]
    /\ \A g \in 1..Len(groups) : IsOutcome(groups[g], m, t)

LEMMA OutcomesAre ==
    ASSUME NEW m \in Nat, NEW t \in Nat, NEW s \in Outcomes(m, t)
    PROVE  IsOutcome(s, m, t)
<1>1. CASE s = Failed
  BY <1>1 DEF IsOutcome
<1>2. CASE s # Failed
  <2>1. s \in BoundedSeq(1..(2^m - 1), t)
    BY <1>2 DEF Outcomes
  <2>2. 2^m \in Nat
    BY Stream!PowerType
  <2>3. PICK n \in 0..t : s \in [1..n -> 1..(2^m - 1)]
    BY <2>1 DEF BoundedSeq, SeqOf
  <2>4. /\ s \in Seq(1..(2^m - 1)) /\ Len(s) = n
    BY <2>3
  <2>5. \A i \in 1..Len(s) : s[i] \in Nat /\ s[i] < 2^m
    BY <2>2, <2>3, <2>4
  <2> QED BY <1>2, <2>2, <2>3, <2>4, <2>5 DEF IsOutcome
<1> QED BY <1>1, <1>2

(* The lists of the groups that did not fail. *)
Listed(groups, list) == [g \in 1..Len(groups) |-> IF groups[g] = Failed THEN << >> ELSE list[g]]

AreLists(groups, list, S) == \A g \in 1..Len(groups) : groups[g] # Failed => list[g] \in Seq(S)

ListedLaw(groups, list, S) ==
    /\ Listed(groups, list) \in Seq(Seq(S)) /\ Len(Listed(groups, list)) = Len(groups)
    /\ \A g \in 1..Len(groups) : Listed(groups, list)[g]
                                   = IF groups[g] = Failed THEN << >> ELSE list[g]
    /\ OfDecoded(groups, list) = FlattenSeq(Listed(groups, list))

LEMMA ListedType ==
    \A S, groups, list : Len(groups) \in Nat /\ AreLists(groups, list, S)
                            => ListedLaw(groups, list, S)
<1> SUFFICES ASSUME NEW S, NEW groups, NEW list,
                    Len(groups) \in Nat, AreLists(groups, list, S)
             PROVE  ListedLaw(groups, list, S)
  OBVIOUS
<1> DEFINE n == Len(groups)
<1>1. ASSUME NEW g \in 1..n PROVE (IF groups[g] = Failed THEN << >> ELSE list[g]) \in Seq(S)
  <2>1. << >> \in Seq(S)
    OBVIOUS
  <2> QED BY <2>1 DEF AreLists
<1>2. Listed(groups, list) \in [1..n -> Seq(S)]
  BY <1>1 DEF Listed
<1>3. Listed(groups, list) \in Seq(Seq(S)) /\ Len(Listed(groups, list)) = n
  <2> HIDE DEF Listed
  <2> QED BY <1>2
<1> QED BY <1>3 DEF OfDecoded, Listed, ListedLaw

LEMMA FlagIsNoCount ==
    ASSUME NEW t \in Nat
    PROVE  /\ SizeofEachD(t) \in Nat
           /\ FailureFlag(t) \in Nat /\ FailureFlag(t) > t /\ FailureFlag(t) < 2^SizeofEachD(t)
<1> DEFINE w == CeilLog2(t + 2)
           d == 2^w
<1>1. t + 2 \in Nat \ {0}
  OBVIOUS
<1>2. w \in Nat /\ d >= t + 2
  BY <1>1, LogLaws DEF LogLaw
<1>3. d \in Nat
  BY <1>2, Stream!PowerType
<1>4. SizeofEachD(t) = w /\ FailureFlag(t) = d - 1 /\ 2^SizeofEachD(t) = d
  BY DEF SizeofEachD, FailureFlag, UIntXMax
<1> HIDE DEF d, w
<1> QED BY <1>2, <1>3, <1>4

LEMMA CountsType ==
    ASSUME NEW m \in Nat, NEW t \in Nat, NEW groups, AreOutcomes(groups, m, t)
    PROVE  /\ Len(Counts(groups)) = Len(groups)
           /\ AreCounts(Counts(groups), Len(groups))
           /\ \A g \in 1..Len(groups) :
                 /\ Counts(groups)[g] = IF groups[g] = Failed THEN -1 ELSE Len(groups[g])
                 /\ Counts(groups)[g] \in -1..t
                 /\ Counts(groups)[g] < 0 <=> groups[g] = Failed
<1> DEFINE n == Len(groups)
<1>1. n \in Nat
  BY DEF AreOutcomes
<1>2. ASSUME NEW g \in 1..n
      PROVE  /\ Counts(groups)[g] = IF groups[g] = Failed THEN -1 ELSE Len(groups[g])
             /\ Counts(groups)[g] \in -1..t
             /\ Counts(groups)[g] < 0 <=> groups[g] = Failed
  <2>1. Counts(groups)[g] = IF groups[g] = Failed THEN -1 ELSE Len(groups[g])
    BY DEF Counts
  <2>2. groups[g] # Failed => Len(groups[g]) \in Nat /\ Len(groups[g]) <= t
    <3>1. IsOutcome(groups[g], m, t)
      BY DEF AreOutcomes
    <3> QED BY <3>1 DEF IsOutcome
  <2> QED BY <2>1, <2>2
<1>3. Len(Counts(groups)) = n
  BY <1>1 DEF Counts
<1>4. AreCounts(Counts(groups), n)
  BY <1>2 DEF AreCounts
<1> QED BY <1>2, <1>3, <1>4

(* Lists with as many elements as are counted begin where the receiver     *)
(* takes them to begin.                                                    *)
AreCounted(groups, list) ==
    \A g \in 1..Len(groups) : groups[g] # Failed => Len(list[g]) = Len(groups[g])

LEMMA CountedLists ==
    ASSUME NEW m \in Nat, NEW t \in Nat, NEW groups, AreOutcomes(groups, m, t),
           NEW S, NEW list, AreLists(groups, list, S), AreCounted(groups, list)
    PROVE  /\ \A g \in 0..Len(groups) :
                 Upto(Listed(groups, list), g) = SumUpTo(Counts(groups), g)
           /\ Len(OfDecoded(groups, list)) = SumOf(Counts(groups))
<1> DEFINE n == Len(groups)
           c == Counts(groups)
           ss == Listed(groups, list)
<1>1. n \in Nat
  BY DEF AreOutcomes
<1>2. /\ ss \in Seq(Seq(S)) /\ Len(ss) = n
      /\ \A g \in 1..n : ss[g] = IF groups[g] = Failed THEN << >> ELSE list[g]
      /\ OfDecoded(groups, list) = FlattenSeq(ss)
  <2>1. ListedLaw(groups, list, S)
    BY <1>1, ListedType
  <2> QED BY <2>1 DEF ListedLaw
<1>3. /\ Len(c) = n /\ AreCounts(c, n)
      /\ \A g \in 1..n : c[g] = IF groups[g] = Failed THEN -1 ELSE Len(groups[g])
  BY CountsType
<1>4. AreCounts(Lengths(ss), n)
  BY <1>2, LengthsAreCounts
<1>5. ASSUME NEW g \in 1..n PROVE Counted(Lengths(ss)[g]) = Counted(c[g])
  <2>1. Lengths(ss)[g] = Len(ss[g])
    BY <1>2 DEF Lengths
  <2>2. CASE groups[g] = Failed
    <3>1. Len(ss[g]) = 0 /\ c[g] = -1
      BY <1>2, <1>3, <2>2
    <3> QED BY <2>1, <3>1 DEF Counted
  <2>3. CASE groups[g] # Failed
    <3>1. Len(ss[g]) = Len(groups[g]) /\ c[g] = Len(groups[g])
      BY <1>2, <1>3, <2>3 DEF AreCounted
    <3> QED BY <2>1, <3>1
  <2> QED BY <2>2, <2>3
<1> HIDE DEF n, c, ss
<1>6. ASSUME NEW g \in 0..n PROVE Upto(ss, g) = SumUpTo(c, g)
  <2>1. /\ g \in Nat /\ AreCounts(Lengths(ss), g) /\ AreCounts(c, g)
        /\ \A h \in 1..g : Counted(c[h]) = Counted(Lengths(ss)[h])
    BY <1>1, <1>3, <1>4, <1>5 DEF AreCounts
  <2> QED BY <2>1, SumOfSame DEF Upto
<1>7. Len(FlattenSeq(ss)) = Upto(ss, n)
  BY <1>2, FlattenPlaces DEF Placed
<1>8. n \in 0..n
  BY <1>1
<1> QED BY <1>2, <1>3, <1>6, <1>7, <1>8 DEF SumOf, n, c, ss

ArePositions(p, m) ==
    /\ p \in Seq(Nat)
    /\ \A i \in 1..Len(p) : p[i] < 2^m

LEMMA PositionsType ==
    ASSUME NEW m \in Nat, NEW t \in Nat, NEW groups, AreOutcomes(groups, m, t)
    PROVE  ArePositions(Positions(groups), m)
<1> DEFINE ss == Listed(groups, groups)
           n == Len(groups)
           p == FlattenSeq(ss)
<1>1. n \in Nat /\ \A g \in 1..n : IsOutcome(groups[g], m, t)
  BY DEF AreOutcomes
<1>2. AreLists(groups, groups, Nat)
  BY <1>1 DEF AreLists, IsOutcome
<1>3. /\ ss \in Seq(Seq(Nat)) /\ Len(ss) = n
      /\ \A g \in 1..n : ss[g] = IF groups[g] = Failed THEN << >> ELSE groups[g]
      /\ Positions(groups) = p
  <2>1. ListedLaw(groups, groups, Nat)
    BY <1>1, <1>2, ListedType
  <2> QED BY <2>1 DEF Positions, ListedLaw
<1>4. p \in Seq(Nat) /\ Placed(p, ss, n)
  BY <1>3, FlattenPlaces
<1> HIDE DEF p, ss, n
<1>5. ASSUME NEW i \in 1..Len(p) PROVE p[i] < 2^m
  <2>0. PICK g \in 1..n : \E k \in 1..Len(ss[g]) : i = Upto(ss, g - 1) + k
    BY <1>4 DEF Placed
  <2>1. PICK k \in 1..Len(ss[g]) : i = Upto(ss, g - 1) + k
    BY <2>0
  <2>2. p[i] = ss[g][k]
    BY <1>4, <2>1 DEF Placed
  <2>3. groups[g] # Failed /\ ss[g] = groups[g]
    BY <1>3, <2>1
  <2> QED BY <1>1, <2>1, <2>2, <2>3 DEF IsOutcome
<1> QED BY <1>3, <1>4, <1>5 DEF ArePositions

LEMMA DecodingIsParsed ==
    ASSUME NEW m \in Nat, NEW t \in Nat, NEW groups, AreOutcomes(groups, m, t)
    PROVE  ParseDecoding(m, t, Len(groups), WriteDecoding(m, t, groups))
              = [counts |-> Counts(groups), positions |-> Positions(groups)]
<1> DEFINE n == Len(groups)
           c == Counts(groups)
           p == Positions(groups)
           l == Len(p)
           w == SizeofEachD(t)
           flag == FailureFlag(t)
           v == [g \in 1..n |-> IF c[g] < 0 THEN flag ELSE c[g]]
           ssA == Fields(v, n, w)
           ssB == Fields(p, l, m)
           ss == ssA \o ssB
           flat == FlattenSeq(ss)
           bits == Flushed(flat)
<1>1. n \in Nat
  BY DEF AreOutcomes
<1>2. /\ Len(c) = n /\ AreCounts(c, n)
      /\ \A g \in 1..n : c[g] \in -1..t
  BY CountsType
<1>3. p \in Seq(Nat) /\ l \in Nat /\ \A i \in 1..l : p[i] < 2^m
  BY PositionsType DEF ArePositions
<1>4. w \in Nat /\ flag \in Nat /\ flag > t /\ flag < 2^w
  BY FlagIsNoCount
<1>5. WriteDecoding(m, t, groups) = bits
  <2>1. ssA = [g \in 1..Len(c) |-> Field(IF c[g] < 0 THEN flag ELSE c[g], w)]
    <3>1. \A g \in 1..n : v[g] = IF c[g] < 0 THEN flag ELSE c[g]
      OBVIOUS
    <3> HIDE DEF v
    <3> QED BY <1>2, <3>1 DEF Fields
  <2>2. ssB = [i \in 1..Len(p) |-> Field(p[i], m)]
    BY DEF Fields
  <2> HIDE DEF ssA, ssB
  <2> QED BY <2>1, <2>2 DEF WriteDecoding
<1>6. /\ ParseDecoding(m, t, n, bits).counts
            = [g \in 1..n |-> IF ReadAt(bits, Begins(g, w), w) = flag THEN -1
                              ELSE ReadAt(bits, Begins(g, w), w)]
  BY DEF ParseDecoding, Begins
<1>7. ASSUME NEW counts, counts = ParseDecoding(m, t, n, bits).counts
      PROVE  ParseDecoding(m, t, n, bits)
                = [counts |-> counts,
                   positions |->
                      [i \in 1..SumOf(counts) |->
                         IF Bits2Bytes(w * n + m * SumOf(counts)) <= Bytes(bits)
                         THEN ReadAt(bits, w * n + Begins(i, m), m) ELSE 0]]
  BY <1>7 DEF ParseDecoding, Begins
<1>8. ASSUME NEW g \in 1..n
      PROVE  v[g] \in Nat /\ v[g] < 2^w /\ (IF v[g] = flag THEN -1 ELSE v[g]) = c[g]
  <2>1. v[g] = IF c[g] < 0 THEN flag ELSE c[g]
    OBVIOUS
  <2> DEFINE d == 2^w
             x == c[g]
  <2>2. d \in Nat
    BY <1>4, Stream!PowerType
  <2>3. x \in -1..t
    BY <1>2
  <2> HIDE DEF d, x, v, flag
  <2> QED BY <1>4, <2>1, <2>2, <2>3 DEF d, x
<1>9. AreValues(v, n) /\ AreValues(p, l)
  BY <1>3, <1>8 DEF AreValues
<1> HIDE DEF n, c, p, l, w, flag, v
<1>10. /\ ssA \in Seq(Seq(Bits)) /\ Len(ssA) = n
       /\ \A g \in 1..n : ssA[g] = Field(v[g], w)
  BY <1>1, <1>4, <1>9, FieldsType
<1>11. /\ ssB \in Seq(Seq(Bits)) /\ Len(ssB) = l
       /\ \A i \in 1..l : ssB[i] = Field(p[i], m)
  BY <1>3, <1>9, FieldsType
<1> HIDE DEF ssA, ssB
<1>12. /\ ss \in Seq(Seq(Bits)) /\ Len(ss) = n + l
       /\ \A g \in 1..n : ss[0 + g] = Field(v[g], w)
       /\ \A i \in 1..l : ss[n + i] = Field(p[i], m)
  <2>1. ss \in Seq(Seq(Bits)) /\ Len(ss) = n + l
    <3> DEFINE T == Seq(Bits)
    <3>1. ssA \in Seq(T) /\ ssB \in Seq(T)
      BY <1>10, <1>11
    <3> HIDE DEF T
    <3>2. ss \in Seq(T) /\ Len(ss) = Len(ssA) + Len(ssB)
      BY <3>1
    <3> QED BY <1>10, <1>11, <3>2 DEF T
  <2>2. ASSUME NEW g \in 1..n PROVE ss[0 + g] = Field(v[g], w)
    <3>1. ss[g] = ssA[g] /\ 0 + g = g
      BY <1>1, <1>3, <1>10, <1>11
    <3> QED BY <1>10, <3>1
  <2>3. ASSUME NEW i \in 1..l PROVE ss[n + i] = Field(p[i], m)
    <3>1. n + i \in 1..(n + l) /\ ~(n + i <= n) /\ (n + i) - n = i
      BY <1>1, <1>3
    <3>2. ss[n + i] = ssB[i]
      BY <1>10, <1>11, <3>1
    <3> QED BY <1>11, <3>2
  <2> QED BY <2>1, <2>2, <2>3
<1> HIDE DEF ss
<1>13. AreFields(ss, 0, v, n, w) /\ AreFields(ss, n, p, l, m)
  <2>1. 0 + n <= n + l /\ n + l <= n + l
    BY <1>1, <1>3
  <2> QED BY <1>9, <1>12, <2>1 DEF AreFields
<1>14. ArePlaced(ss, 0, v, n, w) /\ ArePlaced(ss, n, p, l, m)
  BY <1>1, <1>3, <1>4, <1>12, <1>13, FieldsPlaced
<1>15. Upto(ss, 0) = 0
  BY <1>12, UptoGrows
<1>16. Upto(ss, n) = w * n
  <2>1. 0 + n = n /\ n * w = w * n /\ w * n \in Nat /\ 0 + w * n = w * n
    BY <1>1, <1>4
  <2>2. Upto(ss, 0 + n) = Upto(ss, 0) + n * w
    BY <1>14 DEF ArePlaced
  <2> QED BY <1>15, <2>1, <2>2
<1>17. Upto(ss, n + l) = w * n + m * l
  <2>1. Upto(ss, n + l) = Upto(ss, n) + l * m /\ l * m = m * l
    BY <1>3, <1>14 DEF ArePlaced
  <2> QED BY <1>16, <2>1
<1>18. flat \in Seq(Bits) /\ Len(flat) = w * n + m * l
  BY <1>12, <1>17, FlattenPlaces DEF Placed
<1>19. ASSUME NEW g \in 1..n PROVE Begins(g, w) \in Nat /\ HasAt(bits, Begins(g, w), v[g], w)
  <2>1. Begins(g, w) \in Int
    BY <1>1, <1>4 DEF Begins
  <2>2. 0 + Begins(g, w) = Begins(g, w)
    BY <2>1
  <2>3. /\ Upto(ss, 0) + Begins(g, w) \in Nat
        /\ HasAt(bits, Upto(ss, 0) + Begins(g, w), v[g], w)
    BY <1>14 DEF ArePlaced
  <2> QED BY <1>15, <2>2, <2>3
<1>20. ASSUME NEW i \in 1..l
       PROVE  w * n + Begins(i, m) \in Nat /\ HasAt(bits, w * n + Begins(i, m), p[i], m)
  BY <1>14, <1>16 DEF ArePlaced
<1>21. Bits2Bytes(w * n + m * l) <= Bytes(bits)
  <2>1. w * n + m * l \in Nat
    BY <1>18
  <2>2. WholeBytesLaw(w * n + m * l)
    BY <2>1, WholeBytes
  <2>3. Len(bits) = ByteBits * Bits2Bytes(w * n + m * l)
    BY <1>18, FlushedPads
  <2> HIDE DEF bits
  <2> QED BY <2>2, <2>3 DEF WholeBytesLaw, Bytes
<1> HIDE DEF bits
<1>22. ASSUME NEW g \in 1..n PROVE ReadAt(bits, Begins(g, w), w) = v[g]
  BY <1>4, <1>8, <1>19, ReadsField
<1>23. ASSUME NEW i \in 1..l PROVE ReadAt(bits, w * n + Begins(i, m), m) = p[i]
  <2>1. p[i] \in Nat /\ p[i] < 2^m
    BY <1>3 DEF l
  <2> QED BY <1>20, <2>1, ReadsField
<1>24. ParseDecoding(m, t, n, bits).counts = c
  <2>1. c = [g \in 1..n |-> c[g]]
    BY DEF c, n, Counts
  <2>2. ASSUME NEW g \in 1..n
        PROVE  c[g] = IF ReadAt(bits, Begins(g, w), w) = flag THEN -1
                      ELSE ReadAt(bits, Begins(g, w), w)
    BY <1>8, <1>22
  <2> QED BY <1>6, <2>1, <2>2
<1>25. SumOf(c) = l
  <2>1. AreLists(groups, groups, Nat) /\ AreCounted(groups, groups)
    BY DEF AreOutcomes, AreLists, IsOutcome, AreCounted
  <2> QED BY <2>1, CountedLists DEF c, l, p, Positions
<1>26. ParseDecoding(m, t, n, bits)
          = [counts |-> c, positions |-> [i \in 1..l |-> p[i]]]
  <2>1. ParseDecoding(m, t, n, bits)
          = [counts |-> c,
             positions |-> [i \in 1..SumOf(c) |->
                               IF Bits2Bytes(w * n + m * SumOf(c)) <= Bytes(bits)
                               THEN ReadAt(bits, w * n + Begins(i, m), m) ELSE 0]]
    BY <1>7, <1>24
  <2>2. ASSUME NEW i \in 1..l
        PROVE  (IF Bits2Bytes(w * n + m * SumOf(c)) <= Bytes(bits)
                THEN ReadAt(bits, w * n + Begins(i, m), m) ELSE 0) = p[i]
    BY <1>21, <1>23, <1>25
  <2> QED BY <1>25, <2>1, <2>2
<1>27. p = [i \in 1..l |-> p[i]]
  BY <1>3 DEF l
<1> QED BY <1>5, <1>26, <1>27 DEF n, c, p

(* The decoding message, as Alice walks along it.                          *)
SlicesLaw(s, o, part) ==
    /\ o + Len(part) <= Len(s) /\ \A k \in 1..Len(part) : s[o + k] = part[k]
    => SubSeq(s, o + 1, o + Len(part)) = part

LEMMA SliceIs ==
    ASSUME NEW S, NEW s \in Seq(S), NEW part \in Seq(S), NEW o \in Nat
    PROVE  SlicesLaw(s, o, part)
<1> SUFFICES ASSUME o + Len(part) <= Len(s), \A k \in 1..Len(part) : s[o + k] = part[k]
             PROVE  SubSeq(s, o + 1, o + Len(part)) = part
  BY DEF SlicesLaw
<1> DEFINE l == Len(part)
           cut == SubSeq(s, o + 1, o + l)
<1>1. l \in Nat /\ part = [k \in 1..l |-> part[k]]
  OBVIOUS
<1> HIDE DEF l
<1>2. cut = [k \in 1..l |-> s[o + k]]
  <2>1. (o + l) - (o + 1) + 1 = l /\ \A k \in 1..l : (o + 1) + k - 1 = o + k
    BY <1>1
  <2>2. cut = [k \in 1..((o + l) - (o + 1) + 1) |-> s[(o + 1) + k - 1]]
    BY <1>1
  <2> QED BY <2>1, <2>2
<1>3. \A k \in 1..l : s[o + k] = part[k]
  BY DEF l
<1> HIDE DEF cut
<1> QED BY <1>1, <1>2, <1>3 DEF cut, l

LEMMA SliceOfFlatten ==
    ASSUME NEW S, NEW ss \in Seq(Seq(S)), NEW g \in 1..Len(ss)
    PROVE  SubSeq(FlattenSeq(ss), Upto(ss, g - 1) + 1, Upto(ss, g - 1) + Len(ss[g])) = ss[g]
<1> DEFINE flat == FlattenSeq(ss)
           o == Upto(ss, g - 1)
           l == Len(ss[g])
<1>1. flat \in Seq(S) /\ Placed(flat, ss, Len(ss))
  BY FlattenPlaces
<1>2. ss[g] \in Seq(S) /\ l \in Nat
  OBVIOUS
<1>3. o \in Nat /\ Upto(ss, g) = o + l /\ Upto(ss, g) <= Upto(ss, Len(ss))
  <2>1. g - 1 \in 0..Len(ss) /\ g \in 0..Len(ss)
    OBVIOUS
  <2> QED BY <2>1, UptoGrows
<1>4. \A k \in 1..l : flat[o + k] = ss[g][k]
  BY <1>1 DEF Placed
<1>5. o + l <= Len(flat) /\ Len(flat) \in Nat
  BY <1>1, <1>3 DEF Placed
<1>6. SlicesLaw(flat, o, ss[g])
  BY <1>1, <1>2, <1>3, SliceIs
<1> HIDE DEF flat, o
<1> QED BY <1>4, <1>5, <1>6 DEF SlicesLaw, flat, o

(* The number of the checksum is the number of the groups so far that did  *)
(* not fail.                                                               *)
AreSingle(groups, list) == \A g \in 1..Len(groups) : Len(list[g]) = 1

LEMMA ChecksumsCounted ==
    ASSUME NEW m \in Nat, NEW t \in Nat, NEW groups, AreOutcomes(groups, m, t),
           NEW S, NEW list, AreLists(groups, list, S), AreSingle(groups, list)
    PROVE  \A g \in 0..Len(groups) :
              Upto(Listed(groups, list), g) = CidOf(Counts(groups), g)
<1> DEFINE n == Len(groups)
           c == Counts(groups)
           ss == Listed(groups, list)
           Good(g) == {h \in 1..g : c[h] >= 0}
           T == {g \in Nat : g <= n => /\ IsFiniteSet(Good(g))
                                       /\ Upto(ss, g) = Cardinality(Good(g))}
<1>1. n \in Nat
  BY DEF AreOutcomes
<1>2. /\ ss \in Seq(Seq(S)) /\ Len(ss) = n
      /\ \A g \in 1..n : ss[g] = IF groups[g] = Failed THEN << >> ELSE list[g]
  <2>1. ListedLaw(groups, list, S)
    BY <1>1, ListedType
  <2> QED BY <2>1 DEF ListedLaw
<1>3. \A g \in 1..n : c[g] \in Int /\ (c[g] < 0 <=> groups[g] = Failed)
  BY CountsType
<1>4. /\ Upto(ss, 0) = 0
      /\ \A g \in 1..n : Upto(ss, g) = Upto(ss, g - 1) + Len(ss[g])
  BY <1>2, UptoGrows
<1>5. \A g \in 1..n : Len(ss[g]) = IF c[g] >= 0 THEN 1 ELSE 0
  <2> SUFFICES ASSUME NEW g \in 1..n PROVE Len(ss[g]) = IF c[g] >= 0 THEN 1 ELSE 0
    OBVIOUS
  <2>1. CASE groups[g] = Failed
    <3>1. Len(ss[g]) = 0 /\ ~(c[g] >= 0)
      BY <1>2, <1>3, <2>1
    <3> QED BY <3>1
  <2>2. CASE groups[g] # Failed
    <3>1. Len(ss[g]) = 1
      <4>1. Len(list[g]) = 1
        BY DEF n, AreSingle
      <4> QED BY <1>2, <2>2, <4>1
    <3>2. c[g] >= 0
      BY <1>3, <2>2
    <3> QED BY <3>1, <3>2
  <2> QED BY <2>1, <2>2
<1> HIDE DEF n, c, ss
<1>6. T \in SUBSET Nat
  OBVIOUS
<1>7. 0 \in T
  <2>1. Good(0) = {}
    OBVIOUS
  <2>2. IsFiniteSet(Good(0)) /\ Cardinality(Good(0)) = 0
    BY <2>1, FS_EmptySet
  <2> HIDE DEF Good
  <2> QED BY <1>4, <2>2
<1>8. ASSUME NEW g \in T PROVE g + 1 \in T
  <2>0. g \in Nat
    OBVIOUS
  <2> SUFFICES ASSUME g + 1 <= n
               PROVE  IsFiniteSet(Good(g + 1)) /\ Upto(ss, g + 1) = Cardinality(Good(g + 1))
    BY <2>0
  <2>1. g <= n /\ g + 1 \in 1..n /\ (g + 1) - 1 = g
    BY <1>1, <2>0
  <2>2. IsFiniteSet(Good(g)) /\ Upto(ss, g) = Cardinality(Good(g))
    BY <2>1
  <2>3. Cardinality(Good(g)) \in Nat
    BY <2>2, FS_CardinalityType
  <2>4. Upto(ss, g + 1) = Upto(ss, g) + Len(ss[g + 1])
    BY <1>4, <2>1
  <2>5. CASE c[g + 1] >= 0
    <3>1. Good(g + 1) = Good(g) \union {g + 1} /\ g + 1 \notin Good(g)
      <4>1. \A h : h \in 1..(g + 1) <=> h \in 1..g \/ h = g + 1
        BY <2>0
      <4>2. g + 1 \notin 1..g
        BY <2>0
      <4> QED BY <2>5, <4>1, <4>2
    <3> HIDE DEF Good
    <3>2. IsFiniteSet(Good(g + 1)) /\ Cardinality(Good(g + 1)) = Cardinality(Good(g)) + 1
      BY <2>2, <3>1, FS_AddElement
    <3>3. Len(ss[g + 1]) = 1
      BY <1>5, <2>1, <2>5
    <3> QED BY <2>2, <2>4, <3>2, <3>3
  <2>6. CASE ~(c[g + 1] >= 0)
    <3>1. Good(g + 1) = Good(g)
      <4>1. \A h : h \in 1..(g + 1) <=> h \in 1..g \/ h = g + 1
        BY <2>0
      <4> QED BY <2>6, <4>1
    <3> HIDE DEF Good
    <3>2. Len(ss[g + 1]) = 0
      BY <1>5, <2>1, <2>6
    <3> QED BY <2>2, <2>3, <2>4, <3>1, <3>2
  <2> QED BY <2>5, <2>6
<1>9. \A g \in T : g + 1 \in T
  BY <1>8
<1> HIDE DEF T
<1>10. T = Nat
  BY <1>6, <1>7, <1>9, SetInduction
<1>11. ASSUME NEW g \in 0..n PROVE Upto(ss, g) = Cardinality(Good(g))
  <2>1. g \in T /\ g <= n
    BY <1>1, <1>10
  <2> QED BY <2>1 DEF T
<1> QED BY <1>11 DEF CidOf, n, c, ss

XorsOf(groups) ==
    [g \in 1..Len(groups) |-> [k \in 1..Len(groups[g]) |-> <<g, groups[g][k]>>]]

SumsOf(groups) == [g \in 1..Len(groups) |-> <<g>>]

(* What Alice should find for a group. *)
Found(groups, g) ==
    IF groups[g] = Failed THEN Skipped
    ELSE [positions |-> groups[g],
          xors |-> [k \in 1..Len(groups[g]) |-> <<g, groups[g][k]>>],
          checksum |-> g]

LEMMA DecodingIsWalked ==
    ASSUME NEW m \in Nat, NEW t \in Nat, NEW groups, AreOutcomes(groups, m, t), NEW dec,
           dec = [counts |-> Counts(groups), positions |-> Positions(groups)]
    PROVE  /\ ~CheckThrows(dec, Xors(groups), Checksums(groups))
           /\ GroupsChecked(dec, Xors(groups), Checksums(groups))
                 = [g \in 1..Len(groups) |-> Found(groups, g)]
<1> DEFINE n == Len(groups)
           c == Counts(groups)
           lp == Listed(groups, groups)
           lx == Listed(groups, XorsOf(groups))
           ls == Listed(groups, SumsOf(groups))
           XS == Nat \X Nat
<1>1. n \in Nat /\ \A g \in 1..n : IsOutcome(groups[g], m, t)
  BY DEF AreOutcomes
<1>2. /\ Len(c) = n
      /\ \A g \in 1..n : c[g] \in Int /\ (c[g] < 0 <=> groups[g] = Failed)
      /\ \A g \in 1..n : groups[g] # Failed => c[g] = Len(groups[g])
  BY CountsType
<1>3. AreLists(groups, groups, Nat) /\ AreCounted(groups, groups)
  BY <1>1 DEF AreLists, IsOutcome, AreCounted
<1>4. AreLists(groups, XorsOf(groups), XS) /\ AreCounted(groups, XorsOf(groups))
  <2>1. ASSUME NEW g \in 1..n, groups[g] # Failed
        PROVE  XorsOf(groups)[g] \in Seq(XS) /\ Len(XorsOf(groups)[g]) = Len(groups[g])
    <3> DEFINE s == groups[g]
               l == Len(s)
               x == [k \in 1..l |-> <<g, s[k]>>]
    <3>1. s \in Seq(Nat) /\ l \in Nat /\ \A k \in 1..l : s[k] \in Nat
      BY <1>1, <2>1 DEF IsOutcome
    <3>2. XorsOf(groups)[g] = x
      BY DEF XorsOf
    <3> HIDE DEF s, l
    <3>3. \A k \in 1..l : <<g, s[k]>> \in XS
      BY <1>1, <3>1
    <3>4. x \in [1..l -> XS]
      BY <3>3
    <3> HIDE DEF x, XS
    <3>5. x \in Seq(XS) /\ Len(x) = l
      BY <3>1, <3>4
    <3> QED BY <3>2, <3>5 DEF l, s
  <2> QED BY <2>1 DEF AreLists, AreCounted
<1>5. AreLists(groups, SumsOf(groups), Nat) /\ AreSingle(groups, SumsOf(groups))
  <2>1. ASSUME NEW g \in 1..n PROVE SumsOf(groups)[g] \in Seq(Nat) /\ Len(SumsOf(groups)[g]) = 1
    <3>1. SumsOf(groups)[g] = <<g>> /\ g \in Nat
      BY <1>1 DEF SumsOf
    <3> QED BY <3>1
  <2> QED BY <2>1 DEF AreLists, AreSingle
<1>6. /\ lp \in Seq(Seq(Nat)) /\ Len(lp) = n
      /\ \A g \in 1..n : lp[g] = IF groups[g] = Failed THEN << >> ELSE groups[g]
      /\ Positions(groups) = FlattenSeq(lp)
  <2>1. ListedLaw(groups, groups, Nat)
    BY <1>1, <1>3, ListedType
  <2> QED BY <2>1 DEF Positions, ListedLaw
<1>7. /\ lx \in Seq(Seq(XS)) /\ Len(lx) = n
      /\ \A g \in 1..n : lx[g] = IF groups[g] = Failed THEN << >> ELSE XorsOf(groups)[g]
      /\ Xors(groups) = FlattenSeq(lx) /\ Xors(groups) = OfDecoded(groups, XorsOf(groups))
  <2>1. Xors(groups) = OfDecoded(groups, XorsOf(groups))
    BY DEF Xors, XorsOf
  <2> HIDE DEF XS
  <2>2. /\ lx \in Seq(Seq(XS)) /\ Len(lx) = n
        /\ \A g \in 1..n : lx[g] = IF groups[g] = Failed THEN << >> ELSE XorsOf(groups)[g]
        /\ OfDecoded(groups, XorsOf(groups)) = FlattenSeq(lx)
    <3>1. ListedLaw(groups, XorsOf(groups), XS)
      BY <1>1, <1>4, ListedType
    <3> QED BY <3>1 DEF ListedLaw
  <2> QED BY <2>1, <2>2
<1>8. /\ ls \in Seq(Seq(Nat)) /\ Len(ls) = n
      /\ \A g \in 1..n : ls[g] = IF groups[g] = Failed THEN << >> ELSE SumsOf(groups)[g]
      /\ Checksums(groups) = FlattenSeq(ls)
  <2>1. Checksums(groups) = OfDecoded(groups, SumsOf(groups))
    BY DEF Checksums, SumsOf
  <2>2. /\ ls \in Seq(Seq(Nat)) /\ Len(ls) = n
        /\ \A g \in 1..n : ls[g] = IF groups[g] = Failed THEN << >> ELSE SumsOf(groups)[g]
        /\ OfDecoded(groups, SumsOf(groups)) = FlattenSeq(ls)
    <3>1. ListedLaw(groups, SumsOf(groups), Nat)
      BY <1>1, <1>5, ListedType
    <3> QED BY <3>1 DEF ListedLaw
  <2> QED BY <2>1, <2>2
<1>9. \A g \in 0..n : Upto(lp, g) = SumUpTo(c, g)
  BY <1>3, CountedLists
<1>10. /\ \A g \in 0..n : Upto(lx, g) = SumUpTo(c, g)
       /\ Len(Xors(groups)) = SumOf(c)
  <2> HIDE DEF XS
  <2> QED BY <1>4, <1>7, CountedLists
<1>11. \A g \in 0..n : Upto(ls, g) = CidOf(c, g)
  BY <1>5, ChecksumsCounted
<1>12. /\ \A g \in 0..n : SumUpTo(c, g) \in Nat /\ CidOf(c, g) \in Nat
       /\ SumOf(c) \in Nat
       /\ \A g \in 1..n : SumUpTo(c, g) \in Nat
  <2>1. \A g \in 0..n : Upto(lp, g) \in Nat
    BY <1>6, UptoGrows
  <2>2. \A g \in 0..n : Upto(ls, g) \in Nat
    BY <1>8, UptoGrows
  <2>3. n \in 0..n
    BY <1>1
  <2> QED BY <1>1, <1>2, <1>9, <1>11, <2>1, <2>2, <2>3 DEF SumOf
<1>13. Placed(Checksums(groups), ls, n)
  BY <1>8, FlattenPlaces
<1> HIDE DEF n, c, lp, lx, ls, XS
<1>14. dec.counts = c /\ dec.positions = Positions(groups) /\ Len(dec.counts) = n
  BY <1>2 DEF c
<1>15. ~CheckThrows(dec, Xors(groups), Checksums(groups))
  <2>1. Len(Checksums(groups)) = Upto(ls, n)
    BY <1>13 DEF Placed
  <2>2. n \in 0..n
    BY <1>1
  <2>3. Len(Checksums(groups)) = CidOf(c, n) /\ CidOf(c, n) \in Nat
    BY <1>11, <1>12, <2>1, <2>2
  <2> QED BY <1>10, <1>12, <1>14, <2>3 DEF CheckThrows
<1>16. ASSUME NEW g \in 1..n, groups[g] # Failed
       PROVE  /\ SubSeq(Positions(groups), SumUpTo(c, g - 1) + 1, SumUpTo(c, g - 1) + c[g])
                    = groups[g]
              /\ SubSeq(Xors(groups), SumUpTo(c, g - 1) + 1, SumUpTo(c, g - 1) + c[g])
                    = XorsOf(groups)[g]
              /\ Checksums(groups)[CidOf(c, g)] = g
  <2>1. g - 1 \in 0..n /\ g \in 0..n /\ g \in Nat
    BY <1>1
  <2>2. /\ SubSeq(FlattenSeq(lp), Upto(lp, g - 1) + 1, Upto(lp, g - 1) + Len(lp[g])) = lp[g]
    BY <1>6, SliceOfFlatten
  <2>3. /\ SubSeq(FlattenSeq(lx), Upto(lx, g - 1) + 1, Upto(lx, g - 1) + Len(lx[g])) = lx[g]
    BY <1>7, SliceOfFlatten
  <2>4. lp[g] = groups[g] /\ lx[g] = XorsOf(groups)[g]
    BY <1>6, <1>7, <1>16
  <2>5. Len(lp[g]) = c[g] /\ Len(lx[g]) = c[g]
    BY <1>2, <1>4, <1>16, <2>4 DEF AreCounted, n
  <2>6. Checksums(groups)[CidOf(c, g)] = g
    <3>1. ls[g] = <<g>>
      BY <1>8, <1>16 DEF SumsOf, n
    <3>2. Len(ls[g]) = 1 /\ ls[g][1] = g /\ 1 \in 1..Len(ls[g])
      BY <3>1
    <3>3. Checksums(groups)[Upto(ls, g - 1) + 1] = g
      BY <1>13, <3>2 DEF Placed
    <3>4. Upto(ls, g) = Upto(ls, g - 1) + 1
      BY <1>8, <3>2, UptoGrows
    <3> QED BY <1>11, <2>1, <3>3, <3>4
  <2> QED BY <1>6, <1>7, <1>9, <1>10, <2>1, <2>2, <2>3, <2>4, <2>5, <2>6
<1>17. ASSUME NEW g \in 1..n
       PROVE  Found(groups, g)
                 = IF c[g] < 0 THEN Skipped
                   ELSE [positions |-> SubSeq(Positions(groups), OffsetOf(c, g) + 1,
                                              OffsetOf(c, g) + c[g]),
                         xors |-> SubSeq(Xors(groups), OffsetOf(c, g) + 1,
                                         OffsetOf(c, g) + c[g]),
                         checksum |-> Checksums(groups)[CidOf(c, g)]]
  <2>1. XorsOf(groups)[g] = [k \in 1..Len(groups[g]) |-> <<g, groups[g][k]>>]
    BY DEF XorsOf, n
  <2>2. CASE groups[g] = Failed
    BY <1>2, <2>2 DEF Found
  <2>3. CASE groups[g] # Failed
    <3>1. ~(c[g] < 0)
      BY <1>2, <2>3
    <3> QED BY <1>16, <2>1, <2>3, <3>1 DEF Found, OffsetOf
  <2> QED BY <2>2, <2>3
<1>18. GroupsChecked(dec, Xors(groups), Checksums(groups)) = [g \in 1..n |-> Found(groups, g)]
  BY <1>14, <1>17 DEF GroupsChecked
<1> QED BY <1>15, <1>18 DEF n

-------------------------------------------------------------------------------
(* The encoding message: lists of equal lengths, one after another.        *)
EvenLaw(ss, n, w, flat) ==
    /\ Len(flat) = n * w
    /\ \A g \in 1..n : /\ Begins(g, w) \in Nat /\ Begins(g, w) + w <= n * w
                       /\ \A k \in 1..w : flat[Begins(g, w) + k] = ss[g][k]

LEMMA EvenLists ==
    ASSUME NEW S, NEW ss \in Seq(Seq(S)), NEW n \in Nat, n = Len(ss), NEW w \in Nat,
           AreOfWidth(ss, 0, n, w)
    PROVE  FlattenSeq(ss) \in Seq(S) /\ EvenLaw(ss, n, w, FlattenSeq(ss))
<1> DEFINE flat == FlattenSeq(ss)
<1>1. flat \in Seq(S) /\ Placed(flat, ss, n)
  BY FlattenPlaces
<1> HIDE DEF flat
<1>2. \A g \in 0..n : Upto(ss, 0 + g) = Upto(ss, 0) + g * w
  BY UptoOfWidth
<1>3. Upto(ss, 0) = 0
  BY UptoGrows
<1>4. \A g \in 0..n : Upto(ss, g) = g * w
  <2> SUFFICES ASSUME NEW g \in 0..n PROVE Upto(ss, g) = g * w
    OBVIOUS
  <2>1. 0 + g = g /\ g * w \in Nat
    OBVIOUS
  <2>2. 0 + g * w = g * w
    BY <2>1
  <2> QED BY <1>2, <1>3, <2>1, <2>2
<1>5. Len(flat) = n * w
  <2>1. n \in 0..n
    OBVIOUS
  <2> QED BY <1>1, <1>4, <2>1 DEF Placed
<1>6. ASSUME NEW g \in 1..n
      PROVE  /\ Begins(g, w) \in Nat /\ Begins(g, w) + w <= n * w
             /\ \A k \in 1..w : flat[Begins(g, w) + k] = ss[g][k]
  <2>1. g - 1 \in 0..n /\ n - g \in Nat /\ n = (g - 1) + 1 + (n - g)
    OBVIOUS
  <2>2. n * w = (g - 1) * w + w + (n - g) * w
    BY <2>1
  <2>3. (g - 1) * w \in Nat /\ (n - g) * w \in Nat
    <3> DEFINE a == g - 1
               d == n - g
    <3>1. a \in Nat /\ d \in Nat
      BY <2>1
    <3> HIDE DEF a, d
    <3>2. a * w \in Nat /\ d * w \in Nat
      BY <3>1
    <3> QED BY <3>2 DEF a, d
  <2>4. Begins(g, w) \in Nat /\ Begins(g, w) + w <= n * w
    <3> DEFINE a == (g - 1) * w
               b == (n - g) * w
               c == n * w
    <3>1. c = a + w + b /\ a \in Nat /\ b \in Nat /\ Begins(g, w) = a
      BY <2>2, <2>3 DEF Begins
    <3> HIDE DEF a, b, c
    <3>2. a \in Nat /\ a + w <= c
      BY <3>1
    <3> QED BY <3>1, <3>2 DEF c
  <2>5. Upto(ss, g - 1) = Begins(g, w)
    BY <1>4, <2>1 DEF Begins
  <2>6. Len(ss[g]) = w
    <3>1. 0 + g = g
      OBVIOUS
    <3> QED BY <3>1 DEF AreOfWidth
  <2>7. \A k \in 1..Len(ss[g]) : flat[Upto(ss, g - 1) + k] = ss[g][k]
    BY <1>1 DEF Placed
  <2> QED BY <2>4, <2>5, <2>6, <2>7
<1> QED BY <1>1, <1>5, <1>6 DEF EvenLaw, flat

WholeLaw(b) ==
    /\ ByteBits * (b \div ByteBits) \in Nat /\ (b % ByteBits) \in Nat
    /\ b = ByteBits * (b \div ByteBits) + (b % ByteBits)

LEMMA WholeAndRemainder == \A b \in Nat : WholeLaw(b)
<1> SUFFICES ASSUME NEW b \in Nat PROVE WholeLaw(b)
  OBVIOUS
<1> DEFINE B == ByteBits
           q == b \div B
           r == b % B
<1>1. B \in Nat \ {0}
  BY ByteAssumption
<1> HIDE DEF B
<1>2. q \in Nat /\ r \in 0..(B - 1) /\ b = B * q + r
  BY <1>1
<1> HIDE DEF q, r
<1>3. B * q \in Nat /\ r \in Nat
  BY <1>1, <1>2
<1> QED BY <1>2, <1>3 DEF WholeLaw, B, q, r

JoinLaw(x, y) ==
    x \o y = [k \in 1..(Len(x) + Len(y)) |-> IF k <= Len(x) THEN x[k] ELSE y[k - Len(x)]]

LEMMA JoinIs ==
    ASSUME NEW S, NEW x \in Seq(S), NEW y \in Seq(S)
    PROVE  JoinLaw(x, y)
<1> DEFINE z == x \o y
           n == Len(x) + Len(y)
<1>1. /\ z \in Seq(S) /\ Len(z) = n
      /\ \A k \in 1..n : z[k] = IF k <= Len(x) THEN x[k] ELSE y[k - Len(x)]
  OBVIOUS
<1> HIDE DEF z, n
<1>2. z = [k \in 1..n |-> z[k]]
  BY <1>1
<1>3. z = [k \in 1..n |-> IF k <= Len(x) THEN x[k] ELSE y[k - Len(x)]]
  BY <1>1, <1>2
<1> QED BY <1>3 DEF JoinLaw, z, n

LEMMA EncodingIsParsed ==
    ASSUME NEW m \in Nat, NEW t \in Nat, NEW n \in Nat, NEW b \in Nat, b = m * t,
           NEW sketches \in [1..n -> [1..b -> Bits]]
    PROVE  ParseEncoding(m, t, n, WriteEncoding(m, t, sketches)) = sketches
<1> DEFINE whole == ByteBits * SketchBytes(m, t)
           r == SketchRemainder(m, t)
           ssA == [g \in 1..n |-> SubSeq(sketches[g], 1, whole)]
           ssB == [g \in 1..n |-> SubSeq(sketches[g], whole + 1, b)]
           flatA == FlattenSeq(ssA)
           flatB == FlattenSeq(ssB)
           tail == Flushed(flatB)
           bits == flatA \o tail
<1>1. Len(sketches) = n
  OBVIOUS
<1>2. whole \in Nat /\ r \in Nat /\ b = whole + r
  BY WholeAndRemainder DEF WholeLaw, SketchBytes, SketchRemainder
<1>3. WriteEncoding(m, t, sketches) = bits
  BY <1>1 DEF WriteEncoding
<1>4. ParseEncoding(m, t, n, bits)
         = [g \in 1..n |-> SubSeq(bits, Begins(g, whole) + 1, g * whole)
                           \o SubSeq(bits, whole * n + Begins(g, r) + 1, whole * n + g * r)]
  BY DEF ParseEncoding, Begins
<1> HIDE DEF whole, r
<1>5. ASSUME NEW g \in 1..n
      PROVE  /\ sketches[g] \in Seq(Bits) /\ Len(sketches[g]) = b
             /\ sketches[g] = [k \in 1..b |-> sketches[g][k]]
  <2> DEFINE s == sketches[g]
  <2>1. s \in [1..b -> Bits]
    OBVIOUS
  <2> HIDE DEF s
  <2>2. s \in Seq(Bits) /\ Len(s) = b /\ s = [k \in 1..b |-> s[k]]
    BY <2>1
  <2> QED BY <2>2 DEF s
<1>6. ASSUME NEW g \in 1..n
      PROVE  /\ ssA[g] \in Seq(Bits) /\ Len(ssA[g]) = whole
             /\ \A k \in 1..whole : ssA[g][k] = sketches[g][k]
             /\ ssB[g] \in Seq(Bits) /\ Len(ssB[g]) = r
             /\ \A k \in 1..r : ssB[g][k] = sketches[g][whole + k]
  <2> DEFINE s == sketches[g]
             x == SubSeq(s, 1, whole)
             y == SubSeq(s, whole + 1, b)
  <2>1. ssA[g] = x /\ ssB[g] = y
    OBVIOUS
  <2>2. s \in Seq(Bits) /\ Len(s) = b
    BY <1>5
  <2> HIDE DEF s
  <2>3. \A k \in 1..whole : k \in 1..b
    BY <1>2
  <2>4. \A k \in 1..r : whole + k \in 1..b
    BY <1>2
  <2>5. x = [k \in 1..whole |-> s[k]]
    <3>1. whole - 1 + 1 = whole /\ \A k \in 1..whole : 1 + k - 1 = k
      BY <1>2
    <3>2. x = [k \in 1..(whole - 1 + 1) |-> s[1 + k - 1]]
      BY <1>2, <2>2
    <3> QED BY <3>1, <3>2
  <2>6. y = [k \in 1..r |-> s[whole + k]]
    <3>1. b - (whole + 1) + 1 = r /\ \A k \in 1..r : (whole + 1) + k - 1 = whole + k
      BY <1>2
    <3>2. y = [k \in 1..(b - (whole + 1) + 1) |-> s[(whole + 1) + k - 1]]
      BY <1>2, <2>2
    <3> QED BY <3>1, <3>2
  <2> HIDE DEF x, y
  <2>7. /\ x \in Seq(Bits) /\ Len(x) = whole
        /\ \A k \in 1..whole : x[k] = s[k]
    <3>1. \A k \in 1..whole : s[k] \in Bits
      BY <2>2, <2>3
    <3> QED BY <1>2, <2>5, <3>1
  <2>8. /\ y \in Seq(Bits) /\ Len(y) = r
        /\ \A k \in 1..r : y[k] = s[whole + k]
    <3>1. \A k \in 1..r : s[whole + k] \in Bits
      BY <2>2, <2>4
    <3> QED BY <1>2, <2>6, <3>1
  <2> QED BY <2>1, <2>7, <2>8 DEF s
<1>7. /\ ssA \in Seq(Seq(Bits)) /\ Len(ssA) = n
      /\ ssB \in Seq(Seq(Bits)) /\ Len(ssB) = n
  <2>1. ssA \in [1..n -> Seq(Bits)] /\ ssB \in [1..n -> Seq(Bits)]
    BY <1>6
  <2> HIDE DEF ssA, ssB
  <2> QED BY <2>1
<1> HIDE DEF ssA, ssB
<1>8. AreOfWidth(ssA, 0, n, whole) /\ AreOfWidth(ssB, 0, n, r)
  <2>1. \A g \in 1..n : 0 + g = g
    OBVIOUS
  <2> QED BY <1>6, <1>7, <2>1 DEF AreOfWidth
<1>9. /\ flatA \in Seq(Bits) /\ EvenLaw(ssA, n, whole, flatA)
      /\ flatB \in Seq(Bits) /\ EvenLaw(ssB, n, r, flatB)
  BY <1>2, <1>7, <1>8, EvenLists
<1> HIDE DEF flatA, flatB
<1>10. /\ tail \in Seq(Bits) /\ Len(flatB) <= Len(tail)
       /\ \A i \in 1..Len(flatB) : tail[i] = flatB[i]
  <2>1. /\ tail \in Seq(Bits) /\ Len(flatB) <= Len(tail)
        /\ \A i \in Nat \ {0} : BitAt(tail, i) = BitAt(flatB, i)
    BY <1>9, FlushedPads
  <2> HIDE DEF tail
  <2>2. ASSUME NEW i \in 1..Len(flatB) PROVE tail[i] = flatB[i]
    <3>1. Len(flatB) \in Nat /\ Len(tail) \in Nat
      BY <1>9, <2>1
    <3>2. i \in Nat \ {0} /\ i <= Len(flatB) /\ i <= Len(tail)
      BY <2>1, <3>1
    <3> QED BY <2>1, <3>2 DEF BitAt
  <2> QED BY <2>1, <2>2
<1> HIDE DEF tail
<1> DEFINE start == whole * n
<1>11. start \in Nat /\ Len(flatA) = start /\ n * whole = start
  <2>1. whole * n \in Nat /\ n * whole = whole * n
    BY <1>2
  <2> QED BY <1>9, <2>1 DEF EvenLaw
<1> HIDE DEF start
<1>12. /\ bits \in Seq(Bits) /\ Len(bits) = start + Len(tail)
       /\ \A i \in 1..start : bits[i] = flatA[i]
       /\ \A i \in 1..Len(tail) : bits[start + i] = tail[i]
  <2>1. /\ bits \in Seq(Bits) /\ Len(bits) = Len(flatA) + Len(tail)
        /\ \A i \in 1..(Len(flatA) + Len(tail)) :
              bits[i] = IF i <= Len(flatA) THEN flatA[i] ELSE tail[i - Len(flatA)]
    BY <1>9, <1>10
  <2> HIDE DEF bits
  <2>2. Len(tail) \in Nat
    BY <1>10
  <2>3. \A i \in 1..start : i \in 1..(start + Len(tail)) /\ i <= start
    BY <1>11, <2>2
  <2>4. \A i \in 1..Len(tail) :
           start + i \in 1..(start + Len(tail)) /\ ~(start + i <= start) /\ (start + i) - start = i
    BY <1>11, <2>2
  <2> QED BY <1>11, <2>1, <2>3, <2>4
<1> HIDE DEF bits
<1>13. ASSUME NEW g \in 1..n
       PROVE  SubSeq(bits, Begins(g, whole) + 1, g * whole) = ssA[g]
  <2> DEFINE o == Begins(g, whole)
  <2>1. /\ o \in Nat /\ o + whole <= start
        /\ \A k \in 1..whole : flatA[o + k] = ssA[g][k]
    BY <1>9, <1>11 DEF EvenLaw
  <2>2. g * whole = o + whole
    BY <1>2 DEF Begins
  <2> HIDE DEF o
  <2>3. ssA[g] \in Seq(Bits) /\ Len(ssA[g]) = whole
    BY <1>6
  <2>4. Len(tail) \in Nat
    BY <1>10
  <2>5. o + Len(ssA[g]) <= Len(bits)
    BY <1>2, <1>11, <1>12, <2>1, <2>3, <2>4
  <2>6. ASSUME NEW k \in 1..whole PROVE bits[o + k] = ssA[g][k]
    <3>1. o + k \in 1..start
      BY <1>2, <1>11, <2>1
    <3> QED BY <1>12, <2>1, <3>1
  <2>7. SlicesLaw(bits, o, ssA[g])
    BY <1>12, <2>1, <2>3, SliceIs
  <2> QED BY <2>2, <2>3, <2>5, <2>6, <2>7 DEF SlicesLaw, o
<1>14. ASSUME NEW g \in 1..n
       PROVE  SubSeq(bits, start + Begins(g, r) + 1, start + g * r) = ssB[g]
  <2> DEFINE o == Begins(g, r)
  <2>1. /\ o \in Nat /\ o + r <= Len(flatB)
        /\ \A k \in 1..r : flatB[o + k] = ssB[g][k]
    BY <1>9 DEF EvenLaw
  <2>2. g * r = o + r
    BY <1>2 DEF Begins
  <2> HIDE DEF o
  <2>3. ssB[g] \in Seq(Bits) /\ Len(ssB[g]) = r
    BY <1>6
  <2>4. Len(tail) \in Nat /\ Len(flatB) \in Nat
    BY <1>9, <1>10
  <2>5. start + o \in Nat /\ (start + o) + Len(ssB[g]) <= Len(bits)
    BY <1>2, <1>10, <1>11, <1>12, <2>1, <2>3, <2>4
  <2>6. ASSUME NEW k \in 1..r PROVE bits[(start + o) + k] = ssB[g][k]
    <3>1. o + k \in 1..Len(flatB) /\ o + k \in 1..Len(tail) /\ (start + o) + k = start + (o + k)
      BY <1>2, <1>10, <1>11, <2>1, <2>4
    <3> QED BY <1>10, <1>12, <2>1, <3>1
  <2>7. SlicesLaw(bits, start + o, ssB[g])
    BY <1>12, <2>3, <2>5, SliceIs
  <2>8. (start + o) + r = start + g * r
    BY <1>2, <1>11, <2>1, <2>2
  <2> QED BY <2>3, <2>5, <2>6, <2>7, <2>8 DEF SlicesLaw, o
<1>15. ASSUME NEW g \in 1..n PROVE ssA[g] \o ssB[g] = sketches[g]
  <2> DEFINE x == ssA[g]
             y == ssB[g]
             s == sketches[g]
  <2>1. /\ x \in Seq(Bits) /\ Len(x) = whole /\ \A k \in 1..whole : x[k] = s[k]
        /\ y \in Seq(Bits) /\ Len(y) = r /\ \A k \in 1..r : y[k] = s[whole + k]
    BY <1>6
  <2>2. s = [k \in 1..b |-> s[k]]
    BY <1>5
  <2> HIDE DEF x, y, s
  <2>3. x \o y = [k \in 1..b |-> IF k <= whole THEN x[k] ELSE y[k - whole]]
    <3>1. x \o y = [k \in 1..(Len(x) + Len(y)) |->
                        IF k <= Len(x) THEN x[k] ELSE y[k - Len(x)]]
      BY <2>1, JoinIs DEF JoinLaw
    <3>2. Len(x) + Len(y) = b /\ Len(x) = whole
      BY <1>2, <2>1
    <3> QED BY <3>1, <3>2
  <2>4. ASSUME NEW k \in 1..b PROVE (IF k <= whole THEN x[k] ELSE y[k - whole]) = s[k]
    <3>1. CASE k <= whole
      <4>1. k \in 1..whole
        BY <1>2, <3>1
      <4> QED BY <2>1, <3>1, <4>1
    <3>2. CASE ~(k <= whole)
      <4>1. k - whole \in 1..r /\ whole + (k - whole) = k
        BY <1>2, <3>2
      <4> QED BY <2>1, <3>2, <4>1
    <3> QED BY <3>1, <3>2
  <2>5. x \o y = s
    BY <2>2, <2>3, <2>4
  <2> QED BY <2>5 DEF x, y, s
<1>16. ASSUME NEW g \in 1..n
       PROVE  SubSeq(bits, Begins(g, whole) + 1, g * whole)
              \o SubSeq(bits, start + Begins(g, r) + 1, start + g * r) = sketches[g]
  BY <1>13, <1>14, <1>15
<1>17. sketches = [g \in 1..n |-> sketches[g]]
  OBVIOUS
<1> QED BY <1>3, <1>4, <1>16, <1>17 DEF start

-------------------------------------------------------------------------------
(* A set of numbers that has a member has a least one.                     *)
LEMMA LeastExists ==
    \A n \in Nat : \A S \in SUBSET (0..n) : S # {} => \E x \in S : \A y \in S : x <= y
<1> DEFINE Law(n) == \A S \in SUBSET (0..n) : S # {} => \E x \in S : \A y \in S : x <= y
           T == {n \in Nat : Law(n)}
<1>1. T \in SUBSET Nat
  OBVIOUS
<1>2. 0 \in T
  <2>1. ASSUME NEW S \in SUBSET (0..0), S # {} PROVE \E x \in S : \A y \in S : x <= y
    <3>1. \A y \in S : y = 0
      OBVIOUS
    <3>2. 0 \in S
      BY <2>1, <3>1
    <3>3. \A y \in S : 0 <= y
      BY <3>1
    <3> QED BY <3>2, <3>3
  <2>2. Law(0)
    BY <2>1
  <2> QED BY <2>2
<1>3. ASSUME NEW n \in T PROVE n + 1 \in T
  <2>1. n \in Nat /\ Law(n)
    OBVIOUS
  <2>2. ASSUME NEW S \in SUBSET (0..(n + 1)), S # {}
        PROVE  \E x \in S : \A y \in S : x <= y
    <3> DEFINE R == S \ {n + 1}
    <3>1. R \in SUBSET (0..n)
      BY <2>1
    <3>2. CASE R = {}
      BY <2>1, <2>2, <3>2
    <3>3. CASE R # {}
      <4>1. PICK x \in R : \A y \in R : x <= y
        BY <2>1, <3>1, <3>3
      <4>2. x \in S /\ x <= n + 1
        BY <2>1, <3>1, <4>1
      <4> QED BY <4>1, <4>2
    <3> QED BY <3>2, <3>3
  <2>3. Law(n + 1)
    BY <2>2
  <2> QED BY <2>1, <2>3
<1>4. \A n \in T : n + 1 \in T
  BY <1>3
<1> HIDE DEF T
<1>5. T = Nat
  BY <1>1, <1>2, <1>4, SetInduction
<1> QED BY <1>5 DEF T

-------------------------------------------------------------------------------
(* Whatever the groups and the ids, a message is bits; and whatever the    *)
(* bits, a receiver finds lists of the sizes it expects, and slices within *)
(* them.  These are the messages of PbsService, where the two sides may    *)
(* disagree about the groups.                                              *)
LEMMA HintIsBits ==
    ASSUME NEW range \in Nat \ {0}, NEW ids \in Seq(Nat)
    PROVE  WriteHint(range, ids) \in Seq(Bits)
<1> DEFINE n == Len(ids)
           w == BitsEach(range)
<1>1. n \in Nat /\ AreValues(ids, n)
  BY DEF AreValues
<1>2. w \in Nat
  BY LogLaws DEF LogLaw, BitsEach
<1>3. WriteHint(range, ids) = Flushed(FlattenSeq(Fields(ids, n, w)))
  BY DEF WriteHint, Fields
<1> HIDE DEF n, w
<1>4. FlattenSeq(Fields(ids, n, w)) \in Seq(Bits)
  BY <1>1, <1>2, FieldsType, FlattenPlaces
<1> QED BY <1>3, <1>4, FlushedPads

LEMMA DecodingIsBits ==
    ASSUME NEW m \in Nat, NEW t \in Nat, NEW u \in Nat, NEW groups, AreOutcomes(groups, m, u)
    PROVE  WriteDecoding(m, t, groups) \in Seq(Bits)
<1> DEFINE n == Len(groups)
           c == Counts(groups)
           p == Positions(groups)
           l == Len(p)
           w == SizeofEachD(t)
           v == [g \in 1..n |-> IF c[g] < 0 THEN FailureFlag(t) ELSE c[g]]
           ssA == Fields(v, n, w)
           ssB == Fields(p, l, m)
<1>1. n \in Nat /\ Len(c) = n /\ \A g \in 1..n : c[g] \in Int
  <2>1. n \in Nat
    BY DEF AreOutcomes
  <2>2. Len(c) = n /\ AreCounts(c, n)
    BY CountsType
  <2> QED BY <2>1, <2>2 DEF AreCounts
<1>2. p \in Seq(Nat) /\ l \in Nat
  <2>1. ArePositions(p, m)
    BY PositionsType
  <2>2. p \in Seq(Nat)
    BY <2>1 DEF ArePositions
  <2> QED BY <2>2
<1>3. w \in Nat /\ FailureFlag(t) \in Nat
  BY FlagIsNoCount
<1>4. AreValues(v, n) /\ AreValues(p, l)
  BY <1>1, <1>2, <1>3 DEF AreValues
<1>5. WriteDecoding(m, t, groups) = Flushed(FlattenSeq(ssA \o ssB))
  <2>1. ssA = [g \in 1..Len(c) |-> Field(IF c[g] < 0 THEN FailureFlag(t) ELSE c[g], w)]
    <3>1. \A g \in 1..n : v[g] = IF c[g] < 0 THEN FailureFlag(t) ELSE c[g]
      OBVIOUS
    <3> HIDE DEF v
    <3> QED BY <1>1, <3>1 DEF Fields
  <2>2. ssB = [i \in 1..Len(p) |-> Field(p[i], m)]
    BY DEF Fields
  <2> HIDE DEF ssA, ssB
  <2> QED BY <2>1, <2>2 DEF WriteDecoding
<1> HIDE DEF n, c, p, l, w, v
<1>6. ssA \in Seq(Seq(Bits)) /\ ssB \in Seq(Seq(Bits))
  BY <1>1, <1>2, <1>3, <1>4, FieldsType
<1> HIDE DEF ssA, ssB
<1>7. ssA \o ssB \in Seq(Seq(Bits))
  <2> DEFINE T == Seq(Bits)
  <2>1. ssA \in Seq(T) /\ ssB \in Seq(T)
    BY <1>6
  <2> HIDE DEF T
  <2>2. ssA \o ssB \in Seq(T)
    BY <2>1
  <2> QED BY <2>2 DEF T
<1>8. FlattenSeq(ssA \o ssB) \in Seq(Bits)
  BY <1>7, FlattenPlaces
<1> QED BY <1>5, <1>8, FlushedPads

IsRead(bits, offset, width) ==
    /\ ReadAt(bits, offset, width) \in 0..(2^width - 1)
    /\ ReadAt(bits, offset, width) \in Nat

LEMMA AnyRead ==
    \A bits \in Seq(Bits) : \A offset, width \in Nat : IsRead(bits, offset, width)
<1> SUFFICES ASSUME NEW bits \in Seq(Bits), NEW offset \in Nat, NEW width \in Nat
             PROVE  IsRead(bits, offset, width)
  OBVIOUS
<1>1. ASSUME NEW i \in 1..width PROVE BitAt(bits, offset + i) \in Bits
  <2>1. offset + i \in Nat \ {0} /\ Len(bits) \in Nat
    OBVIOUS
  <2>2. offset + i <= Len(bits) => bits[offset + i] \in Bits
    BY <2>1
  <2> QED BY <2>2 DEF BitAt, Bits
<1>2. AreBits(bits, offset, width)
  BY <1>1 DEF AreBits
<1> DEFINE r == ReadAt(bits, offset, width)
           x == 2^width - 1
<1>3. r \in 0..x /\ x \in Int
  BY <1>2, ReadAtType, Stream!PowerType
<1> HIDE DEF r, x
<1>4. r \in Nat
  BY <1>3
<1> QED BY <1>3, <1>4 DEF IsRead, r, x

HintLaw(range, hint) ==
    /\ Len(hint.ids) \in Nat /\ hint.ids \in [1..Len(hint.ids) -> Nat]
    /\ ~hint.threw => \A i \in 1..Len(hint.ids) : hint.ids[i] < range

LEMMA AnyHint ==
    ASSUME NEW range \in Nat, NEW bits \in Seq(Bits), bits = << >> \/ range # 1
    PROVE  HintLaw(range, ParseHint(range, bits))
<1>1. CASE bits = << >>
  BY <1>1 DEF ParseHint, HintLaw
<1>2. CASE bits # << >>
  <2> DEFINE count == HintCount(range, bits)
             Stops == {i \in 2..count : HintId(range, bits, i) = 0}
             e == HintEnd(range, bits)
             ids == [i \in 1..e |-> HintId(range, bits, i)]
  <2>1. range # 0 => BitsEach(range) \in Nat \ {0}
    BY <1>2, LogLaws DEF LogLaw, BitsEach
  <2>2. count \in Nat
    <3>1. CASE range = 0
      BY <3>1 DEF HintCount
    <3>2. CASE range # 0
      <4> DEFINE w == BitsEach(range)
      <4>1. w \in Nat \ {0} /\ Len(bits) \in Nat /\ count = Len(bits) \div w
        BY <2>1, <3>2 DEF HintCount
      <4> HIDE DEF w
      <4> QED BY <4>1
    <3> QED BY <3>1, <3>2
  <2> HIDE DEF count
  <2>3. e \in 0..count /\ e \in Nat
    <3>1. e = IF Stops = {} THEN count ELSE Min(Stops) - 1
      BY DEF HintEnd, count
    <3>2. CASE Stops = {}
      <4> HIDE DEF Stops, e
      <4> QED BY <2>2, <3>1, <3>2
    <3>3. CASE Stops # {}
      <4>1. Stops \subseteq 2..count
        OBVIOUS
      <4> HIDE DEF Stops, e
      <4>5. Stops \in SUBSET (0..count)
        BY <2>2, <4>1
      <4>2. \E x \in Stops : \A y \in Stops : x <= y
        BY <2>2, <3>3, <4>5, LeastExists
      <4>3. Min(Stops) \in Stops
        BY <4>2 DEF Min
      <4>4. Min(Stops) \in 2..count
        BY <4>1, <4>3
      <4> QED BY <2>2, <3>1, <3>3, <4>4
    <3> QED BY <3>2, <3>3
  <2> HIDE DEF Stops
  <2>4. ASSUME NEW i \in 1..e PROVE HintId(range, bits, i) \in Nat
    <3>1. range # 0
      <4>1. range = 0 => count = 0
        BY DEF HintCount, count
      <4> HIDE DEF e
      <4> QED BY <2>3, <4>1
    <3> DEFINE w == BitsEach(range)
               o == (i - 1) * w
    <3>2. w \in Nat
      BY <2>1, <3>1
    <3>3. i - 1 \in Nat
      BY <2>3
    <3> HIDE DEF w
    <3>4. o \in Nat
      BY <3>2, <3>3
    <3> HIDE DEF o
    <3>5. ReadAt(bits, o, w) \in Nat
      BY <3>2, <3>4, AnyRead DEF IsRead
    <3> QED BY <3>5 DEF HintId, o, w
  <2>5. ParseHint(range, bits) = [threw |-> \E i \in DOMAIN ids : ids[i] >= range, ids |-> ids]
    BY <1>2 DEF ParseHint
  <2> HIDE DEF e
  <2>6. ids \in [1..e -> Nat] /\ Len(ids) = e /\ DOMAIN ids = 1..e
    BY <2>3, <2>4
  <2> HIDE DEF ids
  <2>7. ASSUME ~(\E i \in DOMAIN ids : ids[i] >= range)
        PROVE  \A i \in 1..e : ids[i] < range
    BY <2>6, <2>7
  <2> QED BY <2>3, <2>5, <2>6, <2>7 DEF HintLaw
<1> QED BY <1>1, <1>2

(* Every group has its slice of the positions and its checksum.            *)
InSlices(counts, n) ==
    \A g \in 1..n : counts[g] >= 0 =>
        /\ OffsetOf(counts, g) \in Nat
        /\ OffsetOf(counts, g) + counts[g] <= SumUpTo(counts, n)
        /\ CidOf(counts, g) \in 1..CidOf(counts, n)

LEMMA SlicesAreInside ==
    ASSUME NEW counts, NEW n \in Nat, AreCounts(counts, n)
    PROVE  InSlices(counts, n) /\ SumUpTo(counts, n) \in Nat
<1>1. /\ \A g \in 0..n : SumUpTo(counts, g) \in Nat /\ SumUpTo(counts, g) <= SumUpTo(counts, n)
      /\ SumUpTo(counts, n) \in Nat
  <2>1. n \in 0..n
    OBVIOUS
  <2> QED BY <2>1, SumIsMonotone
<1>2. ASSUME NEW g \in 1..n, counts[g] >= 0
      PROVE  /\ OffsetOf(counts, g) \in Nat
             /\ OffsetOf(counts, g) + counts[g] <= SumUpTo(counts, n)
  <2> DEFINE p == g - 1
  <2>1. p \in Nat /\ p \in 0..n /\ g \in 0..n /\ p + 1 = g
    OBVIOUS
  <2>2. AreCounts(counts, p + 1)
    BY <2>1 DEF AreCounts
  <2>3. SumGrows(counts, p)
    BY <2>1, <2>2, SumOfNext
  <2>4. OffsetOf(counts, g) = SumUpTo(counts, p) /\ SumUpTo(counts, p) \in Nat
    BY <1>1, <2>1 DEF OffsetOf
  <2>5. SumUpTo(counts, p + 1) = SumUpTo(counts, p) + Counted(counts[p + 1])
    BY <2>3 DEF SumGrows
  <2>6. Counted(counts[g]) = counts[g] /\ counts[g] \in Int
    BY <1>2 DEF Counted, AreCounts
  <2> HIDE DEF p
  <2>7. SumUpTo(counts, g) = SumUpTo(counts, p) + counts[g]
    BY <2>1, <2>5, <2>6
  <2> QED BY <1>1, <2>1, <2>4, <2>7
<1>3. ASSUME NEW g \in 1..n, counts[g] >= 0 PROVE CidOf(counts, g) \in 1..CidOf(counts, n)
  <2> DEFINE A == {h \in 1..g : counts[h] >= 0}
             B == {h \in 1..n : counts[h] >= 0}
  <2>1. {g} \subseteq A /\ A \subseteq B /\ B \subseteq 1..n
    BY <1>3
  <2>2. IsFiniteSet(1..n)
    BY FS_Interval
  <2>3. CidOf(counts, g) = Cardinality(A) /\ CidOf(counts, n) = Cardinality(B)
    BY DEF CidOf
  <2> HIDE DEF A, B
  <2>4. IsFiniteSet(B) /\ IsFiniteSet(A)
    BY <2>1, <2>2, FS_Subset
  <2>5. Cardinality({g}) <= Cardinality(A) /\ Cardinality(A) <= Cardinality(B)
    BY <2>1, <2>4, FS_Subset
  <2>6. Cardinality({g}) = 1
    BY FS_Singleton
  <2>7. Cardinality(A) \in Nat /\ Cardinality(B) \in Nat
    BY <2>4, FS_CardinalityType
  <2> QED BY <2>3, <2>5, <2>6, <2>7
<1> QED BY <1>1, <1>2, <1>3 DEF InSlices

DecodingLaw(m, n, dec) ==
    /\ Len(dec.counts) = n /\ AreCounts(dec.counts, n) /\ InSlices(dec.counts, n)
    /\ SumUpTo(dec.counts, n) \in Nat
    /\ \A i \in 1..SumUpTo(dec.counts, n) : dec.positions[i] \in 0..(2^m - 1)

LEMMA AnyDecoding ==
    ASSUME NEW m \in Nat, NEW t \in Nat, NEW n \in Nat, NEW bits \in Seq(Bits)
    PROVE  DecodingLaw(m, n, ParseDecoding(m, t, n, bits))
<1> DEFINE w == SizeofEachD(t)
           flag == FailureFlag(t)
           d(g) == ReadAt(bits, Begins(g, w), w)
           c == [g \in 1..n |-> IF d(g) = flag THEN -1 ELSE d(g)]
           start == w * n
           fits == Bits2Bytes(start + m * SumOf(c)) <= Bytes(bits)
           p == [i \in 1..SumOf(c) |->
                   IF fits THEN ReadAt(bits, start + Begins(i, m), m) ELSE 0]
<1>1. w \in Nat
  BY FlagIsNoCount
<1>2. ParseDecoding(m, t, n, bits) = [counts |-> c, positions |-> p]
  BY DEF ParseDecoding, Begins
<1>3. ASSUME NEW i \in Nat \ {0}, NEW e \in Nat PROVE Begins(i, e) \in Nat
  <2>1. i - 1 \in Nat
    OBVIOUS
  <2> QED BY <2>1 DEF Begins
<1>4. ASSUME NEW g \in 1..n PROVE d(g) \in Nat
  <2>1. g \in Nat \ {0}
    OBVIOUS
  <2> HIDE DEF w
  <2>2. Begins(g, w) \in Nat
    BY <1>1, <1>3, <2>1
  <2> QED BY <1>1, <2>2, AnyRead DEF IsRead
<1>5. AreCounts(c, n) /\ Len(c) = n
  <2>1. \A g \in 1..n : c[g] \in Int
    BY <1>4
  <2>2. Len(c) = n
    OBVIOUS
  <2> HIDE DEF c
  <2> QED BY <2>1, <2>2 DEF AreCounts
<1> HIDE DEF c
<1>6. InSlices(c, n) /\ SumOf(c) = SumUpTo(c, n) /\ SumOf(c) \in Nat
  BY <1>5, SlicesAreInside DEF SumOf
<1>7. ASSUME NEW i \in 1..SumOf(c) PROVE p[i] \in 0..(2^m - 1)
  <2>1. start \in Nat /\ i \in Nat \ {0}
    BY <1>1, <1>6
  <2>2. ReadAt(bits, start + Begins(i, m), m) \in 0..(2^m - 1)
    <3> HIDE DEF start
    <3>1. Begins(i, m) \in Nat
      BY <1>3, <2>1
    <3>2. start + Begins(i, m) \in Nat
      BY <2>1, <3>1
    <3> QED BY <3>2, AnyRead DEF IsRead
  <2>3. 0 \in 0..(2^m - 1)
    <3> DEFINE q == 2^m
    <3>1. q \in Nat \ {0}
      BY Stream!PowerType
    <3> HIDE DEF q
    <3>2. 0 \in 0..(q - 1)
      BY <3>1
    <3> QED BY <3>2 DEF q
  <2>4. p[i] = IF fits THEN ReadAt(bits, start + Begins(i, m), m) ELSE 0
    OBVIOUS
  <2> HIDE DEF p, fits, start
  <2> QED BY <2>2, <2>3, <2>4
<1> HIDE DEF p
<1> QED BY <1>2, <1>5, <1>6, <1>7 DEF DecodingLaw

-------------------------------------------------------------------------------
(* Messages without a bit: a hint whose ids have none, the answer of a     *)
(* receiver with no group.                                                 *)
LEMMA NothingFlushed == Flushed(<< >>) = << >>
<1>1. << >> \in Seq(Bits) /\ Len(<< >>) = 0
  OBVIOUS
<1>2. Bits2Bytes(0) = 0
  <2>1. ByteBits \in Nat \ {0} /\ 0 * ByteBits + (ByteBits - 1) = 0 + ByteBits - 1
    BY ByteAssumption
  <2>2. (0 * ByteBits + (ByteBits - 1)) \div ByteBits = 0
    BY <2>1, Stream!Division
  <2> QED BY <2>1, <2>2 DEF Bits2Bytes
<1>3. Flushed(<< >>) \in Seq(Bits) /\ Len(Flushed(<< >>)) = ByteBits * Bits2Bytes(0)
  BY <1>1, FlushedPads
<1>4. Len(Flushed(<< >>)) = 0
  BY <1>2, <1>3, ByteAssumption
<1> QED BY <1>3, <1>4

LEMMA NothingListed ==
    ASSUME NEW S, NEW ss \in Seq(Seq(S)), \A g \in 1..Len(ss) : Len(ss[g]) = 0
    PROVE  FlattenSeq(ss) = << >>
<1> DEFINE flat == FlattenSeq(ss)
<1>1. flat \in Seq(S) /\ Placed(flat, ss, Len(ss))
  BY FlattenPlaces
<1> HIDE DEF flat
<1>2. ASSUME NEW j \in 1..Len(flat) PROVE FALSE
  <2>1. \E g \in 1..Len(ss) : \E k \in 1..Len(ss[g]) : j = Upto(ss, g - 1) + k
    BY <1>1 DEF Placed
  <2> QED BY <2>1
<1>3. Len(flat) = 0
  BY <1>1, <1>2
<1> QED BY <1>1, <1>3 DEF flat

LEMMA NoLists == FlattenSeq(<< >>) = << >>
<1> DEFINE T == Seq(Bits)
<1>1. << >> \in Seq(T) /\ Len(<< >>) = 0
  OBVIOUS
<1>2. PICK ss \in Seq(T) : Len(ss) = 0
  BY <1>1
<1>3. ss = << >>
  BY <1>2
<1>4. ss \in Seq(Seq(Bits)) /\ \A g \in 1..Len(ss) : Len(ss[g]) = 0
  <2> HIDE DEF T
  <2>1. \A g \in 1..Len(ss) : Len(ss[g]) = 0
    BY <1>2
  <2> QED BY <2>1 DEF T
<1> HIDE DEF T
<1>5. FlattenSeq(ss) = << >>
  BY <1>4, NothingListed
<1> QED BY <1>3, <1>5

LEMMA HintOfOne ==
    \A ids \in Seq(Nat) : WriteHint(1, ids) = << >>
<1> SUFFICES ASSUME NEW ids \in Seq(Nat) PROVE WriteHint(1, ids) = << >>
  OBVIOUS
<1> DEFINE n == Len(ids)
           w == BitsEach(1)
           ss == Fields(ids, n, w)
<1>1. n \in Nat /\ AreValues(ids, n)
  BY DEF AreValues
<1>2. w = 0 /\ w \in Nat
  BY LogLaws DEF LogLaw, BitsEach
<1>3. WriteHint(1, ids) = Flushed(FlattenSeq(ss))
  BY DEF WriteHint, Fields
<1> HIDE DEF n, w
<1>4. ss \in Seq(Seq(Bits)) /\ Len(ss) = n /\ \A i \in 1..n : Len(ss[i]) = 0
  <2>1. w \in Nat
    BY <1>2
  <2>2. ss \in Seq(Seq(Bits)) /\ Len(ss) = n /\ \A i \in 1..n : Len(ss[i]) = w
    <3>1. Fields(ids, n, w) \in Seq(Seq(Bits)) /\ Len(Fields(ids, n, w)) = n
      BY <1>1, <2>1, FieldsType
    <3>2. \A i \in 1..n : Len(Fields(ids, n, w)[i]) = w
      BY <1>1, <2>1, FieldsType
    <3> QED BY <3>1, <3>2
  <2> QED BY <1>2, <2>2
<1> HIDE DEF ss
<1>5. FlattenSeq(ss) = << >>
  BY <1>4, NothingListed
<1>6. Flushed(FlattenSeq(ss)) = Flushed(<< >>)
  BY <1>5
<1> QED BY <1>3, <1>6, NothingFlushed

LEMMA DecodingOfNone ==
    \A m, t \in Nat : WriteDecoding(m, t, << >>) = << >>
<1> SUFFICES ASSUME NEW m \in Nat, NEW t \in Nat PROVE WriteDecoding(m, t, << >>) = << >>
  OBVIOUS
<1>1. Counts(<< >>) = << >>
  BY DEF Counts
<1>2. Positions(<< >>) = << >>
  <2>1. Positions(<< >>) = FlattenSeq(<< >>)
    BY DEF Positions, OfDecoded
  <2> QED BY <2>1, NoLists
<1> DEFINE ss == [g \in 1..Len(<< >>) |->
                     Field(IF Counts(<< >>)[g] < 0 THEN FailureFlag(t) ELSE Counts(<< >>)[g],
                           SizeofEachD(t))]
           sp == [i \in 1..Len(<< >>) |-> Field((<< >>)[i], m)]
<1>3. ss = << >> /\ sp = << >>
  OBVIOUS
<1>4. WriteDecoding(m, t, << >>) = Flushed(FlattenSeq(ss \o sp))
  BY <1>1, <1>2 DEF WriteDecoding
<1>5. ss \o sp = << >>
  BY <1>3
<1> HIDE DEF ss, sp
<1> QED BY <1>4, <1>5, NoLists, NothingFlushed

(* A receiver that has groups takes it for groups that were decoded        *)
(* without a bit error, and finds no checksum for them.                    *)
LEMMA NothingThrows ==
    \A m, t \in Nat : \A n \in Nat \ {0} :
        CheckThrows(ParseDecoding(m, t, n, << >>), << >>, << >>)
<1> SUFFICES ASSUME NEW m \in Nat, NEW t \in Nat, NEW n \in Nat \ {0}
             PROVE  CheckThrows(ParseDecoding(m, t, n, << >>), << >>, << >>)
  OBVIOUS
<1> DEFINE w == SizeofEachD(t)
           d(g) == ReadAt(<< >>, (g - 1) * w, w)
           dec == ParseDecoding(m, t, n, << >>)
           c == dec.counts
           B == {h \in 1..n : c[h] >= 0}
<1>1. w \in Nat /\ FailureFlag(t) # 0
  BY FlagIsNoCount
<1>2. c = [g \in 1..n |-> IF d(g) = FailureFlag(t) THEN -1 ELSE d(g)]
  BY DEF ParseDecoding
<1>3. d(1) = 0
  <2>1. (1 - 1) * w = 0
    BY <1>1
  <2>2. ReadAt(Flushed(<< >>), 0, w) = 0
    <3>1. << >> \in Seq(Bits) /\ Len(<< >>) = 0 /\ 0 >= 0
      OBVIOUS
    <3> QED BY <1>1, <3>1, ReadsNothing
  <2> QED BY <2>1, <2>2, NothingFlushed
<1>4. Len(c) = n /\ c[1] = 0
  BY <1>1, <1>2, <1>3
<1> HIDE DEF c, dec
<1>5. 1 \in B
  BY <1>4
<1>6. IsFiniteSet(B) /\ B # {}
  <2>1. IsFiniteSet(1..n) /\ B \subseteq 1..n
    BY FS_Interval
  <2> QED BY <1>5, <2>1, FS_Subset
<1> HIDE DEF B
<1>7. Cardinality(B) \in Nat /\ Cardinality(B) # 0
  BY <1>6, FS_CardinalityType, FS_EmptySet
<1>8. CidOf(c, Len(c)) > Len(<< >>)
  BY <1>4, <1>7 DEF CidOf, B
<1> QED BY <1>8 DEF CheckThrows, c, dec

-------------------------------------------------------------------------------
(* The messages that can be sent.                                          *)
IsHint(h) ==
    /\ h.kind = "hint"
    /\ h.range \in Nat \ {0} /\ IsIncreasing(h.ids, h.range) /\ Len(h.ids) > 0

IsDecoding(d) ==
    /\ d.kind = "decoding"
    /\ d.code[1] \in Nat /\ d.code[2] \in Nat /\ AreOutcomes(d.groups, d.code[1], d.code[2])

IsEncoding(e) ==
    /\ e.kind = "encoding"
    /\ e.code[1] \in Nat /\ e.code[2] \in Nat /\ Len(e.sketches) \in Nat
    /\ e.sketches \in [1..Len(e.sketches) -> [1..(e.code[1] * e.code[2]) -> Bits]]

LEMMA HintType == \A h \in Hints : IsHint(h)
<1> SUFFICES ASSUME NEW h \in Hints PROVE IsHint(h)
  OBVIOUS
<1>1. PICK r \in 1..MaxRange :
          \E s \in IncreasingSeqs(r) \ {<< >>} : h = [kind |-> "hint", range |-> r, ids |-> s]
  BY DEF Hints
<1>2. PICK s \in IncreasingSeqs(r) \ {<< >>} : h = [kind |-> "hint", range |-> r, ids |-> s]
  BY <1>1
<1>3. r \in Nat \ {0}
  BY MessagesAssumption
<1>4. IsIncreasing(s, r)
  BY <1>2, <1>3, IncreasingSeqsAre
<1>5. s \in Seq(Nat) /\ s # << >>
  BY <1>2, <1>4 DEF IsIncreasing
<1>6. Len(s) > 0
  BY <1>5
<1> QED BY <1>2, <1>3, <1>4, <1>6 DEF IsHint

LEMMA DecodingType == \A d \in Decodings : IsDecoding(d)
<1> SUFFICES ASSUME NEW d \in Decodings PROVE IsDecoding(d)
  OBVIOUS
<1>1. PICK c \in Codes :
          \E s \in BoundedSeq(Outcomes(c[1], c[2]), MaxGroups) \ {<< >>} :
             d = [kind |-> "decoding", code |-> c, groups |-> s]
  BY DEF Decodings
<1>2. PICK s \in BoundedSeq(Outcomes(c[1], c[2]), MaxGroups) :
          d = [kind |-> "decoding", code |-> c, groups |-> s]
  BY <1>1
<1>3. c[1] \in Nat /\ c[2] \in Nat
  BY MessagesAssumption
<1>4. PICK n \in 0..MaxGroups : s \in [1..n -> Outcomes(c[1], c[2])]
  BY <1>2 DEF BoundedSeq, SeqOf
<1>5. n \in Nat
  BY MessagesAssumption
<1>6. Len(s) = n /\ s = [g \in 1..n |-> s[g]]
  BY <1>4, <1>5
<1>7. \A g \in 1..n : IsOutcome(s[g], c[1], c[2])
  BY <1>3, <1>4, OutcomesAre
<1>8. AreOutcomes(s, c[1], c[2])
  BY <1>5, <1>6, <1>7 DEF AreOutcomes
<1> QED BY <1>2, <1>3, <1>8 DEF IsDecoding

LEMMA EncodingType == \A e \in Encodings : IsEncoding(e)
<1> SUFFICES ASSUME NEW e \in Encodings PROVE IsEncoding(e)
  OBVIOUS
<1>1. PICK c \in Codes :
          \E s \in BoundedSeq([1..(c[1] * c[2]) -> {0, 1}], MaxGroups) \ {<< >>} :
             e = [kind |-> "encoding", code |-> c, sketches |-> s]
  BY DEF Encodings
<1> DEFINE T == [1..(c[1] * c[2]) -> {0, 1}]
<1>2. PICK s \in BoundedSeq(T, MaxGroups) :
          e = [kind |-> "encoding", code |-> c, sketches |-> s]
  BY <1>1
<1>3. c[1] \in Nat /\ c[2] \in Nat
  BY MessagesAssumption
<1>4. T = [1..(c[1] * c[2]) -> Bits]
  BY DEF Bits
<1> HIDE DEF T
<1>5. PICK n \in 0..MaxGroups : s \in [1..n -> T]
  BY <1>2 DEF BoundedSeq, SeqOf
<1>6. n \in Nat
  BY MessagesAssumption
<1>7. Len(s) = n
  BY <1>5, <1>6
<1>8. e.kind = "encoding" /\ e.code = c /\ e.sketches = s
  BY <1>2
<1> QED BY <1>3, <1>4, <1>5, <1>6, <1>7, <1>8 DEF IsEncoding

(* The invariant: the buffer holds the message, and nothing else is ever   *)
(* received from it.                                                       *)
Written(msg) ==
    CASE msg.kind = "hint"     -> WriteHint(msg.range, msg.ids)
      [] msg.kind = "decoding" -> WriteDecoding(msg.code[1], msg.code[2], msg.groups)
      [] msg.kind = "encoding" -> WriteEncoding(msg.code[1], msg.code[2], msg.sketches)

WireInv ==
    /\ message \in Hints \union Decodings \union Encodings
    /\ buffer = Nothing \/ buffer = [kind |-> "bits", bits |-> Written(message)]
    /\ HintArrives /\ DecodingArrives /\ EncodingArrives

LEMMA WireInit == Init => WireInv
<1> SUFFICES ASSUME Init PROVE WireInv
  OBVIOUS
<1>1. received.kind = "nothing"
  BY DEF Init, Nothing
<1>2. HintArrives /\ DecodingArrives /\ EncodingArrives
  BY <1>1 DEF HintArrives, DecodingArrives, EncodingArrives
<1> QED BY <1>2 DEF Init, WireInv

LEMMA WireStep == WireInv /\ [Next]_vars => WireInv'
<1> SUFFICES ASSUME WireInv, [Next]_vars PROVE WireInv'
  OBVIOUS
<1>1. message \in Hints \union Decodings \union Encodings
  BY DEF WireInv
<1>2. IsHint(message) \/ IsDecoding(message) \/ IsEncoding(message)
  BY <1>1, HintType, DecodingType, EncodingType
<1>3. CASE WriteMessage
  <2>1. buffer' = [kind |-> "bits", bits |-> Written(message)] /\ UNCHANGED <<message, received>>
    BY <1>3 DEF WriteMessage, Written
  <2>2. (HintArrives /\ DecodingArrives /\ EncodingArrives)'
    BY <2>1 DEF WireInv, HintArrives, DecodingArrives, EncodingArrives
  <2> QED BY <1>1, <2>1, <2>2 DEF WireInv, Written
<1>4. CASE ReceiveHint
  <2>1. IsHint(message) /\ buffer.bits = WriteHint(message.range, message.ids)
    BY <1>2, <1>4 DEF ReceiveHint, WireInv, Written, IsHint, IsDecoding, IsEncoding
  <2>2. ParseHint(message.range, buffer.bits)
           = [threw |-> FALSE, ids |-> IF message.range = 1 THEN << >> ELSE message.ids]
    <3>1. /\ message.range \in Nat \ {0} /\ Len(message.ids) > 0
          /\ IsIncreasing(message.ids, message.range)
      BY <2>1 DEF IsHint
    <3> QED BY <2>1, <3>1, HintIsRead
  <2>3. received' = [kind |-> "hint", got |-> ParseHint(message.range, buffer.bits)]
    BY <1>4 DEF ReceiveHint
  <2>4. received'.kind = "hint" /\ received'.got = ParseHint(message.range, buffer.bits)
    BY <2>3
  <2>5. message' = message /\ buffer' = buffer
    BY <1>4 DEF ReceiveHint
  <2>6. HintArrives' /\ DecodingArrives' /\ EncodingArrives'
    BY <2>2, <2>4, <2>5 DEF HintArrives, DecodingArrives, EncodingArrives
  <2> QED BY <1>1, <2>5, <2>6 DEF WireInv, Written
<1>5. CASE ReceiveDecoding
  <2> DEFINE m == message.code[1]
             t == message.code[2]
             groups == message.groups
             dec == ParseDecoding(m, t, Len(groups), buffer.bits)
             xors == Xors(groups)
             sums == Checksums(groups)
  <2>1. IsDecoding(message) /\ buffer.bits = WriteDecoding(m, t, groups)
    BY <1>2, <1>5 DEF ReceiveDecoding, WireInv, Written, IsHint, IsDecoding, IsEncoding
  <2>2. AreOutcomes(groups, m, t) /\ m \in Nat /\ t \in Nat
    BY <2>1 DEF IsDecoding
  <2>3. dec = [counts |-> Counts(groups), positions |-> Positions(groups)]
    BY <2>1, <2>2, DecodingIsParsed
  <2>4. received' = [kind |-> "decoding", threw |-> CheckThrows(dec, xors, sums),
                     got |-> IF CheckThrows(dec, xors, sums) THEN << >>
                             ELSE GroupsChecked(dec, xors, sums)]
    BY <1>5 DEF ReceiveDecoding
  <2>5. message' = message /\ buffer' = buffer
    BY <1>5 DEF ReceiveDecoding
  <2> HIDE DEF dec
  <2>6. /\ ~CheckThrows(dec, xors, sums)
        /\ GroupsChecked(dec, xors, sums) = [g \in 1..Len(groups) |-> Found(groups, g)]
    BY <2>2, <2>3, DecodingIsWalked
  <2>7. /\ received'.kind = "decoding" /\ ~received'.threw
        /\ received'.got = [g \in 1..Len(groups) |-> Found(groups, g)]
    <3> HIDE DEF xors, sums, groups
    <3>1. received'.kind = "decoding" /\ received'.threw = CheckThrows(dec, xors, sums)
      BY <2>4
    <3>2. received'.got = GroupsChecked(dec, xors, sums)
      BY <2>4, <2>6
    <3> QED BY <2>6, <3>1, <3>2
  <2>8. HintArrives' /\ DecodingArrives' /\ EncodingArrives'
    BY <2>5, <2>7 DEF HintArrives, DecodingArrives, EncodingArrives, Found
  <2> QED BY <1>1, <2>5, <2>8 DEF WireInv, Written
<1>6. CASE ReceiveEncoding
  <2> DEFINE m == message.code[1]
             t == message.code[2]
             sketches == message.sketches
             n == Len(sketches)
             b == m * t
  <2>1. IsEncoding(message) /\ buffer.bits = WriteEncoding(m, t, sketches)
    BY <1>2, <1>6 DEF ReceiveEncoding, WireInv, Written, IsHint, IsDecoding, IsEncoding
  <2>2. m \in Nat /\ t \in Nat /\ n \in Nat /\ sketches \in [1..n -> [1..b -> Bits]]
    BY <2>1 DEF IsEncoding
  <2>3. b = m * t /\ b \in Nat
    BY <2>2
  <2>4. received' = [kind |-> "encoding", got |-> ParseEncoding(m, t, n, buffer.bits)]
    BY <1>6 DEF ReceiveEncoding
  <2>5. message' = message /\ buffer' = buffer
    BY <1>6 DEF ReceiveEncoding
  <2>6. ParseEncoding(m, t, n, WriteEncoding(m, t, sketches)) = sketches
    <3> HIDE DEF m, t, n, b, sketches
    <3> QED BY <2>2, <2>3, EncodingIsParsed
  <2>7. received'.kind = "encoding" /\ received'.got = sketches
    BY <2>1, <2>4, <2>6
  <2>8. HintArrives' /\ DecodingArrives' /\ EncodingArrives'
    BY <2>5, <2>7 DEF HintArrives, DecodingArrives, EncodingArrives
  <2> QED BY <1>1, <2>5, <2>8 DEF WireInv, Written
<1>7. CASE UNCHANGED vars
  <2>1. message' = message /\ buffer' = buffer /\ received' = received
    BY <1>7 DEF vars
  <2>2. Written(message)' = Written(message)
    BY <2>1 DEF Written
  <2>3. HintArrives' = HintArrives
    BY <2>1 DEF HintArrives
  <2>4. DecodingArrives' = DecodingArrives
    BY <2>1 DEF DecodingArrives
  <2>5. EncodingArrives' = EncodingArrives
    BY <2>1 DEF EncodingArrives
  <2> QED BY <2>1, <2>2, <2>3, <2>4, <2>5 DEF WireInv
<1> QED BY <1>3, <1>4, <1>5, <1>6, <1>7 DEF Next

THEOREM WireInvariant == Spec => []WireInv
<1>1. Init => WireInv
  BY WireInit
<1>2. WireInv /\ [Next]_vars => WireInv'
  BY WireStep
<1> QED BY <1>1, <1>2, PTL DEF Spec

(* Bob reads the hint of Alice back, for every range and every list of     *)
(* increasing ids below it, and takes no padding for an id.                *)
THEOREM HintsArrive == Spec => []HintArrives
<1>1. WireInv => HintArrives
  BY DEF WireInv
<1> QED BY <1>1, WireInvariant, PTL

(* Alice checks every group with its own positions, XORs and checksum, for *)
(* every code and however many groups failed.                              *)
THEOREM DecodingsArrive == Spec => []DecodingArrives
<1>1. WireInv => DecodingArrives
  BY DEF WireInv
<1> QED BY <1>1, WireInvariant, PTL

(* Bob gets every sketch of Alice, whatever its bits are and however many  *)
(* of them are left over from whole bytes.                                 *)
THEOREM EncodingsArrive == Spec => []EncodingArrives
<1>1. WireInv => EncodingArrives
  BY DEF WireInv
<1> QED BY <1>1, WireInvariant, PTL
==============================================================================
