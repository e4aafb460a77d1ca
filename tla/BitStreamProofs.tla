---------------------------- MODULE BitStreamProofs ----------------------------
(***************************************************************************)
(* What a BitReader returns is what the BitWriter was given, for every     *)
(* number of bits in a byte, and fields of any width and number.           *)
(*                                                                         *)
(* The fields are the digits of one natural number, each field behind      *)
(* those before it, and so are the bytes: StreamInv says that there is     *)
(* such a number, that the writer holds its bits as far as they are        *)
(* written, and that the reader has taken its bits up to the end of a      *)
(* field.  Nothing is left to say of state, offset and bytes but which     *)
(* bits of this number they are.                                           *)
(*                                                                         *)
(* The library has no facts about 2^n, the quotient and the remainder; the *)
(* first sections supply them.  Facts that are used on terms of arithmetic *)
(* are stated as laws, operators that are expanded when they are needed.   *)
(***************************************************************************)
EXTENDS BitStream, FiniteSetTheorems, FunctionTheorems, SequenceTheorems,
        WellFoundedInduction, TLAPS

(* Induction over the naturals, for sets. *)
LEMMA SetInduction ==
    ASSUME NEW S \in SUBSET Nat, 0 \in S, \A n \in S : n + 1 \in S
    PROVE  S = Nat
<1> DEFINE T == Nat \ S
           R == OpToRel(<, Nat)
<1> SUFFICES ASSUME T # {} PROVE FALSE
  OBVIOUS
<1>1. PICK n \in T : \A m \in T : ~(<<m, n>> \in R)
  <2>1. IsWellFoundedOn(R, Nat)
    BY NatLessThanWellFounded
  <2>2. T \subseteq Nat
    OBVIOUS
  <2> HIDE DEF T, R
  <2> QED BY <2>1, <2>2, WFMin
<1>2. n \in Nat /\ n # 0 /\ n \notin S
  OBVIOUS
<1>3. n - 1 \in Nat /\ (n - 1) + 1 = n /\ n - 1 < n
  BY <1>2
<1>4. n - 1 \in T
  BY <1>2, <1>3
<1>5. <<n - 1, n>> \in R
  BY <1>2, <1>3 DEF OpToRel
<1> QED
  BY <1>1, <1>4, <1>5

(* Quotient and remainder are determined by what they add up to. *)
LEMMA Division ==
    ASSUME NEW d \in Nat \ {0}, NEW q \in Int, NEW r \in 0..(d - 1)
    PROVE  (q * d + r) \div d = q /\ (q * d + r) % d = r
<1> DEFINE x == q * d + r
           a == x \div d
           b == x % d
<1>1. a \in Int /\ b \in 0..(d - 1) /\ x = a * d + b /\ x \in Int
  OBVIOUS
<1> HIDE DEF a, b
<1>2. (a - q) * d = r - b
  BY <1>1
<1>3. a = q
  <2>1. ASSUME a - q >= 1 PROVE FALSE
    <3>1. (a - q) * d >= d
      BY <1>1, <2>1
    <3> QED BY <1>1, <1>2, <3>1
  <2>2. ASSUME q - a >= 1 PROVE FALSE
    <3>1. (q - a) * d >= d
      BY <1>1, <2>2
    <3>2. (q - a) * d = b - r
      BY <1>1
    <3> QED BY <1>1, <3>1, <3>2
  <2> QED BY <1>1, <2>1, <2>2
<1> QED BY <1>1, <1>2, <1>3 DEF a, b

(* There are 2^n subsets of 1..n: twice as many of 1..(n + 1).             *)
LEMMA PowerIsCardinality ==
    \A n \in Nat : IsFiniteSet(SUBSET (1..n)) /\ Cardinality(SUBSET (1..n)) = 2^n
<1> SUFFICES ASSUME NEW n \in Nat
             PROVE  IsFiniteSet(SUBSET (1..n)) /\ Cardinality(SUBSET (1..n)) = 2^n
  OBVIOUS
<1>1. IsFiniteSet(1..n) /\ Cardinality(1..n) = n
  BY FS_Interval
<1> DEFINE S == 1..n
<1> HIDE DEF S
<1>2. IsFiniteSet(SUBSET S) /\ Cardinality(SUBSET S) = 2^Cardinality(S)
  BY <1>1, FS_SUBSET DEF S
<1> QED BY <1>1, <1>2 DEF S

LEMMA PowerOfZero == 2^0 = 1
<1>1. 1..0 = {}
  OBVIOUS
<1>2. SUBSET {} = {{}}
  OBVIOUS
<1>3. Cardinality(SUBSET (1..0)) = 2^0
  BY PowerIsCardinality
<1>4. Cardinality({{}}) = 1
  BY FS_Singleton
<1> QED BY <1>1, <1>2, <1>3, <1>4

LEMMA PowerStep == \A n \in Nat : 2^(n + 1) = 2 * 2^n
<1> SUFFICES ASSUME NEW n \in Nat PROVE 2^(n + 1) = 2 * 2^n
  OBVIOUS
<1> DEFINE A == SUBSET (1..n)
           B == {X \in SUBSET (1..(n + 1)) : n + 1 \in X}
           f == [X \in A |-> X \union {n + 1}]
<1>1. 1..(n + 1) = (1..n) \union {n + 1} /\ n + 1 \notin 1..n
  OBVIOUS
<1>2. f \in Bijection(A, B)
  <2>1. f \in [A -> B]
    BY <1>1
  <2>2. \A X, Y \in A : f[X] = f[Y] => X = Y
    BY <1>1
  <2>3. \A Y \in B : \E X \in A : f[X] = Y
    <3> SUFFICES ASSUME NEW Y \in B PROVE f[Y \ {n + 1}] = Y /\ Y \ {n + 1} \in A
      OBVIOUS
    <3>1. Y \ {n + 1} \in A
      BY <1>1
    <3> QED BY <3>1
  <2> HIDE DEF A, B, f
  <2> QED BY <2>1, <2>2, <2>3, Fun_IsBij
<1>3. IsFiniteSet(A) /\ Cardinality(A) = 2^n
  BY PowerIsCardinality
<1>4. IsFiniteSet(B) /\ Cardinality(B) = 2^n
  <2> HIDE DEF A, B, f
  <2>1. ExistsBijection(A, B)
    BY <1>2 DEF ExistsBijection
  <2>2. IsFiniteSet(B) /\ Cardinality(B) = Cardinality(A)
    BY <1>3, <2>1, FS_Bijection
  <2> QED BY <1>3, <2>2
<1>5. A \cap B = {}
  BY <1>1
<1>6. SUBSET (1..(n + 1)) = A \union B
  BY <1>1
<1>7. Cardinality(A \union B) = Cardinality(A) + Cardinality(B)
  <2> HIDE DEF A, B
  <2>1. Cardinality(A \cap B) = 0
    BY <1>5, FS_EmptySet
  <2>2. Cardinality(A \union B) = Cardinality(A) + Cardinality(B) - Cardinality(A \cap B)
    BY <1>3, <1>4, FS_Union
  <2>3. Cardinality(A) \in Nat /\ Cardinality(B) \in Nat
    BY <1>3, <1>4, FS_CardinalityType
  <2> QED BY <2>1, <2>2, <2>3
<1>8. Cardinality(SUBSET (1..(n + 1))) = 2^(n + 1)
  <2>1. n + 1 \in Nat
    OBVIOUS
  <2> QED BY <2>1, PowerIsCardinality
<1>9. Cardinality(A) \in Nat
  BY <1>3, FS_CardinalityType
<1>10. 2^n \in Nat
  BY <1>3, <1>9
<1>11. 2^(n + 1) = 2^n + 2^n
  BY <1>3, <1>4, <1>6, <1>7, <1>8
<1> QED BY <1>10, <1>11

LEMMA PowerType == \A n \in Nat : 2^n \in Nat \ {0}
<1> DEFINE S == {n \in Nat : 2^n \in Nat \ {0}}
<1>1. 0 \in S
  BY PowerOfZero
<1>2. ASSUME NEW n \in S PROVE n + 1 \in S
  <2>1. 2^n \in Nat \ {0} /\ 2^(n + 1) = 2 * 2^n /\ n \in Nat
    BY PowerStep
  <2> QED BY <2>1
<1>3. S \in SUBSET Nat
  OBVIOUS
<1> HIDE DEF S
<1>4. S = Nat
  BY <1>1, <1>2, <1>3, SetInduction
<1> QED BY <1>4 DEF S

LEMMA PowerOfSum == \A a, b \in Nat : 2^(a + b) = 2^a * 2^b
<1> SUFFICES ASSUME NEW a \in Nat PROVE \A b \in Nat : 2^(a + b) = 2^a * 2^b
  OBVIOUS
<1> DEFINE S == {b \in Nat : 2^(a + b) = 2^a * 2^b}
<1>1. 0 \in S
  <2>1. a + 0 = a /\ 2^a * 1 = 2^a
    BY PowerType
  <2> QED BY <2>1, PowerOfZero
<1>2. ASSUME NEW b \in S PROVE b + 1 \in S
  <2>1. b \in Nat /\ 2^(a + b) = 2^a * 2^b
    OBVIOUS
  <2>2. 2^(b + 1) = 2 * 2^b
    BY <2>1, PowerStep
  <2>3. 2^((a + b) + 1) = 2 * 2^(a + b)
    BY <2>1, PowerStep
  <2>4. (a + b) + 1 = a + (b + 1)
    BY <2>1
  <2>5. 2^a \in Nat /\ 2^b \in Nat
    BY <2>1, PowerType
  <2>6. 2 * (2^a * 2^b) = 2^a * (2 * 2^b)
    BY <2>5
  <2>7. 2^(a + (b + 1)) = 2^a * 2^(b + 1)
    BY <2>1, <2>2, <2>3, <2>4, <2>6
  <2> QED BY <2>1, <2>7
<1>3. S \in SUBSET Nat
  OBVIOUS
<1> HIDE DEF S
<1>4. S = Nat
  BY <1>1, <1>2, <1>3, SetInduction
<1> QED BY <1>4 DEF S

-------------------------------------------------------------------------------
(* Division by a product. *)
DivisionLaws(x, d, e) ==
    /\ (x \div d) \div e = x \div (d * e)
    /\ x % (d * e) = (x % d) + ((x \div d) % e) * d
    /\ (x % (d * e)) % d = x % d
    /\ (x % (d * e)) \div d = (x \div d) % e

LEMMA Divisions ==
    \A x \in Nat : \A d, e \in Nat \ {0} : DivisionLaws(x, d, e)
<1> SUFFICES ASSUME NEW x \in Nat, NEW d \in Nat \ {0}, NEW e \in Nat \ {0}
             PROVE  DivisionLaws(x, d, e)
  OBVIOUS
<1> DEFINE q == x \div d
           r == x % d
           s == q \div e
           t == q % e
<1>1. /\ q \in Nat /\ r \in 0..(d - 1) /\ x = q * d + r
      /\ s \in Nat /\ t \in 0..(e - 1) /\ q = s * e + t
  <2>1. q \in Nat /\ r \in 0..(d - 1) /\ x = q * d + r
    OBVIOUS
  <2> HIDE DEF q, r
  <2>2. s \in Nat /\ t \in 0..(e - 1) /\ q = s * e + t
    BY <2>1
  <2> QED BY <2>1, <2>2
<1>0. d * e \in Nat \ {0}
  OBVIOUS
<1> HIDE DEF q, r, s, t
<1>2. x = s * (d * e) + (t * d + r)
  <2>1. (s * e + t) * d + r = s * (d * e) + (t * d + r)
    BY <1>1
  <2> QED BY <1>1, <2>1
<1>3. t * d + r \in 0..(d * e - 1)
  <2>1. t * d \in Nat
    BY <1>1
  <2>2. (e - 1 - t) * d \in Nat
    BY <1>1
  <2>3. (e - 1 - t) * d = d * e - d - t * d
    BY <1>1
  <2> QED BY <1>0, <1>1, <2>1, <2>2, <2>3
<1>4. x \div (d * e) = s /\ x % (d * e) = t * d + r
  <2> DEFINE de == d * e
             u == t * d + r
  <2>1. de \in Nat \ {0} /\ s \in Int /\ u \in 0..(de - 1) /\ x = s * de + u
    BY <1>0, <1>1, <1>2, <1>3
  <2> HIDE DEF de, u
  <2>2. x \div de = s /\ x % de = u
    BY <2>1, Division
  <2> QED BY <2>2 DEF de, u
<1>5. (t * d + r) \div d = t /\ (t * d + r) % d = r
  BY <1>1, Division
<1>6. r + t * d = t * d + r
  BY <1>1
<1> QED BY <1>4, <1>5, <1>6 DEF q, r, s, t, DivisionLaws

-------------------------------------------------------------------------------
(* The m bits of a number from bit a on.                                   *)
Slice(x, a, m) == (x \div 2^a) % 2^m

LEMMA SliceType ==
    ASSUME NEW x \in Nat, NEW a \in Nat, NEW m \in Nat
    PROVE  /\ Slice(x, a, m) \in Nat /\ Slice(x, a, m) < 2^m
           /\ x \div 2^a \in Nat
<1>1. 2^a \in Nat \ {0} /\ 2^m \in Nat \ {0}
  BY PowerType
<1>2. x \div 2^a \in Nat
  BY <1>1
<1> QED BY <1>1, <1>2 DEF Slice

LEMMA SliceOfNothing ==
    ASSUME NEW x \in Nat, NEW a \in Nat
    PROVE  Slice(x, a, 0) = 0
<1>1. Slice(x, a, 0) \in Nat /\ Slice(x, a, 0) < 2^0
  BY SliceType
<1> QED BY <1>1, PowerOfZero

(* Of a slice the low bits, and the others; two slices joined.             *)
SliceLaws(x, a, m, k) ==
    /\ Slice(x, a, m + k) % 2^m = Slice(x, a, m)
    /\ Slice(x, a, m + k) \div 2^m = Slice(x, a + m, k)
    /\ Slice(x, a, m) + Slice(x, a + m, k) * 2^m = Slice(x, a, m + k)

LEMMA SliceSplits ==
    \A x, a, m, k \in Nat : SliceLaws(x, a, m, k)
<1> SUFFICES ASSUME NEW x \in Nat, NEW a \in Nat, NEW m \in Nat, NEW k \in Nat
             PROVE  SliceLaws(x, a, m, k)
  OBVIOUS
<1> DEFINE y == x \div 2^a
<1>1. 2^a \in Nat \ {0} /\ 2^m \in Nat \ {0} /\ 2^k \in Nat \ {0}
  BY PowerType
<1>2. 2^(a + m) = 2^a * 2^m /\ 2^(m + k) = 2^m * 2^k
  BY PowerOfSum
<1>3. y \in Nat
  BY SliceType
<1>4. y \div 2^m = x \div 2^(a + m)
  <2> DEFINE d == 2^a
             e == 2^m
  <2>1. d \in Nat \ {0} /\ e \in Nat \ {0}
    BY <1>1
  <2> HIDE DEF d, e
  <2>2. DivisionLaws(x, d, e)
    BY <2>1, Divisions
  <2> QED BY <1>2, <2>2 DEF d, e, DivisionLaws
<1> HIDE DEF y
<1>5. /\ y % (2^m * 2^k) = (y % 2^m) + ((y \div 2^m) % 2^k) * 2^m
      /\ (y % (2^m * 2^k)) % 2^m = y % 2^m
      /\ (y % (2^m * 2^k)) \div 2^m = (y \div 2^m) % 2^k
  <2> DEFINE d == 2^m
             e == 2^k
  <2>1. d \in Nat \ {0} /\ e \in Nat \ {0}
    BY <1>1
  <2> HIDE DEF d, e
  <2>2. DivisionLaws(y, d, e)
    BY <1>3, <2>1, Divisions
  <2> QED BY <2>2 DEF d, e, DivisionLaws
<1>6. /\ Slice(x, a, m + k) = y % (2^m * 2^k) /\ Slice(x, a, m) = y % 2^m
      /\ Slice(x, a + m, k) = (y \div 2^m) % 2^k
  BY <1>2, <1>4 DEF Slice, y
<1> QED BY <1>5, <1>6 DEF SliceLaws

QuotientSlice(x, c, a, m) == Slice(x \div 2^c, a, m) = Slice(x, c + a, m)

LEMMA SliceOfQuotient ==
    \A x, c, a, m \in Nat : QuotientSlice(x, c, a, m)
<1> SUFFICES ASSUME NEW x \in Nat, NEW c \in Nat, NEW a \in Nat, NEW m \in Nat
             PROVE  Slice(x \div 2^c, a, m) = Slice(x, c + a, m)
  BY DEF QuotientSlice
<1>1. 2^a \in Nat \ {0} /\ 2^c \in Nat \ {0} /\ 2^(c + a) = 2^c * 2^a
  BY PowerType, PowerOfSum
<1>2. (x \div 2^c) \div 2^a = x \div 2^(c + a)
  <2> DEFINE d == 2^c
             e == 2^a
  <2>1. d \in Nat \ {0} /\ e \in Nat \ {0}
    BY <1>1
  <2> HIDE DEF d, e
  <2>2. DivisionLaws(x, d, e)
    BY <2>1, Divisions
  <2> QED BY <1>1, <2>2 DEF d, e, DivisionLaws
<1> QED BY <1>2 DEF Slice

(* A number below 2^t has no bits from t on.                               *)
LEMMA SmallQuotient ==
    ASSUME NEW x \in Nat, NEW t \in Nat, x < 2^t, NEW a \in Nat
    PROVE  /\ a >= t => x \div 2^a = 0
           /\ a < t => x \div 2^a < 2^(t - a)
<1>1. 2^a \in Nat \ {0} /\ 2^t \in Nat \ {0}
  BY PowerType
<1>2. x \div 2^a \in Nat /\ x = (x \div 2^a) * 2^a + (x % 2^a) /\ x % 2^a \in Nat /\ x % 2^a < 2^a
  <2> DEFINE d == 2^a
  <2>1. d \in Nat \ {0}
    BY <1>1
  <2> HIDE DEF d
  <2>2. x \div d \in Nat /\ x = (x \div d) * d + (x % d) /\ x % d \in Nat /\ x % d < d
    BY <2>1
  <2> QED BY <2>2 DEF d
<1> DEFINE q == x \div 2^a
<1>3. CASE a >= t
  <2>1. a - t \in Nat /\ t + (a - t) = a
    BY <1>3
  <2>2. 2^a = 2^t * 2^(a - t) /\ 2^(a - t) \in Nat \ {0}
    BY <2>1, PowerOfSum, PowerType
  <2>3. 2^a >= 2^t
    BY <1>1, <2>2
  <2>4. x < 2^a
    BY <1>1, <2>3
  <2>5. x = 0 * 2^a + x /\ x \in 0..(2^a - 1)
    BY <1>1, <2>4
  <2>6. (0 * 2^a + x) \div 2^a = 0
    BY <1>1, <2>5, Division
  <2> QED BY <1>3, <2>5, <2>6
<1>4. CASE a < t
  <2>1. t - a \in Nat /\ a + (t - a) = t
    BY <1>4
  <2>2. 2^t = 2^a * 2^(t - a) /\ 2^(t - a) \in Nat \ {0}
    BY <2>1, PowerOfSum, PowerType
  <2> DEFINE p == 2^(t - a)
             d == 2^a
  <2>3. p \in Nat /\ d \in Nat \ {0} /\ q \in Nat /\ q * d <= x /\ x < d * p
    BY <1>1, <1>2, <2>2
  <2> HIDE DEF p, d, q
  <2>4. ASSUME q >= p PROVE FALSE
    <3>1. (q - p) * d >= 0
      BY <2>3, <2>4
    <3>2. (q - p) * d = q * d - d * p
      BY <2>3
    <3>3. q * d \in Nat /\ d * p \in Nat
      BY <2>3
    <3> QED BY <2>3, <3>1, <3>2, <3>3
  <2>5. q < p
    BY <2>3, <2>4
  <2> QED BY <1>4, <2>5 DEF q, p
<1> QED BY <1>3, <1>4

SliceEnds(x, t, a, m) ==
    /\ a >= t => Slice(x, a, m) = 0
    /\ a + m >= t => Slice(x, a, m) = x \div 2^a

LEMMA SliceBeyond ==
    \A x, t, a, m \in Nat : x < 2^t => SliceEnds(x, t, a, m)
<1> SUFFICES ASSUME NEW x \in Nat, NEW t \in Nat, x < 2^t, NEW a \in Nat, NEW m \in Nat
             PROVE  /\ a >= t => Slice(x, a, m) = 0
                    /\ a + m >= t => Slice(x, a, m) = x \div 2^a
  BY DEF SliceEnds
<1>1. 2^m \in Nat \ {0} /\ x \div 2^a \in Nat
  BY PowerType, SliceType
<1>2. \A y \in Nat : y < 2^m => y % 2^m = y
  <2> SUFFICES ASSUME NEW y \in Nat, y < 2^m PROVE y % 2^m = y
    OBVIOUS
  <2>1. y = 0 * 2^m + y /\ y \in 0..(2^m - 1)
    BY <1>1
  <2>2. (0 * 2^m + y) % 2^m = y
    BY <1>1, <2>1, Division
  <2> QED BY <2>1, <2>2
<1>3. CASE a >= t
  <2>1. x \div 2^a = 0
    BY <1>3, SmallQuotient
  <2>2. 0 % 2^m = 0
    BY <1>1, <1>2
  <2> QED BY <2>1, <2>2 DEF Slice
<1>4. CASE a < t
  <2>1. x \div 2^a < 2^(t - a)
    BY <1>4, SmallQuotient
  <2>2. ASSUME a + m >= t PROVE Slice(x, a, m) = x \div 2^a
    <3>1. t - a \in Nat /\ m - (t - a) \in Nat /\ m = (t - a) + (m - (t - a))
      BY <1>4, <2>2
    <3>2. 2^m = 2^(t - a) * 2^(m - (t - a)) /\ 2^(m - (t - a)) \in Nat \ {0} /\ 2^(t - a) \in Nat
      <4> DEFINE u == t - a
                 v == m - u
      <4>1. u \in Nat /\ v \in Nat /\ m = u + v
        BY <3>1
      <4> HIDE DEF u, v
      <4>2. 2^m = 2^u * 2^v /\ 2^v \in Nat \ {0} /\ 2^u \in Nat
        BY <4>1, PowerOfSum, PowerType
      <4> QED BY <4>2 DEF u, v
    <3>3. 2^m >= 2^(t - a)
      BY <3>2
    <3>4. x \div 2^a < 2^m
      BY <1>1, <2>1, <3>2, <3>3
    <3> QED BY <1>1, <1>2, <3>4 DEF Slice
  <2> QED BY <1>4, <2>2
<1> QED BY <1>3, <1>4

(* The bits of y behind those of x.                                        *)
JoinLaws(x, t, y, a, m) ==
    /\ a + m <= t => Slice(x + y * 2^t, a, m) = Slice(x, a, m)
    /\ Slice(x + y * 2^t, t + a, m) = Slice(y, a, m)

LEMMA SliceOfJoin ==
    \A x, t, y, a, m \in Nat : x < 2^t => JoinLaws(x, t, y, a, m)
<1> SUFFICES ASSUME NEW x \in Nat, NEW t \in Nat, x < 2^t, NEW y \in Nat,
                    NEW a \in Nat, NEW m \in Nat
             PROVE  JoinLaws(x, t, y, a, m)
  OBVIOUS
<1> DEFINE z == x + y * 2^t
<1>1. 2^t \in Nat \ {0}
  BY PowerType
<1>2. z \in Nat /\ z = y * 2^t + x /\ x \in 0..(2^t - 1)
  BY <1>1
<1>3. (y * 2^t + x) \div 2^t = y /\ (y * 2^t + x) % 2^t = x
  BY <1>1, <1>2, Division
<1>4. z \div 2^t = y /\ Slice(z, 0, t) = x
  <2>1. z \div 2^0 = z
    BY <1>2, PowerOfZero
  <2> HIDE DEF z
  <2> QED BY <1>2, <1>3, <2>1 DEF Slice
<1> HIDE DEF z
<1>5. Slice(z, t + a, m) = Slice(y, a, m)
  <2>1. QuotientSlice(z, t, a, m)
    BY <1>2, SliceOfQuotient
  <2> QED BY <1>4, <2>1 DEF QuotientSlice
<1>6. ASSUME a + m <= t PROVE Slice(z, a, m) = Slice(x, a, m)
  <2> DEFINE u == t - a
             v == u - m
  <2>1. u \in Nat /\ v \in Nat /\ a + u = t /\ m + v = u /\ 0 \in Nat /\ 0 + a = a
    BY <1>6
  <2> HIDE DEF u, v
  <2>2. SliceLaws(z, 0, a, u) /\ SliceLaws(z, a, m, v)
    BY <1>2, <2>1, SliceSplits
  <2>3. Slice(z, 0, t) \div 2^a = Slice(z, a, u)
    BY <2>1, <2>2 DEF SliceLaws
  <2>4. Slice(z, a, u) % 2^m = Slice(z, a, m)
    BY <2>1, <2>2 DEF SliceLaws
  <2> QED BY <1>4, <2>3, <2>4 DEF Slice
<1> QED BY <1>5, <1>6 DEF z, JoinLaws

-------------------------------------------------------------------------------
(* The widths of the first n of the fields f, added up as in TotalBits: the *)
(* recursion has a solution, and only one.                                 *)
IsTotal(s, f, n) == s = [i \in 0..n |-> IF i = 0 THEN 0 ELSE s[i - 1] + f[i][2]]

Total(f, n) ==
    LET Sum[i \in 0..n] == IF i = 0 THEN 0 ELSE Sum[i - 1] + f[i][2]
    IN  Sum[n]

LEMMA TotalExists ==
    ASSUME NEW f, NEW n \in Nat
    PROVE  \E s : IsTotal(s, f, n)
<1> DEFINE S == {m \in Nat : \E s : IsTotal(s, f, m)}
<1>1. 0 \in S
  <2> DEFINE s == [i \in 0..0 |-> 0]
  <2>1. IsTotal(s, f, 0)
    BY DEF IsTotal
  <2> HIDE DEF s
  <2> QED BY <2>1
<1>2. ASSUME NEW m \in S PROVE m + 1 \in S
  <2>1. PICK s : IsTotal(s, f, m)
    OBVIOUS
  <2> DEFINE t == [i \in 0..(m + 1) |-> IF i <= m THEN s[i] ELSE s[m] + f[i][2]]
  <2>2. ASSUME NEW i \in 0..(m + 1)
        PROVE  t[i] = IF i = 0 THEN 0 ELSE t[i - 1] + f[i][2]
    <3>1. CASE i = 0
      BY <2>1, <3>1 DEF IsTotal
    <3>2. CASE i \in 1..m
      <4>1. i \in 0..m /\ i - 1 \in 0..m /\ i - 1 \in 0..(m + 1) /\ i # 0 /\ i - 1 <= m /\ i <= m
        BY <3>2
      <4>2. s[i] = s[i - 1] + f[i][2]
        BY <2>1, <4>1 DEF IsTotal
      <4> QED BY <4>1, <4>2
    <3>3. CASE i = m + 1
      <4>1. i - 1 = m /\ m \in 0..(m + 1) /\ i # 0 /\ ~(i <= m)
        BY <3>3
      <4> QED BY <4>1
    <3> QED BY <3>1, <3>2, <3>3
  <2>3. t = [i \in 0..(m + 1) |-> IF i = 0 THEN 0 ELSE t[i - 1] + f[i][2]]
    BY <2>2
  <2>4. IsTotal(t, f, m + 1)
    BY <2>3 DEF IsTotal
  <2> QED BY <2>4
<1>3. S \in SUBSET Nat
  OBVIOUS
<1> HIDE DEF S
<1>4. S = Nat
  BY <1>1, <1>2, <1>3, SetInduction
<1> QED BY <1>4 DEF S

SameWidths(f, g, n) == \A i \in 1..n : f[i][2] = g[i][2]

LEMMA TotalsAgree ==
    ASSUME NEW f, NEW g, NEW n \in Nat, SameWidths(f, g, n),
           NEW m \in Nat, n <= m, NEW s, IsTotal(s, f, n), NEW t, IsTotal(t, g, m)
    PROVE  s[n] = t[n]
<1> DEFINE S == {i \in Nat : i <= n => s[i] = t[i]}
<1>1. 0 \in S
  BY DEF IsTotal
<1>2. ASSUME NEW i \in S PROVE i + 1 \in S
  <2> SUFFICES ASSUME i + 1 <= n PROVE s[i + 1] = t[i + 1]
    OBVIOUS
  <2>1. /\ i + 1 \in 0..n /\ i + 1 \in 0..m /\ i + 1 # 0 /\ (i + 1) - 1 = i
        /\ i + 1 \in 1..n /\ s[i] = t[i]
    OBVIOUS
  <2>2. s[i + 1] = s[i] + f[i + 1][2]
    BY <2>1 DEF IsTotal
  <2>3. t[i + 1] = t[i] + g[i + 1][2]
    BY <2>1 DEF IsTotal
  <2>4. f[i + 1][2] = g[i + 1][2]
    BY <2>1 DEF SameWidths
  <2> QED BY <2>1, <2>2, <2>3, <2>4
<1>3. S \in SUBSET Nat
  OBVIOUS
<1> HIDE DEF S
<1>4. S = Nat
  BY <1>1, <1>2, <1>3, SetInduction
<1> QED BY <1>4 DEF S

LEMMA TotalIsTotal ==
    ASSUME NEW f, NEW n \in Nat
    PROVE  \E s : IsTotal(s, f, n) /\ Total(f, n) = s[n]
<1> DEFINE s == CHOOSE s : IsTotal(s, f, n)
<1>1. IsTotal(s, f, n)
  BY TotalExists
<1>2. Total(f, n) = s[n]
  BY DEF Total, IsTotal
<1> HIDE DEF s
<1> QED BY <1>1, <1>2

(* The widths of no field, of one more, and of the same fields.            *)
LEMMA TotalOfNone == \A f : Total(f, 0) = 0
<1> SUFFICES ASSUME NEW f PROVE Total(f, 0) = 0
  OBVIOUS
<1>1. PICK s : IsTotal(s, f, 0) /\ Total(f, 0) = s[0]
  BY TotalIsTotal
<1> QED BY <1>1 DEF IsTotal

LEMMA TotalOfSame ==
    \A f, g : \A n \in Nat : SameWidths(f, g, n) => Total(f, n) = Total(g, n)
<1> SUFFICES ASSUME NEW f, NEW g, NEW n \in Nat, SameWidths(f, g, n)
             PROVE  Total(f, n) = Total(g, n)
  OBVIOUS
<1>1. PICK s : IsTotal(s, f, n) /\ Total(f, n) = s[n]
  BY TotalIsTotal
<1>2. PICK t : IsTotal(t, g, n) /\ Total(g, n) = t[n]
  BY TotalIsTotal
<1>3. n <= n
  OBVIOUS
<1> QED BY <1>1, <1>2, <1>3, TotalsAgree

LEMMA TotalOfNext == \A f : \A n \in Nat : Total(f, n + 1) = Total(f, n) + f[n + 1][2]
<1> SUFFICES ASSUME NEW f, NEW n \in Nat PROVE Total(f, n + 1) = Total(f, n) + f[n + 1][2]
  OBVIOUS
<1>1. PICK s : IsTotal(s, f, n) /\ Total(f, n) = s[n]
  BY TotalIsTotal
<1>2. PICK t : IsTotal(t, f, n + 1) /\ Total(f, n + 1) = t[n + 1]
  BY TotalIsTotal
<1>3. s[n] = t[n]
  <2> DEFINE m == n + 1
  <2>1. m \in Nat /\ n <= m /\ IsTotal(t, f, m) /\ IsTotal(s, f, n)
    BY <1>1, <1>2
  <2>2. SameWidths(f, f, n)
    BY DEF SameWidths
  <2> HIDE DEF m
  <2> QED BY <2>1, <2>2, TotalsAgree
<1>4. t[n + 1] = t[n] + f[n + 1][2]
  <2>1. n + 1 \in 0..(n + 1) /\ n + 1 # 0 /\ (n + 1) - 1 = n
    OBVIOUS
  <2> QED BY <1>2, <2>1 DEF IsTotal
<1> QED BY <1>1, <1>2, <1>3, <1>4

LEMMA TotalIsTotalBits == \A n : TotalBits(n) = Total(fields, n)
BY DEF TotalBits, Total

-------------------------------------------------------------------------------
(* The writer w holds the T bits of the number N: its bytes are those of N, *)
(* from the low one, and the byte under construction has the bits behind.  *)
Holds(w, N, T) ==
    /\ w.offset \in 0..(ByteBits - 1)
    /\ w.out \in Seq(Nat)
    /\ ByteBits * Len(w.out) + w.offset = T
    /\ w.state = Slice(N, ByteBits * Len(w.out), w.offset)
    /\ \A j \in 1..Len(w.out) : w.out[j] = Slice(N, ByteBits * (j - 1), ByteBits)

(* The field val of so many bits behind the T bits of N.                   *)
Behind(N, T, val) == N + val * 2^T

LEMMA BehindLaws ==
    ASSUME NEW N \in Nat, NEW T \in Nat, N < 2^T,
           NEW val \in Nat, NEW bits \in Nat, val < 2^bits
    PROVE  /\ Behind(N, T, val) \in Nat
           /\ Behind(N, T, val) < 2^(T + bits)
           /\ \A a, m \in Nat : JoinLaws(N, T, val, a, m)
<1>1. 2^T \in Nat \ {0} /\ 2^bits \in Nat \ {0} /\ 2^(T + bits) = 2^T * 2^bits
  BY PowerType, PowerOfSum
<1>2. Behind(N, T, val) \in Nat /\ Behind(N, T, val) < 2^(T + bits)
  <2> DEFINE d == 2^T
             e == 2^bits
  <2>1. d \in Nat \ {0} /\ e \in Nat \ {0} /\ N < d /\ val < e /\ 2^(T + bits) = d * e
    BY <1>1
  <2> HIDE DEF d, e
  <2>2. (e - 1 - val) * d >= 0
    BY <2>1
  <2>3. (e - 1 - val) * d = d * e - d - val * d
    BY <2>1
  <2>4. val * d \in Nat /\ d * e \in Nat
    BY <2>1
  <2>5. N + val * d \in Nat /\ N + val * d < d * e
    BY <2>1, <2>2, <2>3, <2>4
  <2> QED BY <2>1, <2>5 DEF d, Behind
<1> QED BY <1>2, SliceOfJoin

(* What a writer that holds N sees of the number with the field behind it. *)
LEMMA HoldsStill ==
    ASSUME NEW N \in Nat, NEW T \in Nat, N < 2^T,
           NEW val \in Nat, NEW bits \in Nat, val < 2^bits,
           NEW w, Holds(w, N, T)
    PROVE  Holds(w, Behind(N, T, val), T)
<1> DEFINE M == Behind(N, T, val)
           L == Len(w.out)
<1>1. \A a, m \in Nat : JoinLaws(N, T, val, a, m)
  BY BehindLaws
<1>2. L \in Nat /\ w.offset \in Nat /\ ByteBits \in Nat \ {0} /\ ByteBits * L + w.offset = T
  BY StreamAssumption DEF Holds
<1>3. ByteBits * L \in Nat
  BY <1>2
<1>4. Slice(M, ByteBits * L, w.offset) = Slice(N, ByteBits * L, w.offset)
  <2> DEFINE a == ByteBits * L
             m == w.offset
  <2>1. a \in Nat /\ m \in Nat /\ a + m <= T
    BY <1>2, <1>3
  <2> HIDE DEF a, m
  <2>2. JoinLaws(N, T, val, a, m)
    BY <1>1, <2>1
  <2> QED BY <2>1, <2>2 DEF JoinLaws, Behind, a, m
<1>5. ASSUME NEW j \in 1..L
      PROVE  Slice(M, ByteBits * (j - 1), ByteBits) = Slice(N, ByteBits * (j - 1), ByteBits)
  <2> DEFINE a == ByteBits * (j - 1)
  <2>1. a \in Nat
    BY <1>2
  <2>2. ByteBits * (L - j) \in Nat /\ ByteBits * (L - j) = ByteBits * L - a - ByteBits
    <3> DEFINE i == L - j
               k == j - 1
    <3>1. i \in Nat /\ k \in Nat /\ L = i + k + 1 /\ ByteBits \in Nat
      BY <1>2
    <3> HIDE DEF i, k, L
    <3>2. ByteBits * (i + k + 1) = ByteBits * i + ByteBits * k + ByteBits
      BY <3>1
    <3>3. ByteBits * i \in Nat /\ ByteBits * k \in Nat
      BY <3>1
    <3>4. ByteBits * i = ByteBits * L - ByteBits * k - ByteBits
      BY <3>1, <3>2, <3>3
    <3> QED BY <3>3, <3>4 DEF i, k
  <2>3. a + ByteBits <= T
    BY <1>2, <1>3, <2>1, <2>2
  <2> HIDE DEF a
  <2>4. JoinLaws(N, T, val, a, ByteBits)
    BY <1>1, <1>2, <2>1
  <2> QED BY <2>3, <2>4 DEF JoinLaws, Behind, a
<1> HIDE DEF M
<1> QED BY <1>4, <1>5 DEF Holds, M

(* FillState completes the byte, if the field reaches its end.             *)
Filled(f, M, T, val, bits) ==
    /\ f.bits \in 0..bits
    /\ f.val = val \div 2^(bits - f.bits)
    /\ Holds(f.w, M, T + (bits - f.bits))
    /\ f.w.offset = 0 \/ f.w.offset + f.bits < ByteBits

LEMMA FillStateHolds ==
    ASSUME NEW N \in Nat, NEW T \in Nat, N < 2^T,
           NEW val \in Nat, NEW bits \in Nat, val < 2^bits,
           NEW w, Holds(w, N, T)
    PROVE  Filled(FillState(w, val, bits), Behind(N, T, val), T, val, bits)
<1> DEFINE M == Behind(N, T, val)
           f == FillState(w, val, bits)
           L == Len(w.out)
           room == ByteBits - w.offset
<1>1. Holds(w, M, T) /\ M \in Nat
  BY HoldsStill, BehindLaws
<1>2. /\ L \in Nat /\ w.offset \in 0..(ByteBits - 1) /\ ByteBits \in Nat \ {0}
      /\ ByteBits * L + w.offset = T /\ ByteBits * L \in Nat
  BY StreamAssumption DEF Holds
<1>0. val \div 2^0 = val
  BY PowerOfZero
<1>3. CASE bits + w.offset >= ByteBits
  <2> DEFINE byte == Join(w.state, Low(val, room), w.offset)
  <2>1. /\ room \in Nat \ {0} /\ room <= bits /\ w.offset + room = ByteBits
        /\ bits - room \in 0..bits /\ bits - (bits - room) = room
    <3>1. w.offset \in Nat /\ w.offset < ByteBits /\ ByteBits \in Nat
      BY <1>2
    <3> QED BY <1>3, <3>1
  <2>2. /\ f.bits = bits - room /\ f.val = val \div 2^room /\ f.w.state = 0
        /\ f.w.offset = 0 /\ f.w.out = Append(w.out, byte)
    BY <1>3 DEF FillState
  <2>3. byte = Slice(M, ByteBits * L, ByteBits)
    <3> DEFINE a == ByteBits * L
               m == w.offset
    <3>1. a \in Nat /\ m \in Nat /\ a + m = T /\ room \in Nat /\ m + room = ByteBits
      BY <1>2, <2>1
    <3>2. w.state = Slice(M, a, m)
      BY <1>1 DEF Holds
    <3> HIDE DEF a, m, room, M
    <3>3. SliceLaws(M, a, m, room)
      BY <1>1, <3>1, SliceSplits
    <3>4. JoinLaws(N, T, val, 0, room)
      BY <3>1, SliceOfJoin
    <3>5. Slice(M, T, room) = Slice(val, 0, room)
      <4>1. T + 0 = T
        OBVIOUS
      <4> QED BY <3>4, <4>1 DEF JoinLaws, Behind, M
    <3>6. Slice(val, 0, room) = Low(val, room)
      BY <1>0 DEF Slice, Low
    <3>7. byte = Slice(M, a, m) + Slice(M, a + m, room) * 2^m
      BY <3>1, <3>2, <3>5, <3>6 DEF Join, m
    <3>8. byte = Slice(M, a, ByteBits)
      <4> HIDE DEF byte
      <4> QED BY <3>1, <3>3, <3>7 DEF SliceLaws
    <3> QED BY <3>8 DEF a
  <2>4. byte \in Nat
    <3> DEFINE a == ByteBits * L
    <3>1. a \in Nat /\ ByteBits \in Nat
      BY <1>2
    <3>2. byte = Slice(M, a, ByteBits)
      BY <2>3
    <3> HIDE DEF a, byte, M
    <3> QED BY <1>1, <3>1, <3>2, SliceType
  <2> HIDE DEF byte, f, room, M
  <2>5. w.out \in Seq(Nat)
    BY <1>1 DEF Holds
  <2>6. /\ f.w.out \in Seq(Nat) /\ Len(f.w.out) = L + 1
        /\ \A j \in 1..L : f.w.out[j] = w.out[j]
        /\ f.w.out[L + 1] = byte
    BY <2>2, <2>4, <2>5
  <2>7. ByteBits * (L + 1) = T + room /\ ByteBits * (L + 1) \in Nat
    <3> DEFINE a == ByteBits * L
               b == ByteBits * (L + 1)
    <3>1. b = a + ByteBits
      BY <1>2
    <3>2. a \in Nat /\ a + w.offset = T /\ ByteBits \in Nat /\ w.offset + room = ByteBits
      BY <1>2, <2>1
    <3>3. w.offset \in Nat /\ room \in Nat
      BY <1>2, <2>1
    <3> HIDE DEF a, b
    <3>4. b = T + room /\ b \in Nat
      BY <3>1, <3>2, <3>3
    <3> QED BY <3>4 DEF b
  <2>8. Slice(M, ByteBits * (L + 1), 0) = 0
    BY <1>1, <2>7, SliceOfNothing
  <2>9. \A j \in 1..(L + 1) : f.w.out[j] = Slice(M, ByteBits * (j - 1), ByteBits)
    <3>1. \A j \in 1..L : f.w.out[j] = Slice(M, ByteBits * (j - 1), ByteBits)
      BY <1>1, <2>6 DEF Holds
    <3>2. f.w.out[L + 1] = Slice(M, ByteBits * ((L + 1) - 1), ByteBits)
      <4>1. (L + 1) - 1 = L
        BY <1>2
      <4> QED BY <2>3, <2>6, <4>1
    <3>3. \A j \in 1..(L + 1) : j \in 1..L \/ j = L + 1
      BY <1>2
    <3> QED BY <3>1, <3>2, <3>3
  <2>10. Holds(f.w, M, T + room)
    <3>1. 0 \in 0..(ByteBits - 1)
      BY <1>2
    <3>2. ByteBits * (L + 1) + 0 = T + room
      BY <2>7
    <3> QED BY <2>2, <2>6, <2>8, <2>9, <3>1, <3>2 DEF Holds
  <2> QED BY <2>1, <2>2, <2>10 DEF Filled, f, M
<1>4. CASE ~(bits + w.offset >= ByteBits)
  <2>1. f.bits = bits /\ f.val = val /\ f.w = w
    BY <1>4 DEF FillState
  <2>2. bits - bits = 0 /\ T + 0 = T /\ bits \in 0..bits /\ w.offset + bits < ByteBits
    BY <1>2, <1>4
  <2> HIDE DEF f, M
  <2> QED BY <1>0, <1>1, <2>1, <2>2 DEF Filled, f, M
<1> QED BY <1>3, <1>4

-------------------------------------------------------------------------------
(* The whole bytes and the rest of so many bits.                           *)
WholeBytesLaw(x) ==
    /\ x \div ByteBits \in Nat /\ x % ByteBits \in 0..(ByteBits - 1)
    /\ x = ByteBits * (x \div ByteBits) + (x % ByteBits)
    /\ x < ByteBits => x \div ByteBits = 0 /\ x % ByteBits = x

LEMMA WholeBytes == \A x \in Nat : WholeBytesLaw(x)
<1> SUFFICES ASSUME NEW x \in Nat PROVE WholeBytesLaw(x)
  OBVIOUS
<1>1. ByteBits \in Nat \ {0}
  BY StreamAssumption
<1>2. /\ x \div ByteBits \in Nat /\ x % ByteBits \in 0..(ByteBits - 1)
      /\ x = ByteBits * (x \div ByteBits) + (x % ByteBits)
  BY <1>1
<1>3. ASSUME x < ByteBits PROVE x \div ByteBits = 0 /\ x % ByteBits = x
  <2>1. x = 0 * ByteBits + x /\ x \in 0..(ByteBits - 1)
    BY <1>1, <1>3
  <2>2. (0 * ByteBits + x) \div ByteBits = 0 /\ (0 * ByteBits + x) % ByteBits = x
    BY <1>1, <2>1, Division
  <2> QED BY <2>1, <2>2
<1> QED BY <1>2, <1>3 DEF WholeBytesLaw

(* One sequence of bytes behind another. *)
BytesJoined(s, t) ==
    /\ s \o t \in Seq(Nat) /\ Len(s \o t) = Len(s) + Len(t)
    /\ \A j \in 1..(Len(s) + Len(t)) :
          (s \o t)[j] = IF j <= Len(s) THEN s[j] ELSE t[j - Len(s)]

LEMMA BytesJoin == \A s, t \in Seq(Nat) : BytesJoined(s, t)
<1> SUFFICES ASSUME NEW s \in Seq(Nat), NEW t \in Seq(Nat)
             PROVE  BytesJoined(s, t)
  OBVIOUS
<1> QED BY ConcatProperties DEF BytesJoined

LEMMA WriteFieldHolds ==
    ASSUME NEW N \in Nat, NEW T \in Nat, N < 2^T,
           NEW val \in Nat, NEW bits \in Nat, val < 2^bits,
           NEW w, Holds(w, N, T)
    PROVE  Holds(WriteField(w, val, bits), Behind(N, T, val), T + bits)
<1> DEFINE M == Behind(N, T, val)
           f == FillState(w, val, bits)
           c == bits - f.bits
           L == Len(f.w.out)
           n == f.bits \div ByteBits
           rest == f.bits % ByteBits
           U == T + c
           left == Low(f.val \div 2^(ByteBits * n), rest)
           bytes == LowBytes(f.val, n)
           res == WriteField(w, val, bits)
<1>1. /\ M \in Nat
      /\ \A a, m \in Nat : JoinLaws(N, T, val, a, m)
  BY BehindLaws
<1>2. Filled(f, M, T, val, bits)
  BY FillStateHolds
<1>3. /\ res.state = Join(f.w.state, left, f.w.offset)
      /\ res.offset = f.w.offset + rest
      /\ res.out = f.w.out \o bytes
  BY DEF WriteField
<1> HIDE DEF f, M, res
<1>4. f.bits \in Nat /\ c \in Nat /\ T + bits = U + f.bits /\ f.val = val \div 2^c
  BY <1>2 DEF Filled
<1>5. n \in Nat /\ rest \in 0..(ByteBits - 1) /\ f.bits = ByteBits * n + rest
  BY <1>4, WholeBytes DEF WholeBytesLaw
<1>6. Holds(f.w, M, U) /\ (f.w.offset = 0 \/ f.w.offset + f.bits < ByteBits)
  BY <1>2 DEF Filled
<1>7. /\ L \in Nat /\ f.w.offset \in 0..(ByteBits - 1) /\ ByteBits \in Nat \ {0}
      /\ ByteBits * L + f.w.offset = U /\ f.w.out \in Seq(Nat)
      /\ f.w.state = Slice(M, ByteBits * L, f.w.offset)
  BY <1>6, StreamAssumption DEF Holds
<1> HIDE DEF n, rest, c, L
<1>8. ByteBits * L \in Nat /\ ByteBits * n \in Nat /\ U \in Nat
  <2>1. ByteBits * L \in Nat
    BY <1>7
  <2>2. ByteBits * n \in Nat
    BY <1>5, <1>7
  <2>3. U \in Nat
    BY <1>4
  <2> QED BY <2>1, <2>2, <2>3
(* what is left of the value is the number from the end of the byte on *)
<1>9. ASSUME NEW a \in Nat, NEW m \in Nat
      PROVE  Low(f.val \div 2^a, m) = Slice(M, U + a, m)
  <2>1. QuotientSlice(val, c, a, m)
    BY <1>4, SliceOfQuotient
  <2>2. Slice(f.val, a, m) = Slice(val, c + a, m)
    BY <1>4, <2>1 DEF QuotientSlice
  <2> DEFINE b == c + a
  <2>3. b \in Nat /\ T + b = U + a
    BY <1>4
  <2> HIDE DEF b
  <2>4. JoinLaws(N, T, val, b, m)
    BY <1>1, <2>3
  <2>5. Slice(M, U + a, m) = Slice(val, b, m)
    BY <2>3, <2>4 DEF JoinLaws, Behind, M
  <2> QED BY <2>2, <2>5 DEF b, Slice, Low
<1>10. left = Slice(M, U + ByteBits * n, rest)
  BY <1>5, <1>8, <1>9
<1>11. Len(bytes) = n /\ bytes \in Seq(Nat)
  <2>1. ASSUME NEW i \in 1..n PROVE Low(f.val \div 2^(ByteBits * (i - 1)), ByteBits) \in Nat
    <3> DEFINE a == ByteBits * (i - 1)
    <3>1. a \in Nat
      BY <1>5, <1>7
    <3> HIDE DEF a
    <3> DEFINE b == U + a
    <3>4. b \in Nat
      BY <1>8, <3>1
    <3> HIDE DEF b
    <3>2. Slice(M, b, ByteBits) \in Nat
      BY <1>1, <1>7, <3>4, SliceType
    <3>3. Low(f.val \div 2^a, ByteBits) = Slice(M, U + a, ByteBits)
      BY <1>7, <1>9, <3>1
    <3> QED BY <3>2, <3>3 DEF a, b
  <2> QED BY <1>5, <2>1 DEF LowBytes
<1>12. ASSUME NEW i \in 1..n
       PROVE  bytes[i] = Slice(M, ByteBits * ((L + i) - 1), ByteBits)
  <2> DEFINE a == ByteBits * (i - 1)
             k == i - 1
  <2>1. k \in Nat /\ i = k + 1
    BY <1>5
  <2>2. a \in Nat /\ f.w.offset = 0
    <3>1. a \in Nat
      BY <1>7, <2>1
    <3>2. n # 0
      BY <1>5
    <3>3. f.w.offset = 0 \/ f.bits < ByteBits
      <4>1. f.w.offset \in Nat /\ f.bits \in Nat /\ ByteBits \in Nat
        BY <1>4, <1>7
      <4> QED BY <1>6, <4>1
    <3>4. f.bits < ByteBits => n = 0
      BY <1>4, WholeBytes DEF WholeBytesLaw, n
    <3> QED BY <3>1, <3>2, <3>3, <3>4
  <2>3. U + a = ByteBits * ((L + i) - 1)
    <3>1. (L + i) - 1 = L + k
      BY <1>7, <2>1
    <3>2. ByteBits * (L + k) = ByteBits * L + ByteBits * k
      BY <1>7, <2>1
    <3>3. U = ByteBits * L
      BY <1>7, <1>8, <2>2
    <3> QED BY <3>1, <3>2, <3>3
  <2>4. bytes[i] = Low(f.val \div 2^a, ByteBits)
    BY <1>5 DEF LowBytes
  <2> HIDE DEF a, bytes
  <2>5. Low(f.val \div 2^a, ByteBits) = Slice(M, U + a, ByteBits)
    BY <1>7, <1>9, <2>2
  <2> QED BY <2>3, <2>4, <2>5
<1> HIDE DEF bytes, left, U
<1>13. /\ res.out \in Seq(Nat) /\ Len(res.out) = L + n
       /\ \A j \in 1..L : res.out[j] = f.w.out[j]
       /\ \A i \in 1..n : res.out[L + i] = bytes[i]
  <2> DEFINE whole == f.w.out
  <2>1. whole \in Seq(Nat) /\ Len(whole) = L /\ res.out = whole \o bytes
    BY <1>3, <1>7 DEF L
  <2> HIDE DEF whole
  <2>2. /\ res.out \in Seq(Nat) /\ Len(res.out) = L + n
        /\ \A j \in 1..(L + n) : res.out[j] = IF j <= L THEN whole[j] ELSE bytes[j - L]
    <3>1. BytesJoined(whole, bytes)
      BY <1>11, <2>1, BytesJoin
    <3> QED BY <1>11, <2>1, <3>1 DEF BytesJoined
  <2>3. \A j \in 1..L : res.out[j] = whole[j]
    BY <1>5, <1>7, <2>2
  <2>4. ASSUME NEW i \in 1..n PROVE res.out[L + i] = bytes[i]
    <3>1. L + i \in 1..(L + n) /\ ~(L + i <= L) /\ (L + i) - L = i
      BY <1>5, <1>7
    <3> QED BY <2>2, <3>1
  <2> QED BY <2>2, <2>3, <2>4 DEF whole
<1>14. \A j \in 1..(L + n) : res.out[j] = Slice(M, ByteBits * (j - 1), ByteBits)
  <2>1. \A j \in 1..L : res.out[j] = Slice(M, ByteBits * (j - 1), ByteBits)
    BY <1>6, <1>13 DEF Holds, L
  <2>2. ASSUME NEW j \in 1..(L + n), ~(j <= L)
        PROVE  res.out[j] = Slice(M, ByteBits * (j - 1), ByteBits)
    <3> DEFINE i == j - L
    <3>1. i \in 1..n /\ L + i = j
      BY <1>5, <1>7, <2>2
    <3> HIDE DEF i
    <3> QED BY <1>12, <1>13, <3>1
  <2>3. \A j \in 1..(L + n) : j \in 1..L \/ ~(j <= L)
    BY <1>5, <1>7
  <2> QED BY <2>1, <2>2, <2>3
<1>15. ByteBits * (L + n) = ByteBits * L + ByteBits * n
  BY <1>5, <1>7
<1>16. /\ res.offset \in 0..(ByteBits - 1)
       /\ ByteBits * (L + n) + res.offset = T + bits
       /\ res.state = Slice(M, ByteBits * (L + n), res.offset)
  <2>1. CASE f.w.offset = 0
    <3>1. f.w.state = 0
      BY <1>1, <1>7, <1>8, <2>1, SliceOfNothing
    <3>2. U = ByteBits * L /\ U + ByteBits * n = ByteBits * (L + n) /\ res.offset = rest
      BY <1>3, <1>5, <1>7, <1>8, <1>15, <2>1
    <3>3. left \in Nat
      <4> DEFINE b == U + ByteBits * n
      <4>1. b \in Nat /\ rest \in Nat /\ left = Slice(M, b, rest)
        BY <1>5, <1>8, <1>10
      <4> HIDE DEF b
      <4> QED BY <1>1, <4>1, SliceType
    <3>4. res.state = left
      <4>1. 0 + left * 2^0 = left
        BY <3>3, PowerOfZero
      <4> QED BY <1>3, <2>1, <3>1, <4>1 DEF Join
    <3> QED BY <1>4, <1>5, <1>8, <1>10, <3>2, <3>4
  <2>2. CASE f.w.offset + f.bits < ByteBits
    <3>1. f.bits < ByteBits
      BY <1>4, <1>7, <2>2
    <3>2. n = 0 /\ rest = f.bits
      BY <1>4, <3>1, WholeBytes DEF WholeBytesLaw, n, rest
    <3>3. ByteBits * n = 0 /\ U + ByteBits * n = U
      BY <1>7, <1>8, <3>2
    <3> DEFINE a == ByteBits * L
               m == f.w.offset
    <3>4. a \in Nat /\ m \in Nat /\ a + m = U /\ rest \in Nat
      BY <1>5, <1>7, <1>8
    <3>5. res.state = Slice(M, a, m) + Slice(M, a + m, rest) * 2^m
      BY <1>3, <1>7, <1>10, <3>3, <3>4 DEF Join
    <3> HIDE DEF a, m
    <3>6. SliceLaws(M, a, m, rest)
      BY <1>1, <3>4, SliceSplits
    <3>7. res.state = Slice(M, a, m + rest)
      BY <3>5, <3>6 DEF SliceLaws
    <3>8. res.offset = m + rest /\ ByteBits * (L + n) = a
      BY <1>3, <1>8, <1>15, <3>3 DEF a, m
    <3>9. res.offset \in 0..(ByteBits - 1)
      <4>1. m + rest < ByteBits /\ m \in Nat /\ rest \in Nat /\ ByteBits \in Nat
        BY <1>7, <2>2, <3>2, <3>4 DEF m
      <4> QED BY <3>8, <4>1
    <3>10. a + (m + rest) = T + bits
      BY <1>4, <3>2, <3>4
    <3> QED BY <3>7, <3>8, <3>9, <3>10
  <2> QED BY <1>6, <2>1, <2>2
<1>17. T + bits \in Nat
  OBVIOUS
<1> QED
  <2>1. Len(res.out) = L + n
    BY <1>13
  <2>2. Holds(res, M, T + bits)
    BY <1>13, <1>14, <1>16, <2>1 DEF Holds
  <2> QED BY <2>2 DEF res, M

-------------------------------------------------------------------------------
QuotientLaw(q, d, r) == (q * d + r) \div d = q

LEMMA Quotients ==
    \A d \in Nat \ {0} : \A q \in Nat : \A r \in 0..(d - 1) : QuotientLaw(q, d, r)
BY Division DEF QuotientLaw

(* The bytes of a number, zeros behind the last one.                       *)
BytesOf(in, N) ==
    \A i \in Nat \ {0} :
       (IF i <= Len(in) THEN in[i] ELSE 0) = Slice(N, ByteBits * (i - 1), ByteBits)

(* Flush writes as many bytes as the bits take, and they are the number.   *)
LEMMA FlushedBytes ==
    ASSUME NEW N \in Nat, NEW T \in Nat, N < 2^T, NEW w, Holds(w, N, T)
    PROVE  /\ Flushed(w).out \in Seq(Nat)
           /\ Len(Flushed(w).out) = (T + ByteBits - 1) \div ByteBits
           /\ BytesOf(Flushed(w).out, N)
           /\ Flushed(w).out = << >> => Flushed(w) = w
<1> DEFINE out == w.out
           L == Len(out)
           B == ByteBits
           in == Flushed(w).out
           K == Len(in)
<1>1. /\ B \in Nat \ {0} /\ L \in Nat /\ out \in Seq(Nat) /\ w.offset \in 0..(B - 1)
      /\ B * L + w.offset = T /\ w.state = Slice(N, B * L, w.offset)
      /\ \A j \in 1..L : out[j] = Slice(N, B * (j - 1), B)
  BY StreamAssumption DEF Holds
<1>2. B * L \in Nat
  BY <1>1
<1>3. /\ in \in Seq(Nat) /\ K \in Nat
      /\ \A j \in 1..K : in[j] = Slice(N, B * (j - 1), B)
      /\ K = (T + B - 1) \div B /\ B * K >= T
      /\ in = << >> => Flushed(w) = w
  <2>1. CASE w.offset = 0
    <3>1. in = out /\ Flushed(w) = w /\ K = L
      BY <2>1 DEF Flushed
    <3>2. T + B - 1 = L * B + (B - 1) /\ B - 1 \in 0..(B - 1) /\ B * L = T
      <4> DEFINE a == B * L
                 b == L * B
      <4>1. a \in Nat /\ a + 0 = T /\ b = a /\ B \in Nat \ {0}
        BY <1>1, <1>2, <2>1
      <4> HIDE DEF a, b, B
      <4>2. T + B - 1 = b + (B - 1) /\ B - 1 \in 0..(B - 1) /\ a = T
        BY <4>1
      <4> QED BY <4>2 DEF a, b
    <3>3. (L * B + (B - 1)) \div B = L
      <4> DEFINE r == B - 1
      <4>1. r \in 0..(B - 1)
        BY <3>2
      <4> HIDE DEF r, B, L
      <4>2. QuotientLaw(L, B, r)
        BY <1>1, <4>1, Quotients
      <4> QED BY <4>2 DEF r, QuotientLaw
    <3> HIDE DEF in, K, L, B
    <3> QED BY <1>1, <3>1, <3>2, <3>3
  <2>2. CASE w.offset # 0
    <3>0. w.offset \in Nat /\ w.offset > 0 /\ w.offset < B
      BY <1>1, <2>2
    <3>1. in = Append(out, w.state)
      BY <2>2 DEF Flushed
    <3>2. w.state = Slice(N, B * L, B) /\ w.state \in Nat
      <4> DEFINE a == B * L
                 m == w.offset
      <4>1. a \in Nat /\ m \in Nat /\ a + m = T /\ a + B >= T /\ w.state = Slice(N, a, m)
            /\ B \in Nat
        BY <1>1, <1>2, <3>0
      <4> HIDE DEF a, m, B
      <4>2. SliceEnds(N, T, a, m) /\ SliceEnds(N, T, a, B)
        BY <4>1, SliceBeyond
      <4>3. Slice(N, a, m) = Slice(N, a, B)
        BY <4>1, <4>2 DEF SliceEnds
      <4>4. Slice(N, a, m) \in Nat
        BY <4>1, SliceType
      <4> QED BY <4>1, <4>3, <4>4 DEF a
    <3> HIDE DEF B
    <3>3. in \in Seq(Nat) /\ K = L + 1 /\ in[L + 1] = w.state
          /\ \A j \in 1..L : in[j] = out[j]
      <4> HIDE DEF in, out
      <4> QED BY <1>1, <3>1, <3>2
    <3>4. in # << >>
      <4> HIDE DEF in, out
      <4>1. Len(<< >>) = 0 /\ K # 0
        BY <1>1, <3>3
      <4> QED BY <4>1
    <3> HIDE DEF in, K, L, out
    <3>5. ASSUME NEW j \in 1..K PROVE in[j] = Slice(N, B * (j - 1), B)
      <4>1. CASE j \in 1..L
        BY <1>1, <3>3, <4>1
      <4>2. CASE j = L + 1
        <5>1. (L + 1) - 1 = L
          BY <1>1
        <5> QED BY <3>2, <3>3, <4>2, <5>1
      <4> QED BY <1>1, <3>3, <4>1, <4>2
    <3>6. B * K >= T /\ K = (T + B - 1) \div B
      <4> DEFINE r == w.offset - 1
      <4>1. r \in 0..(B - 1) /\ K \in Int
        <5>1. K \in Int
          BY <1>1, <3>3
        <5>2. B \in Nat
          BY <1>1
        <5>3. r \in 0..(B - 1)
          BY <3>0, <5>2
        <5> QED BY <5>1, <5>3
      <4>2. K * B = B * L + B /\ B * K = B * L + B
        <5>1. (L + 1) * B = B * L + B /\ B * (L + 1) = B * L + B
          BY <1>1
        <5> QED BY <3>3, <5>1
      <4>3. T + B - 1 = K * B + r
        <5> DEFINE a == B * L
        <5>1. a \in Nat /\ a + w.offset = T /\ K * B = a + B /\ B \in Nat /\ w.offset \in Nat
          BY <1>1, <1>2, <3>0, <4>2
        <5> HIDE DEF a
        <5> QED BY <5>1
      <4> HIDE DEF r
      <4>4. QuotientLaw(K, B, r)
        BY <1>1, <3>3, <4>1, Quotients
      <4>5. B * K >= T
        BY <1>1, <1>2, <3>0, <4>2
      <4>6. (T + B - 1) \div B = K
        BY <4>3, <4>4 DEF QuotientLaw
      <4> QED BY <4>5, <4>6
    <3> QED BY <1>1, <3>3, <3>4, <3>5, <3>6
  <2> QED BY <2>1, <2>2
<1> HIDE DEF in, K, B, L, out
<1>4. ASSUME NEW i \in Nat \ {0}
      PROVE  (IF i <= K THEN in[i] ELSE 0) = Slice(N, B * (i - 1), B)
  <2>1. CASE i <= K
    BY <1>3, <2>1
  <2>2. CASE ~(i <= K)
    <3> DEFINE a == B * (i - 1)
               k == (i - 1) - K
    <3>1. k \in Nat /\ i - 1 = K + k
      BY <1>3, <2>2
    <3> HIDE DEF k
    <3>2. a = B * K + B * k /\ B * k \in Nat /\ B * K \in Nat
      <4>1. B * (K + k) = B * K + B * k
        BY <1>1, <1>3, <3>1
      <4>2. B * k \in Nat
        BY <1>1, <3>1
      <4>3. B * K \in Nat
        BY <1>1, <1>3
      <4> QED BY <3>1, <4>1, <4>2, <4>3
    <3>3. a \in Nat /\ a >= T
      BY <1>3, <3>2
    <3> HIDE DEF a
    <3>4. SliceEnds(N, T, a, B)
      BY <1>1, <3>3, SliceBeyond
    <3> QED BY <2>2, <3>3, <3>4 DEF SliceEnds, a
  <2> QED BY <2>1, <2>2
<1>5. BytesOf(in, N)
  BY <1>4 DEF BytesOf, K, B
<1> QED BY <1>3, <1>5 DEF in, K, B

-------------------------------------------------------------------------------
(* The reader r has read the R low bits of the number N: the bits left     *)
(* over are those behind them, up to the end of a byte, and its bytes are  *)
(* those of N.                                                             *)
ReaderType == [state : Nat, offset : 0..(ByteBits - 1), pos : Nat, in : Seq(Nat)]

Reads(r, N, R) ==
    /\ r \in ReaderType
    /\ ByteBits * r.pos - r.offset = R
    /\ r.state = Slice(N, R, r.offset)
    /\ BytesOf(r.in, N)

(* The bytes taken so far, as FromBytes joins them.                        *)
IsWhole(s, r, n) ==
    s = [i \in 0..n |->
           IF i = 0 THEN r.state
           ELSE Join(s[i - 1], ByteAt(r, r.pos + i), r.offset + ByteBits * (i - 1))]

LEMMA ByteIsSlice ==
    ASSUME NEW N \in Nat, NEW R \in Nat, NEW r, Reads(r, N, R), NEW i \in Nat
    PROVE  ByteAt(r, r.pos + (i + 1)) = Slice(N, R + (r.offset + ByteBits * i), ByteBits)
<1> DEFINE j == r.pos + (i + 1)
<1>1. r.pos \in Nat /\ r.offset \in Nat /\ ByteBits \in Nat /\ ByteBits * r.pos - r.offset = R
      /\ BytesOf(r.in, N)
  BY StreamAssumption DEF Reads, ReaderType
<1>2. j \in Nat \ {0} /\ j - 1 = r.pos + i
  BY <1>1
<1>3. ByteBits * (j - 1) = R + (r.offset + ByteBits * i)
  <2>1. ByteBits * (r.pos + i) = ByteBits * r.pos + ByteBits * i
    BY <1>1
  <2>2. ByteBits * r.pos \in Nat /\ ByteBits * i \in Nat
    BY <1>1
  <2> QED BY <1>1, <1>2, <2>1, <2>2
<1> HIDE DEF j
<1>4. ByteAt(r, j) = Slice(N, ByteBits * (j - 1), ByteBits)
  BY <1>1, <1>2 DEF ByteAt, BytesOf
<1> QED BY <1>3, <1>4 DEF j

LEMMA WholeIsSlice ==
    ASSUME NEW N \in Nat, NEW R \in Nat, NEW r, Reads(r, N, R), NEW n \in Nat
    PROVE  /\ \E s : IsWhole(s, r, n)
           /\ \A s : IsWhole(s, r, n) => s[n] = Slice(N, R, r.offset + ByteBits * n)
<1> DEFINE g == [i \in 0..n |-> Slice(N, R, r.offset + ByteBits * i)]
<1>1. /\ r.offset \in Nat /\ ByteBits \in Nat /\ r.state = Slice(N, R, r.offset)
  BY StreamAssumption DEF Reads, ReaderType
<1>2. r.offset + ByteBits * 0 = r.offset
  BY <1>1
<1>3. ASSUME NEW i \in Nat
      PROVE  Join(Slice(N, R, r.offset + ByteBits * i), ByteAt(r, r.pos + (i + 1)),
                  r.offset + ByteBits * i)
             = Slice(N, R, r.offset + ByteBits * (i + 1))
  <2> DEFINE m == r.offset + ByteBits * i
  <2>1. m \in Nat
    BY <1>1
  <2>2. r.offset + ByteBits * (i + 1) = m + ByteBits
    <3>1. ByteBits * (i + 1) = ByteBits * i + ByteBits /\ ByteBits * i \in Nat
      BY <1>1
    <3> QED BY <1>1, <3>1
  <2>3. ByteAt(r, r.pos + (i + 1)) = Slice(N, R + m, ByteBits)
    BY ByteIsSlice
  <2> HIDE DEF m
  <2>4. SliceLaws(N, R, m, ByteBits)
    BY <1>1, <2>1, SliceSplits
  <2> QED BY <2>2, <2>3, <2>4 DEF SliceLaws, Join, m
<1>4. IsWhole(g, r, n)
  <2>1. ASSUME NEW i \in 0..n
        PROVE  g[i] = IF i = 0 THEN r.state
                      ELSE Join(g[i - 1], ByteAt(r, r.pos + i), r.offset + ByteBits * (i - 1))
    <3>1. CASE i = 0
      BY <1>1, <1>2, <3>1
    <3>2. CASE i # 0
      <4> DEFINE k == i - 1
      <4>1. k \in Nat /\ i = k + 1 /\ k \in 0..n
        BY <3>2
      <4> HIDE DEF k
      <4>2. g[k] = Slice(N, R, r.offset + ByteBits * k)
        BY <4>1
      <4>3. g[i] = Slice(N, R, r.offset + ByteBits * (k + 1))
        BY <4>1
      <4> HIDE DEF g
      <4>4. Join(g[k], ByteAt(r, r.pos + i), r.offset + ByteBits * k) = g[i]
        BY <1>3, <4>1, <4>2, <4>3
      <4> QED BY <3>2, <4>4 DEF k
    <3> QED BY <3>1, <3>2
  <2> QED BY <2>1 DEF IsWhole
<1>5. ASSUME NEW s, IsWhole(s, r, n)
      PROVE  s[n] = Slice(N, R, r.offset + ByteBits * n)
  <2> DEFINE S == {i \in Nat : i <= n => s[i] = Slice(N, R, r.offset + ByteBits * i)}
  <2>1. 0 \in S
    BY <1>1, <1>2, <1>5 DEF IsWhole
  <2>2. ASSUME NEW i \in S PROVE i + 1 \in S
    <3> SUFFICES ASSUME i + 1 <= n PROVE s[i + 1] = Slice(N, R, r.offset + ByteBits * (i + 1))
      OBVIOUS
    <3>1. /\ i \in Nat /\ i + 1 \in 0..n /\ i + 1 # 0 /\ (i + 1) - 1 = i
          /\ s[i] = Slice(N, R, r.offset + ByteBits * i)
      OBVIOUS
    <3>2. s[i + 1] = Join(s[i], ByteAt(r, r.pos + (i + 1)), r.offset + ByteBits * i)
      BY <1>5, <3>1 DEF IsWhole
    <3> QED BY <1>3, <3>1, <3>2
  <2>3. S \in SUBSET Nat
    OBVIOUS
  <2> HIDE DEF S
  <2>4. S = Nat
    BY <2>1, <2>2, <2>3, SetInduction
  <2>5. n \in S /\ n <= n
    BY <2>4
  <2> QED BY <2>5 DEF S
<1> QED BY <1>4, <1>5

-------------------------------------------------------------------------------
(* A reader with what is left over and the position replaced.              *)
Put(r, s, o, p) == [r EXCEPT !.state = s, !.offset = o, !.pos = p]

PutLaws(r, s, o, p) ==
    LET q == Put(r, s, o, p)
    IN  /\ q \in ReaderType
        /\ q.state = s /\ q.offset = o /\ q.pos = p /\ q.in = r.in

LEMMA Repositioned ==
    \A r \in ReaderType : \A s, p \in Nat : \A o \in 0..(ByteBits - 1) : PutLaws(r, s, o, p)
<1> SUFFICES ASSUME NEW r \in ReaderType, NEW s \in Nat, NEW p \in Nat,
                    NEW o \in 0..(ByteBits - 1)
             PROVE  PutLaws(r, s, o, p)
  OBVIOUS
<1> DEFINE Offset == 0..(ByteBits - 1)
           q == Put(r, s, o, p)
<1>1. r \in [state : Nat, offset : Offset, pos : Nat, in : Seq(Nat)] /\ o \in Offset
  BY DEF ReaderType
<1> HIDE DEF Offset
<1>2. q \in [state : Nat, offset : Offset, pos : Nat, in : Seq(Nat)]
  BY <1>1 DEF Put
<1>3. q.state = s /\ q.offset = o /\ q.pos = p /\ q.in = r.in
  BY <1>1 DEF Put
<1> HIDE DEF q
<1> QED BY <1>2, <1>3 DEF Offset, q, PutLaws, ReaderType

(* Read returns the bits asked for, and is where they end.                 *)
LEMMA ReadFieldReads ==
    ASSUME NEW N \in Nat, NEW R \in Nat, NEW r, Reads(r, N, R), NEW bits \in Nat
    PROVE  LET got == ReadField(r, bits)
           IN  /\ got.val = Slice(N, R, bits)
               /\ Reads(got.r, N, R + bits)
               /\ got.r.in = r.in
<1> DEFINE got == ReadField(r, bits)
           B == ByteBits
<1> SUFFICES /\ got.val = Slice(N, R, bits)
             /\ Reads(got.r, N, R + bits)
             /\ got.r.in = r.in
  OBVIOUS
<1>1. /\ r \in ReaderType
      /\ B * r.pos - r.offset = R /\ r.state = Slice(N, R, r.offset)
      /\ BytesOf(r.in, N) /\ B \in Nat \ {0}
  BY StreamAssumption DEF Reads
<1>2. /\ r.pos \in Nat /\ r.offset \in 0..(B - 1) /\ r.offset \in Nat
      /\ B * r.pos \in Nat /\ B * r.pos = R + r.offset
  <2>1. r.pos \in Nat /\ r.offset \in 0..(B - 1) /\ r.offset \in Nat
    BY <1>1 DEF ReaderType
  <2>2. B * r.pos \in Nat
    BY <1>1, <2>1
  <2> QED BY <1>1, <2>1, <2>2
<1>3. CASE r.offset >= bits
  <2> DEFINE k == r.offset - bits
  <2>1. /\ k \in 0..(B - 1) /\ k \in Nat /\ bits + k = r.offset
        /\ B * r.pos - k = R + bits
    <3> DEFINE p == B * r.pos
    <3>1. p \in Nat /\ p = R + r.offset
      BY <1>2
    <3> HIDE DEF p
    <3>2. k \in 0..(B - 1) /\ k \in Nat /\ bits + k = r.offset
      BY <1>1, <1>2, <1>3
    <3> QED BY <3>1, <3>2, <1>2 DEF p
  <2>2. got.val = Low(r.state, bits)
    BY <1>3 DEF ReadField, Leftover
  <2>3. got.r = [r EXCEPT !.state = @ \div 2^bits, !.offset = @ - bits]
    BY <1>3 DEF ReadField, Leftover
  <2> HIDE DEF k, got
  <2>4. SliceLaws(N, R, bits, k)
    BY <2>1, SliceSplits
  <2>5. got.val = Slice(N, R, bits)
    BY <1>1, <2>1, <2>2, <2>4 DEF SliceLaws, Low
  <2>6. r.state \div 2^bits = Slice(N, R + bits, k)
    BY <1>1, <2>1, <2>4 DEF SliceLaws
  <2>7. Slice(N, R + bits, k) \in Nat
    <3> DEFINE a == R + bits
    <3>1. a \in Nat
      OBVIOUS
    <3> HIDE DEF a
    <3> QED BY <2>1, <3>1, SliceType DEF a
  <2>8. /\ got.r.state = Slice(N, R + bits, k) /\ got.r.offset = k
        /\ got.r.pos = r.pos /\ got.r.in = r.in
        /\ got.r \in ReaderType
    <3>1. got.r = Put(r, Slice(N, R + bits, k), k, r.pos)
      BY <1>1, <2>3, <2>6 DEF k, ReaderType, Put
    <3> DEFINE state == Slice(N, R + bits, k)
               pos == r.pos
    <3>2. state \in Nat /\ pos \in Nat
      BY <1>2, <2>7
    <3> HIDE DEF state, pos
    <3>3. got.r = Put(r, state, k, pos)
      BY <3>1 DEF state, pos
    <3>4. /\ got.r \in ReaderType /\ got.r.state = state /\ got.r.offset = k
          /\ got.r.pos = pos /\ got.r.in = r.in
      BY <1>1, <2>1, <3>2, <3>3, Repositioned DEF PutLaws
    <3> QED BY <3>4 DEF state, pos
  <2>9. Reads(got.r, N, R + bits)
    BY <1>1, <2>1, <2>8 DEF Reads
  <2> QED BY <2>5, <2>8, <2>9
<1>4. CASE ~(r.offset >= bits)
  <2> DEFINE n == (bits - r.offset) \div B
             m == r.offset + B * n
             more == bits - m
             s == CHOOSE t : IsWhole(t, r, n)
             c == ByteAt(r, r.pos + n + 1)
             x == r.pos + n
  <2>1. n \in Nat /\ B * n \in Nat /\ more \in 0..(B - 1) /\ bits = m + more /\ m \in Nat
    <3> DEFINE y == bits - r.offset
               rest == y % B
    <3>1. y \in Nat /\ bits = r.offset + y
      BY <1>2, <1>4
    <3>2. n \in Nat /\ rest \in 0..(B - 1) /\ y = B * n + rest
      <4>1. WholeBytesLaw(y)
        BY <3>1, WholeBytes
      <4>2. n = y \div B /\ rest = y % B
        OBVIOUS
      <4>3. y \div B \in Nat /\ y % B \in 0..(B - 1) /\ y = B * (y \div B) + (y % B)
        BY <4>1 DEF WholeBytesLaw
      <4> HIDE DEF y, n, rest
      <4> QED BY <4>2, <4>3
    <3> HIDE DEF n, y, rest
    <3>3. B * n \in Nat
      BY <1>1, <3>2
    <3> QED BY <1>2, <3>1, <3>2, <3>3
  <2>2. IsWhole(s, r, n)
    <3> HIDE DEF n
    <3> QED BY <2>1, WholeIsSlice
  <2>3. s[n] = Slice(N, R, m)
    <3> HIDE DEF n, s
    <3> QED BY <2>1, <2>2, WholeIsSlice
  <2>4. /\ more = 0 => /\ got.val = s[n]
                       /\ got.r = [r EXCEPT !.state = 0, !.offset = 0, !.pos = @ + n]
        /\ more # 0 => /\ got.val = Join(s[n], Low(c, more), m)
                       /\ got.r = [r EXCEPT !.state = c \div 2^more,
                                            !.offset = ByteBits - more,
                                            !.pos = @ + n + 1]
    BY <1>4 DEF ReadField, FromBytes, IsWhole
  <2> HIDE DEF n, m, more, s, got
  <2>5. x \in Nat /\ B * x = R + m /\ B * (x + 1) = R + m + B
    <3>1. B * x = B * r.pos + B * n /\ B * (x + 1) = B * r.pos + B * n + B
      <4>1. B * (r.pos + n) = B * r.pos + B * n
        BY <1>1, <1>2, <2>1
      <4>2. B * ((r.pos + n) + 1) = B * (r.pos + n) + B
        BY <1>1, <1>2, <2>1
      <4> QED BY <4>1, <4>2
    <3>3. x \in Nat
      BY <1>2, <2>1
    <3> DEFINE p == B * r.pos
               q == B * n
    <3>4. p \in Nat /\ p = R + r.offset /\ q \in Nat /\ m = r.offset + q
      BY <1>2, <2>1 DEF m
    <3>5. B * x = p + q /\ B * (x + 1) = p + q + B
      BY <3>1
    <3> DEFINE e == B * x
               g == B * (x + 1)
    <3>6. e = p + q /\ g = p + q + B
      BY <3>5
    <3> HIDE DEF x, p, q, e, g
    <3>7. e = R + m /\ g = R + m + B
      BY <1>1, <1>2, <3>4, <3>6
    <3> QED BY <3>3, <3>7 DEF e, g
  <2>6. CASE more = 0
    <3>1. m = bits /\ B * x - 0 = R + bits /\ 0 \in 0..(B - 1)
      <4> DEFINE e == B * x
      <4>1. e = R + m /\ m = bits
        BY <2>1, <2>5, <2>6
      <4> HIDE DEF e
      <4>2. e - 0 = R + bits /\ 0 \in 0..(B - 1)
        BY <1>1, <2>1, <4>1
      <4> QED BY <4>1, <4>2 DEF e
    <3>2. got.val = Slice(N, R, bits)
      BY <2>3, <2>4, <2>6, <3>1
    <3>3. /\ got.r.state = 0 /\ got.r.offset = 0 /\ got.r.pos = x /\ got.r.in = r.in
          /\ got.r \in ReaderType
      <4>1. got.r = Put(r, 0, 0, x)
        BY <2>4, <2>6 DEF Put
      <4>2. x \in Nat
        BY <2>5
      <4> HIDE DEF x
      <4>3. 0 \in Nat
        OBVIOUS
      <4> QED BY <1>1, <3>1, <4>1, <4>2, <4>3, Repositioned DEF PutLaws
    <3>4. Slice(N, R + bits, 0) = 0
      <4> DEFINE a == R + bits
      <4>1. a \in Nat
        OBVIOUS
      <4> HIDE DEF a
      <4> QED BY <4>1, SliceOfNothing DEF a
    <3>5. Reads(got.r, N, R + bits)
      BY <1>1, <3>1, <3>3, <3>4 DEF Reads
    <3> QED BY <3>2, <3>3, <3>5
  <2>7. CASE more # 0
    <3> DEFINE k == B - more
               a == R + m
    <3>1. /\ k \in 0..(B - 1) /\ k \in Nat /\ more + k = B /\ more \in Nat
          /\ a \in Nat /\ a + more = R + bits
      BY <1>1, <2>1, <2>7
    <3>2. c = Slice(N, a, B)
      <4>1. r.pos + n + 1 = r.pos + (n + 1)
        BY <1>2, <2>1
      <4>2. ByteAt(r, r.pos + (n + 1)) = Slice(N, R + (r.offset + ByteBits * n), ByteBits)
        BY <2>1, ByteIsSlice
      <4> QED BY <4>1, <4>2 DEF m
    <3> HIDE DEF k, a, c
    <3>3. SliceLaws(N, a, more, k) /\ SliceLaws(N, R, m, more)
      BY <2>1, <3>1, SliceSplits
    <3>4. Low(c, more) = Slice(N, a, more) /\ c \div 2^more = Slice(N, R + bits, k)
      BY <3>1, <3>2, <3>3 DEF SliceLaws, Low
    <3>5. got.val = Slice(N, R, bits)
      BY <2>1, <2>3, <2>4, <2>7, <3>3, <3>4 DEF SliceLaws, Join, a
    <3>6. Slice(N, R + bits, k) \in Nat
      <4> DEFINE b == R + bits
      <4>1. b \in Nat
        OBVIOUS
      <4> HIDE DEF b
      <4> QED BY <3>1, <4>1, SliceType DEF b
    <3>7. /\ got.r.state = Slice(N, R + bits, k) /\ got.r.offset = k
          /\ got.r.pos = x + 1 /\ got.r.in = r.in
          /\ got.r \in ReaderType
      <4>1. x + 1 \in Nat /\ x + 1 = r.pos + n + 1
        BY <1>2, <2>1
      <4> DEFINE y == x + 1
                 state == Slice(N, R + bits, k)
      <4>2. got.r = Put(r, state, k, y)
        BY <2>4, <2>7, <3>4, <4>1 DEF k, Put
      <4>3. y \in Nat /\ state \in Nat
        BY <3>6, <4>1
      <4> HIDE DEF x, y, state
      <4>4. PutLaws(r, state, k, y)
        BY <1>1, <3>1, <4>3, Repositioned
      <4>5. /\ got.r.state = state /\ got.r.offset = k /\ got.r.pos = y /\ got.r.in = r.in
            /\ got.r \in ReaderType
        BY <4>2, <4>4 DEF PutLaws
      <4> QED BY <4>5 DEF y, state
    <3>8. B * (x + 1) - k = R + bits
      <4> DEFINE z == B * (x + 1)
      <4>1. z = R + m + B
        BY <2>5
      <4> HIDE DEF z
      <4>2. z - k = R + bits
        BY <1>1, <2>1, <3>1, <4>1 DEF a
      <4> QED BY <4>2 DEF z
    <3>9. Reads(got.r, N, R + bits)
      BY <1>1, <3>7, <3>8 DEF Reads
    <3> QED BY <3>5, <3>7, <3>9
  <2> QED BY <2>6, <2>7
<1> QED BY <1>3, <1>4

-------------------------------------------------------------------------------
Fields == Seq(Nat \X Nat)

LEMMA TotalType == \A f \in Fields : \A n \in 0..Len(f) : Total(f, n) \in Nat
<1> SUFFICES ASSUME NEW f \in Fields PROVE \A n \in 0..Len(f) : Total(f, n) \in Nat
  OBVIOUS
<1> DEFINE S == {n \in Nat : n <= Len(f) => Total(f, n) \in Nat}
<1>1. 0 \in S
  BY TotalOfNone
<1>2. ASSUME NEW n \in S PROVE n + 1 \in S
  <2> SUFFICES ASSUME n + 1 <= Len(f) PROVE Total(f, n + 1) \in Nat
    OBVIOUS
  <2>1. n \in Nat /\ Total(f, n) \in Nat /\ n + 1 \in 1..Len(f)
    BY DEF Fields
  <2>2. f[n + 1] \in Nat \X Nat
    BY <2>1 DEF Fields
  <2>3. Total(f, n + 1) = Total(f, n) + f[n + 1][2]
    BY <2>1, TotalOfNext
  <2> QED BY <2>1, <2>2, <2>3
<1>3. S \in SUBSET Nat
  OBVIOUS
<1> HIDE DEF S
<1>4. S = Nat
  BY <1>1, <1>2, <1>3, SetInduction
<1> QED BY <1>4 DEF S, Fields

LEMMA TotalGrows ==
    \A f \in Fields : \A m, n \in 0..Len(f) : m <= n => Total(f, m) <= Total(f, n)
<1> SUFFICES ASSUME NEW f \in Fields, NEW m \in 0..Len(f)
             PROVE  \A n \in 0..Len(f) : m <= n => Total(f, m) <= Total(f, n)
  OBVIOUS
<1> DEFINE S == {k \in Nat : m + k <= Len(f) => Total(f, m) <= Total(f, m + k)}
<1>0. Len(f) \in Nat /\ m \in Nat /\ m <= Len(f)
  BY DEF Fields
<1>1. 0 \in S
  <2>1. Total(f, m) \in Nat /\ m + 0 = m
    BY <1>0, TotalType
  <2> QED BY <2>1
<1>2. ASSUME NEW k \in S PROVE k + 1 \in S
  <2> SUFFICES ASSUME m + (k + 1) <= Len(f) PROVE Total(f, m) <= Total(f, m + (k + 1))
    OBVIOUS
  <2> DEFINE n == m + k
  <2>1. /\ k \in Nat /\ n \in 0..Len(f) /\ n + 1 \in 1..Len(f) /\ m + (k + 1) = n + 1
        /\ Total(f, m) <= Total(f, n)
    BY <1>0
  <2> HIDE DEF n
  <2>2. Total(f, m) \in Nat /\ Total(f, n) \in Nat
    BY <2>1, TotalType
  <2>3. f[n + 1] \in Nat \X Nat
    BY <2>1 DEF Fields
  <2>4. Total(f, n + 1) = Total(f, n) + f[n + 1][2]
    BY <2>1, TotalOfNext
  <2> QED BY <2>1, <2>2, <2>3, <2>4
<1>3. S \in SUBSET Nat
  OBVIOUS
<1> HIDE DEF S
<1>4. S = Nat
  BY <1>1, <1>2, <1>3, SetInduction
<1>5. ASSUME NEW n \in 0..Len(f), m <= n PROVE Total(f, m) <= Total(f, n)
  <2> DEFINE k == n - m
  <2>1. k \in Nat /\ m + k = n
    BY <1>0, <1>5
  <2> HIDE DEF k
  <2>2. k \in S
    BY <1>4, <2>1
  <2> QED BY <1>5, <2>1, <2>2 DEF S
<1> QED BY <1>5

-------------------------------------------------------------------------------
(* N is the number the fields make, each behind those before it.           *)
Word(f, N) ==
    /\ N \in Nat /\ N < 2^Total(f, Len(f))
    /\ \A i \in 1..Len(f) : Slice(N, Total(f, i - 1), f[i][2]) = f[i][1]

LEMMA WordOfNone == Word(<< >>, 0) /\ Total(<< >>, 0) = 0
<1>1. Total(<< >>, 0) = 0 /\ Len(<< >>) = 0
  BY TotalOfNone
<1> DEFINE none == << >>
<1>2. 0 < 2^Total(none, Len(none)) /\ 0 \in Nat
  <2>1. 2^Total(none, Len(none)) = 1
    BY <1>1, PowerOfZero
  <2> QED BY <2>1
<1>3. \A i \in 1..Len(none) : Slice(0, Total(none, i - 1), none[i][2]) = none[i][1]
  <2>1. 1..Len(none) = {}
    BY <1>1
  <2> QED BY <2>1
<1> HIDE DEF none
<1>4. Word(none, 0)
  BY <1>2, <1>3 DEF Word
<1> QED BY <1>1, <1>4 DEF none

LEMMA WordGrows ==
    ASSUME NEW f \in Fields, NEW N, Word(f, N),
           NEW val \in Nat, NEW bits \in Nat, val < 2^bits
    PROVE  LET T == Total(f, Len(f))
               g == Append(f, <<val, bits>>)
           IN  /\ T \in Nat /\ g \in Fields
               /\ Total(g, Len(g)) = T + bits
               /\ Word(g, Behind(N, T, val))
<1> DEFINE L == Len(f)
           T == Total(f, L)
           g == Append(f, <<val, bits>>)
           M == Behind(N, T, val)
<1>1. L \in Nat /\ T \in Nat /\ N \in Nat /\ N < 2^T
  BY TotalType DEF Fields, Word
<1>2. /\ g \in Fields /\ Len(g) = L + 1 /\ g[L + 1] = <<val, bits>>
      /\ \A i \in 1..L : g[i] = f[i]
  BY DEF Fields
<1> HIDE DEF g, T, L, M
<1>3. ASSUME NEW n \in 0..L PROVE Total(g, n) = Total(f, n)
  <2>1. SameWidths(g, f, n)
    BY <1>1, <1>2 DEF SameWidths
  <2> QED BY <1>1, <2>1, TotalOfSame
<1>4. Total(g, L + 1) = T + bits
  <2>1. Total(g, L + 1) = Total(g, L) + g[L + 1][2]
    BY <1>1, TotalOfNext
  <2> QED BY <1>1, <1>2, <1>3, <2>1 DEF T
<1>5. M \in Nat /\ M < 2^(T + bits) /\ \A a, m \in Nat : JoinLaws(N, T, val, a, m)
  BY <1>1, BehindLaws DEF M
<1>6. ASSUME NEW i \in 1..L PROVE Slice(M, Total(g, i - 1), g[i][2]) = g[i][1]
  <2> DEFINE a == Total(f, i - 1)
             m == f[i][2]
  <2>1. i \in 0..L /\ i - 1 \in 0..L /\ i <= L /\ L \in 0..L
    BY <1>1
  <2>2. a \in Nat /\ Total(f, i) \in Nat /\ Total(f, i) <= T
    BY <2>1, TotalType, TotalGrows DEF L, T
  <2>3. m \in Nat
    <3>1. f[i] \in Nat \X Nat
      BY DEF Fields, L
    <3> QED BY <3>1
  <2>4. Total(f, i) = a + m
    <3> DEFINE k == i - 1
    <3>1. k \in Nat /\ k + 1 = i
      BY <1>1
    <3> HIDE DEF k
    <3>2. Total(f, k + 1) = Total(f, k) + f[k + 1][2]
      BY <3>1, TotalOfNext
    <3> QED BY <3>1, <3>2 DEF k
  <2> HIDE DEF a, m
  <2>5. JoinLaws(N, T, val, a, m)
    BY <1>5, <2>2, <2>3
  <2>6. Slice(M, a, m) = Slice(N, a, m)
    BY <2>2, <2>4, <2>5 DEF JoinLaws, M, Behind
  <2>7. Slice(N, a, m) = f[i][1]
    BY DEF Word, L, a, m
  <2> QED BY <1>2, <1>3, <2>1, <2>6, <2>7 DEF a, m
<1>7. Slice(M, T, bits) = val
  <2>1. JoinLaws(N, T, val, 0, bits) /\ T + 0 = T
    BY <1>1, <1>5
  <2>2. Slice(M, T, bits) = Slice(val, 0, bits)
    BY <2>1 DEF JoinLaws, M, Behind
  <2>3. SliceEnds(val, bits, 0, bits) /\ 0 + bits >= bits
    BY SliceBeyond
  <2>4. val \div 2^0 = val
    BY PowerOfZero
  <2> QED BY <2>2, <2>3, <2>4 DEF SliceEnds
<1>8. \A i \in 1..(L + 1) : Slice(M, Total(g, i - 1), g[i][2]) = g[i][1]
  <2>1. ASSUME NEW i \in 1..(L + 1), i = L + 1
        PROVE  Slice(M, Total(g, i - 1), g[i][2]) = g[i][1]
    <3>1. i - 1 = L /\ L \in 0..L
      BY <1>1, <2>1
    <3>2. Total(g, i - 1) = T
      BY <1>3, <3>1 DEF T
    <3> QED BY <1>2, <1>7, <2>1, <3>2
  <2>2. \A i \in 1..(L + 1) : i \in 1..L \/ i = L + 1
    BY <1>1
  <2> QED BY <1>6, <2>1, <2>2
<1>9. Word(g, M)
  BY <1>2, <1>4, <1>5, <1>8 DEF Word
<1> QED BY <1>1, <1>2, <1>4, <1>9 DEF g, T, L, M

-------------------------------------------------------------------------------
(* While fields are written the writer holds their number; once it is      *)
(* flushed, the reader is where the fields it has returned end.            *)
WriterHolds(N) ==
    /\ Holds(writer, N, Total(fields, Len(fields)))
    /\ reader = NoReader /\ values = << >>

ReaderReads(N) ==
    /\ Reads(reader, N, Total(fields, Len(values)))
    /\ Len(values) <= Len(fields)
    /\ \A i \in 1..Len(values) : values[i] = fields[i][1]
    /\ Len(reader.in) = (Total(fields, Len(fields)) + ByteBits - 1) \div ByteBits

StreamInv ==
    /\ fields \in Fields /\ values \in Seq(Nat)
    /\ \E N \in Nat : /\ Word(fields, N)
                      /\ IF Writing THEN WriterHolds(N) ELSE ReaderReads(N)

LEMMA StreamInit == Init => StreamInv
<1> SUFFICES ASSUME Init PROVE StreamInv
  OBVIOUS
<1>1. fields \in Fields /\ values \in Seq(Nat) /\ fields = << >> /\ Len(fields) = 0
  BY DEF Init, Fields
<1>2. Word(fields, 0) /\ Total(fields, Len(fields)) = 0
  BY <1>1, WordOfNone
<1>3. Holds(writer, 0, 0)
  <2>1. Len(<< >>) = 0 /\ ByteBits * 0 = 0 /\ 0 \in 0..(ByteBits - 1) /\ << >> \in Seq(Nat)
    BY StreamAssumption
  <2>2. Slice(0, 0, 0) = 0
    BY SliceOfNothing
  <2> QED BY <2>1, <2>2 DEF Init, Holds
<1>4. Writing /\ WriterHolds(0)
  BY <1>2, <1>3 DEF Init, Writing, WriterHolds, NoReader
<1> QED BY <1>1, <1>2, <1>4 DEF StreamInv

LEMMA StreamWrite == StreamInv /\ Write => StreamInv'
<1> SUFFICES ASSUME StreamInv, Write PROVE StreamInv'
  OBVIOUS
<1>1. PICK bits \in 0..MaxWidth : \E val \in 0..(2^bits - 1) :
          /\ writer' = WriteField(writer, val, bits)
          /\ fields' = Append(fields, <<val, bits>>)
  BY DEF Write
<1>2. PICK val \in 0..(2^bits - 1) :
          /\ writer' = WriteField(writer, val, bits)
          /\ fields' = Append(fields, <<val, bits>>)
  BY <1>1
<1>3. Writing /\ reader' = reader /\ values' = values
  BY DEF Write
<1>4. PICK N \in Nat : Word(fields, N) /\ WriterHolds(N)
  BY <1>3 DEF StreamInv
<1>5. bits \in Nat /\ val \in Nat /\ val < 2^bits
  <2>1. bits \in Nat
    BY StreamAssumption
  <2>2. 2^bits \in Nat
    BY <2>1, PowerType
  <2> HIDE DEF StreamInv
  <2> QED BY <2>1, <2>2
<1> DEFINE T == Total(fields, Len(fields))
<1>6. fields \in Fields /\ values \in Seq(Nat)
  BY DEF StreamInv
<1>7. /\ T \in Nat /\ fields' \in Fields
      /\ Total(fields', Len(fields')) = T + bits
      /\ Word(fields', Behind(N, T, val))
  BY <1>2, <1>4, <1>5, <1>6, WordGrows
<1>8. PICK M \in Nat : M = Behind(N, T, val)
  BY <1>7 DEF Word
<1>9. Holds(writer', M, T + bits)
  <2>1. N < 2^T /\ Holds(writer, N, T)
    BY <1>4 DEF Word, WriterHolds
  <2> HIDE DEF T
  <2> QED BY <1>2, <1>5, <1>7, <1>8, <2>1, WriteFieldHolds
<1>10. Writing' /\ WriterHolds(M)'
  BY <1>3, <1>4, <1>7, <1>9 DEF Writing, WriterHolds
<1>11. Word(fields, M)'
  BY <1>7, <1>8
<1> QED BY <1>3, <1>6, <1>7, <1>8, <1>10, <1>11 DEF StreamInv

LEMMA StreamFlush == StreamInv /\ Flush => StreamInv'
<1> SUFFICES ASSUME StreamInv, Flush PROVE StreamInv'
  OBVIOUS
<1>1. /\ Writing /\ writer' = Flushed(writer) /\ fields' = fields /\ values' = values
      /\ reader' = [NoReader EXCEPT !.in = Flushed(writer).out]
  BY DEF Flush
<1>2. PICK N \in Nat : Word(fields, N) /\ WriterHolds(N)
  BY <1>1 DEF StreamInv
<1>3. fields \in Fields /\ values \in Seq(Nat)
  BY DEF StreamInv
<1> DEFINE T == Total(fields, Len(fields))
           in == Flushed(writer).out
<1>4. T \in Nat /\ N < 2^T /\ Holds(writer, N, T) /\ values = << >> /\ reader = NoReader
  BY <1>2, <1>3, TotalType DEF Word, WriterHolds, Fields
<1>5. /\ in \in Seq(Nat) /\ Len(in) = (T + ByteBits - 1) \div ByteBits
      /\ BytesOf(in, N)
      /\ in = << >> => Flushed(writer) = writer
  <2> HIDE DEF T
  <2> QED BY <1>4, FlushedBytes
<1>6. reader' = [state |-> 0, offset |-> 0, pos |-> 0, in |-> in]
  BY <1>1 DEF NoReader
<1> HIDE DEF in
<1>7. CASE in = << >>
  <2>1. writer' = writer
    <3>1. Flushed(writer) = writer
      BY <1>5, <1>7
    <3> QED BY <1>1, <3>1
  <2>0. reader' = NoReader
    BY <1>6, <1>7 DEF NoReader
  <2>2. Writing' /\ WriterHolds(N)'
    BY <1>1, <1>2, <1>4, <2>0, <2>1 DEF Writing, WriterHolds, NoReader
  <2> QED BY <1>1, <1>2, <1>3, <2>2 DEF StreamInv
<1>8. CASE in # << >>
  <2>1. ~Writing'
    BY <1>6, <1>8 DEF Writing
  <2>2. Reads(reader', N, 0)
    <3>1. Slice(N, 0, 0) = 0
      BY SliceOfNothing
    <3>2. ByteBits * 0 - 0 = 0 /\ 0 \in 0..(ByteBits - 1)
      BY StreamAssumption
    <3>3. reader' \in ReaderType
      BY <1>5, <1>6, <3>2 DEF ReaderType
    <3>4. reader'.offset = 0 /\ reader'.pos = 0 /\ reader'.state = 0 /\ reader'.in = in
      BY <1>6
    <3>5. BytesOf(in, N)
      BY <1>5
    <3>6. ByteBits * reader'.pos - reader'.offset = 0
      BY <3>2, <3>4
    <3>7. reader'.state = Slice(N, 0, reader'.offset)
      BY <3>1, <3>4
    <3> QED BY <3>3, <3>4, <3>5, <3>6, <3>7 DEF Reads
  <2>3. Len(values') = 0 /\ Total(fields, 0) = 0 /\ Len(fields) \in Nat
    BY <1>1, <1>3, <1>4, TotalOfNone DEF Fields
  <2>4. ReaderReads(N)'
    BY <1>1, <1>5, <1>6, <2>2, <2>3 DEF ReaderReads
  <2> QED BY <1>1, <1>2, <1>3, <2>1, <2>4 DEF StreamInv
<1> QED BY <1>7, <1>8

LEMMA StreamRead == StreamInv /\ Read => StreamInv'
<1> SUFFICES ASSUME StreamInv, Read PROVE StreamInv'
  OBVIOUS
<1> DEFINE n == Len(values)
           bits == fields[n + 1][2]
           got == ReadField(reader, bits)
           R == Total(fields, n)
<1>1. /\ ~Writing /\ n < Len(fields) /\ fields' = fields /\ writer' = writer
      /\ reader' = got.r /\ values' = Append(values, got.val)
  BY DEF Read
<1>2. PICK N \in Nat : Word(fields, N) /\ ReaderReads(N)
  BY <1>1 DEF StreamInv
<1>3. fields \in Fields /\ values \in Seq(Nat) /\ n \in Nat /\ n + 1 \in 1..Len(fields)
  BY <1>1 DEF StreamInv, Fields
<1>4. R \in Nat /\ bits \in Nat /\ Reads(reader, N, R)
  <2>1. fields[n + 1] \in Nat \X Nat
    BY <1>3 DEF Fields
  <2>2. n \in 0..Len(fields)
    BY <1>3 DEF Fields
  <2> QED BY <1>2, <1>3, <2>1, <2>2, TotalType DEF ReaderReads
<1>5. /\ got.val = Slice(N, R, bits) /\ Reads(got.r, N, R + bits) /\ got.r.in = reader.in
  <2> HIDE DEF R, bits
  <2> QED BY <1>4, ReadFieldReads
<1> HIDE DEF got
<1>6. got.val = fields[n + 1][1] /\ got.val \in Nat
  <2>1. (n + 1) - 1 = n
    BY <1>3
  <2>2. Slice(N, R, bits) = fields[n + 1][1]
    BY <1>2, <1>3, <2>1 DEF Word
  <2>3. Slice(N, R, bits) \in Nat
    <3> HIDE DEF R, bits
    <3> QED BY <1>4, SliceType
  <2> QED BY <1>5, <2>2, <2>3
<1>7. /\ values' \in Seq(Nat) /\ Len(values') = n + 1 /\ values'[n + 1] = got.val
      /\ \A i \in 1..n : values'[i] = values[i]
  BY <1>1, <1>3, <1>6
<1>8. Total(fields, n + 1) = R + bits
  BY <1>3, TotalOfNext
<1>9. ~Writing'
  BY <1>1, <1>5 DEF Writing
<1> HIDE DEF R, bits
<1>10. \A i \in 1..(n + 1) : values'[i] = fields[i][1]
  <2>1. \A i \in 1..n : values'[i] = fields[i][1]
    BY <1>2, <1>7 DEF ReaderReads
  <2>2. \A i \in 1..(n + 1) : i \in 1..n \/ i = n + 1
    BY <1>3
  <2> QED BY <1>6, <1>7, <2>1, <2>2
<1>11. ReaderReads(N)'
  <2>1. n + 1 <= Len(fields)
    BY <1>3 DEF Fields
  <2>2. Len(reader.in) = (Total(fields, Len(fields)) + ByteBits - 1) \div ByteBits
    BY <1>2 DEF ReaderReads
  <2> QED BY <1>1, <1>5, <1>7, <1>8, <1>10, <2>1, <2>2 DEF ReaderReads
<1> QED BY <1>1, <1>2, <1>3, <1>7, <1>9, <1>11 DEF StreamInv

(* The number that the fields make is what a BitWriter has written and     *)
(* what a BitReader reads, whatever the widths.                            *)
THEOREM StreamInvariant == Spec => []StreamInv
<1>1. StreamInv /\ UNCHANGED vars => StreamInv'
  BY DEF StreamInv, vars, Writing, WriterHolds, ReaderReads
<1>2. StreamInv /\ [Next]_vars => StreamInv'
  BY <1>1, StreamWrite, StreamFlush, StreamRead DEF Next
<1> QED BY <1>2, StreamInit, PTL DEF Spec

(* A flushed writer has written Bits2Bytes(total bits) bytes: the sizes    *)
(* that the messages of PBS allocate and check before they parse.          *)
THEOREM AnnouncedSizes == Spec => []SizeIsAnnounced
<1>1. StreamInv => SizeIsAnnounced
  <2> SUFFICES ASSUME StreamInv, ~Writing
               PROVE  Len(reader.in) = (TotalBits(Len(fields)) + ByteBits - 1) \div ByteBits
    BY DEF SizeIsAnnounced
  <2>1. PICK N \in Nat : ReaderReads(N)
    BY DEF StreamInv
  <2>2. TotalBits(Len(fields)) = Total(fields, Len(fields))
    BY TotalIsTotalBits
  <2> QED BY <2>1, <2>2 DEF ReaderReads
<1> QED BY <1>1, StreamInvariant, PTL

(* Read returns the values given to Write, when it is asked for the same   *)
(* widths, across any number of byte boundaries.                           *)
THEOREM FieldsReadBack == Spec => []ReadsBack
<1>1. StreamInv => ReadsBack
  <2> SUFFICES ASSUME StreamInv, NEW i \in 1..Len(values) PROVE values[i] = fields[i][1]
    BY DEF ReadsBack
  <2>1. PICK N \in Nat : IF Writing THEN WriterHolds(N) ELSE ReaderReads(N)
    BY DEF StreamInv
  <2>2. CASE Writing
    <3>1. Len(values) = 0
      BY <2>1, <2>2 DEF WriterHolds
    <3> QED BY <3>1
  <2>3. CASE ~Writing
    BY <2>1, <2>3 DEF ReaderReads
  <2> QED BY <2>2, <2>3
<1> QED BY <1>1, StreamInvariant, PTL

(* Read has moved its pointer over the bytes that hold the fields read so  *)
(* far, and over no other.                                                 *)
THEOREM ReadsNoFurther == Spec => []NeverReadsAhead
<1>1. StreamInv => NeverReadsAhead
  <2> SUFFICES ASSUME StreamInv
               PROVE  reader.pos = (Total(fields, Len(values)) + ByteBits - 1) \div ByteBits
    BY TotalIsTotalBits DEF NeverReadsAhead
  <2>1. PICK N \in Nat : IF Writing THEN WriterHolds(N) ELSE ReaderReads(N)
    BY DEF StreamInv
  <2> DEFINE R == Total(fields, Len(values))
             k == (ByteBits - 1) - reader.offset
             p == reader.pos
  <2>2. /\ p \in Nat /\ reader.offset \in 0..(ByteBits - 1) /\ ByteBits * p - reader.offset = R
    <3>1. CASE Writing
      <4>1. R = 0
        BY <2>1, <3>1, TotalOfNone DEF WriterHolds
      <4>2. reader.pos = 0 /\ reader.offset = 0
        BY <2>1, <3>1 DEF WriterHolds, NoReader
      <4>3. ByteBits * 0 - 0 = 0 /\ 0 \in 0..(ByteBits - 1)
        BY StreamAssumption
      <4> QED BY <4>1, <4>2, <4>3
    <3>2. CASE ~Writing
      BY <2>1, <3>2 DEF ReaderReads, Reads, ReaderType
    <3> QED BY <3>1, <3>2
  <2> HIDE DEF R, p
  <2>3. k \in 0..(ByteBits - 1) /\ R + ByteBits - 1 = p * ByteBits + k
    BY <2>2, StreamAssumption
  <2> HIDE DEF k
  <2>4. QuotientLaw(p, ByteBits, k)
    BY <2>2, <2>3, StreamAssumption, Quotients
  <2> QED BY <2>3, <2>4 DEF QuotientLaw, R, p
<1> QED BY <1>1, StreamInvariant, PTL
===============================================================================
