----------------------------- MODULE IbltProofs -----------------------------
(***************************************************************************)
(* What listEntries() of Iblt lists and returns, for all keys, hash        *)
(* functions and sizes of the table.                                       *)
(*                                                                         *)
(* The invariant is that every cell reflects the differences that have not *)
(* been listed: a cell that looks pure then holds a single one.            *)
(*                                                                         *)
(* The facts about keys that it rests on stand in ParityBitmapSketchProofs. *)
(* They mention no group table: the parameters of the object that come     *)
(* with them play no part here.                                            *)
(***************************************************************************)
EXTENDS Iblt, ParityBitmapSketchProofs

Small(S) == S \in SUBSET Key /\ IsFiniteSet(S) /\ Cardinality(S) <= MaxCount

MineOnly == mineKeys \ otherKeys
OtherOnly == otherKeys \ mineKeys

(* A pass that has erased nothing has found no pure cell so far. *)
PassSoFar == ~erased => \A c \in CellId : c < at => ~isPure(mine[c])

IInv ==
    /\ hash \in Hashes
    /\ Small(mineKeys) /\ Small(otherKeys)
    /\ inserted \in (SUBSET mineKeys) \X (SUBSET otherKeys)
    /\ at \in Nat
    /\ at > 0
    /\ phase = "insert" => positive = {} /\ negative = {} /\ at = 1
    /\ HoldsTheRest
    /\ ListedAreDifferences
    /\ phase # "insert" => PassSoFar
    /\ phase = "done" => (returned <=> FirstEmpty)
    /\ phase = "done" => ~erased /\ at \notin CellId

-------------------------------------------------------------------------------
(* Cells.                                                                  *)
LEMMA SmallSubset ==
    ASSUME NEW S, Small(S), NEW T \in SUBSET S
    PROVE  Small(T) /\ Cardinality(T) \in Nat
BY FS_Subset, FS_CardinalityType, IbltAssumption DEF Small

LEMMA CountInRange ==
    ASSUME NEW plus, NEW minus, Small(plus), Small(minus)
    PROVE  Wrap(Cardinality(plus) - Cardinality(minus)) = Cardinality(plus) - Cardinality(minus)
<1>1. Cardinality(plus) \in Nat /\ Cardinality(minus) \in Nat
  BY SmallSubset
<1> QED
  BY <1>1, IbltAssumption DEF Small, Wrap

(* The sums of a cell that a key is added to, or taken out of.             *)
LEMMA SumsAfterKey ==
    ASSUME NEW cell, NEW plus, NEW minus, Reflects(cell, plus, minus), Small(plus), Small(minus),
           NEW n, NEW k \in Key, NEW valued
    PROVE  LET new == Accumulate(cell, n, k, {k}, valued)
           IN  /\ new.count = Wrap(cell.count + n)
               /\ new.keySum = XorSum((plus \union minus) (+) {k})
               /\ new.keyCheck = (plus \union minus) (+) {k}
<1> DEFINE new == Accumulate(cell, n, k, {k}, valued)
<1>1. /\ new.count = Wrap(cell.count + n)
      /\ new.keySum = cell.keySum (+) k
      /\ new.keyCheck = cell.keyCheck (+) {k}
  BY DEF Accumulate
<1>2. IsFiniteSet(plus \union minus) /\ IsFiniteSet({k})
  BY FS_Union, FS_Singleton DEF Small
<1>3. XorSum((plus \union minus) (+) {k}) = XorSum(plus \union minus) (+) XorSum({k})
  BY <1>2, XorSumOfDifference
<1> QED
  BY <1>1, <1>3, XorSumOfOne DEF Reflects

(* A key goes into a cell, or out of it, on the side where it is.          *)
LEMMA CellGains ==
    ASSUME NEW cell, NEW plus, NEW minus, Reflects(cell, plus, minus), Small(plus), Small(minus),
           NEW k \in Key, k \notin plus \union minus, Small(plus \union {k}), NEW valued
    PROVE  Reflects(Accumulate(cell, 1, k, {k}, valued), plus \union {k}, minus)
<1> DEFINE new == Accumulate(cell, 1, k, {k}, valued)
           p == Cardinality(plus)
           m == Cardinality(minus)
<1>1. (plus \union minus) (+) {k} = (plus \union {k}) \union minus
  BY DEF (+)
<1>2. Cardinality(plus \union {k}) = p + 1
  BY FS_AddElement DEF Small
<1>3. p \in Nat /\ m \in Nat
  BY SmallSubset
<1>4. Wrap(Cardinality(plus \union {k}) - m) = Cardinality(plus \union {k}) - m
  BY CountInRange
<1>5. /\ new.count = Wrap(cell.count + 1)
      /\ cell.count = p - m
  <2>1. new.count = Wrap(cell.count + 1)
    BY DEF Accumulate
  <2> QED
    BY <2>1 DEF Reflects
<1> HIDE DEF p, m
<1>6. cell.count + 1 = Cardinality(plus \union {k}) - m
  BY <1>2, <1>3, <1>5
<1>7. new.count = Cardinality(plus \union {k}) - m
  BY <1>4, <1>5, <1>6
<1> QED
  BY <1>1, <1>7, SumsAfterKey DEF Reflects, m

LEMMA CellLosesPlus ==
    ASSUME NEW cell, NEW plus, NEW minus, Reflects(cell, plus, minus), Small(plus), Small(minus),
           NEW k \in plus, k \notin minus, NEW valued
    PROVE  Reflects(Accumulate(cell, -1, k, {k}, valued), plus \ {k}, minus)
<1> DEFINE new == Accumulate(cell, -1, k, {k}, valued)
           p == Cardinality(plus)
           m == Cardinality(minus)
<1>0. k \in Key
  BY DEF Small
<1>1. (plus \union minus) (+) {k} = (plus \ {k}) \union minus
  BY DEF (+)
<1>2. Cardinality(plus \ {k}) = p - 1
  BY FS_RemoveElement DEF Small
<1>3. p \in Nat /\ m \in Nat /\ Small(plus \ {k})
  BY SmallSubset
<1>4. Wrap(Cardinality(plus \ {k}) - m) = Cardinality(plus \ {k}) - m
  BY <1>3, CountInRange
<1>5. new.count = Wrap(cell.count + (-1)) /\ cell.count = p - m
  BY <1>0, SumsAfterKey DEF Reflects
<1> HIDE DEF p, m
<1>6. cell.count + (-1) = Cardinality(plus \ {k}) - m
  BY <1>2, <1>3, <1>5
<1>7. new.count = Cardinality(plus \ {k}) - m
  BY <1>4, <1>5, <1>6
<1>8. /\ new.keySum = XorSum((plus \union minus) (+) {k})
      /\ new.keyCheck = (plus \union minus) (+) {k}
  BY <1>0, SumsAfterKey
<1> HIDE DEF new
<1>9. new.keySum = XorSum((plus \ {k}) \union minus) /\ new.keyCheck = (plus \ {k}) \union minus
  BY <1>1, <1>8
<1> QED
  BY <1>7, <1>9 DEF Reflects, m, new

LEMMA CellLosesMinus ==
    ASSUME NEW cell, NEW plus, NEW minus, Reflects(cell, plus, minus), Small(plus), Small(minus),
           NEW k \in minus, k \notin plus, NEW valued
    PROVE  Reflects(Accumulate(cell, 1, k, {k}, valued), plus, minus \ {k})
<1> DEFINE new == Accumulate(cell, 1, k, {k}, valued)
           p == Cardinality(plus)
           m == Cardinality(minus)
<1>0. k \in Key
  BY DEF Small
<1>1. (plus \union minus) (+) {k} = plus \union (minus \ {k})
  BY DEF (+)
<1>2. Cardinality(minus \ {k}) = m - 1
  BY FS_RemoveElement DEF Small
<1>3. p \in Nat /\ m \in Nat /\ Small(minus \ {k})
  BY SmallSubset
<1>4. Wrap(p - Cardinality(minus \ {k})) = p - Cardinality(minus \ {k})
  BY <1>3, CountInRange
<1>5. new.count = Wrap(cell.count + 1) /\ cell.count = p - m
  BY <1>0, SumsAfterKey DEF Reflects
<1> HIDE DEF p, m
<1>6. cell.count + 1 = p - Cardinality(minus \ {k})
  BY <1>2, <1>3, <1>5
<1>7. new.count = p - Cardinality(minus \ {k})
  BY <1>4, <1>5, <1>6
<1>8. /\ new.keySum = XorSum((plus \union minus) (+) {k})
      /\ new.keyCheck = (plus \union minus) (+) {k}
  BY <1>0, SumsAfterKey
<1> HIDE DEF new
<1>9. new.keySum = XorSum(plus \union (minus \ {k})) /\ new.keyCheck = plus \union (minus \ {k})
  BY <1>1, <1>8
<1> QED
  BY <1>7, <1>9 DEF Reflects, p, new

-------------------------------------------------------------------------------
(* Tables.                                                                 *)
LEMMA InOfSmall ==
    ASSUME NEW S, Small(S), NEW c
    PROVE  Small(In(c, S))
<1>1. In(c, S) \in SUBSET S
  BY DEF In
<1> QED
  BY <1>1, SmallSubset

(* A key goes into the table, on the side of plus.                         *)
LEMMA InsertHolds ==
    ASSUME NEW table, NEW plus, NEW minus, Holds(table, plus, minus), Small(plus), Small(minus),
           NEW k \in Key, k \notin plus \union minus, Small(plus \union {k})
    PROVE  Holds(Insert(table, CellsOf(k), 1, k), plus \union {k}, minus)
<1> DEFINE new == Insert(table, CellsOf(k), 1, k)
<1> SUFFICES ASSUME NEW c \in CellId
             PROVE  Reflects(new[c], In(c, plus \union {k}), In(c, minus))
  BY DEF Holds
<1> DEFINE P == In(c, plus)
           M == In(c, minus)
<1>1. Reflects(table[c], P, M) /\ Small(P) /\ Small(M)
  BY InOfSmall DEF Holds
<1>2. CASE c \in CellsOf(k)
  <2>1. In(c, plus \union {k}) = P \union {k} /\ In(c, minus) = M /\ k \notin P \union M
    BY <1>2 DEF In
  <2>2. Small(P \union {k})
    BY <2>1, InOfSmall
  <2>3. new[c] = Accumulate(table[c], 1, k, {k}, TRUE)
    BY <1>2 DEF Insert
  <2> HIDE DEF P, M, new
  <2>4. Reflects(Accumulate(table[c], 1, k, {k}, TRUE), P \union {k}, M)
    BY <1>1, <2>1, <2>2, CellGains
  <2> QED
    BY <2>1, <2>3, <2>4
<1>3. CASE c \notin CellsOf(k)
  <2>1. In(c, plus \union {k}) = P /\ In(c, minus) = M
    BY <1>3 DEF In
  <2>2. new[c] = table[c]
    BY <1>3 DEF Insert
  <2> HIDE DEF P, M, new
  <2> QED
    BY <1>1, <2>1, <2>2
<1> QED
  BY <1>2, <1>3

(* A key goes out of the table, on the side of plus or of minus.           *)
LEMMA EraseHolds ==
    ASSUME NEW table, NEW plus, NEW minus, Holds(table, plus, minus), Small(plus), Small(minus),
           NEW k \in plus, k \notin minus
    PROVE  Holds(Insert(table, CellsOf(k), -1, k), plus \ {k}, minus)
<1> DEFINE new == Insert(table, CellsOf(k), -1, k)
<1> SUFFICES ASSUME NEW c \in CellId
             PROVE  Reflects(new[c], In(c, plus \ {k}), In(c, minus))
  BY DEF Holds
<1> DEFINE P == In(c, plus)
           M == In(c, minus)
<1>1. Reflects(table[c], P, M) /\ Small(P) /\ Small(M)
  BY InOfSmall DEF Holds
<1>2. CASE c \in CellsOf(k)
  <2>1. In(c, plus \ {k}) = P \ {k} /\ In(c, minus) = M /\ k \in P /\ k \notin M
    BY <1>2 DEF In
  <2>3. new[c] = Accumulate(table[c], -1, k, {k}, TRUE)
    BY <1>2 DEF Insert
  <2> HIDE DEF P, M, new
  <2>4. Reflects(Accumulate(table[c], -1, k, {k}, TRUE), P \ {k}, M)
    BY <1>1, <2>1, CellLosesPlus
  <2> QED
    BY <2>1, <2>3, <2>4
<1>3. CASE c \notin CellsOf(k)
  <2>1. In(c, plus \ {k}) = P /\ In(c, minus) = M
    BY <1>3 DEF In
  <2>2. new[c] = table[c]
    BY <1>3 DEF Insert
  <2> HIDE DEF P, M, new
  <2> QED
    BY <1>1, <2>1, <2>2
<1> QED
  BY <1>2, <1>3

LEMMA UneraseHolds ==
    ASSUME NEW table, NEW plus, NEW minus, Holds(table, plus, minus), Small(plus), Small(minus),
           NEW k \in minus, k \notin plus
    PROVE  Holds(Insert(table, CellsOf(k), 1, k), plus, minus \ {k})
<1> DEFINE new == Insert(table, CellsOf(k), 1, k)
<1> SUFFICES ASSUME NEW c \in CellId
             PROVE  Reflects(new[c], In(c, plus), In(c, minus \ {k}))
  BY DEF Holds
<1> DEFINE P == In(c, plus)
           M == In(c, minus)
<1>1. Reflects(table[c], P, M) /\ Small(P) /\ Small(M)
  BY InOfSmall DEF Holds
<1>2. CASE c \in CellsOf(k)
  <2>1. In(c, minus \ {k}) = M \ {k} /\ In(c, plus) = P /\ k \in M /\ k \notin P
    BY <1>2 DEF In
  <2>3. new[c] = Accumulate(table[c], 1, k, {k}, TRUE)
    BY <1>2 DEF Insert
  <2> HIDE DEF P, M, new
  <2>4. Reflects(Accumulate(table[c], 1, k, {k}, TRUE), P, M \ {k})
    BY <1>1, <2>1, CellLosesMinus
  <2> QED
    BY <2>1, <2>3, <2>4
<1>3. CASE c \notin CellsOf(k)
  <2>1. In(c, plus) = P /\ In(c, minus \ {k}) = M
    BY <1>3 DEF In
  <2>2. new[c] = table[c]
    BY <1>3 DEF Insert
  <2> HIDE DEF P, M, new
  <2> QED
    BY <1>1, <2>1, <2>2
<1> QED
  BY <1>2, <1>3

(* One table is subtracted from another: the keys of both cancel.          *)
LEMMA SumsAfterMinus ==
    ASSUME NEW cell, NEW sub, NEW A, NEW B, Reflects(cell, A, {}), Reflects(sub, B, {}),
           Small(A), Small(B)
    PROVE  LET new == Accumulate(cell, -sub.count, sub.keySum, sub.keyCheck, sub.valued)
           IN  /\ new.count = Wrap(Cardinality(A) - Cardinality(B))
               /\ new.keySum = XorSum((A \ B) \union (B \ A))
               /\ new.keyCheck = (A \ B) \union (B \ A)
<1> DEFINE new == Accumulate(cell, -sub.count, sub.keySum, sub.keyCheck, sub.valued)
<1>1. /\ new.count = Wrap(cell.count + (-sub.count))
      /\ new.keySum = cell.keySum (+) sub.keySum
      /\ new.keyCheck = cell.keyCheck (+) sub.keyCheck
  BY DEF Accumulate
<1>2. /\ cell.count = Cardinality(A) - Cardinality({})
      /\ sub.count = Cardinality(B) - Cardinality({})
      /\ Cardinality({}) = 0
      /\ Cardinality(A) \in Nat /\ Cardinality(B) \in Nat
  BY FS_EmptySet, SmallSubset DEF Reflects
<1>3. cell.count + (-sub.count) = Cardinality(A) - Cardinality(B)
  BY <1>2
<1>4. A \union {} = A /\ B \union {} = B /\ A (+) B = (A \ B) \union (B \ A)
  BY DEF (+)
<1>5. XorSum(A (+) B) = XorSum(A) (+) XorSum(B)
  BY XorSumOfDifference DEF Small
<1>6. cell.keySum = XorSum(A) /\ sub.keySum = XorSum(B) /\ cell.keyCheck = A /\ sub.keyCheck = B
  BY <1>4 DEF Reflects
<1> QED
  BY <1>1, <1>3, <1>4, <1>5, <1>6

LEMMA CardinalityOfDifferences ==
    ASSUME NEW A, NEW B, IsFiniteSet(A), IsFiniteSet(B)
    PROVE  Cardinality(A) - Cardinality(B) = Cardinality(A \ B) - Cardinality(B \ A)
<1> DEFINE a == Cardinality(A)
           b == Cardinality(B)
           ab == Cardinality(A \ B)
           ba == Cardinality(B \ A)
           both == Cardinality(A \intersect B)
<1>1. ab = a - both /\ ba = b - Cardinality(B \intersect A)
  BY FS_Difference
<1>2. A \intersect B = B \intersect A
  OBVIOUS
<1>3. a \in Nat /\ b \in Nat /\ both \in Nat
  BY FS_CardinalityType, FS_Intersection
<1>4. ab = a - both /\ ba = b - both
  BY <1>1, <1>2
<1> HIDE DEF a, b, ab, ba, both
<1>5. a - b = ab - ba
  BY <1>3, <1>4
<1> QED
  BY <1>5 DEF a, b, ab, ba

LEMMA MinusHolds ==
    ASSUME NEW table, NEW sub, NEW A, NEW B, Holds(table, A, {}), Holds(sub, B, {}),
           Small(A), Small(B)
    PROVE  Holds(Minus(table, Set(sub)), A \ B, B \ A)
<1> DEFINE new == Minus(table, Set(sub))
<1> SUFFICES ASSUME NEW c \in CellId
             PROVE  Reflects(new[c], In(c, A \ B), In(c, B \ A))
  BY DEF Holds
<1> DEFINE P == In(c, A)
           Q == In(c, B)
           cell == Set(sub)[c]
<1>1. In(c, {}) = {} /\ In(c, A \ B) = P \ Q /\ In(c, B \ A) = Q \ P
  BY DEF In
<1>2. Small(P) /\ Small(Q) /\ Small(P \ Q) /\ Small(Q \ P)
  <2>1. Small(P) /\ Small(Q)
    BY InOfSmall
  <2> QED
    BY <2>1, SmallSubset
<1>3. Reflects(table[c], P, {})
  BY <1>1 DEF Holds
<1>4. Reflects(sub[c], Q, {})
  BY <1>1 DEF Holds
<1>5. cell.count = sub[c].count /\ cell.keySum = sub[c].keySum /\ cell.keyCheck = sub[c].keyCheck
  BY DEF Set
<1>6. Reflects(cell, Q, {})
  BY <1>4, <1>5 DEF Reflects
<1>7. new[c] = Accumulate(table[c], -cell.count, cell.keySum, cell.keyCheck, cell.valued)
  BY DEF Minus
<1> HIDE DEF P, Q, new, cell
<1>8. /\ new[c].count = Wrap(Cardinality(P) - Cardinality(Q))
      /\ new[c].keySum = XorSum((P \ Q) \union (Q \ P))
      /\ new[c].keyCheck = (P \ Q) \union (Q \ P)
  BY <1>2, <1>3, <1>6, <1>7, SumsAfterMinus
<1>9. new[c].count = Cardinality(P \ Q) - Cardinality(Q \ P)
  <2>1. Cardinality(P) - Cardinality(Q) = Cardinality(P \ Q) - Cardinality(Q \ P)
    BY <1>2, CardinalityOfDifferences DEF Small
  <2>2. Wrap(Cardinality(P \ Q) - Cardinality(Q \ P)) = Cardinality(P \ Q) - Cardinality(Q \ P)
    BY <1>2, CountInRange
  <2> QED
    BY <1>8, <2>1, <2>2
<1> QED
  BY <1>1, <1>8, <1>9 DEF Reflects

(* A cell that looks pure holds a single key, on the side its count tells. *)
LEMMA PureHoldsOne ==
    ASSUME NEW cell, NEW plus, NEW minus, Reflects(cell, plus, minus), isPure(cell),
           Small(plus), Small(minus), plus \intersect minus = {}
    PROVE  /\ plus \union minus = {cell.keySum}
           /\ cell.count = 1 => cell.keySum \in plus /\ cell.keySum \notin minus
           /\ cell.count # 1 => cell.count = -1 /\ cell.keySum \in minus /\ cell.keySum \notin plus
<1>1. plus \union minus = {cell.keySum}
  BY DEF Reflects, isPure
<1>2. CASE plus = {cell.keySum} /\ minus = {}
  <2>1. Cardinality(plus) = 1 /\ Cardinality(minus) = 0
    BY <1>2, FS_EmptySet, FS_Singleton
  <2>2. cell.count = 1 - 0
    BY <2>1 DEF Reflects
  <2> QED
    BY <1>1, <1>2, <2>2
<1>3. CASE minus = {cell.keySum} /\ plus = {}
  <2>1. Cardinality(plus) = 0 /\ Cardinality(minus) = 1
    BY <1>3, FS_EmptySet, FS_Singleton
  <2>2. cell.count = 0 - 1
    BY <2>1 DEF Reflects
  <2>3. cell.count = -1 /\ cell.count # 1
    BY <2>2
  <2> QED
    BY <1>1, <1>3, <2>3
<1> QED
  BY <1>1, <1>2, <1>3

-------------------------------------------------------------------------------
(* Steps.                                                                  *)

(* The keys that the table of differences holds.                           *)
MineLeft == MineOnly \ positive
OtherLeft == OtherOnly \ negative

(* Holds, of any hash functions: what a step that keeps them preserves.    *)
Held(h, table, plus, minus) ==
    \A c \in CellId :
       Reflects(table[c], {k \in plus : c \in {(i - 1) * Buckets + h[i][k] : i \in 1..NumHashes}},
                {k \in minus : c \in {(i - 1) * Buckets + h[i][k] : i \in 1..NumHashes}})

LEMMA HoldsIsHeld ==
    \A table, plus, minus : Holds(table, plus, minus) <=> Held(hash, table, plus, minus)
BY DEF Holds, Held, In, CellsOf

LEMMA HoldsTheRestIsHeld ==
    HoldsTheRest <=>
        IF phase = "insert"
        THEN Held(hash, mine, inserted[1], {}) /\ Held(hash, other, inserted[2], {})
        ELSE Held(hash, mine, MineLeft, OtherLeft)
BY DEF HoldsTheRest, Holds, Held, In, CellsOf, MineLeft, OtherLeft, MineOnly, OtherOnly

LEMMA HoldsTheRestNext ==
    HoldsTheRest' <=>
        IF phase' = "insert"
        THEN Held(hash', mine', inserted'[1], {}) /\ Held(hash', other', inserted'[2], {})
        ELSE Held(hash', mine', MineLeft', OtherLeft')
BY DEF HoldsTheRest, Holds, Held, In, CellsOf, MineLeft, OtherLeft, MineOnly, OtherOnly

LEMMA LeftProperties ==
    ASSUME IInv
    PROVE  Small(MineLeft) /\ Small(OtherLeft) /\ MineLeft \intersect OtherLeft = {}
<1>1. MineLeft \in SUBSET mineKeys /\ OtherLeft \in SUBSET otherKeys
  BY DEF MineLeft, OtherLeft, MineOnly, OtherOnly
<1>2. MineLeft \intersect OtherLeft = {}
  BY DEF MineLeft, OtherLeft, MineOnly, OtherOnly
<1> QED
  BY <1>1, <1>2, SmallSubset DEF IInv

LEMMA InitHolds == Init => IInv
<1> SUFFICES ASSUME Init PROVE IInv
  OBVIOUS
<1>1. Small(mineKeys) /\ Small(otherKeys)
  <2>1. PICK input \in Inputs : mineKeys = input[1] /\ otherKeys = input[2]
    BY DEF Init
  <2>2. input[1] \in SUBSET Key /\ input[2] \in SUBSET Key
    BY IbltAssumption
  <2>3. \A i \in 1..2 : IsFiniteSet(input[i]) /\ Cardinality(input[i]) <= MaxCount
    BY IbltAssumption
  <2> QED
    BY <2>1, <2>2, <2>3 DEF Small
<1>2. Reflects(NoCell, {}, {})
  <2>1. XorSum({}) = {}
    BY XorSumOfNone
  <2> QED
    BY <2>1, FS_EmptySet DEF Reflects, NoCell
<1>3. \A c : In(c, {}) = {}
  BY DEF In
<1>4. Holds(mine, {}, {}) /\ Holds(other, {}, {})
  BY <1>2, <1>3 DEF Init, Holds
<1>5. HoldsTheRest
  BY <1>4 DEF Init, HoldsTheRest
<1>6. inserted \in (SUBSET mineKeys) \X (SUBSET otherKeys)
  BY DEF Init
<1> QED
  BY <1>1, <1>5, <1>6 DEF Init, IInv, ListedAreDifferences

LEMMA InsertMineKeeps == IInv /\ InsertMine => IInv'
<1> SUFFICES ASSUME IInv, InsertMine PROVE IInv'
  OBVIOUS
<1>1. PICK k \in mineKeys \ inserted[1] :
         /\ mine' = Insert(mine, CellsOf(k), 1, k)
         /\ inserted' = <<inserted[1] \union {k}, inserted[2]>>
  BY DEF InsertMine
<1>2. inserted[1] \in SUBSET mineKeys /\ inserted[2] \in SUBSET otherKeys
  BY DEF IInv
<1>3. k \in Key /\ k \notin inserted[1] \union {} /\ Small({})
  BY SmallSubset DEF IInv, Small
<1>4. Small(inserted[1]) /\ Small(inserted[1] \union {k})
  BY <1>2, SmallSubset DEF IInv
<1>5. phase = "insert" /\ Holds(mine, inserted[1], {}) /\ Holds(other, inserted[2], {})
  BY DEF IInv, HoldsTheRest, InsertMine
<1>6. Holds(mine', inserted[1] \union {k}, {})
  BY <1>1, <1>3, <1>4, <1>5, InsertHolds
<1>7. inserted'[1] = inserted[1] \union {k} /\ inserted'[2] = inserted[2]
  BY <1>1
<1>8. HoldsTheRest'
  BY <1>5, <1>6, <1>7, HoldsIsHeld, HoldsTheRestNext DEF InsertMine
<1>9. inserted' \in (SUBSET mineKeys) \X (SUBSET otherKeys)
  BY <1>1, <1>2
<1> QED
  BY <1>5, <1>8, <1>9 DEF IInv, InsertMine, ListedAreDifferences, Small

LEMMA InsertOtherKeeps == IInv /\ InsertOther => IInv'
<1> SUFFICES ASSUME IInv, InsertOther PROVE IInv'
  OBVIOUS
<1>1. PICK k \in otherKeys \ inserted[2] :
         /\ other' = Insert(other, CellsOf(k), 1, k)
         /\ inserted' = <<inserted[1], inserted[2] \union {k}>>
  BY DEF InsertOther, OtherCellsOf
<1>2. inserted[1] \in SUBSET mineKeys /\ inserted[2] \in SUBSET otherKeys
  BY DEF IInv
<1>3. k \in Key /\ k \notin inserted[2] \union {} /\ Small({})
  BY SmallSubset DEF IInv, Small
<1>4. Small(inserted[2]) /\ Small(inserted[2] \union {k})
  BY <1>2, SmallSubset DEF IInv
<1>5. phase = "insert" /\ Holds(mine, inserted[1], {}) /\ Holds(other, inserted[2], {})
  BY DEF IInv, HoldsTheRest, InsertOther
<1>6. Holds(other', inserted[2] \union {k}, {})
  BY <1>1, <1>3, <1>4, <1>5, InsertHolds
<1>7. inserted'[1] = inserted[1] /\ inserted'[2] = inserted[2] \union {k}
  BY <1>1
<1>8. HoldsTheRest'
  BY <1>5, <1>6, <1>7, HoldsIsHeld, HoldsTheRestNext DEF InsertOther
<1>9. inserted' \in (SUBSET mineKeys) \X (SUBSET otherKeys)
  BY <1>1, <1>2
<1> QED
  BY <1>5, <1>8, <1>9 DEF IInv, InsertOther, ListedAreDifferences, Small

LEMMA SubtractKeeps == IInv /\ Subtract => IInv'
<1> SUFFICES ASSUME IInv, Subtract PROVE IInv'
  OBVIOUS
<1>1. inserted[1] = mineKeys /\ inserted[2] = otherKeys
  BY DEF Subtract
<1>2. Holds(mine, mineKeys, {}) /\ Holds(other, otherKeys, {})
  BY <1>1 DEF IInv, HoldsTheRest, Subtract
<1>3. Holds(mine', MineOnly, OtherOnly)
  BY <1>2, MinusHolds DEF Subtract, IInv, MineOnly, OtherOnly
<1>4. positive' = {} /\ negative' = {} /\ at' = 1 /\ phase' = "list"
  BY DEF IInv, Subtract
<1>5. HoldsTheRest'
  <2>1. MineLeft' = MineOnly /\ OtherLeft' = OtherOnly
    BY <1>4 DEF Subtract, MineLeft, OtherLeft, MineOnly, OtherOnly
  <2>2. phase' # "insert" /\ hash' = hash
    BY DEF Subtract
  <2> QED
    BY <1>3, <2>1, <2>2, HoldsIsHeld, HoldsTheRestNext
<1>6. PassSoFar'
  BY <1>4 DEF PassSoFar, CellId
<1> QED
  BY <1>4, <1>5, <1>6 DEF IInv, Subtract, ListedAreDifferences, Small

LEMMA PeelKeeps == IInv /\ Peel => IInv'
<1> SUFFICES ASSUME IInv, Peel PROVE IInv'
  OBVIOUS
<1> DEFINE k == mine[at].keySum
<1>1. Holds(mine, MineLeft, OtherLeft)
  BY DEF IInv, Peel, HoldsTheRest, MineLeft, OtherLeft, MineOnly, OtherOnly
<1>2. Small(MineLeft) /\ Small(OtherLeft) /\ MineLeft \intersect OtherLeft = {}
  BY LeftProperties
<1>3. /\ mine[at].count = 1 => k \in MineLeft /\ k \notin OtherLeft
      /\ mine[at].count # 1 => mine[at].count = -1 /\ k \in OtherLeft /\ k \notin MineLeft
  <2> DEFINE P == In(at, MineLeft)
             M == In(at, OtherLeft)
  <2>1. Small(P) /\ Small(M) /\ P \intersect M = {} /\ P \subseteq MineLeft /\ M \subseteq OtherLeft
    <3>1. P \subseteq MineLeft /\ M \subseteq OtherLeft
      BY DEF In
    <3> QED
      BY <1>2, <3>1, InOfSmall
  <2>2. Reflects(mine[at], P, M) /\ isPure(mine[at])
    BY <1>1 DEF Holds, Peel
  <2> HIDE DEF P, M
  <2>3. /\ P \union M = {k}
        /\ mine[at].count = 1 => k \in P /\ k \notin M
        /\ mine[at].count # 1 => mine[at].count = -1 /\ k \in M /\ k \notin P
    BY <2>1, <2>2, PureHoldsOne
  <2> QED
    BY <1>2, <2>1, <2>3
<1>4. /\ Held(hash, mine', MineLeft', OtherLeft')
      /\ ListedAreDifferences'
  <2>0. MineOnly' = MineOnly /\ OtherOnly' = OtherOnly
    BY DEF Peel, MineOnly, OtherOnly
  <2>1. CASE mine[at].count = 1
    <3>1. positive' = positive \union {k} /\ negative' = negative
      BY <2>1 DEF Peel
    <3>2. mine' = Insert(mine, CellsOf(k), -1, k)
      BY <2>1 DEF Peel
    <3>3. MineLeft' = MineLeft \ {k} /\ OtherLeft' = OtherLeft
      BY <2>0, <3>1 DEF MineLeft, OtherLeft
    <3>4. k \in MineLeft /\ k \notin OtherLeft
      BY <1>3, <2>1
    <3> HIDE DEF k
    <3>5. Holds(Insert(mine, CellsOf(k), -1, k), MineLeft \ {k}, OtherLeft)
      BY <1>1, <1>2, <3>4, EraseHolds
    <3>6. ListedAreDifferences'
      BY <3>1, <3>4 DEF ListedAreDifferences, IInv, Peel, MineLeft, MineOnly
    <3> QED
      BY <3>2, <3>3, <3>5, <3>6, HoldsIsHeld
  <2>2. CASE mine[at].count # 1
    <3>1. positive' = positive /\ negative' = negative \union {k}
      BY <2>2 DEF Peel
    <3>2. mine' = Insert(mine, CellsOf(k), 1, k)
      <4>1. -mine[at].count = 1
        BY <1>3, <2>2
      <4> QED
        BY <4>1 DEF Peel
    <3>3. MineLeft' = MineLeft /\ OtherLeft' = OtherLeft \ {k}
      BY <2>0, <3>1 DEF MineLeft, OtherLeft
    <3>4. k \in OtherLeft /\ k \notin MineLeft
      BY <1>3, <2>2
    <3> HIDE DEF k
    <3>5. Holds(Insert(mine, CellsOf(k), 1, k), MineLeft, OtherLeft \ {k})
      BY <1>1, <1>2, <3>4, UneraseHolds
    <3>6. ListedAreDifferences'
      BY <3>1, <3>4 DEF ListedAreDifferences, IInv, Peel, OtherLeft, OtherOnly
    <3> QED
      BY <3>2, <3>3, <3>5, <3>6, HoldsIsHeld
  <2> QED
    BY <2>1, <2>2
<1>5. HoldsTheRest'
  <2>1. phase' # "insert" /\ hash' = hash
    BY DEF Peel
  <2> QED
    BY <1>4, <2>1, HoldsTheRestNext
<1>6. PassSoFar' /\ at' \in Nat /\ at' > 0
  BY DEF Peel, PassSoFar, IInv
<1> QED
  BY <1>4, <1>5, <1>6 DEF IInv, Peel, Small

(* The steps that change neither the tables nor the lists.                 *)
LEMMA TablesUnchanged ==
    ASSUME IInv, phase # "insert", phase' # "insert",
           UNCHANGED <<hash, mineKeys, otherKeys, mine, positive, negative>>
    PROVE  HoldsTheRest' /\ ListedAreDifferences'
<1>1. MineLeft' = MineLeft /\ OtherLeft' = OtherLeft
  BY DEF MineLeft, OtherLeft, MineOnly, OtherOnly
<1>2. HoldsTheRest'
  BY <1>1, HoldsTheRestIsHeld, HoldsTheRestNext DEF IInv
<1> QED
  BY <1>2 DEF IInv, ListedAreDifferences

LEMMA ListingKeeps == IInv /\ (Skip \/ Again \/ Return) => IInv'
<1> SUFFICES ASSUME IInv, Skip \/ Again \/ Return PROVE IInv'
  OBVIOUS
<1>1. /\ phase # "insert" /\ phase' # "insert"
      /\ UNCHANGED <<hash, mineKeys, otherKeys, mine, other, inserted, positive, negative>>
  BY DEF Skip, Again, Return, PassEnds
<1>2. HoldsTheRest' /\ ListedAreDifferences'
  BY <1>1, TablesUnchanged
<1>3. PassSoFar' /\ at' \in Nat /\ at' > 0
  <2>1. CASE Skip
    BY <2>1 DEF Skip, PassSoFar, IInv, CellId
  <2>2. CASE Again
    BY <2>2 DEF Again, PassSoFar, CellId
  <2>3. CASE Return
    BY <2>3 DEF Return, PassEnds, PassSoFar, IInv
  <2> QED
    BY <2>1, <2>2, <2>3
<1>4. phase' = "done" => (returned' <=> FirstEmpty') /\ ~erased' /\ at' \notin CellId
  BY DEF Skip, Again, Return, PassEnds, AnotherPass, FirstEmpty
<1> QED
  BY <1>1, <1>2, <1>3, <1>4 DEF IInv, Small

LEMMA IInvHolds == Spec => []IInv
<1>1. IInv /\ [Next]_vars => IInv'
  <2> SUFFICES ASSUME IInv, [Next]_vars PROVE IInv'
    OBVIOUS
  <2>1. CASE UNCHANGED vars
    <3>1. MineLeft' = MineLeft /\ OtherLeft' = OtherLeft
      BY <2>1 DEF vars, MineLeft, OtherLeft, MineOnly, OtherOnly
    <3>2. HoldsTheRest'
      BY <2>1, <3>1, HoldsTheRestIsHeld, HoldsTheRestNext DEF vars, IInv
    <3>3. ListedAreDifferences' /\ (PassSoFar => PassSoFar') /\ (FirstEmpty' <=> FirstEmpty)
      BY <2>1 DEF vars, IInv, ListedAreDifferences, PassSoFar, FirstEmpty
    <3> QED
      BY <2>1, <3>2, <3>3 DEF vars, IInv, Small
  <2>2. CASE Next
    BY <2>1, <2>2, InsertMineKeeps, InsertOtherKeeps, SubtractKeeps, PeelKeeps, ListingKeeps
    DEF Next, Stopped
  <2> QED
    BY <2>1, <2>2
<1> QED
  BY <1>1, InitHolds, PTL DEF Spec

-------------------------------------------------------------------------------
(* What listEntries() rests on: the table of differences holds exactly     *)
(* those that have not been listed.                                        *)
THEOREM TableHoldsTheRest == Spec => []HoldsTheRest
<1>1. IInv => HoldsTheRest
  BY DEF IInv
<1> QED
  BY <1>1, IInvHolds, PTL

(* What listEntries() lists is a difference, and on the right side,        *)
(* although count and keyCheck are all that tells a cell with one key from *)
(* one with several.                                                       *)
THEOREM OnlyDifferencesListed == Spec => []ListedAreDifferences
<1>1. IInv => ListedAreDifferences
  BY DEF IInv
<1> QED
  BY <1>1, IInvHolds, PTL

(* The converse of PureHoldsOne.                                           *)
LEMMA OneIsPure ==
    ASSUME NEW cell, NEW plus, NEW minus, Reflects(cell, plus, minus), plus \intersect minus = {},
           NEW k \in Key, plus \union minus = {k}
    PROVE  isPure(cell)
<1>1. cell.keyCheck = {cell.keySum}
  BY XorSumOfOne DEF Reflects
<1>2. CASE plus = {k} /\ minus = {}
  <2>1. Cardinality(plus) = 1 /\ Cardinality(minus) = 0
    BY <1>2, FS_EmptySet, FS_Singleton
  <2>2. cell.count = 1 - 0
    BY <2>1 DEF Reflects
  <2> QED
    BY <1>1, <2>2 DEF isPure
<1>3. CASE minus = {k} /\ plus = {}
  <2>1. Cardinality(plus) = 0 /\ Cardinality(minus) = 1
    BY <1>3, FS_EmptySet, FS_Singleton
  <2>2. cell.count = 0 - 1
    BY <2>1 DEF Reflects
  <2>3. cell.count = -1
    BY <2>2
  <2> QED
    BY <1>1, <2>3 DEF isPure
<1> QED
  BY <1>2, <1>3

LEMMA MoreThanOne ==
    ASSUME NEW S, IsFiniteSet(S), NEW k \in S, S # {k}
    PROVE  Cardinality(S) > 1
<1>1. PICK j \in S : j # k
  OBVIOUS
<1>2. {j, k} \in SUBSET S /\ Cardinality({j, k}) = 2
  <2>1. IsFiniteSet({k}) /\ Cardinality({k}) = 1
    BY FS_Singleton
  <2>2. Cardinality({k} \union {j}) = 1 + 1
    BY <1>1, <2>1, FS_AddElement
  <2>3. {k} \union {j} = {j, k}
    OBVIOUS
  <2> QED
    BY <1>1, <2>2, <2>3
<1>3. Cardinality({j, k}) <= Cardinality(S) /\ Cardinality(S) \in Nat
  BY <1>2, FS_Subset, FS_CardinalityType
<1> QED
  BY <1>2, <1>3

(* The cells of the first hash function, and the end of a pass.            *)
LEMMA FirstRange == \A c \in 1..Buckets : c \in CellId
<1>1. NumHashes \in Nat /\ NumHashes > 1 /\ Buckets \in Nat /\ Buckets > 0
  BY IbltAssumption
<1>2. Buckets <= NumHashes * Buckets
  BY <1>1
<1>3. NumHashes * Buckets \in Nat
  BY <1>1
<1> QED
  BY <1>1, <1>2, <1>3 DEF CellId

LEMMA PastTheEnd ==
    ASSUME NEW i \in Nat, i > 0, i \notin CellId, NEW c \in CellId
    PROVE  c < i
<1> DEFINE n == NumHashes * Buckets
<1>1. n \in Nat
  BY IbltAssumption
<1>2. i \notin 1..n /\ c \in 1..n
  BY DEF CellId
<1> HIDE DEF n
<1> QED
  BY <1>1, <1>2

(* What is left, when listing ends, of the two sides' differences.         *)
LEMMA LeftInCells ==
    ASSUME IInv, phase = "done", NEW c \in CellId
    PROVE  /\ Reflects(mine[c], In(c, MineLeft), In(c, OtherLeft))
           /\ In(c, MineLeft) \union In(c, OtherLeft) = In(c, MineLeft \union OtherLeft)
BY DEF IInv, HoldsTheRest, Holds, In, MineLeft, OtherLeft, MineOnly, OtherOnly

(* The cells of a key are cells of the table, and the first of them is in  *)
(* the range of the first hash function.                                   *)
LEMMA CellsOfKey ==
    ASSUME IInv, NEW k \in Key
    PROVE  /\ CellsOf(k) \subseteq CellId
           /\ \E c \in CellsOf(k) : c \in 1..Buckets
<1>1. NumHashes \in Nat /\ NumHashes > 1 /\ Buckets \in Nat /\ Buckets > 0
  BY IbltAssumption
<1>2. hash \in [1..NumHashes -> [Key -> 1..Buckets]]
  BY IbltAssumption DEF IInv
<1>3. ASSUME NEW i \in 1..NumHashes
      PROVE  (i - 1) * Buckets + hash[i][k] \in CellId
  <2>1. hash[i][k] \in 1..Buckets
    BY <1>2
  <2> DEFINE h == hash[i][k]
             N == NumHashes
             B == Buckets
             d == NumHashes - i
  <2>2. i \in Nat /\ i > 0 /\ d \in Nat /\ N = i + d
    BY <1>1
  <2>3. h \in Nat /\ h > 0 /\ h <= B
    BY <1>1, <2>1
  <2> HIDE DEF h, d
  <2>4. N * B = (i - 1) * B + B + d * B
    BY <1>1, <2>2
  <2>5. d * B \in Nat /\ (i - 1) * B \in Nat
    <3>1. \A x, y \in Nat : x * y \in Nat
      OBVIOUS
    <3>2. i - 1 \in Nat
      BY <2>2
    <3> QED
      BY <1>1, <2>2, <3>1, <3>2
  <2> DEFINE p == d * B
             q == (i - 1) * B
             n == N * B
  <2>6. n = q + B + p /\ p \in Nat /\ q \in Nat
    BY <2>4, <2>5
  <2> HIDE DEF p, q, n
  <2>7. q + h \in 1..n
    BY <1>1, <2>3, <2>6
  <2> QED
    BY <2>7 DEF CellId, h, n, q
<1>4. hash[1][k] \in CellsOf(k) /\ hash[1][k] \in 1..Buckets
  <2>1. 1 \in 1..NumHashes /\ hash[1][k] \in 1..Buckets
    BY <1>1, <1>2
  <2>2. (1 - 1) * Buckets + hash[1][k] = hash[1][k]
    BY <1>1, <2>1
  <2> QED
    BY <2>1, <2>2 DEF CellsOf
<1> QED
  BY <1>3, <1>4 DEF CellsOf

(* When listEntries() returns true, every difference has been listed,      *)
(* although it has only looked whether the first bucketsPerHash cells are  *)
(* empty: a key that is left is in one of these.                           *)
THEOREM TrueListsAll == Spec => []TrueMeansAll
<1>1. IInv => TrueMeansAll
  <2> SUFFICES ASSUME IInv, phase = "done", returned
               PROVE  positive = MineOnly /\ negative = OtherOnly
    BY DEF TrueMeansAll, MineOnly, OtherOnly
  <2>1. ASSUME NEW k \in MineLeft \union OtherLeft PROVE FALSE
    <3>1. k \in Key
      BY LeftProperties DEF Small
    <3>2. PICK c \in CellsOf(k) : c \in 1..Buckets /\ c \in CellId
      BY <3>1, CellsOfKey
    <3>3. mine[c].keyCheck = {}
      BY <3>2 DEF IInv, FirstEmpty, empty
    <3>4. k \in In(c, MineLeft \union OtherLeft)
      BY <3>2 DEF In
    <3> QED
      BY <3>2, <3>3, <3>4, LeftInCells DEF Reflects
  <2> QED
    BY <2>1 DEF IInv, ListedAreDifferences, MineLeft, OtherLeft, MineOnly, OtherOnly
<1> QED
  BY <1>1, IInvHolds, PTL

(* When listEntries() returns false, no further pass would list a key:     *)
(* every cell of a key that is left holds another one too.                 *)
THEOREM FalseIsStuck == Spec => []FalseMeansStuck
<1>1. IInv => FalseMeansStuck
  <2> SUFFICES ASSUME IInv, phase = "done", ~returned
               PROVE  /\ MineLeft \union OtherLeft # {}
                      /\ \A k \in MineLeft \union OtherLeft : \A c \in CellsOf(k) :
                            Cardinality(In(c, MineLeft \union OtherLeft)) > 1
    BY DEF FalseMeansStuck, MineLeft, OtherLeft, MineOnly, OtherOnly
  <2> DEFINE rest == MineLeft \union OtherLeft
  <2>1. rest # {}
    <3> SUFFICES ASSUME rest = {} PROVE FALSE
      OBVIOUS
    <3>1. PICK c \in 1..Buckets : ~empty(mine[c])
      BY DEF IInv, FirstEmpty
    <3>2. c \in CellId
      BY <3>1, FirstRange
    <3>3. In(c, MineLeft) = {} /\ In(c, OtherLeft) = {}
      BY DEF In
    <3>4. Reflects(mine[c], {}, {})
      BY <3>2, <3>3, LeftInCells
    <3>5. empty(mine[c])
      <4>1. mine[c].count = 0 - 0
        BY <3>4, FS_EmptySet DEF Reflects
      <4> QED
        BY <3>4, <4>1, XorSumOfNone DEF Reflects, empty
    <3> QED
      BY <3>1, <3>5
  <2>2. ASSUME NEW k \in rest, NEW c \in CellsOf(k)
        PROVE  Cardinality(In(c, rest)) > 1
    <3>0. k \in Key /\ c \in CellId /\ ~isPure(mine[c])
      <4>1. k \in Key
        BY LeftProperties DEF Small
      <4>2. c \in CellId
        BY <4>1, CellsOfKey
      <4>3. c < at
        BY <4>2, PastTheEnd DEF IInv
      <4> QED
        BY <4>1, <4>2, <4>3 DEF IInv, PassSoFar
    <3> DEFINE P == In(c, MineLeft)
               M == In(c, OtherLeft)
    <3>1. Reflects(mine[c], P, M) /\ P \union M = In(c, rest)
      BY <3>0, LeftInCells
    <3>2. Small(P) /\ Small(M) /\ P \intersect M = {}
      BY LeftProperties, InOfSmall DEF In
    <3>3. k \in P \union M /\ IsFiniteSet(P \union M)
      BY <3>1, <3>2, FS_Union DEF In, Small
    <3> HIDE DEF P, M
    <3>4. P \union M # {k}
      BY <3>0, <3>1, <3>2, OneIsPure
    <3>5. Cardinality(P \union M) > 1
      BY <3>3, <3>4, MoreThanOne
    <3> QED
      BY <3>1, <3>5
  <2> QED
    BY <2>1, <2>2
<1> QED
  BY <1>1, IInvHolds, PTL

-------------------------------------------------------------------------------
(* Values.  Subtraction gives every cell one, and a cell loses it only     *)
(* when it is empty.                                                       *)
ValuedOrEmpty == phase = "list" => \A c \in CellId : mine[c].valued \/ empty(mine[c])

LEMMA AccumulateValues ==
    ASSUME NEW cell, NEW n, NEW sum, NEW check
    PROVE  LET new == Accumulate(cell, n, sum, check, TRUE) IN new.valued \/ empty(new)
<1> DEFINE new == Accumulate(cell, n, sum, check, TRUE)
<1>1. CASE empty(new)
  BY <1>1
<1>2. CASE ~empty(new)
  <2>1. new.valued = (~(/\ new.count = 0
                        /\ new.keySum = {}
                        /\ new.keyCheck = {}) /\ (cell.valued \/ TRUE))
    BY DEF Accumulate
  <2> QED
    BY <1>2, <2>1 DEF empty
<1> QED
  BY <1>1, <1>2

(* A key that listEntries() takes out of the table comes with a value,     *)
(* although the cells are sent without one.                                *)
THEOREM PureAreValued == Spec => []PureCellsHaveValues
<1>1. Init => ValuedOrEmpty
  BY DEF Init, ValuedOrEmpty
<1>2. ValuedOrEmpty /\ [Next]_vars => ValuedOrEmpty'
  <2> SUFFICES ASSUME ValuedOrEmpty, [Next]_vars, phase' = "list", NEW c \in CellId
               PROVE  mine'[c].valued \/ empty(mine'[c])
    BY DEF ValuedOrEmpty, CellId, empty
  <2>1. CASE Subtract
    <3>1. mine'[c] = Accumulate(mine[c], -other[c].count, other[c].keySum, other[c].keyCheck, TRUE)
      BY <2>1 DEF Subtract, Minus, Set
    <3> QED
      BY <3>1, AccumulateValues
  <2>2. CASE Peel
    <3> DEFINE k == mine[at].keySum
    <3>1. CASE c \in CellsOf(k)
      <4>1. mine'[c] = Accumulate(mine[c], -mine[at].count, k, {k}, TRUE)
        BY <2>2, <3>1 DEF Peel, Insert
      <4> QED
        BY <4>1, AccumulateValues
    <3>2. CASE c \notin CellsOf(k)
      <4>1. mine'[c] = mine[c] /\ phase = "list"
        BY <2>2, <3>2 DEF Peel, Insert
      <4> QED
        BY <4>1 DEF ValuedOrEmpty
    <3> QED
      BY <3>1, <3>2
  <2>3. CASE Skip \/ Again \/ Stopped \/ UNCHANGED vars
    <3>1. mine' = mine /\ phase = "list"
      BY <2>3 DEF Skip, Again, Stopped, vars
    <3> QED
      BY <3>1 DEF ValuedOrEmpty
  <2>4. CASE InsertMine \/ InsertOther \/ Return
    BY <2>4 DEF InsertMine, InsertOther, Return
  <2> QED
    BY <2>1, <2>2, <2>3, <2>4 DEF Next
<1>3. ValuedOrEmpty => PureCellsHaveValues
  BY DEF ValuedOrEmpty, PureCellsHaveValues, isPure, empty
<1> QED
  BY <1>1, <1>2, <1>3, PTL DEF Spec
=============================================================================
