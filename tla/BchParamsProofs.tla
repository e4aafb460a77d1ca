--------------------------- MODULE BchParamsProofs ---------------------------
(***************************************************************************)
(* What bestBchParam answers is the cheapest pair that meets the target,   *)
(* for any limits, targets and processes, and what is cached stays so      *)
(* unless a torn file is loaded.                                           *)
(*                                                                         *)
(* The inductive invariant says of every search that its pair is the       *)
(* cheapest of the lengths it has been through, and of a binary search     *)
(* that its lower end does not meet the target and its upper end does.     *)
(***************************************************************************)
EXTENDS BchParams, TLAPS

\* Meets and CheapestBelow with the least capacities n in place of need.
MeetsIn(n, q, m, t) == n[q][m] <= t

BestBelow(n, q, m, pair) ==
    \/ /\ pair = NoPair
       /\ \A k \in Ms : k < m => \A t \in Capacities(q, k) : ~MeetsIn(n, q, k, t)
    \/ /\ pair[1] \in Ms /\ pair[1] < m
       /\ pair[2] \in Capacities(q, pair[1]) /\ MeetsIn(n, q, pair[1], pair[2])
       /\ \A k \in Ms : k < m =>
             \A t \in Capacities(q, k) :
                MeetsIn(n, q, k, t) => Cost(pair) <= Cost(<<k, t>>)

\* The two ways of saying that a pair is the cheapest one are the same.
LEMMA BestBelowIsCheapest ==
    ASSUME NEW q, NEW m, NEW pair
    PROVE  CheapestBelow(q, m, pair) <=> BestBelow(need, q, m, pair)
BY DEF CheapestBelow, BestBelow, Meets, MeetsIn

-----------------------------------------------------------------------------
(* Facts about lengths, capacities and costs. *)

LEMMA MsAreNumbers == Ms \subseteq Nat /\ \A m \in Ms : MMin <= m /\ m <= MMax /\ 1 < m
BY LimitsAssumption DEF Ms

\* The least capacity of a length and the largest one are numbers.
LEMMA CapacitiesAreNumbers ==
    ASSUME NEW q \in Requests, NEW m \in Ms
    PROVE  /\ TMin(m) \in Nat /\ TMax(m, q[2]) \in Int
           /\ Capacities(q, m) \subseteq Nat
           /\ TMin(m) \in Capacities(q, m)
           /\ \A t \in Nat : TMin(m) <= t /\ t <= TMax(m, q[2]) => t \in Capacities(q, m)
           /\ \A t \in Capacities(q, m) : TMin(m) <= t
<1>1. m \in Nat /\ 2^m \in Nat /\ MaxBalls \in Nat
  BY LimitsAssumption, MsAreNumbers
<1>2. Limit[q[2]] \in Nat
  BY LimitsAssumption DEF Args
<1>3. TMin(m) \in Nat
  BY <1>1 DEF TMin
<1>4. TMax(m, q[2]) \in Int
  BY <1>1, <1>2 DEF TMax, Smaller
<1> HIDE DEF TMin, TMax
<1>5. QED
  BY <1>3, <1>4 DEF Capacities

\* Of one length, the smaller capacity is no dearer.
LEMMA CostGrows ==
    ASSUME NEW m \in Nat, NEW t \in Nat, NEW u \in Nat, t <= u
    PROVE  Cost(<<m, t>>) <= Cost(<<m, u>>)
<1>1. m * t <= m * u
  <2>1. PICK k \in Nat : u = t + k
    <3>1. u - t \in Nat /\ u = t + (u - t)
      OBVIOUS
    <3>2. QED
      BY <3>1
  <2>2. m * u = m * t + m * k
    BY <2>1
  <2>3. m * k \in Nat /\ m * t \in Nat
    OBVIOUS
  <2>4. QED
    BY <2>2, <2>3
<1>2. QED
  BY <1>1 DEF Cost

\* The cost of a pair of numbers is a number.
LEMMA CostIsNumber ==
    ASSUME NEW m \in Nat, NEW t \in Nat
    PROVE  Cost(<<m, t>>) \in Nat
BY DEF Cost

\* Before the first length, that there is no pair is right.
LEMMA NoneBelowTheFirst ==
    ASSUME NEW n, NEW q
    PROVE  BestBelow(n, q, MMin, NoPair)
<1>1. \A k \in Ms : ~(k < MMin)
  BY MsAreNumbers, LimitsAssumption
<1>2. QED
  BY <1>1 DEF BestBelow

\* A length of which no capacity meets the target changes nothing.
LEMMA LengthWithout ==
    ASSUME NEW n, NEW q, NEW m \in Ms, NEW pair,
           BestBelow(n, q, m, pair),
           \A t \in Capacities(q, m) : ~MeetsIn(n, q, m, t)
    PROVE  BestBelow(n, q, m + 1, pair)
<1>1. \A k \in Ms : k < m + 1 => k < m \/ k = m
  BY MsAreNumbers
<1>2. \A k \in Ms : k < m => k < m + 1
  BY MsAreNumbers
<1>3. QED
  BY <1>1, <1>2 DEF BestBelow

\* The least capacity of a length that meets the target, if it is cheaper than
\* the best pair so far, is the best pair, and otherwise this one still is.
LEMMA LengthWith ==
    ASSUME NEW n, NEW q \in Requests, NEW m \in Ms, NEW pair, NEW t \in Nat,
           BestBelow(n, q, m, pair),
           t \in Capacities(q, m), MeetsIn(n, q, m, t),
           \A u \in Capacities(q, m) : MeetsIn(n, q, m, u) => t <= u
    PROVE  BestBelow(n, q, m + 1, Best(<<m, t>>, pair))
<1>1. \A k \in Ms : k < m + 1 => k < m \/ k = m
  BY MsAreNumbers
<1>2. \A k \in Ms : k < m => k < m + 1
  BY MsAreNumbers
<1>3. m \in Nat /\ m < m + 1 /\ 1 < m
  BY MsAreNumbers
<1>4. \A k \in Ms : \A u \in Capacities(q, k) : Cost(<<k, u>>) \in Nat
  BY CapacitiesAreNumbers, MsAreNumbers, CostIsNumber
<1>5. \A u \in Capacities(q, m) : MeetsIn(n, q, m, u) => Cost(<<m, t>>) <= Cost(<<m, u>>)
  BY CapacitiesAreNumbers, CostGrows, <1>3
<1>6. Cost(<<m, t>>) \in Nat
  BY <1>3, CostIsNumber
<1>7. <<m, t>>[1] = m /\ <<m, t>>[2] = t
  OBVIOUS
<1>8. CASE pair = NoPair
  <2>1. Best(<<m, t>>, pair) = <<m, t>>
    BY <1>8 DEF Best, Cheaper
  <2>2. \A k \in Ms : k < m => \A u \in Capacities(q, k) : ~MeetsIn(n, q, k, u)
    <3>1. ~(pair[1] \in Ms)
      BY <1>8, MsAreNumbers DEF NoPair
    <3>2. QED
      BY <3>1 DEF BestBelow
  <2>3. \A k \in Ms : k < m + 1 => \A u \in Capacities(q, k) :
            MeetsIn(n, q, k, u) => Cost(<<m, t>>) <= Cost(<<k, u>>)
    BY <1>1, <1>5, <2>2
  <2>4. BestBelow(n, q, m + 1, <<m, t>>)
    BY <1>3, <1>7, <2>3 DEF BestBelow
  <2>5. QED
    BY <2>1, <2>4
<1>9. CASE pair # NoPair
  <2>1. /\ pair[1] \in Ms /\ pair[1] < m
        /\ pair[2] \in Capacities(q, pair[1]) /\ MeetsIn(n, q, pair[1], pair[2])
        /\ \A k \in Ms : k < m => \A u \in Capacities(q, k) :
              MeetsIn(n, q, k, u) => Cost(pair) <= Cost(<<k, u>>)
    BY <1>9 DEF BestBelow
  <2>2. Cost(pair) \in Nat
    <3>1. pair[1] \in Nat /\ pair[2] \in Nat
      BY <2>1, CapacitiesAreNumbers, MsAreNumbers
    <3>2. QED
      BY <3>1 DEF Cost
  <2>3. CASE Cost(<<m, t>>) < Cost(pair)
    <3>1. Best(<<m, t>>, pair) = <<m, t>>
      BY <2>3 DEF Best, Cheaper
    <3>2. \A k \in Ms : k < m + 1 => \A u \in Capacities(q, k) :
              MeetsIn(n, q, k, u) => Cost(<<m, t>>) <= Cost(<<k, u>>)
      BY <1>1, <1>4, <1>5, <1>6, <2>1, <2>2, <2>3
    <3>3. BestBelow(n, q, m + 1, <<m, t>>)
      BY <1>3, <1>7, <3>2 DEF BestBelow
    <3>4. QED
      BY <3>1, <3>3
  <2>4. CASE ~(Cost(<<m, t>>) < Cost(pair))
    <3>1. Best(<<m, t>>, pair) = pair
      BY <1>9, <2>4 DEF Best, Cheaper
    <3>2. Cost(pair) <= Cost(<<m, t>>)
      BY <2>4, <2>2, <1>6
    <3>3. \A k \in Ms : k < m + 1 => \A u \in Capacities(q, k) :
              MeetsIn(n, q, k, u) => Cost(pair) <= Cost(<<k, u>>)
      BY <1>1, <1>4, <1>5, <1>6, <2>1, <2>2, <3>2
    <3>4. BestBelow(n, q, m + 1, pair)
      BY <1>2, <2>1, <3>3 DEF BestBelow
    <3>5. QED
      BY <3>1, <3>4
  <2>5. QED
    BY <2>3, <2>4
<1>10. QED
  BY <1>8, <1>9

-----------------------------------------------------------------------------
(* The inductive invariant. *)

SearchType == [at : {"idle", "try", "halve", "save"}, q : Requests,
               m : Nat, lo : Nat, hi : Nat, best : Pairs]

\* What the search s knows when it is about to go on, with least capacities n.
Trying(n, s) ==
    /\ MMin <= s.m /\ s.m <= MMax + 1
    /\ BestBelow(n, s.q, s.m, s.best)

Halving(n, s) ==
    /\ s.m \in Ms /\ BestBelow(n, s.q, s.m, s.best)
    /\ TMin(s.m) <= s.lo /\ s.lo < s.hi /\ s.hi <= TMax(s.m, s.q[2])
    /\ ~MeetsIn(n, s.q, s.m, s.lo) /\ MeetsIn(n, s.q, s.m, s.hi)

Knows(n, s) ==
    /\ s.at = "try" => Trying(n, s)
    /\ s.at = "halve" => Halving(n, s)
    /\ s.at = "save" => BestBelow(n, s.q, MMax + 1, s.best)

GoodRows(n, rows) ==
    \A d \in DOMAIN rows : \E q \in Requests : q[1] = d /\ BestBelow(n, q, MMax + 1, rows[d])

SearchesKnow == \A p \in Procs : Knows(need, search[p])
RowsAreGood ==
    ~misled => GoodRows(need, file.rows) /\ \A p \in Procs : GoodRows(need, cache[p])

IInv == Types /\ SearchesKnow /\ RowsAreGood

\* The least capacities are numbers.
LEMMA NeedsAreNumbers ==
    ASSUME NEW n \in Needs, NEW q \in Requests, NEW m \in Ms
    PROVE  n[q][m] \in Nat
BY NeedsAssumption

\* A pair of a length and its least capacity that meets the target goes on to
\* the next length with the cheaper one of it and the best so far.
LEMMA TakesLength ==
    ASSUME NEW n \in Needs, NEW s \in SearchType, s.m \in Ms,
           BestBelow(n, s.q, s.m, s.best), NEW t \in Nat,
           t \in Capacities(s.q, s.m), MeetsIn(n, s.q, s.m, t),
           \A u \in Capacities(s.q, s.m) : MeetsIn(n, s.q, s.m, u) => t <= u
    PROVE  LET s2 == NextLength(s, Best(<<s.m, t>>, s.best))
           IN  s2 \in SearchType /\ Knows(n, s2)
<1> DEFINE b == Best(<<s.m, t>>, s.best)
<1>1. s.q \in Requests /\ s.m \in Nat /\ s.best \in Pairs
  BY DEF SearchType
<1>2. BestBelow(n, s.q, s.m + 1, b)
  BY <1>1, LengthWith
<1>3. b \in Pairs
  BY <1>1 DEF Best, Pairs
<1>4. MMin <= s.m + 1 /\ s.m + 1 <= MMax + 1 /\ s.m + 1 \in Nat
  BY <1>1, MsAreNumbers, LimitsAssumption
<1> HIDE DEF b
<1>5. NextLength(s, b) \in SearchType
  BY <1>3, <1>4 DEF NextLength, SearchType
<1>6. /\ NextLength(s, b).at = "try" /\ NextLength(s, b).m = s.m + 1
      /\ NextLength(s, b).q = s.q /\ NextLength(s, b).best = b
  BY DEF NextLength, SearchType
<1>7. Knows(n, NextLength(s, b))
  BY <1>2, <1>4, <1>6 DEF Knows, Trying
<1>8. QED
  BY <1>5, <1>7 DEF b

\* A length without such a pair is passed.
LEMMA PassesLength ==
    ASSUME NEW n \in Needs, NEW s \in SearchType, s.m \in Ms,
           BestBelow(n, s.q, s.m, s.best),
           \A u \in Capacities(s.q, s.m) : ~MeetsIn(n, s.q, s.m, u)
    PROVE  LET s2 == NextLength(s, s.best)
           IN  s2 \in SearchType /\ Knows(n, s2)
<1>1. s.q \in Requests /\ s.m \in Nat /\ s.best \in Pairs
  BY DEF SearchType
<1>2. BestBelow(n, s.q, s.m + 1, s.best)
  BY LengthWithout
<1>4. MMin <= s.m + 1 /\ s.m + 1 <= MMax + 1 /\ s.m + 1 \in Nat
  BY <1>1, MsAreNumbers, LimitsAssumption
<1>5. NextLength(s, s.best) \in SearchType
  BY <1>1, <1>4 DEF NextLength, SearchType
<1>6. /\ NextLength(s, s.best).at = "try" /\ NextLength(s, s.best).m = s.m + 1
      /\ NextLength(s, s.best).q = s.q /\ NextLength(s, s.best).best = s.best
  BY DEF NextLength, SearchType
<1>7. Knows(n, NextLength(s, s.best))
  BY <1>2, <1>4, <1>6 DEF Knows, Trying
<1>8. QED
  BY <1>5, <1>7

-----------------------------------------------------------------------------
(* Every action keeps the invariant. *)

\* An action that changes one search only has to show it of this search.
LEMMA OnlySearchChanges ==
    ASSUME IInv, NEW p \in Procs, UNCHANGED <<need, cache, file, writers, misled>>,
           search' = [search EXCEPT ![p] = search'[p]],
           search'[p] \in SearchType, Knows(need, search'[p])
    PROVE  IInv'
<1>1. search \in [Procs -> SearchType]
  BY DEF IInv, Types, SearchType
<1>2. search' \in [Procs -> SearchType]
  BY <1>1
<1>3. \A r \in Procs : r # p => search'[r] = search[r]
  BY <1>1
<1>4. Types'
  BY <1>2 DEF IInv, Types, SearchType
<1>5. SearchesKnow'
  BY <1>3 DEF IInv, SearchesKnow
<1>6. RowsAreGood'
  BY DEF IInv, RowsAreGood
<1>7. QED
  BY <1>4, <1>5, <1>6 DEF IInv

LEMMA TryKeeps ==
    ASSUME IInv, NEW p \in Procs, Try(p)
    PROVE  IInv'
<1> DEFINE s == search[p]
<1>1. s \in SearchType /\ need \in Needs /\ search \in [Procs -> SearchType]
  BY DEF IInv, Types, SearchType
<1>2. s.at = "try" /\ s.m <= MMax /\ UNCHANGED <<need, cache, file, writers, misled>>
  BY DEF Try
<1>3. Trying(need, s)
  BY <1>2 DEF IInv, SearchesKnow, Knows
<1>4. s.m \in Ms /\ s.q \in Requests
  BY <1>1, <1>2, <1>3, LimitsAssumption DEF Trying, Ms, SearchType
<1>5. BestBelow(need, s.q, s.m, s.best)
  BY <1>3 DEF Trying
<1>6. need[s.q][s.m] \in Nat
  BY <1>1, <1>4, NeedsAreNumbers
<1>7. /\ TMin(s.m) \in Nat /\ TMax(s.m, s.q[2]) \in Int
      /\ Capacities(s.q, s.m) \subseteq Nat /\ TMin(s.m) \in Capacities(s.q, s.m)
      /\ \A t \in Capacities(s.q, s.m) : TMin(s.m) <= t
  BY <1>4, CapacitiesAreNumbers
<1>8. search' = [search EXCEPT ![p] =
             IF Meets(s.q, s.m, TMin(s.m))
             THEN NextLength(s, Best(<<s.m, TMin(s.m)>>, s.best))
             ELSE IF Meets(s.q, s.m, TMax(s.m, s.q[2]))
             THEN [s EXCEPT !.at = "halve", !.lo = TMin(s.m),
                            !.hi = TMax(s.m, s.q[2])]
             ELSE NextLength(s, s.best)]
  BY DEF Try
<1>9. search'[p] \in SearchType /\ Knows(need, search'[p])
  <2>1. CASE Meets(s.q, s.m, TMin(s.m))
    <3>1. search'[p] = NextLength(s, Best(<<s.m, TMin(s.m)>>, s.best))
      BY <2>1, <1>1, <1>8
    <3>2. MeetsIn(need, s.q, s.m, TMin(s.m))
      BY <2>1 DEF Meets, MeetsIn
    <3>3. \A n \in Needs, z \in SearchType, t \in Nat :
             /\ z.m \in Ms /\ BestBelow(n, z.q, z.m, z.best)
             /\ t \in Capacities(z.q, z.m) /\ MeetsIn(n, z.q, z.m, t)
             /\ \A u \in Capacities(z.q, z.m) : MeetsIn(n, z.q, z.m, u) => t <= u
             => /\ NextLength(z, Best(<<z.m, t>>, z.best)) \in SearchType
                /\ Knows(n, NextLength(z, Best(<<z.m, t>>, z.best)))
      BY TakesLength
    <3>4. QED
      BY <3>1, <3>2, <3>3, <1>1, <1>4, <1>5, <1>7
  <2>2. CASE ~Meets(s.q, s.m, TMin(s.m)) /\ Meets(s.q, s.m, TMax(s.m, s.q[2]))
    <3> DEFINE s2 == [s EXCEPT !.at = "halve", !.lo = TMin(s.m), !.hi = TMax(s.m, s.q[2])]
    <3>1. search'[p] = s2
      BY <2>2, <1>1, <1>8
    <3>2. /\ ~MeetsIn(need, s.q, s.m, TMin(s.m))
          /\ MeetsIn(need, s.q, s.m, TMax(s.m, s.q[2]))
      BY <2>2 DEF Meets, MeetsIn
    <3>3. TMin(s.m) < TMax(s.m, s.q[2])
      BY <3>2, <1>6, <1>7 DEF MeetsIn
    <3>8. TMin(s.m) \in Nat /\ TMax(s.m, s.q[2]) \in Nat
      BY <1>7, <3>3
    <3>4. s2 \in SearchType
      BY <1>1, <3>8 DEF SearchType
    <3>5. /\ s2.at = "halve" /\ s2.q = s.q /\ s2.m = s.m /\ s2.best = s.best
          /\ s2.lo = TMin(s.m) /\ s2.hi = TMax(s.m, s.q[2])
      BY <1>1 DEF SearchType
    <3> HIDE DEF s2
    <3>6. Halving(need, s2)
      BY <3>2, <3>3, <3>5, <1>4, <1>5, <1>7 DEF Halving
    <3>7. QED
      BY <3>1, <3>4, <3>5, <3>6 DEF Knows
  <2>3. CASE ~Meets(s.q, s.m, TMin(s.m)) /\ ~Meets(s.q, s.m, TMax(s.m, s.q[2]))
    <3>1. search'[p] = NextLength(s, s.best)
      BY <2>3, <1>1, <1>8
    <3>2. \A u \in Capacities(s.q, s.m) : u <= TMax(s.m, s.q[2]) \/ u = TMin(s.m)
      BY <1>7 DEF Capacities
    <3>3. \A u \in Capacities(s.q, s.m) : ~MeetsIn(need, s.q, s.m, u)
      BY <2>3, <3>2, <1>6, <1>7 DEF Meets, MeetsIn
    <3>4. \A n \in Needs, z \in SearchType :
             /\ z.m \in Ms /\ BestBelow(n, z.q, z.m, z.best)
             /\ \A u \in Capacities(z.q, z.m) : ~MeetsIn(n, z.q, z.m, u)
             => NextLength(z, z.best) \in SearchType /\ Knows(n, NextLength(z, z.best))
      BY PassesLength
    <3>5. QED
      BY <3>1, <3>3, <3>4, <1>1, <1>4, <1>5
  <2>4. QED
    BY <2>1, <2>2, <2>3
<1>10. search' = [search EXCEPT ![p] = search'[p]]
  BY <1>1, <1>8
<1>11. QED
  BY <1>2, <1>9, <1>10, OnlySearchChanges

LEMMA HalveKeeps ==
    ASSUME IInv, NEW p \in Procs, Halve(p)
    PROVE  IInv'
<1> DEFINE s == search[p]
           mid == s.lo + (s.hi - s.lo) \div 2
<1>1. s \in SearchType /\ need \in Needs /\ search \in [Procs -> SearchType]
  BY DEF IInv, Types, SearchType
<1>2. s.at = "halve" /\ Wide(s) /\ UNCHANGED <<need, cache, file, writers, misled>>
  BY DEF Halve
<1>3. Halving(need, s)
  BY <1>2 DEF IInv, SearchesKnow, Knows
<1>4. s.lo \in Nat /\ s.hi \in Nat /\ s.hi - s.lo > 1
  BY <1>1, <1>2 DEF SearchType, Wide
<1>5. mid \in Nat /\ s.lo < mid /\ mid < s.hi
  BY <1>4
<1>6. /\ TMin(s.m) \in Nat /\ TMax(s.m, s.q[2]) \in Int
  <2>1. s.m \in Ms /\ s.q \in Requests
    BY <1>1, <1>3 DEF Halving, SearchType
  <2>2. QED
    BY <2>1, CapacitiesAreNumbers
<1> HIDE DEF mid
<1>7. search' = [search EXCEPT ![p] = IF Meets(s.q, s.m, mid) THEN [s EXCEPT !.hi = mid]
                                                            ELSE [s EXCEPT !.lo = mid]]
  BY DEF Halve, Halved, mid
<1>8. search'[p] \in SearchType /\ Knows(need, search'[p])
  <2>1. CASE Meets(s.q, s.m, mid)
    <3> DEFINE s2 == [s EXCEPT !.hi = mid]
    <3>1. search'[p] = s2
      BY <2>1, <1>1, <1>7
    <3>2. s2 \in SearchType
      BY <1>1, <1>5 DEF SearchType
    <3>3. /\ s2.at = "halve" /\ s2.q = s.q /\ s2.m = s.m /\ s2.best = s.best
          /\ s2.lo = s.lo /\ s2.hi = mid
      BY <1>1, <1>2 DEF SearchType
    <3> HIDE DEF s2
    <3>4. MeetsIn(need, s.q, s.m, mid)
      BY <2>1 DEF Meets, MeetsIn
    <3>5. Halving(need, s2)
      BY <3>3, <3>4, <1>3, <1>4, <1>5, <1>6 DEF Halving
    <3>6. QED
      BY <3>1, <3>2, <3>3, <3>5 DEF Knows
  <2>2. CASE ~Meets(s.q, s.m, mid)
    <3> DEFINE s2 == [s EXCEPT !.lo = mid]
    <3>1. search'[p] = s2
      BY <2>2, <1>1, <1>7
    <3>2. s2 \in SearchType
      BY <1>1, <1>5 DEF SearchType
    <3>3. /\ s2.at = "halve" /\ s2.q = s.q /\ s2.m = s.m /\ s2.best = s.best
          /\ s2.lo = mid /\ s2.hi = s.hi
      BY <1>1, <1>2 DEF SearchType
    <3> HIDE DEF s2
    <3>4. ~MeetsIn(need, s.q, s.m, mid)
      BY <2>2 DEF Meets, MeetsIn
    <3>5. Halving(need, s2)
      BY <3>3, <3>4, <1>3, <1>4, <1>5, <1>6 DEF Halving
    <3>6. QED
      BY <3>1, <3>2, <3>3, <3>5 DEF Knows
  <2>3. QED
    BY <2>1, <2>2
<1>9. search' = [search EXCEPT ![p] = search'[p]]
  BY <1>1, <1>7
<1>10. QED
  BY <1>2, <1>8, <1>9, OnlySearchChanges

LEMMA SettleKeeps ==
    ASSUME IInv, NEW p \in Procs, Settle(p)
    PROVE  IInv'
<1> DEFINE s == search[p]
<1>1. s \in SearchType /\ need \in Needs /\ search \in [Procs -> SearchType]
  BY DEF IInv, Types, SearchType
<1>2. s.at = "halve" /\ ~Wide(s) /\ UNCHANGED <<need, cache, file, writers, misled>>
  BY DEF Settle
<1>3. Halving(need, s)
  BY <1>2 DEF IInv, SearchesKnow, Knows
<1>4. s.lo \in Nat /\ s.hi \in Nat /\ s.hi = s.lo + 1
  BY <1>1, <1>2, <1>3 DEF SearchType, Wide, Halving
<1>5. s.m \in Ms /\ s.q \in Requests /\ need[s.q][s.m] \in Nat
  BY <1>1, <1>3, NeedsAreNumbers DEF Halving, SearchType
<1>6. Found(s) = s.hi
  BY <1>3 DEF Found, Halving, Meets, MeetsIn
<1>7. s.hi \in Capacities(s.q, s.m)
  <2>1. TMin(s.m) \in Nat /\ TMin(s.m) <= s.hi /\ s.hi <= TMax(s.m, s.q[2])
    BY <1>3, <1>4, <1>5, CapacitiesAreNumbers DEF Halving
  <2>2. QED
    BY <2>1, <1>4, <1>5, CapacitiesAreNumbers
<1>8. \A u \in Capacities(s.q, s.m) : MeetsIn(need, s.q, s.m, u) => s.hi <= u
  <2>1. Capacities(s.q, s.m) \subseteq Nat
    BY <1>5, CapacitiesAreNumbers
  <2>2. QED
    BY <2>1, <1>3, <1>4, <1>5 DEF Halving, MeetsIn
<1>9. MeetsIn(need, s.q, s.m, s.hi) /\ BestBelow(need, s.q, s.m, s.best)
  BY <1>3 DEF Halving
<1>10. search' = [search EXCEPT ![p] = NextLength(s, Best(<<s.m, s.hi>>, s.best))]
  BY <1>6 DEF Settle
<1>11. search'[p] = NextLength(s, Best(<<s.m, s.hi>>, s.best))
  BY <1>1, <1>10
<1>12. \A n \in Needs, z \in SearchType, t \in Nat :
             /\ z.m \in Ms /\ BestBelow(n, z.q, z.m, z.best)
             /\ t \in Capacities(z.q, z.m) /\ MeetsIn(n, z.q, z.m, t)
             /\ \A u \in Capacities(z.q, z.m) : MeetsIn(n, z.q, z.m, u) => t <= u
             => /\ NextLength(z, Best(<<z.m, t>>, z.best)) \in SearchType
                /\ Knows(n, NextLength(z, Best(<<z.m, t>>, z.best)))
  BY TakesLength
<1>13. search'[p] \in SearchType /\ Knows(need, search'[p])
  BY <1>1, <1>4, <1>5, <1>7, <1>8, <1>9, <1>11, <1>12
<1>14. search' = [search EXCEPT ![p] = search'[p]]
  BY <1>1, <1>10
<1>15. QED
  BY <1>2, <1>13, <1>14, OnlySearchChanges

\* The records that a call begins and ends with.
LEMMA FreshSearches ==
    /\ NoSearch \in SearchType /\ NoSearch.at = "idle"
    /\ \A q \in Requests : NewSearch(q) \in SearchType
    /\ \A n, q : Knows(n, NoSearch) /\ Knows(n, NewSearch(q))
<1>1. MMin \in Nat /\ MMin <= MMin /\ MMin <= MMax + 1
  BY LimitsAssumption
<1>2. NoPair \in Pairs
  BY DEF NoPair, Pairs
<1>3. (CHOOSE q \in Requests : TRUE) \in Requests
  BY RequestsAssumption
<1>4. \A q \in Requests, at \in {"idle", "try"} : Fresh(at, q) \in SearchType
  BY <1>1, <1>2 DEF Fresh, SearchType
<1>5. \A q, at : Fresh(at, q).at = at /\ Fresh(at, q).q = q /\ Fresh(at, q).m = MMin
                /\ Fresh(at, q).best = NoPair
  BY DEF Fresh
<1>6. \A n, q : Trying(n, Fresh("try", q))
  BY <1>1, <1>5, NoneBelowTheFirst DEF Trying
<1>7. QED
  BY <1>3, <1>4, <1>5, <1>6 DEF NoSearch, NewSearch, Knows

\* What a torn file yields has the form of rows.
LEMMA LoadsAreRows ==
    ASSUME Types, NEW rows \in Loads
    PROVE  AreRows(rows)
<1>1. CASE file.torn
  <2>1. TornPairs \subseteq Pairs
    BY JunkAssumption DEF Types, TornPairs, AreRows
  <2>2. PICK S \in SUBSET Ds : rows \in [S -> TornPairs]
    BY <1>1 DEF Loads
  <2>3. QED
    BY <2>1, <2>2 DEF AreRows
<1>2. CASE ~file.torn
  BY <1>2 DEF Loads, Types
<1>3. QED
  BY <1>1, <1>2

\* Inserting rows yields rows, good ones if both are good.
LEMMA InsertedRows ==
    ASSUME NEW rows, NEW more, AreRows(rows), AreRows(more)
    PROVE  /\ AreRows(Inserted(rows, more))
           /\ \A n : GoodRows(n, rows) /\ GoodRows(n, more) => GoodRows(n, Inserted(rows, more))
<1>1. DOMAIN Inserted(rows, more) = DOMAIN rows \cup DOMAIN more
  BY DEF Inserted
<1>2. \A d \in DOMAIN rows : Inserted(rows, more)[d] = rows[d]
  BY DEF Inserted
<1>3. \A d \in DOMAIN more : d \notin DOMAIN rows => Inserted(rows, more)[d] = more[d]
  BY DEF Inserted
<1>4. \A d \in DOMAIN Inserted(rows, more) : Inserted(rows, more)[d] \in Pairs
  BY <1>1, <1>2, <1>3 DEF AreRows
<1>5. Inserted(rows, more) = [d \in DOMAIN Inserted(rows, more) |-> Inserted(rows, more)[d]]
  BY DEF Inserted
<1>6. AreRows(Inserted(rows, more))
  BY <1>1, <1>4, <1>5 DEF AreRows
<1>7. \A n : GoodRows(n, rows) /\ GoodRows(n, more) => GoodRows(n, Inserted(rows, more))
  BY <1>1, <1>2, <1>3 DEF GoodRows
<1>8. QED
  BY <1>6, <1>7

LEMMA CallKeeps ==
    ASSUME IInv, NEW p \in Procs, NEW q \in Requests, Call(p, q)
    PROVE  IInv'
<1>1. PICK rows \in Loads :
         /\ cache' = [cache EXCEPT ![p] = Inserted(@, rows)]
         /\ search' = IF q[1] \in DOMAIN cache[p] \cup DOMAIN rows
                      THEN search
                      ELSE [search EXCEPT ![p] = NewSearch(q)]
         /\ misled' = (misled \/ file.torn)
  BY DEF Call
<1>2. UNCHANGED <<need, file, writers>>
  BY DEF Call
<1>3. Types /\ AreRows(rows) /\ AreRows(cache[p])
  BY LoadsAreRows DEF IInv, Types
<1>4. search \in [Procs -> SearchType] /\ DOMAIN cache = Procs
  BY <1>3 DEF Types, SearchType
<1>5. search' \in [Procs -> SearchType]
  BY <1>1, <1>4, FreshSearches
<1>6. DOMAIN cache' = Procs /\ cache'[p] = Inserted(cache[p], rows)
  BY <1>1, <1>4
<1>7. \A r \in Procs : r # p => cache'[r] = cache[r]
  BY <1>1, <1>4
<1>8. AreRows(cache'[p])
  BY <1>3, <1>6, InsertedRows
<1>9. \A r \in Procs : AreRows(cache'[r])
  BY <1>3, <1>7, <1>8 DEF Types
<1>10. Types'
  BY <1>1, <1>2, <1>3, <1>5, <1>6, <1>9 DEF Types, SearchType
<1>11. SearchesKnow'
  <2>1. \A r \in Procs : search'[r] = search[r] \/ search'[r] = NewSearch(q)
    BY <1>1, <1>4
  <2>2. QED
    BY <2>1, <1>2, FreshSearches DEF IInv, SearchesKnow
<1>12. RowsAreGood'
  <2>1. SUFFICES ASSUME ~misled'
                 PROVE  GoodRows(need, file.rows) /\ \A r \in Procs : GoodRows(need, cache'[r])
    BY <1>2 DEF RowsAreGood
  <2>2. ~misled /\ ~file.torn
    BY <1>1, <2>1
  <2>3. rows = file.rows
    BY <2>2 DEF Loads
  <2>4. GoodRows(need, file.rows) /\ \A r \in Procs : GoodRows(need, cache[r])
    BY <2>2 DEF IInv, RowsAreGood
  <2>5. GoodRows(need, cache'[p])
    BY <1>3, <1>6, <2>3, <2>4, InsertedRows
  <2>6. QED
    BY <1>7, <2>4, <2>5
<1>13. QED
  BY <1>10, <1>11, <1>12 DEF IInv

LEMMA OpenKeeps ==
    ASSUME IInv, NEW p \in Procs, Open(p)
    PROVE  IInv'
<1> DEFINE s == search[p]
           more == [d \in {s.q[1]} |-> s.best]
<1>1. /\ s.at = "try" /\ s.m > MMax
      /\ search' = [search EXCEPT ![p].at = "save"]
      /\ cache' = [cache EXCEPT ![p] = Inserted(@, more)]
      /\ file' = [file EXCEPT !.torn = TRUE, !.shared = (writers # {})]
      /\ writers' = writers \cup {p}
      /\ UNCHANGED <<need, misled>>
  BY DEF Open
<1>2. Types /\ AreRows(cache[p]) /\ DOMAIN cache = Procs
  BY DEF IInv, Types
<1>3. search \in [Procs -> SearchType] /\ s \in SearchType
  BY <1>2 DEF Types, SearchType
<1>4. s.q \in Requests /\ s.best \in Pairs /\ s.m \in Nat
  BY <1>3 DEF SearchType
<1>5. BestBelow(need, s.q, MMax + 1, s.best)
  <2>1. Trying(need, s)
    BY <1>1 DEF IInv, SearchesKnow, Knows
  <2>2. s.m = MMax + 1
    BY <1>1, <1>4, <2>1, LimitsAssumption DEF Trying
  <2>3. QED
    BY <2>1, <2>2 DEF Trying
<1>6. /\ \A r \in Procs : r # p => search'[r] = search[r]
      /\ search'[p] = [s EXCEPT !.at = "save"]
  BY <1>1, <1>3
<1>7. /\ search'[p] \in SearchType /\ search'[p].at = "save"
      /\ search'[p].q = s.q /\ search'[p].best = s.best
  BY <1>3, <1>6 DEF SearchType
<1>8. search' \in [Procs -> SearchType]
  BY <1>1, <1>3, <1>6, <1>7
<1>9. AreRows(more) /\ DOMAIN more = {s.q[1]} /\ more[s.q[1]] = s.best
  BY <1>4 DEF AreRows, Ds
<1>10. GoodRows(need, more)
  BY <1>4, <1>5, <1>9 DEF GoodRows
<1> HIDE DEF more
<1>11. DOMAIN cache' = Procs /\ cache'[p] = Inserted(cache[p], more)
  BY <1>1, <1>2
<1>12. \A r \in Procs : r # p => cache'[r] = cache[r]
  BY <1>1, <1>2
<1>13. \A r \in Procs : AreRows(cache'[r])
  BY <1>2, <1>9, <1>11, <1>12, InsertedRows DEF Types
<1>14. /\ DOMAIN file' = {"rows", "torn", "shared"} /\ file'.rows = file.rows
       /\ file'.torn = TRUE /\ file'.shared \in BOOLEAN
  BY <1>1, <1>2 DEF Types
<1>15. Types'
  BY <1>1, <1>2, <1>8, <1>11, <1>13, <1>14 DEF Types, SearchType
<1>16. SearchesKnow'
  <2>1. Knows(need, search'[p])
    BY <1>5, <1>7 DEF Knows
  <2>2. QED
    BY <2>1, <1>1, <1>6 DEF IInv, SearchesKnow
<1>17. RowsAreGood'
  <2>1. SUFFICES ASSUME ~misled
                 PROVE  GoodRows(need, file.rows) /\ \A r \in Procs : GoodRows(need, cache'[r])
    BY <1>1, <1>14 DEF RowsAreGood
  <2>2. GoodRows(need, file.rows) /\ \A r \in Procs : GoodRows(need, cache[r])
    BY <2>1 DEF IInv, RowsAreGood
  <2>3. GoodRows(need, cache'[p])
    BY <2>2, <1>2, <1>9, <1>10, <1>11, InsertedRows
  <2>4. QED
    BY <2>2, <2>3, <1>12
<1>18. QED
  BY <1>15, <1>16, <1>17 DEF IInv

LEMMA CloseKeeps ==
    ASSUME IInv, NEW p \in Procs, Close(p)
    PROVE  IInv'
<1>1. PICK torn \in BOOLEAN : file' = [file EXCEPT !.rows = cache[p], !.torn = torn]
  BY DEF Close
<1>2. /\ search' = [search EXCEPT ![p] = NoSearch]
      /\ writers' = writers \ {p} /\ UNCHANGED <<need, cache, misled>>
  BY DEF Close
<1>3. Types /\ search \in [Procs -> SearchType]
  BY DEF IInv, Types, SearchType
<1>4. /\ DOMAIN file' = {"rows", "torn", "shared"} /\ file'.rows = cache[p]
      /\ file'.torn \in BOOLEAN /\ file'.shared = file.shared
  BY <1>1, <1>3 DEF Types
<1>5. search' \in [Procs -> SearchType]
  BY <1>2, <1>3, FreshSearches
<1>6. Types'
  BY <1>2, <1>3, <1>4, <1>5 DEF Types, SearchType
<1>7. SearchesKnow'
  BY <1>2, <1>3, FreshSearches DEF IInv, SearchesKnow
<1>8. RowsAreGood'
  BY <1>2, <1>4 DEF IInv, RowsAreGood
<1>9. QED
  BY <1>6, <1>7, <1>8 DEF IInv

LEMMA EndKeeps ==
    ASSUME IInv, NEW p \in Procs, End(p)
    PROVE  IInv'
<1>1. /\ cache' = [cache EXCEPT ![p] = NoRows]
      /\ search' = [search EXCEPT ![p] = NoSearch]
      /\ writers' = writers \ {p} /\ UNCHANGED <<need, file, misled>>
  BY DEF End
<1>2. Types /\ search \in [Procs -> SearchType] /\ DOMAIN cache = Procs
  BY DEF IInv, Types, SearchType
<1>3. AreRows(NoRows) /\ \A n : GoodRows(n, NoRows)
  BY DEF NoRows, AreRows, GoodRows
<1>4. DOMAIN cache' = Procs /\ \A r \in Procs : cache'[r] = cache[r] \/ cache'[r] = NoRows
  BY <1>1, <1>2
<1>5. search' \in [Procs -> SearchType]
  BY <1>1, <1>2, FreshSearches
<1>6. Types'
  BY <1>1, <1>2, <1>3, <1>4, <1>5 DEF Types, SearchType
<1>7. SearchesKnow'
  BY <1>1, <1>2, FreshSearches DEF IInv, SearchesKnow
<1>8. RowsAreGood'
  BY <1>1, <1>3, <1>4 DEF IInv, RowsAreGood
<1>9. QED
  BY <1>6, <1>7, <1>8 DEF IInv

-----------------------------------------------------------------------------
(* The theorems. *)

LEMMA InitHolds == Init => IInv
<1> SUFFICES ASSUME Init PROVE IInv
  OBVIOUS
<1>1. AreRows(NoRows) /\ \A n : GoodRows(n, NoRows)
  BY DEF NoRows, AreRows, GoodRows
<1>2. search \in [Procs -> SearchType]
  BY FreshSearches DEF Init
<1>3. Types
  BY <1>1, <1>2 DEF Init, Types, SearchType
<1>4. SearchesKnow
  BY FreshSearches DEF Init, SearchesKnow
<1>5. RowsAreGood
  BY <1>1 DEF Init, RowsAreGood
<1>6. QED
  BY <1>3, <1>4, <1>5 DEF IInv

LEMMA NextKeeps == IInv /\ [Next]_vars => IInv'
<1> SUFFICES ASSUME IInv, [Next]_vars PROVE IInv'
  OBVIOUS
<1>1. ASSUME NEW p \in Procs, Step(p) PROVE IInv'
  BY <1>1, TryKeeps, HalveKeeps, SettleKeeps, OpenKeeps, CloseKeeps DEF Step
<1>2. CASE UNCHANGED vars
  BY <1>2 DEF vars, IInv, Types, AreRows, SearchesKnow, RowsAreGood
<1>3. QED
  BY <1>1, <1>2, CallKeeps, EndKeeps DEF Next

LEMMA IInvHolds == Spec => []IInv
BY InitHolds, NextKeeps, PTL DEF Spec

\* The ends of a binary search stay in order and everything keeps its type,
\* for all limits and targets.
THEOREM TypeCorrect == Spec => []TypeOK
<1>1. IInv => TypeOK
  BY DEF IInv, TypeOK, EndsInOrder, SearchesKnow, Knows, Halving
<1>2. QED
  BY <1>1, IInvHolds, PTL

\* The pair that bestBchParam has found when it saves is the cheapest of all
\* it could have chosen, for all limits, targets and numbers of processes.
THEOREM SearchFindsCheapest == Spec => []SearchIsCheapest
<1>1. IInv => SearchIsCheapest
  <2>1. SUFFICES ASSUME IInv, NEW p \in Procs, search[p].at = "save"
                 PROVE  Cheapest(search[p].q, search[p].best)
    BY DEF SearchIsCheapest
  <2>2. BestBelow(need, search[p].q, MMax + 1, search[p].best)
    BY <2>1 DEF IInv, SearchesKnow, Knows
  <2>3. QED
    BY <2>2, BestBelowIsCheapest DEF Cheapest
<1>2. QED
  BY <1>1, IInvHolds, PTL

\* Without a torn file, what is cached or in the file is the cheapest pair for
\* its number of differences and the other arguments of some call.
THEOREM WholeFilesDoNotMislead == Spec => []OnlyTornFilesMislead
<1>1. IInv => OnlyTornFilesMislead
  <2>1. SUFFICES ASSUME IInv, ~misled,
                        NEW rows \in {file.rows} \cup {cache[p] : p \in Procs},
                        NEW d \in DOMAIN rows
                 PROVE  \E q \in Requests : q[1] = d /\ Cheapest(q, rows[d])
    BY DEF OnlyTornFilesMislead
  <2>2. GoodRows(need, rows)
    BY <2>1 DEF IInv, RowsAreGood
  <2>3. QED
    BY <2>2, BestBelowIsCheapest DEF GoodRows, Cheapest
<1>2. QED
  BY <1>1, IInvHolds, PTL

\* A process does not change an answer, whatever it loads.
THEOREM AnswersStay == Spec => AnswersStable
<1>1. ASSUME Types, [Next]_vars, NEW p \in Procs
      PROVE  \/ cache'[p] = NoRows
             \/ \A d \in DOMAIN cache[p] : d \in DOMAIN cache'[p] /\ cache'[p][d] = cache[p][d]
  <2>1. \A rows, more : /\ DOMAIN rows \subseteq DOMAIN Inserted(rows, more)
                        /\ \A d \in DOMAIN rows : Inserted(rows, more)[d] = rows[d]
    BY DEF Inserted
  <2>2. \/ UNCHANGED cache
        \/ \E r \in Procs : \/ \E more : cache' = [cache EXCEPT ![r] = Inserted(@, more)]
                            \/ cache' = [cache EXCEPT ![r] = NoRows]
    BY <1>1 DEF Next, Step, Try, Halve, Settle, Open, Close, End, Call, vars
  <2>3. DOMAIN cache = Procs
    BY <1>1 DEF Types
  <2>4. QED
    BY <2>1, <2>2, <2>3
<1>2. Types /\ [Next]_vars =>
        \A p \in Procs : \/ cache'[p] = NoRows
                         \/ \A d \in DOMAIN cache[p] :
                               d \in DOMAIN cache'[p] /\ cache'[p][d] = cache[p][d]
  BY <1>1
<1>3. IInv => Types
  BY DEF IInv
<1>4. QED
  BY <1>2, <1>3, IInvHolds, PTL DEF Spec, AnswersStable

=============================================================================
