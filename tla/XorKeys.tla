------------------------------- MODULE XorKeys -------------------------------
(***************************************************************************)
(* The arithmetic the sketches are built from.  A key of the program is a  *)
(* uint64_t, and everything the protocol does with one is exclusive or and *)
(* comparison, so a key is the set of its one-bits: XOR is symmetric       *)
(* difference and the key 0 is the empty set.                              *)
(*                                                                         *)
(* The same operator serves for collections.  A collection that only ever  *)
(* reaches XOR-like accumulators (a bitmap toggled bin by bin, the list of *)
(* keys of a group) is represented by the set of its members of odd        *)
(* multiplicity, and appending a list to it is (+) of the two parity sets. *)
(***************************************************************************)
EXTENDS Integers, FiniteSets

CONSTANT Bit    \* the bit positions of a key (64 in the code, fewer for TLC)

ASSUME BitAssumption == IsFiniteSet(Bit)

Key == SUBSET Bit

x (+) y == (x \ y) \union (y \ x)

IsOdd(n) == n % 2 = 1

(* The XOR of all the keys of a set: a bit is set when an odd number of    *)
(* the keys have it.                                                       *)
XorSum(S) == {b \in Bit : IsOdd(Cardinality({k \in S : b \in k}))}

(* The members of a set in increasing order, as a sequence: the order in   *)
(* which a loop over group ids meets those that satisfy a condition.       *)
Rank(S, g) == Cardinality({h \in S : h <= g})

Ordered(S) == [i \in 1..Cardinality(S) |-> CHOOSE g \in S : Rank(S, g) = i]
=============================================================================
