-------------------------- MODULE MCSketchServices --------------------------
(***************************************************************************)
(* Two clients, three keys and one sketch of the estimator: equal maps,    *)
(* maps that differ in one key, in two of different or of equal hash (an   *)
(* estimate of 0 or more), and in three.  The clients are given the same   *)
(* choice of maps, so that they can be exchanged for one another.          *)
(***************************************************************************)
EXTENDS SketchServices, TLC

CONSTANTS a, b

TwoClients == {a, b}

Exchangeable == Permutations(TwoClients)

ThreeKeys == 1..3

(* All parities of the keys but for one: negating all negates the sketches.*)
SomeHashes ==
    {h \in [(1..Sketches) \X Key -> {0, 1}] : \A i \in 1..Sketches : h[i, 1] = 1 /\ h[i, 2] = 0}

SomeInputs ==
    {<<[c \in Clients |-> input[1]], input[2]>> :
       input \in {<<{1}, {1, 2}>>, <<{1, 2}, {3}>>, <<{1, 2, 3}, {}>>, <<{}, {1, 3}>>}}

SomeExperiments == {<<{1, 2, 3}, {2}>>, <<{1, 2}, {1, 2}>>}
=============================================================================
