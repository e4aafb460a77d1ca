-------------------------------- MODULE Iblt --------------------------------
(***************************************************************************)
(* The invertible Bloom lookup table of src/3rd/include/iblt/iblt.cpp, as  *)
(* DDigest and Graphene use it.  Each side inserts its keys in a table;    *)
(* one side's is sent, cell by cell, and subtracted from the other's; and  *)
(* listEntries() peels the difference: a cell that holds one key gives it  *)
(* away, and the key is taken out of all its cells, until no cell does.    *)
(*                                                                         *)
(* The check of a key is a 32-bit hash, accumulated by XOR; here it is     *)
(* ideal, the set of the keys themselves: no XOR of other checks is the    *)
(* check of a key.  The values are one byte, always 0: what is left of     *)
(* them is whether a cell has one.                                         *)
(***************************************************************************)
EXTENDS XorKeys

CONSTANTS
    NumHashes,    \* numHashes
    Buckets,      \* bucketsPerHash
    MaxCount,     \* the largest count (2^31 - 1 in the code)
    Inputs,       \* the keys of the two sides: <<mine, other>>
    Hashes        \* the hash functions: MurmurHash3 of a key, modulo Buckets

ASSUME IbltAssumption ==
    /\ NumHashes \in Nat /\ NumHashes > 1
    /\ Buckets \in Nat \ {0}
    /\ MaxCount \in Nat \ {0}
    /\ Inputs \subseteq (SUBSET Key) \X (SUBSET Key)
    /\ \A input \in Inputs : \A i \in 1..2 :
          IsFiniteSet(input[i]) /\ Cardinality(input[i]) <= MaxCount
    /\ Hashes \subseteq [1..NumHashes -> [Key -> 1..Buckets]]

VARIABLES
    hash,       \* the hash functions of this run
    mineKeys,   \* the keys of this side
    otherKeys,  \* the keys of the other side
    mine,       \* the table of this side, later the difference being peeled
    other,      \* the table of the other side
    inserted,   \* the keys inserted in each so far: <<mine, other>>
    phase,      \* "insert", "list" or "done"
    at,         \* i: the cell listEntries() looks at
    erased,     \* nErased > 0
    positive,   \* keys listed as mine
    negative,   \* keys listed as the other's
    returned    \* what listEntries() has returned

vars == <<hash, mineKeys, otherKeys, mine, other, inserted, phase, at, erased,
          positive, negative, returned>>

CellId == 1..NumHashes * Buckets

NoCell == [count |-> 0, keySum |-> {}, keyCheck |-> {}, valued |-> FALSE]

-------------------------------------------------------------------------------
empty(cell) == cell.count = 0 /\ cell.keySum = {} /\ cell.keyCheck = {}

(* Mutant: one key too many, and one too few, may look like one. *)
PureByCount(cell) == cell.count \in {1, -1}

isPure(cell) == cell.count \in {1, -1} /\ cell.keyCheck = {cell.keySum}

(* An int32_t that overflows by one addition. *)
Wrap(n) ==
    IF n > MaxCount THEN n - 2 * (MaxCount + 1)
    ELSE IF n < -MaxCount - 1 THEN n + 2 * (MaxCount + 1) ELSE n

(* n, sum and check are accumulated in a cell, and the value, if there is  *)
(* one; an empty cell forgets its value.                                   *)
Accumulate(cell, n, sum, check, valued) ==
    LET count    == Wrap(cell.count + n)
        keySum   == cell.keySum (+) sum
        keyCheck == cell.keyCheck (+) check
        isEmpty  == count = 0 /\ keySum = {} /\ keyCheck = {}
    IN  [count |-> count, keySum |-> keySum, keyCheck |-> keyCheck,
         valued |-> ~isEmpty /\ (cell.valued \/ valued)]

(* The cells of a key: one in the range of each hash function.             *)
CellsOf(k) == {(i - 1) * Buckets + hash[i][k] : i \in 1..NumHashes}

Insert(table, cells, n, k) ==
    [c \in CellId |-> IF c \in cells THEN Accumulate(table[c], n, k, {k}, TRUE) ELSE table[c]]

(* Mutant: the other side has estimated a smaller difference, so that its  *)
(* table is smaller.                                                       *)
SmallerCellsOf(k) ==
    {(i - 1) * (Buckets - 1) + (hash[i][k] % (Buckets - 1)) + 1 : i \in 1..NumHashes}

OtherCellsOf(k) == CellsOf(k)

(* Mutant: a deserialised cell has the value it was sent with: none. *)
SetAsSent(table) == [c \in CellId |-> [table[c] EXCEPT !.valued = FALSE]]

(* set(), with the value that every deserialised cell gets.                *)
Set(table) ==
    [c \in CellId |-> [count |-> table[c].count, keySum |-> table[c].keySum,
                       keyCheck |-> table[c].keyCheck, valued |-> TRUE]]

(* Mutant: the counts are added. *)
Plus(table, sub) ==
    [c \in CellId |-> Accumulate(table[c], sub[c].count, sub[c].keySum, sub[c].keyCheck, sub[c].valued)]

Minus(table, sub) ==
    [c \in CellId |-> Accumulate(table[c], -sub[c].count, sub[c].keySum, sub[c].keyCheck, sub[c].valued)]

-------------------------------------------------------------------------------
Init ==
    /\ hash \in Hashes
    /\ \E input \in Inputs : mineKeys = input[1] /\ otherKeys = input[2]
    /\ mine = [c \in CellId |-> NoCell] /\ other = [c \in CellId |-> NoCell]
    /\ inserted = <<{}, {}>>
    /\ phase = "insert"
    /\ at = 1 /\ erased = FALSE
    /\ positive = {} /\ negative = {} /\ returned = FALSE

(* The keys are inserted in the order of the maps. *)
InsertMine ==
    /\ phase = "insert"
    /\ \E k \in mineKeys \ inserted[1] :
          /\ mine' = Insert(mine, CellsOf(k), 1, k)
          /\ inserted' = <<inserted[1] \union {k}, inserted[2]>>
    /\ UNCHANGED <<hash, mineKeys, otherKeys, other, phase, at, erased, positive,
                   negative, returned>>

InsertOther ==
    /\ phase = "insert"
    /\ \E k \in otherKeys \ inserted[2] :
          /\ other' = Insert(other, OtherCellsOf(k), 1, k)
          /\ inserted' = <<inserted[1], inserted[2] \union {k}>>
    /\ UNCHANGED <<hash, mineKeys, otherKeys, mine, phase, at, erased, positive,
                   negative, returned>>

Subtract ==
    /\ phase = "insert"
    /\ inserted = <<mineKeys, otherKeys>>
    /\ mine' = Minus(mine, Set(other))
    /\ phase' = "list"
    /\ UNCHANGED <<hash, mineKeys, otherKeys, other, inserted, at, erased, positive,
                   negative, returned>>

(* listEntries: a pass over the cells, again if it has erased a key.       *)
Peel ==
    /\ phase = "list"
    /\ at \in CellId
    /\ isPure(mine[at])
    /\ positive' = IF mine[at].count = 1 THEN positive \union {mine[at].keySum} ELSE positive
    /\ negative' = IF mine[at].count = 1 THEN negative ELSE negative \union {mine[at].keySum}
    /\ mine' = Insert(mine, CellsOf(mine[at].keySum), -mine[at].count, mine[at].keySum)
    /\ erased' = TRUE
    /\ at' = at + 1
    /\ UNCHANGED <<hash, mineKeys, otherKeys, other, inserted, phase, returned>>

Skip ==
    /\ phase = "list"
    /\ at \in CellId
    /\ ~isPure(mine[at])
    /\ at' = at + 1
    /\ UNCHANGED <<hash, mineKeys, otherKeys, mine, other, inserted, phase, erased,
                   positive, negative, returned>>

PassEnds == phase = "list" /\ at \notin CellId

(* Mutant: one pass is enough. *)
NeverAgain == FALSE

AnotherPass == erased

Again ==
    /\ PassEnds
    /\ AnotherPass
    /\ at' = 1
    /\ erased' = FALSE
    /\ UNCHANGED <<hash, mineKeys, otherKeys, mine, other, inserted, phase, positive,
                   negative, returned>>

(* Mutant: the last cell is left out. *)
AllButOneEmpty == \A c \in 1..(Buckets - 1) : empty(mine[c])

(* Every key has a cell in the range of the first hash function. *)
FirstEmpty == \A c \in 1..Buckets : empty(mine[c])

Return ==
    /\ PassEnds
    /\ ~AnotherPass
    /\ returned' = FirstEmpty
    /\ phase' = "done"
    /\ UNCHANGED <<hash, mineKeys, otherKeys, mine, other, inserted, at, erased,
                   positive, negative>>

Stopped == phase = "done" /\ UNCHANGED vars

Next == InsertMine \/ InsertOther \/ Subtract \/ Peel \/ Skip \/ Again \/ Return \/ Stopped

Spec == Init /\ [][Next]_vars

(* Nothing but its own loops stands between the program and the result.    *)
FairSpec == Spec /\ WF_vars(Next)

-------------------------------------------------------------------------------
(* A cell that holds the keys plus, inserted, and the keys minus, erased.  *)
Reflects(cell, plus, minus) ==
    /\ cell.count = Cardinality(plus) - Cardinality(minus)
    /\ cell.keySum = XorSum(plus \union minus)
    /\ cell.keyCheck = plus \union minus

In(c, S) == {k \in S : c \in CellsOf(k)}

Holds(table, plus, minus) ==
    \A c \in CellId : Reflects(table[c], In(c, plus), In(c, minus))

(* What peeling rests on: from the moment the tables are subtracted, the   *)
(* cells hold exactly the differences that have not been listed, each in   *)
(* all its cells or in none.                                               *)
HoldsTheRest ==
    IF phase = "insert"
    THEN Holds(mine, inserted[1], {}) /\ Holds(other, inserted[2], {})
    ELSE Holds(mine, (mineKeys \ otherKeys) \ positive, (otherKeys \ mineKeys) \ negative)

(* What is listed is a difference, and on the right side, although cells   *)
(* with a count of one may hold several keys.                              *)
ListedAreDifferences ==
    positive \subseteq mineKeys \ otherKeys /\ negative \subseteq otherKeys \ mineKeys

(* True means that all differences have been listed, although only the     *)
(* cells of the first hash function are looked at.                         *)
TrueMeansAll ==
    phase = "done" /\ returned =>
        positive = mineKeys \ otherKeys /\ negative = otherKeys \ mineKeys

(* False means that no more can be listed: where a key is missing, every   *)
(* cell of it is shared with another missing one.                          *)
FalseMeansStuck ==
    phase = "done" /\ ~returned =>
        LET rest == ((mineKeys \ otherKeys) \ positive) \union ((otherKeys \ mineKeys) \ negative)
        IN  rest # {} /\ \A k \in rest : \A c \in CellsOf(k) : Cardinality(In(c, rest)) > 1

(* A key that is taken out of the table comes with a value of the size     *)
(* that _insert() asserts.                                                 *)
PureCellsHaveValues ==
    phase = "list" => \A c \in CellId : isPure(mine[c]) => mine[c].valued

(* Listing ends: a pure cell is empty once its key is erased.              *)
ListingEnds == <>(phase = "done")
=============================================================================
