------------------------------ MODULE BchParams ------------------------------
(***************************************************************************)
(* The search for the parameters of the BCH code, and what is remembered   *)
(* of it: PbsParam::bestBchParam of src/src/pbs_params.h.                  *)
(*                                                                         *)
(* A ParityBitmapSketch for d differences works with the code of length    *)
(* 2^m - 1 and capacity t that has the least m * t of those that meet a    *)
(* target probability.  The client and the server each look the pair up in *)
(* the cache of their process, into which every call first loads the file  *)
(* that all processes share; a pair that is not there is searched for,     *)
(* cached, and the file is written anew from the cache of this process.    *)
(*                                                                         *)
(* Whether a pair meets the target is the sign of a sum of probabilities;  *)
(* here it is any condition that, once it holds of a capacity, holds of    *)
(* the larger ones.                                                        *)
(***************************************************************************)
EXTENDS Integers

CONSTANTS
    Procs,      \* the processes that share the file: clients, servers, tests
    Requests,   \* what is asked for: the number of differences d, with the other
                \* arguments delta, r, c and targetProb
    Limit,      \* five times the delta of the other arguments, rounded up
    MMin, MMax, \* the code lengths that are tried are 2^m - 1, m in MMin..MMax
    MaxBalls,   \* the largest capacity that is tried
    Needs,      \* the functions that "need" may be
    Junk        \* pairs that stand behind a number read from a torn file

VARIABLES
    need,       \* need[q][m]: the least capacity that meets the target of q
    cache,      \* cache[p]: the direct cache of p, a pair for some of the ds
    file,       \* the shared file: its rows, and whether it is torn
    writers,    \* processes that have the file open for writing
    search,     \* search[p]: the call of bestBchParam that p is in
    misled      \* whether some process has loaded a torn file

vars == <<need, cache, file, writers, search, misled>>

Ms == MMin..MMax
Ds == {q[1] : q \in Requests}
Args == {q[2] : q \in Requests}
Pairs == Nat \X Nat
NoRows == [d \in {} |-> <<1, 1>>]
AreRows(rows) == DOMAIN rows \subseteq Ds /\ rows \in [DOMAIN rows -> Pairs]

ASSUME LimitsAssumption ==
    /\ MMin \in Nat /\ MMax \in Nat /\ 1 < MMin /\ MMin <= MMax
    /\ MaxBalls \in Nat /\ Limit \in [Args -> Nat]
    /\ \A m \in Ms : 2^m \in Nat
ASSUME RequestsAssumption == Requests # {}
ASSUME NeedsAssumption == Needs \subseteq [Requests -> [Ms -> Nat]]
ASSUME JunkAssumption == Junk \subseteq Pairs

-----------------------------------------------------------------------------
(* The search. *)

Smaller(x, y) == IF x <= y THEN x ELSE y

TMin(m) == m
TMax(m, a) == Smaller(MaxBalls, Smaller(2^m - 2, Limit[a]))

\* 1 - failureProbabilityUB(d, delta, 2^m - 1, r, t, c) >= targetProb
Meets(q, m, t) == need[q][m] <= t

\* What is answered when no pair meets the target.
NoPair == <<1, 1>>

Cost(pair) == pair[1] * pair[2]

\* Mutant: the capacities are compared without the lengths.
CheaperCapacity(pair, best) == best = NoPair \/ pair[2] < best[2]

\* best_cost is the largest number as long as nothing is found.
Cheaper(pair, best) == best = NoPair \/ Cost(pair) < Cost(best)

Best(pair, best) == IF Cheaper(pair, best) THEN pair ELSE best

Fresh(at, q) ==
    [at |-> at, q |-> q, m |-> MMin, lo |-> 0, hi |-> 0, best |-> NoPair]

NewSearch(q) == Fresh("try", q)

NoSearch == Fresh("idle", CHOOSE q \in Requests : TRUE)

\* The loop goes on to the next length, with a pair of this one or without.
NextLength(s, best) == [s EXCEPT !.at = "try", !.m = @ + 1, !.best = best]

\* One length: its least capacity meets the target, or only its largest
\* does, and the least one that does is to be found between them, or none.
Try(p) ==
    LET s == search[p]
    IN  /\ s.at = "try" /\ s.m <= MMax
        /\ search' = [search EXCEPT ![p] =
             IF Meets(s.q, s.m, TMin(s.m))
             THEN NextLength(s, Best(<<s.m, TMin(s.m)>>, s.best))
             ELSE IF Meets(s.q, s.m, TMax(s.m, s.q[2]))
             THEN [s EXCEPT !.at = "halve", !.lo = TMin(s.m),
                            !.hi = TMax(s.m, s.q[2])]
             ELSE NextLength(s, s.best)]
        /\ UNCHANGED <<need, cache, file, writers, misled>>

\* Mutant: the search ends when the two ends have met.
WideUntilEqual(s) == s.hi > s.lo

Wide(s) == s.hi - s.lo > 1

\* Mutant: the middle does not meet the target, so the next one is the end.
HalvedPast(s) ==
    LET mid == s.lo + (s.hi - s.lo) \div 2
    IN  IF Meets(s.q, s.m, mid) THEN [s EXCEPT !.hi = mid]
                                ELSE [s EXCEPT !.lo = mid + 1]

Halved(s) ==
    LET mid == s.lo + (s.hi - s.lo) \div 2
    IN  IF Meets(s.q, s.m, mid) THEN [s EXCEPT !.hi = mid]
                                ELSE [s EXCEPT !.lo = mid]

Halve(p) ==
    /\ search[p].at = "halve" /\ Wide(search[p])
    /\ search' = [search EXCEPT ![p] = Halved(search[p])]
    /\ UNCHANGED <<need, cache, file, writers, misled>>

\* Mutant: the lower end is taken without a second look.
LowerEnd(s) == s.lo

\* The capacity the two ends leave.
Found(s) == IF Meets(s.q, s.m, s.lo) THEN s.lo ELSE s.hi

Settle(p) ==
    LET s == search[p]
    IN  /\ s.at = "halve" /\ ~Wide(s)
        /\ search' = [search EXCEPT ![p] =
                        NextLength(s, Best(<<s.m, Found(s)>>, s.best))]
        /\ UNCHANGED <<need, cache, file, writers, misled>>

-----------------------------------------------------------------------------
(* The cache and the file. *)

\* Mutant: operator[] in place of insert.
Overwritten(rows, more) ==
    [d \in DOMAIN rows \cup DOMAIN more |->
        IF d \in DOMAIN more THEN more[d] ELSE rows[d]]

\* insert: a key that is there keeps its value.
Inserted(rows, more) ==
    [d \in DOMAIN rows \cup DOMAIN more |->
        IF d \in DOMAIN rows THEN rows[d] ELSE more[d]]

\* What stands behind a number in a torn file: a pair of another row, or values
\* that were never written.
TornPairs == Junk \cup UNION {{rows[d] : d \in DOMAIN rows} :
                                 rows \in {file.rows} \cup {cache[p] : p \in Procs}}

\* A whole file is loaded as it is: the last turn of the eof() loop reads
\* nothing and inserts the last row once more.  A torn file is empty, or ends
\* within a row, or ends with what another process has written.
Loads == IF file.torn THEN UNION {[S -> TornPairs] : S \in SUBSET Ds}
                      ELSE {file.rows}

\* A call loads the file and answers from the cache, or begins a search.
Call(p, q) ==
    /\ search[p].at = "idle"
    /\ \E rows \in Loads :
         /\ cache' = [cache EXCEPT ![p] = Inserted(@, rows)]
         /\ search' = IF q[1] \in DOMAIN cache[p] \cup DOMAIN rows
                      THEN search
                      ELSE [search EXCEPT ![p] = NewSearch(q)]
         /\ misled' = (misled \/ file.torn)
    /\ UNCHANGED <<need, file, writers>>

\* The search is over: the pair is cached and the file opened, which empties it.
Open(p) ==
    LET s == search[p]
    IN  /\ s.at = "try" /\ s.m > MMax
        /\ search' = [search EXCEPT ![p].at = "save"]
        /\ cache' = [cache EXCEPT ![p] = Inserted(@, [d \in {s.q[1]} |-> s.best])]
        /\ file' = [file EXCEPT !.torn = TRUE, !.shared = (writers # {})]
        /\ writers' = writers \cup {p}
        /\ UNCHANGED <<need, misled>>

\* The rows of this process are written and the call returns.  The file is
\* torn while another process has yet to write, and may stay so if two had it
\* open: the shorter of two texts leaves the end of the longer one.
Close(p) ==
    /\ search[p].at = "save"
    /\ search' = [search EXCEPT ![p] = NoSearch]
    /\ writers' = writers \ {p}
    /\ \E torn \in {b \in BOOLEAN : (writers # {p} => b) /\ (b => file.shared)} :
         file' = [file EXCEPT !.rows = cache[p], !.torn = torn]
    /\ UNCHANGED <<need, cache, misled>>

\* The process ends, in a call or between calls, and is started again.
End(p) ==
    /\ cache' = [cache EXCEPT ![p] = NoRows]
    /\ search' = [search EXCEPT ![p] = NoSearch]
    /\ writers' = writers \ {p}
    /\ UNCHANGED <<need, file, misled>>

-----------------------------------------------------------------------------

Init ==
    /\ need \in Needs
    /\ cache = [p \in Procs |-> NoRows]
    /\ file = [rows |-> NoRows, torn |-> FALSE, shared |-> FALSE]
    /\ writers = {}
    /\ search = [p \in Procs |-> NoSearch]
    /\ misled = FALSE

Step(p) == Try(p) \/ Halve(p) \/ Settle(p) \/ Open(p) \/ Close(p)

Next == \E p \in Procs : Step(p) \/ End(p) \/ \E q \in Requests : Call(p, q)

Spec == Init /\ [][Next]_vars

\* A call that has begun goes on; nothing makes a process call, or end.
FairSpec == Spec /\ \A p \in Procs : WF_vars(Step(p))

-----------------------------------------------------------------------------
(* Properties. *)

Capacities(q, m) == {TMin(m)} \cup TMin(m)..TMax(m, q[2])

\* pair is the cheapest of those with lengths below some m that meet the target
\* of q, or stands for that there is none.
CheapestBelow(q, m, pair) ==
    LET meeting(k) == {t \in Capacities(q, k) : Meets(q, k, t)}
    IN  \/ pair = NoPair /\ \A k \in Ms : k < m => meeting(k) = {}
        \/ /\ pair[1] \in Ms /\ pair[1] < m /\ pair[2] \in meeting(pair[1])
           /\ \A k \in Ms : k < m =>
                \A t \in meeting(k) : Cost(pair) <= Cost(<<k, t>>)

Cheapest(q, pair) == CheapestBelow(q, MMax + 1, pair)

Types ==
    /\ need \in Needs
    /\ DOMAIN cache = Procs /\ \A p \in Procs : AreRows(cache[p])
    /\ DOMAIN file = {"rows", "torn", "shared"} /\ AreRows(file.rows)
    /\ file.torn \in BOOLEAN /\ file.shared \in BOOLEAN
    /\ writers \subseteq Procs
    /\ search \in [Procs -> [at : {"idle", "try", "halve", "save"}, q : Requests,
                            m : Nat, lo : Nat, hi : Nat, best : Pairs]]
    /\ misled \in BOOLEAN

EndsInOrder ==
    \A p \in Procs : search[p].at = "halve" =>
        TMin(search[p].m) <= search[p].lo /\ search[p].lo < search[p].hi

\* The types of the variables, and the order of the ends of a binary search,
\* which are unsigned: their difference must not become negative, although the
\* largest capacity of a length may be below the least one.
TypeOK == Types /\ EndsInOrder

\* bestBchParam calculates the best parameter: the binary search, which looks
\* at few of the capacities and stops early, finds for every length the least
\* capacity that meets the target, and of them the cheapest.
SearchIsCheapest ==
    \A p \in Procs : search[p].at = "save" =>
        Cheapest(search[p].q, search[p].best)

\* The cache is keyed by d alone.  As long as nobody has loaded a torn file,
\* a pair that is cached, or in the file, is still the best one for this d and
\* the other arguments of some call, however processes load, search and write
\* in turns, lose the rows of one another, and end.
OnlyTornFilesMislead ==
    ~misled => \A rows \in {file.rows} \cup {cache[p] : p \in Procs} :
                   \A d \in DOMAIN rows : \E q \in Requests : q[1] = d /\ Cheapest(q, rows[d])

\* A process gives the same answer for the same d until it ends, whatever the
\* file it loads at every call has become: a ParityBitmapSketch that is built
\* again for a d has the length and capacity of the one before.
AnswersStable ==
    [][\A p \in Procs : \/ cache'[p] = NoRows
                        \/ \A d \in DOMAIN cache[p] :
                              d \in DOMAIN cache'[p] /\ cache'[p][d] = cache[p][d]]_vars

\* Every call of bestBchParam returns.
CallsReturn == \A p \in Procs : search[p].at # "idle" ~> search[p].at = "idle"

=============================================================================
