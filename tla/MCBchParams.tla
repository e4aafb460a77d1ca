---------------------------- MODULE MCBchParams ----------------------------
(* Two processes, two numbers of differences, and for the first of them    *)
(* two sets of other arguments: one with a delta of about 2, and one with  *)
(* a delta of 1, for which the largest capacity is below the least one of  *)
(* every length.                                                           *)
EXTENDS BchParams

MCRequests == {<<1, "wide">>, <<1, "narrow">>, <<2, "wide">>}

MCLimit == [a \in Args |-> IF a = "wide" THEN 12 ELSE 5]

MCJunk == {<<0, 0>>}

\* The least capacities of the lengths in turn.
Curve(c) == [m \in Ms |-> c[m - MMin + 1]]

\* Capacities from below the least one that is tried to above the largest one:
\* a search that takes the longer code, one that takes the shorter, and none.
MCNeeds ==
    {[q \in Requests |-> Curve(IF q[1] = 1 THEN xy[1] ELSE xy[2])] :
        xy \in {<< <<12, 8>>, <<9, 8>> >>, << <<26, 26>>, <<6, 5>> >>}}

=============================================================================
