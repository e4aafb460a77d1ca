------------------------------- MODULE MCIblt -------------------------------
(* Small instances of Iblt: the hash functions spread two independent keys, *)
(* their XOR and a fourth key arbitrarily.                                  *)
EXTENDS Iblt

Keys == {{1}, {2}, {1, 2}, {3}}

Spread == {[k \in Key |-> IF k \in Keys THEN f[k] ELSE 1] : f \in [Keys -> 1..Buckets]}

AllHashes == [1..NumHashes -> Spread]

IbltInputs ==
    {<<Keys, {}>>, <<{{1}, {2}}, {{1, 2}, {3}}>>, <<{{1}, {3}}, {{2}, {1, 2}, {3}}>>,
     <<{{1}}, {{1}}>>}
=============================================================================
