---------------------------- MODULE MCPbsMessages ----------------------------
(* Two codes: a sketch of 4 bits does not fill whole bytes of 3 bits, one  *)
(* of 3 bits does; 1 + 2 is a power of two, so that a capacity of 2 leaves *)
(* no spare count beside the flag.                                         *)
EXTENDS PbsMessages

SmallCodes == {<<2, 2>>, <<3, 1>>}
===============================================================================
