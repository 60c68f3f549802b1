------------------------------ MODULE MCChain ------------------------------
(* Small instances of Chain. *)
EXTENDS Chain, TLC

CONSTANTS t1, t2

FirstBlocksSecond == {<<t1, t2>>}
=============================================================================
