------------------------------ MODULE MCRunner ------------------------------
(* A small instance of Runner. *)
EXTENDS Runner, TLC
=============================================================================
