---------------------------- MODULE MCRelations ----------------------------
(* Small instances of Relations. *)
EXTENDS Relations

CONSTANTS t1, t2, t3

\* A blocker that was there before.
OneBlocker == {[from |-> t1, to |-> t2, kind |-> "blocks"]}
=============================================================================
