--------------------------- MODULE MCCalibration ---------------------------
(* Small instances of Calibration: two routines of one tool, or of two. *)
EXTENDS Calibration, TLC

CONSTANTS t1, t2, r1, r2

OneTool == [r \in {r1, r2} |-> t1]
TwoTools == (r1 :> t1) @@ (r2 :> t2)
=============================================================================
