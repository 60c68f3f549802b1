---------------------------- MODULE MCToolflow ----------------------------
(* Small instances of Toolflow. *)
EXTENDS Toolflow, TLC

CONSTANTS d1, d2, c1, c2
=============================================================================
