---------------------------- MODULE MCFeedback ----------------------------
(* A small instance of Feedback. *)
EXTENDS Feedback, TLC

CONSTANTS c1, c2, t1
=============================================================================
