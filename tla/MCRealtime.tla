---------------------------- MODULE MCRealtime ----------------------------
(* A small instance of Realtime: channels that hold one event. *)
EXTENDS Realtime, TLC

CONSTANTS s1, s2
=============================================================================
