------------------------------- MODULE MCInbox -------------------------------
(* A small instance of Inbox. *)
EXTENDS Inbox

\* One row of each kind of membership rule.
Kinds == <<"task", "decision", "feedback">>

\* The first row's date passes when the clock first ticks.
Dues == <<0, 9, 9>>
=============================================================================
