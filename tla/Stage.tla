------------------------------- MODULE Stage -------------------------------
(***************************************************************************)
(* What a chain and a tool-call workflow take an agent's stage run for:    *)
(* it asks for a bounded number of approvals, one after the other, and     *)
(* ends with one result that nothing changes afterwards.  That somebody    *)
(* answers is not its to promise.                                          *)
(***************************************************************************)
EXTENDS Naturals

CONSTANTS MaxAsks, \* approvals a run may ask for
          Ends     \* what it may end with

VARIABLES asked, waiting, outcome

Init == asked = 0 /\ waiting = FALSE /\ outcome = "none"

Ask ==
  /\ outcome = "none" /\ ~waiting
  /\ asked < MaxAsks
  /\ asked' = asked + 1
  /\ waiting' = TRUE
  /\ UNCHANGED outcome

Answered ==
  /\ waiting
  /\ waiting' = FALSE
  /\ UNCHANGED <<asked, outcome>>

End ==
  /\ outcome = "none"
  /\ outcome' \in Ends
  /\ waiting' = FALSE
  /\ UNCHANGED asked

Next == Ask \/ Answered \/ End

Spec == Init /\ [][Next]_<<asked, waiting, outcome>>

\* The run has a result in the end, or waits for an answer that never comes.
Promise == Spec /\ (<>(outcome # "none") \/ <>[]waiting)
=============================================================================
