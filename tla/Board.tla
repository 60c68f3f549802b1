------------------------------- MODULE Board -------------------------------
(***************************************************************************)
(* What the task chain promises to somebody who only watches the state     *)
(* column of the tasks table: tasks appear as accepted or proposed, move   *)
(* only along the legal edges, and never start executing while a task that *)
(* blocks them is unfinished.  Overtake is the one move the promise has to *)
(* concede: a completion that had already read "executing" overwrites a    *)
(* cancellation.                                                           *)
(***************************************************************************)
EXTENDS Lifecycle

CONSTANTS Task,    \* the tasks
          Intake,  \* those a connector created
          Blocks   \* <<b, t>> : b blocks t

VARIABLE state     \* tasks.state; "absent" before the row exists

Cleared(t) == \A b \in Task : <<b, t>> \in Blocks => IsTerminal(state[b])

Init == state = [t \in Task |-> "absent"]

Appear(t) ==
  /\ state[t] = "absent"
  /\ \E s \in {"accepted", "proposed"} :
       /\ s = "proposed" => t \in Intake
       /\ state' = [state EXCEPT ![t] = s]

Move(t) ==
  \E s \in State :
    /\ IF t \in Intake THEN IsLegalIntake(state[t], s) ELSE IsLegal(state[t], s)
    /\ s = "executing" => Cleared(t)
    /\ state' = [state EXCEPT ![t] = s]

Overtake(t) ==
  /\ state[t] = "halted"
  /\ state' = [state EXCEPT ![t] = "done"]

Next == \E t \in Task : Appear(t) \/ Move(t) \/ Overtake(t)

Spec == Init /\ [][Next]_state
=============================================================================
