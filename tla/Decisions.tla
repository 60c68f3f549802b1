----------------------------- MODULE Decisions -----------------------------
(***************************************************************************)
(* What an approval promises to somebody who sees only the decision and    *)
(* the tool: it is decided once, nothing acts without an approval, and a   *)
(* call that is not safe to repeat never acts again once its outcome has   *)
(* been recorded, unless its tool could not be found in between.           *)
(***************************************************************************)
EXTENDS Naturals

CONSTANTS Decision,   \* the decisions
          Repeatable, \* those whose tool may safely be called again
          Remote      \* those whose tool is not always to be found

Resolution == {"approved", "rejected", "expired"}

VARIABLES verdict,  \* per decision: absent, open, or its resolution
          acts,     \* how often the tool has acted
          settled,  \* whether an outcome has been recorded
          missed    \* those that came up again when settled, their tool not to be found

vars == <<verdict, acts, settled, missed>>

Init ==
  /\ verdict = [d \in Decision |-> "absent"]
  /\ acts = [d \in Decision |-> 0]
  /\ settled = [d \in Decision |-> FALSE]
  /\ missed = {}

\* A decision is put before the owner, or granted at once by the system.
Appear(d) ==
  /\ verdict[d] = "absent"
  /\ \E v \in {"open", "approved"} : verdict' = [verdict EXCEPT ![d] = v]
  /\ UNCHANGED <<acts, settled, missed>>

Decide(d) ==
  /\ verdict[d] = "open"
  /\ \E v \in Resolution : verdict' = [verdict EXCEPT ![d] = v]
  /\ UNCHANGED <<acts, settled, missed>>

Act(d) ==
  /\ verdict[d] = "approved"
  /\ settled[d] => d \in Repeatable \cup missed
  /\ acts' = [acts EXCEPT ![d] = @ + 1]
  /\ UNCHANGED <<verdict, settled, missed>>

\* That the tool was not found is an outcome too.
Settle(d) ==
  /\ verdict[d] = "approved"
  /\ acts[d] > 0 \/ d \in Remote
  /\ settled' = [settled EXCEPT ![d] = TRUE]
  /\ UNCHANGED <<verdict, acts, missed>>

Miss(d) ==
  /\ d \in Remote /\ settled[d]
  /\ missed' = missed \cup {d}
  /\ UNCHANGED <<verdict, acts, settled>>

Next == \E d \in Decision : Appear(d) \/ Decide(d) \/ Act(d) \/ Settle(d) \/ Miss(d)

Spec == Init /\ [][Next]_vars
=============================================================================
