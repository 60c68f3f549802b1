------------------------------ MODULE MCIntake ------------------------------
(* A small instance of Intake: deliveries of every disposition, two polls. *)
EXTENDS Intake, TLC

CONSTANTS c1, c2, i1, i2, i3, i4, bad, p1, p2

Alike == Permutations({p1, p2}) \cup Permutations({i2, i3})
Kinds == (i1 :> "rich_event") @@ (i2 :> "llm_judge") @@ (i3 :> "llm_judge")
           @@ (i4 :> "forced_task") @@ (bad :> "forced_task")
Sure == (i1 :> 90) @@ (i2 :> 0) @@ (i3 :> 0) @@ (i4 :> 0) @@ (bad :> 0)
Risk == (i1 :> 10) @@ (i2 :> 0) @@ (i3 :> 0) @@ (i4 :> 0) @@ (bad :> 0)
Few == [c \in {c1} |-> 1]
OneConnector == [p \in {p1, p2} |-> c1]
=============================================================================
