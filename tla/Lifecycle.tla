----------------------------- MODULE Lifecycle -----------------------------
(***************************************************************************)
(* The vocabulary every other module shares: the task states, the edges    *)
(* internal/lifecycle/edges.go allows between them, and the linear order   *)
(* of the chain stages from internal/chain/stages.go.                      *)
(***************************************************************************)
EXTENDS Naturals

State == {"proposed", "accepted", "waiting", "executing", "done", "dismissed", "halted"}

Terminal == {"done", "dismissed", "halted"}

LegalEdge ==
  { <<"proposed", "accepted">>, <<"proposed", "dismissed">>, <<"proposed", "halted">>,
    <<"accepted", "executing">>, <<"accepted", "waiting">>, <<"accepted", "halted">>,
    <<"waiting", "executing">>, <<"waiting", "halted">>,
    <<"executing", "done">>, <<"executing", "halted">> }

IsLegal(from, to) == <<from, to>> \in LegalEdge

\* The extra edge of a task that intake created.
IsLegalIntake(from, to) == IsLegal(from, to) \/ (from = "accepted" /\ to = "dismissed")

IsTerminal(s) == s \in Terminal

Stage == {"creation", "triage", "expansion", "execution", "completion"}

\* The stages somebody has to occupy.
Served == {"triage", "expansion", "execution"}

Rank == [s \in Stage |-> CASE s = "creation"  -> 0
                           [] s = "triage"    -> 1
                           [] s = "expansion" -> 2
                           [] s = "execution" -> 3
                           [] OTHER           -> 4]

NextStage(s) == CASE s = "creation"  -> "triage"
                  [] s = "triage"    -> "expansion"
                  [] s = "expansion" -> "execution"
                  [] OTHER           -> "completion"
=============================================================================
