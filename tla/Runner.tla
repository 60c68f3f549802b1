------------------------------- MODULE Runner -------------------------------
(***************************************************************************)
(* One agent's run of a stage.                                             *)
(*                                                                         *)
(*   internal/agent/runner.go    the loop: a turn of the model, its calls  *)
(*   internal/agent/workflow.go  the loop cut into durable segments        *)
(*                                                                         *)
(* A segment is one DBOS step: it begins with the conversation the last    *)
(* one has saved, and when the process dies it is run again from there,    *)
(* whatever it has written or dispatched by then.  A conversation is       *)
(* counters; what is said in it is left out, and so is the prompt.         *)
(***************************************************************************)
EXTENDS Naturals, Sequences

CONSTANTS Verdict,  \* what this run's gate may answer
          MaxIter,  \* turns of the loop (agent.max_iter)
          Budget,   \* calls that may reach the gate (gate.call_budget)
          MaxReply, \* bound: calls in one reply of the model
          MaxLosses \* bound: process crashes and audit rows that fail to be written

ASSUME VerdictAssumption == Verdict \subseteq {"approve", "deny", "request_decision"}

ASSUME RunnerBounds ==
  MaxIter \in Nat /\ Budget \in Nat /\ MaxReply \in Nat /\ MaxLosses \in Nat

\* maxToolCallNudges
MaxNudges == 2

\* A tool that may be called, one that may not, and the built-in handoff.
Call == {"listed", "unlisted", "handoff"}

Reason == {"answer", "agent_handoff", "budget_exhausted", "max_iterations", "gateway_error"}

VARIABLES
  at,       \* durable position of the stage workflow
  saved,    \* the loop state its last segment has returned
  asked,    \* approvals registered
  result,   \* what the workflow has ended with
  body,     \* volatile: the segment that runs
  trail,    \* audit rows of the run, by kind
  unwritten, \* audit rows that could not be written
  crashes,
  chats,    \* external: calls of the model
  executed  \* external: calls of tools by the loop itself

runnerVars == <<at, saved, asked, result, body, trail, unwritten, crashes, chats, executed>>

TrailKind == {"started", "finished", "handoff", "budget", "iterations"}

\* turns: replies; calls: calls in them; seen: observations of calls;
\* told: outcomes of approvals; cut: calls behind one that needed an approval
Talk == [iter : Nat, gates : Nat, nudges : 0 .. MaxNudges,
         turns : Nat, calls : Nat, seen : Nat, told : Nat, cut : Nat]

Silence ==
  [iter |-> 0, gates |-> 0, nudges |-> 0, turns |-> 0, calls |-> 0, seen |-> 0, told |-> 0,
   cut |-> 0]

NoSegment == [pc |-> "off"]
Speaking == [pc : {"chat"}, talk : Talk]
Listening == [pc : {"calls"}, talk : Talk, todo : Seq(Call)]
Dispatching == [pc : {"dispatch"}, talk : Talk, todo : Seq(Call)]
Closing == [pc : {"finish", "ended"}, end : Reason]
Pausing == [pc : {"paused"}, talk : Talk]

RunnerTypeOK ==
  /\ at \in {"segment", "register", "await", "done"}
  /\ saved \in Talk
  /\ asked \in Nat
  /\ result \in Reason \cup {"none", "error"}
  /\ body \in {NoSegment, [pc |-> "begin"]}
       \cup Speaking \cup Listening \cup Dispatching \cup Closing \cup Pausing
  /\ trail \in [TrailKind -> Nat]
  /\ unwritten \in 0 .. MaxLosses
  /\ crashes \in 0 .. MaxLosses
  /\ chats \in Nat
  /\ executed \in Nat

RunnerInit ==
  /\ at = "segment"
  /\ saved = Silence
  /\ asked = 0
  /\ result = "none"
  /\ body = [pc |-> "begin"]
  /\ trail = [k \in TrailKind |-> 0]
  /\ unwritten = 0
  /\ crashes = 0
  /\ chats = 0
  /\ executed = 0
-----------------------------------------------------------------------------
(* Helpers. *)

durable == <<at, saved, asked, result>>
external == <<chats, executed>>

\* WriteAudit, whose error is dropped.
Audit(k) ==
  \/ trail' = [trail EXCEPT ![k] = @ + 1] /\ UNCHANGED unwritten
  \/ unwritten + crashes < MaxLosses /\ unwritten' = unwritten + 1 /\ UNCHANGED trail

NoAudit == UNCHANGED <<trail, unwritten>>

\* The model has been given an observation of its next call.
Observed(t) == [t EXCEPT !.seen = @ + 1]

Replies == UNION {[1 .. n -> Call] : n \in 1 .. MaxReply}
-----------------------------------------------------------------------------
(* A segment. *)

\* A fresh run is audited; a resumed one is given the outcome first.
Begin ==
  /\ at = "segment" /\ body.pc = "begin"
  /\ IF asked = 0
     THEN Audit("started") /\ body' = [pc |-> "chat", talk |-> saved]
     ELSE NoAudit /\ body' = [pc |-> "chat", talk |-> [saved EXCEPT !.told = @ + 1]]
  /\ UNCHANGED <<durable, crashes, external>>

\* Mutant: the iteration bound is not checked.
Unbounded == body.pc = "chat"

HasTurn == body.pc = "chat" /\ body.talk.iter < MaxIter

\* The provider fails: the run ends with no audit row.
ChatFails ==
  /\ HasTurn
  /\ chats' = chats + 1
  /\ body' = [pc |-> "ended", end |-> "gateway_error"]
  /\ UNCHANGED <<durable, trail, unwritten, crashes, executed>>

\* What looks like a call but is none: the model is told so, twice at most.
Nudge ==
  /\ HasTurn /\ body.talk.nudges < MaxNudges
  /\ chats' = chats + 1
  /\ body' = [pc |-> "chat", talk |->
                [body.talk EXCEPT !.nudges = @ + 1, !.turns = @ + 1, !.iter = @ + 1]]
  /\ UNCHANGED <<durable, trail, unwritten, crashes, executed>>

\* Anything else without a call is the stage's result.
Answer ==
  /\ HasTurn
  /\ chats' = chats + 1
  /\ body' = [pc |-> "finish", end |-> "answer"]
  /\ UNCHANGED <<durable, trail, unwritten, crashes, executed>>

\* A reply with calls.
Reply ==
  /\ HasTurn
  /\ chats' = chats + 1
  /\ \E r \in Replies :
       body' = [pc |-> "calls", todo |-> r,
                talk |-> [body.talk EXCEPT !.turns = @ + 1, !.calls = @ + Len(r)]]
  /\ UNCHANGED <<durable, trail, unwritten, crashes, executed>>

\* The calls of the reply are over: the next iteration.
NextTurn ==
  /\ body.pc = "calls" /\ body.todo = <<>>
  /\ body' = [pc |-> "chat", talk |-> [body.talk EXCEPT !.iter = @ + 1]]
  /\ UNCHANGED <<durable, trail, unwritten, crashes, external>>

Has(c) == body.pc = "calls" /\ body.todo # <<>> /\ Head(body.todo) = c

\* The agent hands its task over: two audits, and the calls behind it are not looked at.
HandOff ==
  /\ Has("handoff")
  /\ Audit("handoff")
  /\ body' = [pc |-> "finish", end |-> "agent_handoff"]
  /\ UNCHANGED <<durable, crashes, external>>

\* A tool that is not in the allowlist is refused before budget and gate.
RefuseCall ==
  /\ Has("unlisted")
  /\ body' = [pc |-> "calls", todo |-> Tail(body.todo), talk |-> Observed(body.talk)]
  /\ UNCHANGED <<durable, trail, unwritten, crashes, external>>

WithinBudget == Has("listed") /\ body.talk.gates < Budget

\* Mutant: the budget ends the run with no audit row.
ExhaustSilently ==
  /\ Has("listed") /\ body.talk.gates >= Budget
  /\ body' = [pc |-> "ended", end |-> "budget_exhausted"]
  /\ UNCHANGED <<durable, trail, unwritten, crashes, external>>

\* The call that is over the budget ends the run.
Exhaust ==
  /\ Has("listed") /\ body.talk.gates >= Budget
  /\ Audit("budget")
  /\ body' = [pc |-> "ended", end |-> "budget_exhausted"]
  /\ UNCHANGED <<durable, crashes, external>>

\* The gate refuses or fails: the model is told and goes on.
Denied ==
  /\ WithinBudget
  /\ body' = [pc |-> "calls", todo |-> Tail(body.todo),
              talk |-> [Observed(body.talk) EXCEPT !.gates = @ + 1]]
  /\ UNCHANGED <<durable, trail, unwritten, crashes, external>>

\* The gate approves ...
Approved ==
  /\ "approve" \in Verdict
  /\ WithinBudget
  /\ body' = [pc |-> "dispatch", todo |-> Tail(body.todo),
              talk |-> [body.talk EXCEPT !.gates = @ + 1]]
  /\ UNCHANGED <<durable, trail, unwritten, crashes, external>>

\* ... and the tool is called; a failure is an observation too.
DispatchCall ==
  /\ body.pc = "dispatch"
  /\ executed' = executed + 1
  /\ body' = [pc |-> "calls", todo |-> body.todo, talk |-> Observed(body.talk)]
  /\ UNCHANGED <<durable, trail, unwritten, crashes, chats>>

\* Mutant: the saved state leaves the gate's counter behind.
PauseForgetful ==
  /\ "request_decision" \in Verdict
  /\ WithinBudget
  /\ body' = [pc |-> "paused", talk |-> [body.talk EXCEPT !.cut = @ + Len(body.todo) - 1]]
  /\ UNCHANGED <<durable, trail, unwritten, crashes, external>>

\* The gate wants a decision: the segment ends here, in the middle of the reply.
\* The iteration is not counted, and the calls behind this one are dropped.
Pause ==
  /\ "request_decision" \in Verdict
  /\ WithinBudget
  /\ body' = [pc |-> "paused",
              talk |-> [body.talk EXCEPT !.gates = @ + 1, !.cut = @ + Len(body.todo) - 1]]
  /\ UNCHANGED <<durable, trail, unwritten, crashes, external>>

\* No turn is left.
RunOut ==
  /\ body.pc = "chat" /\ ~HasTurn
  /\ Audit("iterations")
  /\ body' = [pc |-> "ended", end |-> "max_iterations"]
  /\ UNCHANGED <<durable, crashes, external>>

\* auditFinish, with the whole conversation.
Finish ==
  /\ body.pc = "finish"
  /\ Audit("finished")
  /\ body' = [pc |-> "ended", end |-> body.end]
  /\ UNCHANGED <<durable, crashes, external>>
-----------------------------------------------------------------------------
(* The stage workflow. *)

\* The segment's result is stored: the end of the run, or a call to be decided.
Checkpoint ==
  \/ /\ body.pc = "ended"
     /\ result' = body.end
     /\ at' = "done"
     /\ body' = NoSegment
     /\ UNCHANGED <<saved, asked, trail, unwritten, crashes, external>>
  \/ /\ body.pc = "paused"
     /\ saved' = body.talk
     /\ at' = "register"
     /\ body' = [pc |-> "begin"]
     /\ UNCHANGED <<asked, result, trail, unwritten, crashes, external>>

\* registerApproval and the start of the tool-call workflow.
Register ==
  /\ at = "register" /\ body.pc = "begin"
  /\ asked' = asked + 1
  /\ at' = "await"
  /\ UNCHANGED <<saved, result, body, trail, unwritten, crashes, external>>

\* The tool-call workflow reports: approved, rejected or expired.  It need not: an expiry
\* that finds the decision taken and a dispatch that fails for good tell nobody, and this
\* wait has no deadline.
Hear ==
  /\ at = "await" /\ body.pc = "begin"
  /\ at' = "segment"
  /\ UNCHANGED <<saved, asked, result, body, trail, unwritten, crashes, external>>

\* A step of the workflow fails for good: the allowlist, the decision's row, its start.
Fail ==
  /\ at # "done" /\ body.pc = "begin"
  /\ at' = "done"
  /\ result' = "error"
  /\ body' = NoSegment
  /\ UNCHANGED <<saved, asked, trail, unwritten, crashes, external>>

\* The process dies ...
CrashSegment ==
  /\ at # "done" /\ body # NoSegment
  /\ unwritten + crashes < MaxLosses
  /\ crashes' = crashes + 1
  /\ body' = NoSegment
  /\ UNCHANGED <<durable, trail, unwritten, external>>

\* Mutant: recovery does not know this workflow.
NeverRunAgain == FALSE

\* ... and DBOS runs the workflow again from its last step.
RunAgain ==
  /\ at # "done" /\ body = NoSegment
  /\ body' = [pc |-> "begin"]
  /\ UNCHANGED <<durable, trail, unwritten, crashes, external>>

Loop ==
  \/ Begin \/ ChatFails \/ Nudge \/ Answer \/ Reply \/ NextTurn
  \/ HandOff \/ RefuseCall \/ Exhaust \/ Denied \/ Approved \/ DispatchCall \/ Pause
  \/ RunOut \/ Finish

Step == Loop \/ Checkpoint \/ Register \/ RunAgain

RunnerNext == Step \/ Hear \/ Fail \/ CrashSegment

RunnerSpec == RunnerInit /\ [][RunnerNext]_runnerVars

\* The goroutine runs and DBOS recovers it.  Nothing is assumed of the approvals.
RunnerFairSpec == RunnerSpec /\ WF_runnerVars(Step)
-----------------------------------------------------------------------------
(* Properties. *)

\* Whatever the model says and however often the process dies, the gate is asked for no
\* more calls than the budget and the model for no more turns than the bound allows: in
\* one conversation, with a turn more for each approval (the turn that asks is not
\* counted), and again for each segment that a crash makes run twice.
Bounded ==
  /\ saved.gates <= Budget /\ saved.turns <= MaxIter + saved.told
  /\ executed <= Budget * (1 + crashes)
  /\ chats <= MaxIter * (1 + crashes) + asked

\* A conversation that goes on has an observation for every call the model has made, but
\* those behind a call that was put to the owner, and every outcome the owner's side
\* sends is in it once.
EveryCallHeard ==
  body.pc = "chat" =>
    /\ body.talk.calls = body.talk.seen + body.talk.told + body.talk.cut
    /\ body.talk.told = asked

Ended(n) == trail.finished + trail.budget + trail.iterations + unwritten >= n

\* The trail tells how the run has ended: one closing row of the right kind, unless it
\* was lost, and a row of another kind only from a segment that was run twice.  A model
\* that cannot be reached leaves none.
TrailTellsTheEnd ==
  /\ trail.started <= 1 + crashes
  /\ trail.finished + trail.budget + trail.iterations <=
       crashes + (IF body.pc = "ended" \/ result \notin {"none", "error"} THEN 1 ELSE 0)
  /\ result \in {"answer", "agent_handoff"} => trail.finished + unwritten > 0
  /\ result = "agent_handoff" => trail.handoff + unwritten > 0
  /\ result = "budget_exhausted" => trail.budget + unwritten > 0
  /\ result = "max_iterations" => trail.iterations + unwritten > 0

\* What the model has been told and what the trail tells agree with what has happened.
RunIsAccounted == EveryCallHeard /\ TrailTellsTheEnd

\* Seen from the chain: bounded approvals, one after the other, and in the end one result,
\* whatever fails or is run again - or else a wait for an approval whose outcome nobody
\* sends, which AgentGoesOn of Toolflow traces to its causes (workflow.go,
\* AgentStageWorkflow).
Abstract == INSTANCE Stage WITH
  MaxAsks <- Budget, Ends <- Reason \cup {"error"}, waiting <- at = "await", outcome <- result

StageSpec == Abstract!Promise
=============================================================================
