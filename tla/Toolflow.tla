------------------------------ MODULE Toolflow ------------------------------
(***************************************************************************)
(* A tool call from its pending decision to its outcome.                   *)
(*                                                                         *)
(*   internal/toolflow/workflow.go   one durable workflow per decision     *)
(*   graph/phase3_helpers.go         propose, approve and reject           *)
(*   internal/agent/workflow.go      an agent that waits for the outcome   *)
(*   internal/mcp/sync.go            which remote tools the registry knows *)
(*                                                                         *)
(* As in Chain, a DBOS step is its body (one action per transaction or     *)
(* effect in it) and then Checkpoint; a crash in between runs the body     *)
(* again.  A caller is a sequence of statements and may stop before any.   *)
(***************************************************************************)
EXTENDS Naturals, Sequences

CONSTANTS Decision,   \* ids that may be minted
          Repeatable, \* those whose tool reports the call as safe to repeat
          Remote,     \* those whose tool is reached through MCP; its adapter never does
          Client,     \* concurrent callers
          MaxCalls,   \* bound: calls ever made
          MaxCrashes, \* bound: process crashes
          MaxRetries  \* bound: failed dispatch steps that are retried

ASSUME DecisionAssumption == Repeatable \subseteq Decision /\ Remote \subseteq Decision \ Repeatable

ASSUME BoundAssumption == MaxCalls \in Nat /\ MaxCrashes \in Nat /\ MaxRetries \in Nat

Outcome == {"clean", "bad"}
\* The dispositions a waiting agent may be told of.
Kind == Outcome \cup {"rejected", "expired"}

VARIABLES
  halted,    \* the task has been cancelled
  verdict,   \* pending_decisions: absent, open, or resolved how
  waiter,    \* the rows with a notify_workflow_id: an agent waits for them
  audits,    \* decision_resolved (rejected) and decision_expired audits written
  outcomes,  \* tool_outcomes of the decision, oldest first
  executed,  \* external: how often the tool has been called
  wf, at,    \* status of the tool-call workflow, its durable position
  envelope,  \* what it received: nothing yet, approved, rejected
  approvals, \* undelivered messages on its approval topic
  result,    \* the checkpointed outcome of its step, "none" for nothing to tell
  told,      \* what was sent to the agent on the outcome topic
  thr, out,  \* volatile: its goroutine, what its running body has obtained
  agent,     \* durable position of the agent's stage workflow
  asked,     \* the decisions it has registered, oldest first
  body,      \* volatile: the agent's goroutine
  call,      \* volatile: what each client is doing
  calls, crashes, retries,
  registry,  \* volatile: the decisions whose tool the registry knows
  slipped    \* history: those run again with an outcome recorded, their tool not known

rows == <<halted, verdict, waiter, audits, outcomes, executed>>
flow == <<wf, at, envelope, approvals, result, told, thr, out>>
stage == <<agent, asked, body>>
clients == <<call, calls>>
tools == <<registry, slipped>>
bounds == <<crashes, retries>>
vars == <<rows, flow, stage, clients, tools, bounds>>

Idle == [pc |-> "idle"]
Composing == [pc : {"insert"}, auto : BOOLEAN]
Busy == [pc : {"start", "send"}, decision : Decision, approved : BOOLEAN]

TypeOK ==
  /\ halted \in BOOLEAN
  /\ verdict \in [Decision -> {"absent", "open", "approved", "rejected", "expired"}]
  /\ waiter \subseteq Decision
  /\ audits \in [Decision -> Nat]
  /\ outcomes \in [Decision -> Seq(Outcome)]
  /\ executed \in [Decision -> Nat]
  /\ wf \in [Decision -> {"none", "pending", "done", "failed"}]
  /\ at \in [Decision -> {"wait", "expire", "dispatch", "notify"}]
  /\ envelope \in [Decision -> {"none", "approved", "rejected"}]
  /\ approvals \in [Decision -> Seq({"approved", "rejected"})]
  /\ result \in [Decision -> Kind \cup {"none"}]
  /\ told \in [Decision -> Kind \cup {"none"}]
  /\ thr \in [Decision -> {"off", "idle", "expired", "guarded", "executed", "failing", "ran"}]
  /\ out \in [Decision -> Kind \cup {"none"}]
  /\ agent \in {"segment", "register", "start", "await", "done"}
  /\ asked \in Seq(Decision)
  /\ body \in [pc : {"off", "idle"}] \cup [pc : {"ran"}, decision : Decision]
  /\ call \in [Client -> Composing \cup Busy \cup {Idle}]
  /\ calls \in 0 .. MaxCalls
  /\ crashes \in 0 .. MaxCrashes
  /\ retries \in 0 .. MaxRetries
  /\ Decision \ Remote \subseteq registry /\ registry \subseteq Decision
  /\ slipped \subseteq Remote

Init ==
  /\ halted = FALSE
  /\ verdict = [d \in Decision |-> "absent"]
  /\ waiter = {}
  /\ audits = [d \in Decision |-> 0]
  /\ outcomes = [d \in Decision |-> <<>>]
  /\ executed = [d \in Decision |-> 0]
  /\ wf = [d \in Decision |-> "none"]
  /\ at = [d \in Decision |-> "wait"]
  /\ envelope = [d \in Decision |-> "none"]
  /\ approvals = [d \in Decision |-> <<>>]
  /\ result = [d \in Decision |-> "none"]
  /\ told = [d \in Decision |-> "none"]
  /\ thr = [d \in Decision |-> "off"]
  /\ out = [d \in Decision |-> "none"]
  /\ agent = "segment"
  /\ asked = <<>>
  /\ body = [pc |-> "idle"]
  /\ call = [c \in Client |-> Idle]
  /\ calls = 0
  /\ crashes = 0
  /\ retries = 0
  /\ registry = Decision
  /\ slipped = {}
-----------------------------------------------------------------------------
(* Helpers. *)

\* Mutant: the update lacks its "resolved_at IS NULL".
ResolveAnyway(d, v) == verdict[d] # "absent" /\ verdict' = [verdict EXCEPT ![d] = v]

\* ResolvePendingDecision: the first write wins.
Resolve(d, v) == verdict[d] = "open" /\ verdict' = [verdict EXCEPT ![d] = v]

\* dbos.RunWorkflow under the decision's id: a second start attaches to the first.
StartWorkflow(d) ==
  IF wf[d] = "none"
  THEN wf' = [wf EXCEPT ![d] = "pending"] /\ thr' = [thr EXCEPT ![d] = "idle"]
  ELSE UNCHANGED <<wf, thr>>

\* DecisionAlreadyDispatched: the approved audit is written with the outcome.
AlreadyDispatched(d) == outcomes[d] # <<>>

\* The goroutine of d is at the beginning of the step or wait p.
Standing(d, p) == wf[d] = "pending" /\ thr[d] = "idle" /\ at[d] = p

Awaiting(d) == agent = "await" /\ d = asked[Len(asked)]
-----------------------------------------------------------------------------
(* Callers.  The audit rows of a proposal and the gate's reasons are left  *)
(* out, and so is a denied call, which makes no decision.                  *)

\* cancelTask: nothing in it concerns the task's tool calls.
Halt ==
  /\ ~halted
  /\ halted' = TRUE
  /\ UNCHANGED <<verdict, waiter, audits, outcomes, executed, flow, stage, clients, tools, bounds>>

\* proposeToolCall up to the gate's verdict.
Compose(c) ==
  /\ call[c] = Idle /\ calls < MaxCalls
  /\ ~halted
  /\ calls' = calls + 1
  /\ \E auto \in BOOLEAN : call' = [call EXCEPT ![c] = [pc |-> "insert", auto |-> auto]]
  /\ UNCHANGED <<rows, flow, stage, tools, bounds>>

\* The row, with its resolution when the gate approved.
Insert(c) ==
  /\ call[c].pc = "insert"
  /\ \E d \in Decision :
       /\ verdict[d] = "absent"
       /\ verdict' = [verdict EXCEPT ![d] = IF call[c].auto THEN "approved" ELSE "open"]
       /\ call' = [call EXCEPT ![c] = [pc |-> "start", decision |-> d, approved |-> @.auto]]
  /\ UNCHANGED <<halted, waiter, audits, outcomes, executed, flow, stage, calls, tools, bounds>>

\* StartToolCallWorkflow; an approved call goes on to send the approval.
Start(c) ==
  /\ call[c].pc = "start"
  /\ StartWorkflow(call[c].decision)
  /\ call' = [call EXCEPT ![c] = IF @.approved THEN [@ EXCEPT !.pc = "send"] ELSE Idle]
  /\ UNCHANGED <<rows, at, envelope, approvals, result, told, out, stage, calls, tools, bounds>>

\* approveArtifact or rejectApproval; a decision resolved before is only returned.
Answer(c, d) ==
  /\ call[c] = Idle /\ calls < MaxCalls
  /\ calls' = calls + 1
  /\ \E v \in {"approved", "rejected"} :
       /\ Resolve(d, v)
       /\ call' = [call EXCEPT ![c] =
            [pc |-> "send", decision |-> d, approved |-> v = "approved"]]
  /\ UNCHANGED <<halted, waiter, audits, outcomes, executed, flow, stage, tools, bounds>>

\* ResolveDecision: an error when there is no such workflow.
SendApproval(c) ==
  /\ call[c].pc = "send"
  /\ LET d == call[c].decision
     IN  approvals' = IF wf[d] = "none" THEN approvals
                      ELSE [approvals EXCEPT ![d] =
                              Append(@, IF call[c].approved THEN "approved" ELSE "rejected")]
  /\ call' = [call EXCEPT ![c] = Idle]
  /\ UNCHANGED <<rows, wf, at, envelope, result, told, thr, out, stage, calls, tools, bounds>>

\* The request ends early: its context is cancelled or a statement fails.
Abandon(c) ==
  /\ call[c] # Idle
  /\ call' = [call EXCEPT ![c] = Idle]
  /\ UNCHANGED <<rows, flow, stage, calls, tools, bounds>>
-----------------------------------------------------------------------------
(* The tool-call workflow. *)

Recover(d) ==
  /\ wf[d] = "pending" /\ thr[d] = "off"
  /\ thr' = [thr EXCEPT ![d] = "idle"]
  /\ UNCHANGED <<rows, wf, at, envelope, approvals, result, told, out>>
  /\ UNCHANGED <<stage, clients, tools, bounds>>

\* WaitForResultOrExpire returns a message ...
Receive(d) ==
  /\ Standing(d, "wait")
  /\ approvals[d] # <<>>
  /\ envelope' = [envelope EXCEPT ![d] = Head(approvals[d])]
  /\ approvals' = [approvals EXCEPT ![d] = Tail(@)]
  /\ at' = [at EXCEPT ![d] = "dispatch"]
  /\ UNCHANGED <<rows, wf, result, told, thr, out, stage, clients, tools, bounds>>

\* Mutant: a wait without a deadline.
NoDeadline(d) == FALSE

\* ... or, when there is none, that the deadline has passed.
DeadlinePasses(d) ==
  /\ Standing(d, "wait")
  /\ approvals[d] = <<>>
  /\ at' = [at EXCEPT ![d] = "expire"]
  /\ UNCHANGED <<rows, wf, envelope, approvals, result, told, thr, out>>
  /\ UNCHANGED <<stage, clients, tools, bounds>>

\* The body is over with outcome o.
Ends(d, o) == thr' = [thr EXCEPT ![d] = "ran"] /\ out' = [out EXCEPT ![d] = o]

\* Mutant: a decision answered at the boundary is reported as expired.
ResolveExpiredAlways(d) ==
  /\ Standing(d, "expire")
  /\ IF verdict[d] = "open" THEN Resolve(d, "expired") ELSE verdict' = verdict
  /\ thr' = [thr EXCEPT ![d] = "expired"]
  /\ UNCHANGED <<halted, waiter, audits, outcomes, executed, out>>
  /\ UNCHANGED <<wf, at, envelope, approvals, result, told, stage, clients, tools, bounds>>

\* expireDecision: resolve, unless somebody has, which ends the step without a notice.
ResolveExpired(d) ==
  /\ Standing(d, "expire")
  /\ \/ /\ Resolve(d, "expired")
        /\ thr' = [thr EXCEPT ![d] = "expired"]
        /\ out' = out
     \/ /\ verdict[d] # "open"
        /\ Ends(d, "none")
        /\ verdict' = verdict
  /\ UNCHANGED <<halted, waiter, audits, outcomes, executed>>
  /\ UNCHANGED <<wf, at, envelope, approvals, result, told, stage, clients, tools, bounds>>

\* The audit has a transaction of its own.
AuditExpired(d) ==
  /\ thr[d] = "expired"
  /\ audits' = [audits EXCEPT ![d] = @ + 1]
  /\ Ends(d, "expired")
  /\ UNCHANGED <<halted, verdict, waiter, outcomes, executed>>
  /\ UNCHANGED <<wf, at, envelope, approvals, result, told, stage, clients, tools, bounds>>

\* dispatchAndRecord of a rejection: the audit only.
AuditRejected(d) ==
  /\ Standing(d, "dispatch") /\ envelope[d] = "rejected"
  /\ audits' = [audits EXCEPT ![d] = @ + 1]
  /\ Ends(d, "rejected")
  /\ UNCHANGED <<halted, verdict, waiter, outcomes, executed>>
  /\ UNCHANGED <<wf, at, envelope, approvals, result, told, stage, clients, tools, bounds>>

\* Mutant: the guard lets every call pass.
PassGuardAlways(d) ==
  /\ Standing(d, "dispatch") /\ envelope[d] = "approved"
  /\ thr' = [thr EXCEPT ![d] = "guarded"]
  /\ UNCHANGED <<rows, wf, at, envelope, approvals, result, told, out>>
  /\ UNCHANGED <<stage, clients, tools, bounds>>

\* dispatchAndRecord of an approval: the guard looks for a recorded outcome, but only of
\* a call that is not safe to repeat, and only if the registry knows the tool.
PassGuard(d) ==
  /\ Standing(d, "dispatch") /\ envelope[d] = "approved"
  /\ \/ /\ d \in Repeatable \/ ~AlreadyDispatched(d)
        /\ UNCHANGED slipped
     \/ /\ d \notin Repeatable /\ AlreadyDispatched(d) /\ d \notin registry
        /\ slipped' = slipped \cup {d}
  /\ thr' = [thr EXCEPT ![d] = "guarded"]
  /\ UNCHANGED <<rows, wf, at, envelope, approvals, result, told, out>>
  /\ UNCHANGED <<stage, clients, registry, bounds>>

\* Mutant: the re-run that finds the call dispatched tells nobody.
SkipExecuteSilently(d) ==
  /\ Standing(d, "dispatch") /\ envelope[d] = "approved"
  /\ d \in registry \ Repeatable /\ AlreadyDispatched(d)
  /\ Ends(d, "none")
  /\ UNCHANGED <<rows, wf, at, envelope, approvals, result, told, stage, clients, tools, bounds>>

\* The guard stops a second run; how the first went is not looked up.
SkipExecute(d) ==
  /\ Standing(d, "dispatch") /\ envelope[d] = "approved"
  /\ d \in registry \ Repeatable /\ AlreadyDispatched(d)
  /\ Ends(d, "clean")
  /\ UNCHANGED <<rows, wf, at, envelope, approvals, result, told, stage, clients, tools, bounds>>

\* The tool is called, if a second look into the registry finds it ...
Execute(d) ==
  /\ thr[d] = "guarded" /\ d \in registry
  /\ executed' = [executed EXCEPT ![d] = @ + 1]
  /\ thr' = [thr EXCEPT ![d] = "executed"]
  /\ \E o \in Outcome : out' = [out EXCEPT ![d] = o]
  /\ UNCHANGED <<halted, verdict, waiter, audits, outcomes>>
  /\ UNCHANGED <<wf, at, envelope, approvals, result, told, stage, clients, tools, bounds>>

\* ... or else the call fails: ErrUnknownTool.
ExecuteUnknown(d) ==
  /\ thr[d] = "guarded" /\ d \notin registry
  /\ thr' = [thr EXCEPT ![d] = "executed"]
  /\ out' = [out EXCEPT ![d] = "bad"]
  /\ UNCHANGED <<rows, wf, at, envelope, approvals, result, told, stage, clients, tools, bounds>>

\* The outcome and its audits commit; a failure without a waiter is the step's error.
RecordOutcome(d) ==
  /\ thr[d] = "executed"
  /\ outcomes' = [outcomes EXCEPT ![d] = Append(@, out[d])]
  /\ thr' = [thr EXCEPT ![d] = IF out[d] = "bad" /\ d \notin waiter THEN "failing" ELSE "ran"]
  /\ UNCHANGED <<halted, verdict, waiter, audits, executed, out>>
  /\ UNCHANGED <<wf, at, envelope, approvals, result, told, stage, clients, tools, bounds>>

\* A failed step may be retried by the runtime ...
Retry(d) ==
  /\ thr[d] = "failing" /\ retries < MaxRetries
  /\ retries' = retries + 1
  /\ thr' = [thr EXCEPT ![d] = "idle"]
  /\ UNCHANGED <<rows, wf, at, envelope, approvals, result, told, out>>
  /\ UNCHANGED <<stage, clients, tools, crashes>>

\* ... or ends the workflow.
GiveUp(d) ==
  /\ thr[d] = "failing"
  /\ wf' = [wf EXCEPT ![d] = "failed"]
  /\ thr' = [thr EXCEPT ![d] = "off"]
  /\ UNCHANGED <<rows, at, envelope, approvals, result, told, out, stage, clients, tools, bounds>>

\* A statement of a step's body fails for good.
Poison(d) ==
  /\ thr[d] \in {"expired", "guarded", "executed"}
       \/ Standing(d, "expire") \/ Standing(d, "dispatch")
  /\ wf' = [wf EXCEPT ![d] = "failed"]
  /\ thr' = [thr EXCEPT ![d] = "off"]
  /\ UNCHANGED <<rows, at, envelope, approvals, result, told, out, stage, clients, tools, bounds>>

Checkpoint(d) ==
  /\ thr[d] = "ran"
  /\ result' = [result EXCEPT ![d] = out[d]]
  /\ at' = [at EXCEPT ![d] = "notify"]
  /\ thr' = [thr EXCEPT ![d] = "idle"]
  /\ UNCHANGED <<rows, wf, envelope, approvals, told, out, stage, clients, tools, bounds>>

\* notifyWaiter, and the end of the workflow.
Notify(d) ==
  /\ Standing(d, "notify")
  /\ told' = [told EXCEPT ![d] = IF d \in waiter THEN result[d] ELSE @]
  /\ wf' = [wf EXCEPT ![d] = "done"]
  /\ thr' = [thr EXCEPT ![d] = "off"]
  /\ UNCHANGED <<rows, at, envelope, approvals, result, out, stage, clients, tools, bounds>>
-----------------------------------------------------------------------------
(* The agent's stage workflow.  Its gate never approves (the only wiring   *)
(* there is), so every call it composes needs a decision.                  *)

Running == body.pc = "idle"

\* A segment ends with a call to decide upon ...
AgentAsks ==
  /\ agent = "segment" /\ Running
  /\ agent' = "register"
  /\ UNCHANGED <<rows, flow, asked, body, clients, tools, bounds>>

\* ... or with the stage's result, or with an error.
AgentEnds ==
  /\ agent \in {"segment", "register"} /\ Running
  /\ agent' = "done"
  /\ body' = [pc |-> "off"]
  /\ UNCHANGED <<rows, flow, asked, clients, tools, bounds>>

\* registerApproval mints the id inside the step.
RegisterApproval ==
  /\ agent = "register" /\ Running
  /\ \E d \in Decision :
       /\ verdict[d] = "absent"
       /\ verdict' = [verdict EXCEPT ![d] = "open"]
       /\ waiter' = waiter \cup {d}
       /\ body' = [pc |-> "ran", decision |-> d]
  /\ UNCHANGED <<halted, audits, outcomes, executed, flow, agent, asked, clients, tools, bounds>>

CheckpointApproval ==
  /\ body.pc = "ran"
  /\ asked' = Append(asked, body.decision)
  /\ agent' = "start"
  /\ body' = [pc |-> "idle"]
  /\ UNCHANGED <<rows, flow, clients, tools, bounds>>

AgentStarts ==
  /\ agent = "start" /\ Running
  /\ StartWorkflow(asked[Len(asked)])
  /\ agent' = "await"
  /\ UNCHANGED <<rows, at, envelope, approvals, result, told, out, asked, body>>
  /\ UNCHANGED <<clients, tools, bounds>>

\* The outcome is injected and the next segment begins.
AgentHears ==
  /\ agent = "await" /\ Running
  /\ told[asked[Len(asked)]] # "none"
  /\ agent' = "segment"
  /\ UNCHANGED <<rows, flow, asked, body, clients, tools, bounds>>

AgentRecovers ==
  /\ body.pc = "off" /\ agent # "done"
  /\ body' = [pc |-> "idle"]
  /\ UNCHANGED <<rows, flow, agent, asked, clients, tools, bounds>>
-----------------------------------------------------------------------------
(* The registry of remote tools, and crashes.  Tools that are built in are  *)
(* registered before workflows are recovered and stay.                     *)

\* RehydrateAdapters, after the workflows have been recovered, or a sync.
Register(d) ==
  /\ d \in Remote \ registry
  /\ registry' = registry \cup {d}
  /\ UNCHANGED <<rows, flow, stage, clients, slipped, bounds>>

\* A sync no longer finds the tool, or its server is disabled or removed.
Deregister(d) ==
  /\ d \in Remote \cap registry
  /\ registry' = registry \ {d}
  /\ UNCHANGED <<rows, flow, stage, clients, slipped, bounds>>

\* The process dies: goroutines, requests and the registry are lost.
Crash ==
  /\ crashes < MaxCrashes
  /\ crashes' = crashes + 1
  /\ thr' = [d \in Decision |-> "off"]
  /\ out' = [d \in Decision |-> "none"]
  /\ body' = [pc |-> "off"]
  /\ call' = [c \in Client |-> Idle]
  /\ registry' = Decision \ Remote
  /\ UNCHANGED <<rows, wf, at, envelope, approvals, result, told, agent, asked, calls>>
  /\ UNCHANGED <<slipped, retries>>

\* What the runtime does by itself for a workflow it can go on with.
Drive(d) ==
  \/ Recover(d) \/ Receive(d) \/ DeadlinePasses(d)
  \/ ResolveExpired(d) \/ AuditExpired(d) \/ AuditRejected(d)
  \/ PassGuard(d) \/ SkipExecute(d) \/ Execute(d) \/ ExecuteUnknown(d)
  \/ RecordOutcome(d) \/ Retry(d) \/ GiveUp(d)
  \/ Checkpoint(d) \/ Notify(d)

DriveAgent == CheckpointApproval \/ AgentStarts \/ AgentHears \/ AgentRecovers

ClientStep(c) ==
  \/ Compose(c) \/ Insert(c) \/ Start(c) \/ SendApproval(c) \/ Abandon(c)
  \/ \E d \in Decision : Answer(c, d)

Next ==
  \/ \E c \in Client : ClientStep(c)
  \/ \E d \in Decision : Drive(d) \/ Poison(d)
  \/ AgentAsks \/ AgentEnds \/ RegisterApproval \/ DriveAgent
  \/ \E d \in Remote : Register(d) \/ Deregister(d)
  \/ Halt \/ Crash

Spec == Init /\ [][Next]_vars

FairSpec ==
  /\ Spec
  /\ \A d \in Decision : WF_vars(Drive(d))
  /\ WF_vars(DriveAgent)
-----------------------------------------------------------------------------
(* Properties. *)

\* The flow keeps what Decisions promises, over every race and crash: the first
\* resolution stands, only an approved call reaches the tool, and a call that is not
\* safe to repeat is not made again once its outcome is recorded, unless its tool was
\* missing from the registry when the guard looked.
Promise == INSTANCE Decisions
             WITH acts <- executed, settled <- [d \in Decision |-> outcomes[d] # <<>>],
                  missed <- slipped

DecisionsSpec == Promise!Spec

\* However often the dispatch step runs, a call that is not safe to repeat has one
\* recorded outcome, and reaches the tool twice only if a crash fell between the two
\* (the window decisions.sql calls irreducible).  That is so while the registry knows
\* the tool; whether or not it does, every further call and every further outcome takes
\* a crash or a retry.
OneOutcome ==
  \A d \in Decision :
    /\ d \notin Repeatable \cup slipped =>
         Len(outcomes[d]) <= 1 /\ executed[d] <= 1 + crashes
    /\ Len(outcomes[d]) <= 1 + crashes + retries /\ executed[d] <= 1 + crashes + retries

\* What an agent is told is what happened: the decision was resolved that way, the tool
\* was called or was not, and a failure or success is one that has been recorded.
\* Success may be claimed for a recorded failure only after a crash.
ToldTheTruth ==
  \A d \in Decision :
    /\ told[d] \in Outcome => verdict[d] = "approved" /\ AlreadyDispatched(d)
    /\ told[d] \in {"rejected", "expired"} => verdict[d] = told[d] /\ executed[d] = 0
    /\ told[d] = "bad" \/ (told[d] = "clean" /\ crashes = 0)
         => outcomes[d][Len(outcomes[d])] = told[d]

\* A workflow that ends well has left a trace of how: an outcome or an audit.  It ends
\* in silence only when its deadline met a decision the owner had already taken, or a
\* crash cut its own expiry in two; and then the tool has not been called.
EndIsAccounted ==
  \A d \in Decision : wf[d] = "done" =>
    IF result[d] = "none"
    THEN /\ executed[d] = 0
         /\ verdict[d] \in {"approved", "rejected"} \/ crashes > 0
    ELSE AlreadyDispatched(d) \/ audits[d] > 0

\* The invariant that carries the four above.  Whatever carries an
\* answer carries the one in the row, and only an approved call has reached the tool.
CallAgrees(c) ==
  call[c].pc \in {"start", "send"} =>
    LET v == verdict[call[c].decision]
    IN  /\ v # "absent"
        /\ call[c].approved => v = "approved"
        /\ call[c].pc = "send" /\ ~call[c].approved => v = "rejected"

FlowAgrees(d) ==
  /\ \A i \in DOMAIN approvals[d] : verdict[d] = approvals[d][i]
  /\ envelope[d] \in {"none", verdict[d]}
  /\ wf[d] # "none" => verdict[d] # "absent"
  /\ executed[d] > 0 \/ AlreadyDispatched(d) => verdict[d] = "approved"

Agreement ==
  /\ \A c \in Client : CallAgrees(c)
  /\ \A d \in Decision : FlowAgrees(d)
  /\ \A i \in DOMAIN asked : verdict[asked[i]] # "absent"
  /\ agent \in {"start", "await"} => asked # <<>>
  /\ body.pc = "ran" => verdict[body.decision] # "absent"

\* A step finds the table as the steps before it have left it.
ShapeOf(d) ==
  /\ thr[d] # "off" => wf[d] = "pending"
  /\ thr[d] = "expired" => at[d] = "expire" /\ verdict[d] = "expired"
  /\ thr[d] \in {"guarded", "executed", "failing"} =>
       at[d] = "dispatch" /\ envelope[d] = "approved"
  /\ thr[d] = "ran" => at[d] \in {"expire", "dispatch"}
  /\ at[d] = "wait" => verdict[d] # "expired"
  /\ at[d] = "dispatch" => envelope[d] # "none"
  /\ at[d] \in {"wait", "expire"} => executed[d] = 0 /\ ~AlreadyDispatched(d)
  /\ wf[d] = "none" => at[d] = "wait"
  /\ wf[d] = "done" => at[d] = "notify"
  /\ at[d] = "expire" /\ thr[d] \in {"off", "idle"} /\ wf[d] = "pending"
       => verdict[d] # "expired" \/ crashes > 0
  /\ told[d] # "none" => wf[d] = "done" /\ told[d] = result[d] /\ d \in waiter

StepShape == \A d \in Decision : ShapeOf(d)

\* What a step reports of d, k, is so.
Sound(d, k) ==
  /\ k \in Outcome => AlreadyDispatched(d)
  /\ k = "bad" \/ (k = "clean" /\ crashes = 0 /\ d \in waiter)
       => outcomes[d][Len(outcomes[d])] = k
  /\ k \in {"rejected", "expired"} => verdict[d] = k /\ audits[d] > 0
  /\ k = "none" => executed[d] = 0 /\ (verdict[d] \in {"approved", "rejected"} \/ crashes > 0)

\* The tool's calls and recorded outcomes, step by step.
LedgerOf(d) ==
  /\ AlreadyDispatched(d) => executed[d] > 0 \/ d \in Remote
  /\ d \in slipped => AlreadyDispatched(d)
  /\ thr[d] \in {"guarded", "executed"} /\ AlreadyDispatched(d) => d \in Repeatable \cup slipped
  /\ thr[d] = "guarded" /\ d \notin Repeatable \cup slipped => executed[d] <= crashes
  /\ thr[d] = "executed" => out[d] \in Outcome /\ (executed[d] > 0 \/ d \in Remote)
  /\ thr[d] = "failing" => d \notin waiter /\ AlreadyDispatched(d)
  /\ thr[d] \in {"guarded", "executed"} /\ AlreadyDispatched(d) => crashes > 0 \/ d \notin waiter
  /\ thr[d] = "ran" => Sound(d, out[d])
  /\ at[d] = "notify" => Sound(d, result[d])
  /\ at[d] = "dispatch" /\ thr[d] \in {"off", "idle"} /\ wf[d] = "pending" =>
       IF AlreadyDispatched(d) THEN crashes > 0 \/ d \notin waiter
       ELSE d \notin Repeatable => executed[d] <= crashes

Ledger == \A d \in Decision : LedgerOf(d)

\* What a run of the dispatch step may still add is covered by a crash or a retry.
BudgetOf(d) ==
  LET spent == crashes + retries
  IN  /\ at[d] = "dispatch" /\ thr[d] \in {"off", "idle", "guarded"} /\ wf[d] = "pending" =>
           executed[d] <= spent /\ Len(outcomes[d]) <= spent
      /\ thr[d] = "executed" => Len(outcomes[d]) <= spent

Budget == \A d \in Decision : BudgetOf(d)

Inv == TypeOK /\ Agreement /\ StepShape /\ Ledger /\ Budget /\ OneOutcome

\* A tool call that was started ends, answered or not, across crashes.
CallEnds == \A d \in Decision : wf[d] = "pending" ~> wf[d] # "pending"

\* An agent that awaits an outcome goes on, unless the call's workflow failed or ended
\* in the silence EndIsAccounted describes.
AgentGoesOn ==
  \A d \in Decision :
    Awaiting(d) ~> ~Awaiting(d) \/ wf[d] = "failed" \/ (wf[d] = "done" /\ result[d] = "none")

\* Nobody is left behind: neither the call that was started nor the agent that asked.
NobodyIsLeftWaiting == CallEnds /\ AgentGoesOn
=============================================================================
