------------------------------- MODULE Chain -------------------------------
(***************************************************************************)
(* The task chain: one durable (DBOS) workflow per task walks it through   *)
(* its stages while owners, the intake poller and timers call in.          *)
(*                                                                         *)
(*   internal/chain/{workflow,wait,readiness,stages}.go   the workflow     *)
(*   internal/core/task.go, graph/schema.resolvers.go     the callers      *)
(*                                                                         *)
(* A DBOS step is two actions: its body, whose transaction commits, and    *)
(* Record, which checkpoints it and moves the durable position at[t].  A   *)
(* crash between the two runs the body again.  A caller is a sequence of   *)
(* separately committed statements, call[c].pc naming the next one, and    *)
(* may be abandoned before any of them.                                    *)
(***************************************************************************)
EXTENDS Lifecycle, Sequences, FiniteSets

CONSTANTS Task,        \* the tasks
          Intake,      \* those a connector's signal creates
          Blocks,      \* <<b, t>> : task b blocks task t
          Scheduled,   \* tasks with a start date
          AgentServed, \* stages the router may give to an agent
          Client,      \* concurrent callers
          MaxCalls,    \* bound: calls ever made
          MaxCrashes   \* bound: process crashes

ASSUME TaskAssumption ==
  /\ Intake \subseteq Task
  /\ Scheduled \subseteq Task
  /\ Blocks \subseteq Task \X Task
  /\ AgentServed \subseteq Served

ASSUME ClientAssumption == IsFiniteSet(Client)

ASSUME BoundAssumption == MaxCalls \in Nat /\ MaxCrashes \in Nat

MaxStageTimeouts == 2

Topic == Served \cup {"blocked"}
Message == {"result", "cancel", "wake"}
Slot == [stage : Served, open : BOOLEAN, audits : Nat]

\* Where the workflow stands: the step or the wait DBOS runs next.
Position == {"advance", "gate", "parked", "route", "agent", "open", "wait", "timeout",
             "resolve", "complete", "list", "wake", "end"}
\* The goroutine: not running, (re)started, between steps, in a receive, inside a body.
Thread == {"off", "start", "ready", "blocked", "read", "ran"}
Pc == {"idle", "attach", "launch", "find", "send", "close", "findRow", "cleanup",
       "cancelWorkflow", "signalStage", "signalBlocked", "wakeDependents"}

VARIABLES
  state, stage,   \* tasks.state (or "absent") and tasks.current_stage
  slots,          \* agent_assignments of the task, oldest first
  row,            \* chain_workflows: no row, live, or ended with a status
  cancels,        \* workflow_cancelled audit rows written
  future,         \* tasks whose start date has not arrived
  wf,             \* status of the DBOS workflow
  at, leg, tries, \* its durable position, the stage being served, expired waits
  todo,           \* dependents still to wake
  mail,           \* undelivered dbos.Send messages, by topic
  thr, out,       \* volatile: the goroutine, what its running body found or chose
  call,           \* volatile: what each client is doing
  calls, crashes  \* how much of the bounds is used

board == <<state, stage, slots, row, cancels, future>>
durable == <<wf, at, leg, tries, todo, mail>>
memory == <<thr, out, call>>
vars == <<board, durable, memory, calls, crashes>>

Idle == [pc |-> "idle"]
Busy == [pc : Pc \ {"idle"}, task : Task, slot : Nat, stage : Stage, live : BOOLEAN]

TypeOK ==
  /\ state \in [Task -> State \cup {"absent"}]
  /\ stage \in [Task -> Stage]
  /\ slots \in [Task -> Seq(Slot)]
  /\ row \in [Task -> {"none", "live", "success", "cancelled"}]
  /\ cancels \in [Task -> Nat]
  /\ future \subseteq Scheduled
  /\ wf \in [Task -> {"none", "pending", "success", "cancelled", "error"}]
  /\ at \in [Task -> Position]
  /\ leg \in [Task -> Served \cup {"completion"}]
  /\ tries \in [Task -> 0 .. MaxStageTimeouts]
  /\ todo \in [Task -> SUBSET Task]
  /\ mail \in [Task -> [Topic -> Seq(Message)]]
  /\ thr \in [Task -> Thread]
  /\ out \in [Task -> Position \cup State \cup {"none"}]
  /\ call \in [Client -> Busy \cup {Idle}]
  /\ calls \in 0 .. MaxCalls
  /\ crashes \in 0 .. MaxCrashes

Init ==
  /\ state = [t \in Task |-> "absent"]
  /\ stage = [t \in Task |-> "creation"]
  /\ slots = [t \in Task |-> <<>>]
  /\ row = [t \in Task |-> "none"]
  /\ cancels = [t \in Task |-> 0]
  /\ future = Scheduled
  /\ wf = [t \in Task |-> "none"]
  /\ at = [t \in Task |-> "advance"]
  /\ leg = [t \in Task |-> "triage"]
  /\ tries = [t \in Task |-> 0]
  /\ todo = [t \in Task |-> {}]
  /\ mail = [t \in Task |-> [p \in Topic |-> <<>>]]
  /\ thr = [t \in Task |-> "off"]
  /\ out = [t \in Task |-> "none"]
  /\ call = [c \in Client |-> Idle]
  /\ calls = 0
  /\ crashes = 0
-----------------------------------------------------------------------------
(* Queries over the tables. *)

Unmet(t) == {b \in Task : <<b, t>> \in Blocks /\ ~IsTerminal(state[b])}

\* Mutant: blockers are not looked at.
ReadyByDate(t) == t \notin future

\* The readiness predicate.
Ready(t) == Unmet(t) = {} /\ t \notin future

Dependents(t) == {d \in Task : <<t, d>> \in Blocks /\ state[d] \in {"accepted", "waiting"}}

OpenSlots(t) == {i \in DOMAIN slots[t] : slots[t][i].open}

SlotsOf(t, s) == {i \in DOMAIN slots[t] : slots[t][i].stage = s}

\* Mutant: the lookup skips an assignment completeTask has closed already.
LatestOpenSlot(t, s) ==
  {i \in SlotsOf(t, s) : slots[t][i].open /\ \A j \in SlotsOf(t, s) : j <= i}

\* The latest assignment of a stage, open or closed; empty when there is none.
LatestSlot(t, s) == {i \in SlotsOf(t, s) : \A j \in SlotsOf(t, s) : j <= i}

HasOpenSlotFor(t, s) == \E i \in OpenSlots(t) : slots[t][i].stage = s

\* Mutant: the row is closed again although it has ended.
EndChainWorkflowAgain(t, status) == row' = [row EXCEPT ![t] = status]

EndChainWorkflow(t, status) == row' = [row EXCEPT ![t] = IF @ = "live" THEN status ELSE @]

Deliver(t, topic, m) == mail' = [mail EXCEPT ![t][topic] = Append(@, m)]

\* dbos.Send wakes, to those of the set D that have a workflow.
Wake(D) == mail' = [d \in Task |-> IF d \in D
                                   THEN [mail[d] EXCEPT !["blocked"] = Append(@, "wake")]
                                   ELSE mail[d]]
-----------------------------------------------------------------------------
(* The workflow: how DBOS runs it. *)

\* DBOS checks for cancellation before every step and every receive.
AtStep(t, p) == thr[t] = "ready" /\ at[t] = p /\ wf[t] # "cancelled"

\* The body of a step has committed; `next` is where its result leads.
Commit(t, next) ==
  /\ thr' = [thr EXCEPT ![t] = "ran"]
  /\ out' = [out EXCEPT ![t] = next]
  /\ UNCHANGED <<wf, at, leg, tries, mail, call, calls, crashes>>

\* The workflow function returns; a cancelled workflow keeps that status.
Return(t, status) ==
  /\ wf' = [wf EXCEPT ![t] = IF @ = "pending" THEN status ELSE @]
  /\ thr' = [thr EXCEPT ![t] = "off"]

Start(t) ==
  /\ thr[t] = "start"
  /\ \/ IsTerminal(state[t]) /\ Return(t, "success")
     \/ ~IsTerminal(state[t]) /\ thr' = [thr EXCEPT ![t] = "ready"] /\ UNCHANGED wf
  /\ UNCHANGED <<board, at, leg, tries, todo, mail, out, call, calls, crashes>>

\* What the checkpoint of a finished body changes besides the position.
Record(t) ==
  /\ thr[t] = "ran"
  /\ at' = [at EXCEPT ![t] = out[t]]
  /\ leg' = [leg EXCEPT ![t] = IF at[t] = "resolve" THEN NextStage(@) ELSE @]
  /\ tries' = [tries EXCEPT ![t] = CASE at[t] = "open" -> 0
                                     [] at[t] = "timeout" -> @ + 1
                                     [] OTHER -> @]
  /\ thr' = [thr EXCEPT ![t] = "ready"]
  /\ out' = [out EXCEPT ![t] = "none"]
  /\ UNCHANGED <<board, wf, todo, mail, call, calls, crashes>>

Stop(t) ==
  /\ thr[t] = "ready" /\ wf[t] = "cancelled"
  /\ thr' = [thr EXCEPT ![t] = "off"]
  /\ UNCHANGED <<board, durable, out, call, calls, crashes>>

\* A step fails for good (a database error, a failed agent run): the error is
\* recorded, the function returns it and DBOS never runs the workflow again.
Poison(t) ==
  /\ thr[t] \in {"start", "ready"} \/ (thr[t] = "blocked" /\ at[t] = "agent")
  /\ wf[t] = "pending"
  /\ Return(t, "error")
  /\ UNCHANGED <<board, at, leg, tries, todo, mail, out, call, calls, crashes>>

\* Mutant: a workflow parked in a human wait is orphaned by the restart.
RecoverUnlessWaiting(t) ==
  /\ thr[t] = "off" /\ wf[t] = "pending" /\ at[t] # "wait"
  /\ thr' = [thr EXCEPT ![t] = "start"]
  /\ UNCHANGED <<board, durable, out, call, calls, crashes>>

\* Mutant: the restarted workflow forgets its checkpoints.
RecoverFromScratch(t) ==
  /\ thr[t] = "off" /\ wf[t] = "pending"
  /\ thr' = [thr EXCEPT ![t] = "start"]
  /\ at' = [at EXCEPT ![t] = "advance"]
  /\ UNCHANGED <<board, wf, leg, tries, todo, mail, out, call, calls, crashes>>

\* Launch after a restart re-runs every workflow still pending.
Recover(t) ==
  /\ thr[t] = "off" /\ wf[t] = "pending"
  /\ thr' = [thr EXCEPT ![t] = "start"]
  /\ UNCHANGED <<board, durable, out, call, calls, crashes>>

EnterReceive(t) ==
  /\ \E p \in {"wait", "parked", "agent"} : AtStep(t, p)
  /\ thr' = [thr EXCEPT ![t] = "blocked"]
  /\ UNCHANGED <<board, durable, out, call, calls, crashes>>
-----------------------------------------------------------------------------
(* The workflow: its steps, in the order ChainWorkflow takes them. *)

RunAdvanceStage(t) ==
  /\ AtStep(t, "advance")
  /\ stage' = [stage EXCEPT ![t] = "triage"]
  /\ Commit(t, "route")
  /\ UNCHANGED <<state, slots, row, cancels, future, todo>>

\* The router picks a human, or an agent that runs as a child workflow.
RunRouteAndOccupy(t) ==
  /\ AtStep(t, "route")
  /\ \E next \in {"open"} \cup (IF leg[t] \in AgentServed THEN {"agent"} ELSE {}) :
       Commit(t, next)
  /\ UNCHANGED <<board, todo>>

\* The child workflow ends with a result, or fails closed to a human.
AgentReturns(t) ==
  /\ thr[t] = "blocked" /\ at[t] = "agent"
  /\ \E next \in {"resolve", "open"} : at' = [at EXCEPT ![t] = next]
  /\ thr' = [thr EXCEPT ![t] = "ready"]
  /\ UNCHANGED <<board, wf, leg, tries, todo, mail, out, call, calls, crashes>>

RunOpenAssignment(t) ==
  /\ AtStep(t, "open")
  /\ \/ HasOpenSlotFor(t, leg[t]) /\ UNCHANGED slots
     \/ /\ ~HasOpenSlotFor(t, leg[t])
        /\ slots' = [slots EXCEPT ![t] =
             Append(@, [stage |-> leg[t], open |-> TRUE, audits |-> 0])]
  /\ Commit(t, "wait")
  /\ UNCHANGED <<state, stage, row, cancels, future, todo>>

\* The human wait takes the oldest message of its stage; a sentinel ends the
\* workflow, anything else is the stage's result.
ReceiveResult(t) ==
  /\ thr[t] = "blocked" /\ at[t] = "wait"
  /\ mail[t][leg[t]] # <<>>
  /\ mail' = [mail EXCEPT ![t][leg[t]] = Tail(@)]
  /\ \/ /\ Head(mail[t][leg[t]]) = "cancel"
        /\ Return(t, "success")
        /\ UNCHANGED at
     \/ /\ Head(mail[t][leg[t]]) # "cancel"
        /\ at' = [at EXCEPT ![t] = "resolve"]
        /\ thr' = [thr EXCEPT ![t] = "ready"]
        /\ UNCHANGED wf
  /\ UNCHANGED <<board, leg, tries, todo, out, call, calls, crashes>>

\* Mutant: the wait never has a deadline.
NeverExpires(t) == FALSE

\* After MaxStageTimeouts the wait has no deadline any more.
MayExpire(t) == tries[t] < MaxStageTimeouts

Expire(t) ==
  /\ thr[t] = "blocked" /\ at[t] = "wait"
  /\ mail[t][leg[t]] = <<>> /\ MayExpire(t)
  /\ at' = [at EXCEPT ![t] = "timeout"]
  /\ thr' = [thr EXCEPT ![t] = "ready"]
  /\ UNCHANGED <<board, wf, leg, tries, todo, mail, out, call, calls, crashes>>

\* Only an escalation audit row: the slot stays open and the wait is re-armed.
RunStageTimeout(t) ==
  /\ AtStep(t, "timeout")
  /\ Commit(t, "wait")
  /\ UNCHANGED <<board, todo>>

AfterLeg(s) == CASE s = "execution" -> "complete"
                 [] NextStage(s) = "execution" -> "gate"
                 [] OTHER -> "route"

\* The assignments with the served stage's latest one closed and audited.
Resolved(t) ==
  [i \in DOMAIN slots[t] |->
     IF i \in LatestSlot(t, leg[t])
     THEN [slots[t][i] EXCEPT !.open = FALSE, !.audits = @ + 1]
     ELSE slots[t][i]]

\* Close the stage's latest slot if there is one, audit it, advance the stage.
RunResolveAndAdvance(t) ==
  /\ AtStep(t, "resolve")
  /\ slots' = [slots EXCEPT ![t] = Resolved(t)]
  /\ stage' = [stage EXCEPT ![t] = NextStage(leg[t])]
  /\ Commit(t, AfterLeg(leg[t]))
  /\ UNCHANGED <<state, row, cancels, future, todo>>

\* The readiness gate: one evaluation, under the lock of the task's row.
RunReadiness(t) ==
  /\ AtStep(t, "gate")
  /\ \/ /\ IsTerminal(state[t])
        /\ Commit(t, "end")
        /\ UNCHANGED state
     \/ /\ ~IsTerminal(state[t]) /\ Ready(t)
        /\ state' = [state EXCEPT ![t] = IF @ \in {"accepted", "waiting"} THEN "executing" ELSE @]
        /\ Commit(t, "route")
     \/ /\ ~IsTerminal(state[t]) /\ ~Ready(t)
        /\ state' = [state EXCEPT ![t] = IF @ = "accepted" THEN "waiting" ELSE @]
        /\ Commit(t, "parked")
  /\ UNCHANGED <<stage, slots, row, cancels, future, todo>>

ReceiveWake(t) ==
  /\ thr[t] = "blocked" /\ at[t] = "parked"
  /\ mail[t]["blocked"] # <<>>
  /\ mail' = [mail EXCEPT ![t]["blocked"] = Tail(@)]
  /\ \/ /\ Head(mail[t]["blocked"]) = "cancel"
        /\ Return(t, "success")
        /\ UNCHANGED at
     \/ /\ Head(mail[t]["blocked"]) # "cancel"
        /\ at' = [at EXCEPT ![t] = "gate"]
        /\ thr' = [thr EXCEPT ![t] = "ready"]
        /\ UNCHANGED wf
  /\ UNCHANGED <<board, leg, tries, todo, out, call, calls, crashes>>

\* The parked wait expires: the gate's heartbeat.
Heartbeat(t) ==
  /\ thr[t] = "blocked" /\ at[t] = "parked"
  /\ mail[t]["blocked"] = <<>>
  /\ at' = [at EXCEPT ![t] = "gate"]
  /\ thr' = [thr EXCEPT ![t] = "ready"]
  /\ UNCHANGED <<board, wf, leg, tries, todo, mail, out, call, calls, crashes>>

\* Completion reads the task without locking it ...
ReadForCompletion(t) ==
  /\ AtStep(t, "complete")
  /\ thr' = [thr EXCEPT ![t] = "read"]
  /\ out' = [out EXCEPT ![t] = state[t]]
  /\ UNCHANGED <<board, durable, call, calls, crashes>>

\* ... and writes what that read decided.
RunCompletion(t) ==
  /\ thr[t] = "read"
  /\ state' = [state EXCEPT ![t] = IF out[t] = "executing" THEN "done" ELSE @]
  /\ EndChainWorkflow(t, "success")
  /\ Commit(t, "list")
  /\ UNCHANGED <<stage, slots, cancels, future, todo>>

RunListDependents(t) ==
  /\ AtStep(t, "list")
  /\ todo' = [todo EXCEPT ![t] = Dependents(t)]
  /\ Commit(t, "wake")
  /\ UNCHANGED board

\* One checkpointed Send per dependent; without a workflow to send to it fails.
WakeDependent(t) ==
  /\ AtStep(t, "wake")
  /\ \E d \in todo[t] :
       \/ wf[d] = "none" /\ Return(t, "error") /\ UNCHANGED <<todo, mail>>
       \/ /\ wf[d] # "none" /\ Wake({d})
          /\ todo' = [todo EXCEPT ![t] = @ \ {d}]
          /\ UNCHANGED <<wf, thr>>
  /\ UNCHANGED <<board, at, leg, tries, out, call, calls, crashes>>

\* The feedback workflow is started as a child, under a fixed id.
EnqueueFeedback(t) ==
  /\ AtStep(t, "wake") /\ todo[t] = {}
  /\ at' = [at EXCEPT ![t] = "end"]
  /\ UNCHANGED <<board, wf, leg, tries, todo, mail, thr, out, call, calls, crashes>>

Finish(t) ==
  /\ thr[t] = "ready" /\ at[t] = "end"
  /\ Return(t, "success")
  /\ UNCHANGED <<board, at, leg, tries, todo, mail, out, call, calls, crashes>>
-----------------------------------------------------------------------------
(* The callers. *)

Place(t, s) ==
  /\ state[t] = "absent"
  /\ \A b \in Task : <<b, t>> \in Blocks => state[b] # "absent"
  /\ state' = [state EXCEPT ![t] = s]

\* Every call counts against the bound.
Count == calls < MaxCalls /\ calls' = calls + 1

\* Begin a call that will go on at `next`.
Begin(c, t, next) ==
  /\ Count /\ call[c] = Idle
  /\ call' = [call EXCEPT ![c] = [pc |-> next, task |-> t, slot |-> 0,
                                  stage |-> "creation", live |-> FALSE]]

At(c, p) == call[c].pc = p

Goto(c, next) == call' = [call EXCEPT ![c].pc = next]

Done(c) == call' = [call EXCEPT ![c] = Idle]

Create(c, t) ==
  /\ t \notin Intake
  /\ Place(t, "accepted")
  /\ Begin(c, t, "attach")
  /\ UNCHANGED <<stage, slots, row, cancels, future, durable, thr, out, crashes>>

Ingest(c, t) ==
  /\ t \in Intake
  /\ \/ Place(t, "accepted") /\ Begin(c, t, "attach")
     \/ Place(t, "proposed") /\ Count /\ call[c] = Idle /\ UNCHANGED call
  /\ UNCHANGED <<stage, slots, row, cancels, future, durable, thr, out, crashes>>

Accept(c, t) ==
  /\ state[t] = "proposed"
  /\ state' = [state EXCEPT ![t] = "accepted"]
  /\ Begin(c, t, "attach")
  /\ UNCHANGED <<stage, slots, row, cancels, future, durable, thr, out, crashes>>

\* The chain_workflows row first, in a transaction of its own ...
Attach(c) ==
  /\ At(c, "attach")
  /\ row' = [row EXCEPT ![call[c].task] = "live"]
  /\ Goto(c, "launch")
  /\ UNCHANGED <<state, stage, slots, cancels, future, durable, thr, out, calls, crashes>>

\* ... then the workflow, under the id chain:<task>.
RunWorkflow(c) ==
  /\ At(c, "launch")
  /\ wf' = [wf EXCEPT ![call[c].task] = "pending"]
  /\ thr' = [thr EXCEPT ![call[c].task] = "start"]
  /\ Done(c)
  /\ UNCHANGED <<board, at, leg, tries, todo, mail, out, calls, crashes>>

Dismiss(c, t) ==
  /\ state[t] = "proposed" \/ (state[t] = "accepted" /\ t \in Intake)
  /\ state' = [state EXCEPT ![t] = "dismissed"]
  /\ Begin(c, t, "wakeDependents")
  /\ UNCHANGED <<stage, slots, row, cancels, future, durable, thr, out, crashes>>

\* completeTask: check the state, find an open slot, send to its stage, close it.
CompleteTask(c, t) ==
  /\ state[t] \in State \ Terminal
  /\ Begin(c, t, "find")
  /\ UNCHANGED <<board, durable, thr, out, crashes>>

\* Mutant: the assignment is closed before its answer is sent.
FindAndCloseAssignment(c) ==
  /\ At(c, "find")
  /\ \E i \in OpenSlots(call[c].task) :
       /\ call' = [call EXCEPT ![c].slot = i, ![c].pc = "send"]
       /\ slots' = [slots EXCEPT ![call[c].task][i] = [@ EXCEPT !.open = FALSE]]
  /\ UNCHANGED <<state, stage, row, cancels, future, durable, thr, out, calls, crashes>>

FindOpenAssignment(c) ==
  /\ At(c, "find")
  /\ \/ \E i \in OpenSlots(call[c].task) :
          call' = [call EXCEPT ![c].slot = i, ![c].pc = "send"]
     \/ OpenSlots(call[c].task) = {} /\ Done(c)
  /\ UNCHANGED <<board, durable, thr, out, calls, crashes>>

SendResult(c) ==
  /\ At(c, "send")
  /\ Deliver(call[c].task, slots[call[c].task][call[c].slot].stage, "result")
  /\ Goto(c, "close")
  /\ UNCHANGED <<board, wf, at, leg, tries, todo, thr, out, calls, crashes>>

CloseAssignment(c) ==
  /\ At(c, "close")
  /\ slots' = [slots EXCEPT ![call[c].task][call[c].slot] = [@ EXCEPT !.open = FALSE]]
  /\ Done(c)
  /\ UNCHANGED <<state, stage, row, cancels, future, durable, thr, out, calls, crashes>>

\* cancelTask: check the state (and remember the stage), look up the live row,
\* clean up, cancel the workflow, send a sentinel to both topics, wake dependents.
CancelTask(c, t) ==
  /\ state[t] \in State \ Terminal
  /\ Count /\ call[c] = Idle
  /\ call' = [call EXCEPT ![c] = [pc |-> "findRow", task |-> t, slot |-> 0,
                                  stage |-> stage[t], live |-> FALSE]]
  /\ UNCHANGED <<board, durable, thr, out, crashes>>

FindLiveWorkflow(c) ==
  /\ At(c, "findRow")
  /\ call' = [call EXCEPT ![c].live = (row[call[c].task] = "live"), ![c].pc = "cleanup"]
  /\ UNCHANGED <<board, durable, thr, out, calls, crashes>>

Halted(s) == IF IsTerminal(s) THEN s ELSE "halted"

HandleCancelCleanup(c) ==
  LET t == call[c].task IN
  /\ At(c, "cleanup")
  /\ state' = [state EXCEPT ![t] = Halted(@)]
  /\ cancels' = [cancels EXCEPT ![t] = @ + 1]
  /\ EndChainWorkflow(t, "cancelled")
  /\ Goto(c, IF call[c].live THEN "cancelWorkflow" ELSE "wakeDependents")
  /\ UNCHANGED <<stage, slots, future, durable, thr, out, calls, crashes>>

\* Best effort: an error is ignored.
CancelWorkflow(c) ==
  LET t == call[c].task IN
  /\ At(c, "cancelWorkflow")
  /\ \/ wf' = [wf EXCEPT ![t] = IF @ = "pending" THEN "cancelled" ELSE @]
     \/ UNCHANGED wf
  /\ Goto(c, "signalStage")
  /\ UNCHANGED <<board, at, leg, tries, todo, mail, thr, out, calls, crashes>>

\* Best effort too; nobody ever reads the topics of the unserved stages.
SignalStage(c) ==
  LET t == call[c].task IN
  /\ At(c, "signalStage")
  /\ \/ wf[t] # "none" /\ call[c].stage \in Served /\ Deliver(t, call[c].stage, "cancel")
     \/ UNCHANGED mail
  /\ Goto(c, "signalBlocked")
  /\ UNCHANGED <<board, wf, at, leg, tries, todo, thr, out, calls, crashes>>

SignalBlocked(c) ==
  LET t == call[c].task IN
  /\ At(c, "signalBlocked")
  /\ \/ wf[t] # "none" /\ Deliver(t, "blocked", "cancel")
     \/ UNCHANGED mail
  /\ Goto(c, "wakeDependents")
  /\ UNCHANGED <<board, wf, at, leg, tries, todo, thr, out, calls, crashes>>

\* The fan-out stops at the first Send that fails: any subset may be woken.
WakeDependents(c) ==
  /\ At(c, "wakeDependents")
  /\ \E D \in SUBSET {d \in Dependents(call[c].task) : wf[d] # "none"} : Wake(D)
  /\ Done(c)
  /\ UNCHANGED <<board, wf, at, leg, tries, todo, thr, out, calls, crashes>>

\* The request is abandoned, or its next statement fails.
Abandon(c) ==
  /\ call[c] # Idle
  /\ Done(c)
  /\ UNCHANGED <<board, durable, thr, out, calls, crashes>>

\* updateTaskMetadata moves the start date; nobody is woken.
Reschedule(c, t) ==
  /\ call[c] = Idle /\ Count
  /\ t \in Scheduled /\ state[t] # "absent"
  /\ \E f \in {future \cup {t}, future \ {t}} : future' = f
  /\ UNCHANGED <<state, stage, slots, row, cancels, durable, memory, crashes>>

DateArrives(t) ==
  /\ t \in future
  /\ future' = future \ {t}
  /\ UNCHANGED <<state, stage, slots, row, cancels, durable, memory, calls, crashes>>

Crash ==
  /\ crashes < MaxCrashes
  /\ crashes' = crashes + 1
  /\ thr' = [t \in Task |-> "off"]
  /\ out' = [t \in Task |-> "none"]
  /\ call' = [c \in Client |-> Idle]
  /\ UNCHANGED <<board, durable, calls>>
-----------------------------------------------------------------------------
\* Everything the DBOS runtime does for a task by itself.
Drive(t) ==
  \/ Start(t) \/ Record(t) \/ Stop(t) \/ Recover(t) \/ EnterReceive(t)
  \/ RunAdvanceStage(t) \/ RunRouteAndOccupy(t) \/ RunOpenAssignment(t)
  \/ ReceiveResult(t) \/ Expire(t) \/ RunStageTimeout(t) \/ RunResolveAndAdvance(t)
  \/ RunReadiness(t) \/ ReceiveWake(t) \/ Heartbeat(t)
  \/ ReadForCompletion(t) \/ RunCompletion(t)
  \/ RunListDependents(t) \/ WakeDependent(t) \/ EnqueueFeedback(t) \/ Finish(t)

Arrive(c, t) ==
  \/ Create(c, t) \/ Ingest(c, t) \/ Accept(c, t) \/ Dismiss(c, t)
  \/ CompleteTask(c, t) \/ CancelTask(c, t) \/ Reschedule(c, t)

Continue(c) ==
  \/ Attach(c) \/ RunWorkflow(c)
  \/ FindOpenAssignment(c) \/ SendResult(c) \/ CloseAssignment(c)
  \/ FindLiveWorkflow(c) \/ HandleCancelCleanup(c) \/ CancelWorkflow(c)
  \/ SignalStage(c) \/ SignalBlocked(c) \/ WakeDependents(c)

Next ==
  \/ \E t \in Task : Drive(t) \/ Poison(t) \/ AgentReturns(t) \/ DateArrives(t)
  \/ \E c \in Client, t \in Task : Arrive(c, t)
  \/ \E c \in Client : Continue(c) \/ Abandon(c)
  \/ Crash

Spec == Init /\ [][Next]_vars

\* Nothing is assumed of people, agents or callers.
FairSpec == Spec /\ \A t \in Task : WF_vars(Drive(t))
-----------------------------------------------------------------------------
(* Safety. *)

\* The chain_workflows row never contradicts the task it belongs to: a row that
\* ended in success belongs to a done task, one that was cancelled to a finished
\* task, a done task has no live row, and without a row nothing of the chain exists.
\* (EndChainWorkflow runs in completion and in cancel cleanup, which race.)
RowAgreesWithState ==
  \A t \in Task :
    /\ row[t] = "success" => state[t] = "done"
    /\ row[t] = "cancelled" => IsTerminal(state[t])
    /\ state[t] = "done" => row[t] \in {"success", "cancelled"}
    /\ row[t] = "none" => wf[t] = "none" /\ slots[t] = <<>>

\* The state and the chain stage of a task, which different transactions write,
\* agree: parked or executing means triage and expansion are resolved, done means
\* every stage is.
StateFitsStage ==
  \A t \in Task :
    /\ state[t] \in {"absent", "proposed"} => stage[t] = "creation"
    /\ state[t] = "waiting" => stage[t] = "execution"
    /\ state[t] = "executing" => stage[t] \in {"execution", "completion"}
    /\ state[t] = "done" => stage[t] = "completion"

\* completeTask answers "the" open assignment of a task (FindOpenAssignmentForTask
\* has LIMIT 1 and no order): there is never a choice, whatever crashes and
\* callers did to the open step.
AtMostOneOpenSlot == \A t \in Task : Cardinality(OpenSlots(t)) <= 1

\* A task that executes, or has executed, had every task that blocks it finished
\* first: the readiness gate evaluates the tasks table and moves the state in one
\* transaction, whatever the blockers' own chains are doing.
ExecutionAfterBlockers ==
  \A t \in Task : state[t] \in {"executing", "done"} => Unmet(t) = {}

\* When a task is done nothing of it is left in an inbox, and the last assignment
\* of every stage has its assignment_resolved audit, although completeTask and the
\* workflow both close assignments.
DoneIsAudited ==
  \A t \in Task : state[t] = "done" =>
    /\ OpenSlots(t) = {}
    /\ \A s \in Served : \A i \in SlotsOf(t, s) :
         (\A j \in SlotsOf(t, s) : j <= i) => slots[t][i].audits > 0

\* A workflow waiting for a human can be answered: its stage has an open
\* assignment in the inbox, or the answer is already on its way.  (completeTask
\* sends before it closes, and may stop between the two.)
WaiterCanBeAnswered ==
  \A t \in Task : wf[t] = "pending" /\ at[t] = "wait" =>
    \/ \E i \in OpenSlots(t) : slots[t][i].stage = leg[t]
    \/ mail[t][leg[t]] # <<>>

\* Unless the process crashes, a stage opens one assignment and audits its result
\* once (assignments.sql, runResolveAndAdvanceStep), although deadlines, agents that
\* hand over and overlapping answers all come back to the same stage.  A crash between
\* a body and its checkpoint can repeat either.
OnceUnlessCrashed ==
  crashes = 0 => \A t \in Task :
    /\ \A s \in Served : Cardinality(SlotsOf(t, s)) <= 1
    /\ \A i \in DOMAIN slots[t] : slots[t][i].audits <= 1

\* Cancelling a task again never writes a second workflow_cancelled audit (spec.md,
\* "Cancel an already-terminal task"), but for callers who overlap: the check and the
\* audit are separate statements, and the task completes meanwhile.
CancelAuditOnce == \A t \in Task : cancels[t] <= Cardinality(Client)

\* The tables the transactions share agree, and the audit tells what has become of a stage
\* and of a task, and tells it once, in every order of completion, cancellation,
\* attachment, steps that run twice and answers.
TablesAgree ==
  /\ RowAgreesWithState /\ StateFitsStage
  /\ DoneIsAudited /\ OnceUnlessCrashed /\ CancelAuditOnce

\* A stage that waits for a person can be answered, and there is one answer to give.
WaiterHasItsSlot == AtMostOneOpenSlot /\ WaiterCanBeAnswered

\* Stages only ever advance, although a recovered workflow runs again.
StageOnlyForward == [][\A t \in Task : Rank[stage'[t]] >= Rank[stage[t]]]_vars
-----------------------------------------------------------------------------
(* Refinement: to an observer of tasks.state the chain is the abstract board. *)
Abstract == INSTANCE Board

\* Every change of tasks.state is one the board allows.
BoardSpec == Abstract!Spec
-----------------------------------------------------------------------------
(* Liveness, under FairSpec. *)

\* A parked task whose blockers are finished and whose date has come does not stay
\* parked: the wake may be lost with its sender, the heartbeat is not.
ParkedResumes ==
  \A t \in Task :
    state[t] = "waiting" /\ wf[t] = "pending" /\ Ready(t)
      ~> state[t] # "waiting" \/ wf[t] # "pending" \/ ~Ready(t)

\* An answer that was sent while its stage was being served moves the task on,
\* across crashes of the server; otherwise the workflow has ended.
AnswerAdvances ==
  \A t \in Task, s \in Served :
    leg[t] = s /\ at[t] \in {"open", "wait", "timeout"} /\ mail[t][s] # <<>>
      ~> Rank[stage[t]] > Rank[s] \/ wf[t] # "pending"

\* A cancelled workflow lets go of its goroutine even when its sentinel went to
\* the topic of a stage it had left: unless its last deadline is spent, or an agent
\* has to return first.
CancelledUnwinds ==
  \A t \in Task :
    wf[t] = "cancelled" /\ at[t] # "agent" /\ (at[t] = "wait" => tries[t] < MaxStageTimeouts)
      ~> thr[t] = "off"

\* A workflow never stops short: the parked one resumes, the one that is answered goes on,
\* the one that is cancelled unwinds.
WorkflowGoesOn == ParkedResumes /\ AnswerAdvances /\ CancelledUnwinds
-----------------------------------------------------------------------------
(* The inductive invariant behind the proofs in ChainProofs. *)

Occupying == {"route", "agent", "open", "wait", "timeout", "resolve"}

\* Where the result of a step's body may lead.
Leads(p, s) == CASE p = "advance" -> {"route"}
                 [] p = "route" -> {"open", "agent"}
                 [] p \in {"open", "timeout"} -> {"wait"}
                 [] p = "resolve" -> {AfterLeg(s)}
                 [] p = "gate" -> {"route", "parked", "end"}
                 [] p = "complete" -> {"list"}
                 [] p = "list" -> {"wake"}
                 [] OTHER -> {}

\* The position, the stage being served and the goroutine fit together.
ShapeOf(t) ==
  /\ at[t] = "advance" => leg[t] = "triage"
  /\ at[t] \in Occupying => leg[t] \in Served
  /\ at[t] \in {"gate", "parked"} => leg[t] = "execution"
  /\ at[t] \in {"complete", "list", "wake"} => leg[t] = "completion"
  /\ at[t] = "timeout" => MayExpire(t)
  /\ thr[t] = "blocked" => at[t] \in {"wait", "parked", "agent"}
  /\ thr[t] = "read" => at[t] = "complete" /\ out[t] \in State
  /\ thr[t] = "ran" => out[t] \in Leads(at[t], leg[t])

WorkflowShape == \A t \in Task : ShapeOf(t)

\* A workflow belongs to a task that was accepted.
ChainAccepted ==
  \A t \in Task :
    /\ wf[t] = "none" => thr[t] = "off" /\ at[t] = "advance"
    /\ wf[t] # "none" => state[t] \notin {"absent", "proposed"}

\* A caller works on a task that exists; one about to attach a chain, or to answer
\* a slot, on a task that was accepted and a slot that is there.
CallOf(c) ==
  /\ call[c].pc # "idle" => state[call[c].task] # "absent"
  /\ call[c].pc \in {"attach", "launch"} => state[call[c].task] # "proposed"
  /\ call[c].pc \in {"send", "close"} => call[c].slot \in DOMAIN slots[call[c].task]

CallShape == ChainAccepted /\ \A c \in Client : CallOf(c)

PastGate(t) ==
  \/ leg[t] = "execution" /\ at[t] \in Occupying
  \/ at[t] \in {"complete", "list", "wake"}
  \/ thr[t] = "ran" /\ at[t] = "gate" /\ out[t] = "route"

\* Beyond the gate the blockers stay finished, also for a task halted since: its
\* completion may still overwrite the cancellation.
GateHeld ==
  /\ ExecutionAfterBlockers
  /\ \A t \in Task : PastGate(t) => /\ Unmet(t) = {}
                                    /\ state[t] \in {"executing", "done", "halted"}

\* The stage in the tasks table is the one being served, but for the bodies that
\* move it before their checkpoint does.
StageOf(t) ==
  /\ at[t] = "advance" => stage[t] \in {"creation", "triage"}
  /\ at[t] = "resolve" => stage[t] \in {leg[t], NextStage(leg[t])}
  /\ thr[t] = "ran" /\ at[t] = "advance" => stage[t] = "triage"
  /\ thr[t] = "ran" /\ at[t] = "resolve" => stage[t] = NextStage(leg[t])
  /\ at[t] \notin {"advance", "resolve"} => stage[t] = leg[t]

StageShape == \A t \in Task : StageOf(t)

Inv == TypeOK /\ WorkflowShape /\ CallShape /\ GateHeld /\ StageShape
-----------------------------------------------------------------------------
(* What must be added to Inv to prove TablesAgree and WaiterHasItsSlot. *)

\* The row exists before the workflow, and ends with the task; a live row of a halted task
\* is one that was attached after the cancellation, and its workflow never gets going.
RowOf(t) ==
  /\ row[t] = "none" => wf[t] = "none"
  /\ state[t] \in {"absent", "proposed"} => row[t] = "none"
  /\ row[t] = "success" => state[t] = "done"
  /\ row[t] = "cancelled" => IsTerminal(state[t])
  /\ state[t] = "done" => row[t] \in {"success", "cancelled"}
  /\ state[t] = "halted" /\ row[t] = "live" => at[t] = "advance" /\ thr[t] \in {"off", "start"}
  /\ thr[t] = "read" /\ out[t] # "executing" => row[t] # "live"

\* A chain is attached once, by the one caller that created or accepted the task.
AttachOf(c) ==
  LET t == call[c].task
  IN /\ call[c].pc \in {"attach", "launch"} =>
          /\ wf[t] = "none"
          /\ \A d \in Client \ {c} : call[d].pc \in {"attach", "launch"} => call[d].task # t
     /\ call[c].pc = "attach" => row[t] = "none"
     /\ call[c].pc = "launch" => row[t] # "none"

RowShape == (\A t \in Task : RowOf(t)) /\ (\A c \in Client : AttachOf(c))

\* Where the workflow of a task in a given state may stand.
ProgressOf(t) ==
  /\ state[t] \in {"absent", "proposed"} => stage[t] = "creation"
  /\ state[t] = "waiting" => at[t] \in {"gate", "parked"}
  /\ state[t] = "executing" => \/ at[t] \in {"gate", "parked", "complete"}
                               \/ at[t] \in Occupying /\ leg[t] = "execution"
  /\ state[t] = "done" => at[t] \in {"complete", "list", "wake", "end"} /\ leg[t] = "completion"
  /\ thr[t] = "ran" /\ (at[t] = "complete" \/ out[t] = "end") => IsTerminal(state[t])
  /\ thr[t] = "read" /\ out[t] # "executing" => IsTerminal(state[t])

Progress == \A t \in Task : ProgressOf(t)

\* The stage has been resolved.
Behind(t, s) == \/ Rank[s] < Rank[leg[t]]
                \/ s = leg[t] /\ thr[t] = "ran" /\ at[t] = "resolve"

\* The assignment is the last of its stage.
IsLast(t, i) == \A j \in SlotsOf(t, slots[t][i].stage) : j <= i

\* No assignment is ahead of the workflow; the one that is open is the last of all, and of
\* the stage being served; behind the workflow the last of a stage is audited.
SlotOf(t, i) ==
  LET s == slots[t][i].stage
  IN /\ Rank[s] <= Rank[leg[t]]
     /\ slots[t][i].open => i = Len(slots[t]) /\ s = leg[t] /\ ~Behind(t, s)
     /\ Behind(t, s) /\ IsLast(t, i) => slots[t][i].audits > 0

SlotShape == \A t \in Task : /\ wf[t] = "none" => slots[t] = <<>>
                             /\ \A i \in DOMAIN slots[t] : SlotOf(t, i)

\* The stage being served has no assignment yet, unless a step ran twice.
Unopened(t) == \/ at[t] \in {"advance", "gate", "parked", "route", "agent"}
               \/ at[t] = "open" /\ thr[t] # "ran"

OnceOf(t) ==
  \A i \in DOMAIN slots[t] :
    /\ Unopened(t) => slots[t][i].stage # leg[t]
    /\ \A j \in DOMAIN slots[t] : slots[t][i].stage = slots[t][j].stage => i = j
    /\ slots[t][i].audits <= IF Behind(t, slots[t][i].stage) THEN 1 ELSE 0

OnceShape == crashes = 0 => \A t \in Task : OnceOf(t)

\* A wait has begun, or is about to, and is not over.
Waits(t) == at[t] \in {"wait", "timeout"} \/ (at[t] = "open" /\ thr[t] = "ran")

\* The answer to a stage of a pending workflow is on its way, or has been received.
Answered(t, s) == \/ mail[t][s] # <<>> \/ Rank[s] < Rank[leg[t]]
                  \/ s = leg[t] /\ at[t] = "resolve"

WaitOf(t) ==
  wf[t] = "pending" /\ Waits(t) => HasOpenSlotFor(t, leg[t]) \/ mail[t][leg[t]] # <<>>

CloseOf(c) ==
  LET t == call[c].task
  IN call[c].pc = "close" /\ wf[t] = "pending" => Answered(t, slots[t][call[c].slot].stage)

WaitShape == (\A t \in Task : WaitOf(t)) /\ (\A c \in Client : CloseOf(c))

\* Callers that may still cancel the task.
Cancelling(t) == {c \in Client : call[c].pc \in {"findRow", "cleanup"} /\ call[c].task = t}

\* The first audit ends the task, and whoever writes another began before.
AuditOf(t) ==
  cancels[t] > 0 => /\ IsTerminal(state[t])
                    /\ cancels[t] + Cardinality(Cancelling(t)) <= Cardinality(Client)

AuditShape == \A t \in Task : AuditOf(t)

TablesInv == Inv /\ RowShape /\ Progress /\ SlotShape /\ OnceShape /\ WaitShape /\ AuditShape
=============================================================================
