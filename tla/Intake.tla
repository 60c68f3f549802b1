------------------------------- MODULE Intake -------------------------------
(***************************************************************************)
(* How an item of a source becomes a task.                                 *)
(*                                                                         *)
(*   internal/intake/poll.go         the scheduled poll and its three steps *)
(*   internal/intake/ingest.go       one signal per connector and item     *)
(*   internal/intake/disposition.go  a signal becomes a task, or not       *)
(*   internal/connector/webhook.go   deliveries queued in memory           *)
(*   graph/connector_helpers.go      the owner's switch and the schedule   *)
(*                                                                         *)
(* A poll is a durable workflow: its three steps are checkpointed, and one *)
(* that is cut by a crash runs again from its beginning.  Nothing keeps    *)
(* two polls of a connector from overlapping.                              *)
(***************************************************************************)
EXTENDS Naturals, Sequences

CONSTANTS Connector,
          Item,
          Malformed,    \* items that Validate rejects
          Disposition, Confidence, Stakes,  \* of an item; hundredths
          Floor, Ceiling, Coefficient,      \* the dial, in hundredths
          Dismissals,   \* of a connector's tasks, in the last 30 days
          Cap,          \* calls of the triage model in one poll
          Poll, Of,     \* polls that may overlap, each of one connector
          Owner,        \* requests that switch a connector
          MaxDeliveries, MaxSwitches, MaxFailures  \* bounds

ASSUME SourceAssumption ==
  /\ Malformed \subseteq Item
  /\ Disposition \in [Item -> {"forced_task", "rich_event", "llm_judge"}]
  /\ Confidence \in [Item -> 0 .. 100] /\ Stakes \in [Item -> 0 .. 100]
  /\ Of \in [Poll -> Connector]

ASSUME DialAssumption ==
  /\ Floor \in 0 .. 100 /\ Ceiling \in 0 .. 100 /\ Coefficient \in Nat /\ Cap \in Nat \ {0}
  /\ Dismissals \in [Connector -> Nat]

ASSUME IntakeBounds ==
  MaxDeliveries \in Nat /\ MaxSwitches \in Nat /\ MaxFailures \in Nat

VARIABLES
  type,       \* connector_configs.connector_type
  listing,    \* what the source of an "rss" lists
  queue,      \* volatile: deliveries not drained yet
  accepted,   \* deliveries answered with 202, in order
  signals,    \* intake_signals, oldest first
  tasks,      \* the tasks made from them, oldest first
  enabled,    \* connector_configs.enabled
  scheduled,  \* DBOS: the connector has a schedule
  stage,      \* DBOS: the step a poll has to run next
  run,        \* volatile: the step it is running
  owner,      \* volatile: the owner's requests
  switches, failures

sources == <<type, listing, queue, accepted>>
tables == <<signals, tasks, enabled, scheduled>>
intakeVars == <<sources, tables, stage, run, owner, switches, failures>>

Stopped == [pc |-> "stopped"]
Idle == [pc |-> "idle"]

Signal == [connector : Connector, item : Item, processed : BOOLEAN, refused : BOOLEAN]
\* by: the poll that made it.  chain: its row in chain_workflows, and the workflow itself.
MadeTask == [signal : Nat \ {0}, state : {"accepted", "proposed"},
             chain : {"none", "row", "running"}, by : Poll]
\* batch: items fetched; list: signals left of those loaded; taken: calls of the model so far;
\* state, task: of the task being made.
Running == [pc : {"config", "fetch", "emit", "load", "check", "mark", "cap", "refuse",
                  "refused", "create", "attach", "start", "record"},
            batch : Seq(Item), list : SUBSET (Nat \ {0}), taken : 0 .. Cap,
            state : {"accepted", "proposed"}, task : Nat]
Request == [pc : {"switch", "set"}, connector : Connector, on : BOOLEAN]

IntakeTypeOK ==
  /\ type \in [Connector -> {"webhook-in", "rss"}]
  /\ listing \in Seq(Item) /\ queue \in Seq(Item) /\ accepted \in Seq(Item)
  /\ signals \in Seq(Signal) /\ tasks \in Seq(MadeTask)
  /\ enabled \in [Connector -> BOOLEAN] /\ scheduled \in [Connector -> BOOLEAN]
  /\ stage \in [Poll -> {"rest", "config", "fetch", "dispose"}]
  /\ run \in [Poll -> Running \cup {Stopped}]
  /\ owner \in [Owner -> Request \cup {Idle}]
  /\ switches \in Nat /\ failures \in Nat

IntakeInit ==
  /\ type \in [Connector -> {"webhook-in", "rss"}]
  /\ listing = <<>> /\ queue = <<>> /\ accepted = <<>>
  /\ signals = <<>> /\ tasks = <<>>
  /\ enabled \in [Connector -> BOOLEAN]
  /\ scheduled = enabled
  /\ stage = [p \in Poll |-> "rest"]
  /\ run = [p \in Poll |-> Stopped]
  /\ owner = [o \in Owner |-> Idle]
  /\ switches = 0 /\ failures = 0
-----------------------------------------------------------------------------
(* Reading the tables. *)

SignalOf(c, i) == {s \in DOMAIN signals : signals[s].connector = c /\ signals[s].item = i}

\* GetTaskByIntakeSignal
MadeFrom(s) == {t \in DOMAIN tasks : tasks[t].signal = s}

\* GetUnprocessedSignals
Unprocessed(c) ==
  {s \in DOMAIN signals : signals[s].connector = c /\ ~signals[s].processed}

AtMost(a, b) == IF a < b THEN a ELSE b

\* EffectiveThresholds: they tighten with every dismissal, by 30 at the most.
Tighten(c) == AtMost(Coefficient * Dismissals[c], 30)
EffectiveFloor(c) == AtMost(Floor + Tighten(c), 100)

EffectiveCeiling(c) == IF Tighten(c) < Ceiling THEN Ceiling - Tighten(c) ELSE 0

Clears(c, i) == Confidence[i] >= EffectiveFloor(c) /\ Stakes[i] <= EffectiveCeiling(c)
-----------------------------------------------------------------------------
(* The owner switches a connector on or off: the schedule, then the row. *)

EnableConnector(o, c) ==
  /\ owner[o] = Idle /\ switches < MaxSwitches
  /\ \E on \in BOOLEAN :
       owner' = [owner EXCEPT ![o] = [pc |-> "switch", connector |-> c, on |-> on]]
  /\ switches' = switches + 1
  /\ UNCHANGED <<sources, tables, stage, run, failures>>

\* CreateSchedule does nothing when there is one.
SwitchSchedule(o) ==
  /\ owner[o].pc = "switch"
  /\ scheduled' = [scheduled EXCEPT ![owner[o].connector] = owner[o].on]
  /\ owner' = [owner EXCEPT ![o].pc = "set"]
  /\ UNCHANGED <<sources, signals, tasks, enabled, stage, run, switches, failures>>

SetEnabled(o) ==
  /\ owner[o].pc = "set"
  /\ enabled' = [enabled EXCEPT ![owner[o].connector] = owner[o].on]
  /\ owner' = [owner EXCEPT ![o] = Idle]
  /\ UNCHANGED <<sources, signals, tasks, scheduled, stage, run, switches, failures>>
-----------------------------------------------------------------------------
(* New items. *)

Deliveries == Len(accepted) + Len(listing)

Publish(i) ==
  /\ Deliveries < MaxDeliveries /\ i \notin Malformed
  /\ \A k \in DOMAIN listing : listing[k] # i
  /\ \E c \in Connector : type[c] = "rss"
  /\ listing' = Append(listing, i)
  /\ UNCHANGED <<type, queue, accepted, tables, stage, run, owner, switches, failures>>

\* webhookIngressHandler: the connector in the request's path is not looked at.
Deliver(i) ==
  /\ Deliveries < MaxDeliveries
  /\ \E c \in Connector : type[c] = "webhook-in"
  /\ queue' = Append(queue, i)
  /\ accepted' = Append(accepted, i)
  /\ UNCHANGED <<type, listing, tables, stage, run, owner, switches, failures>>
-----------------------------------------------------------------------------
(* A poll starts, at its schedule's tick or again after a crash. *)

AtStep(pc) ==
  [pc |-> pc, batch |-> <<>>, list |-> {}, taken |-> 0, state |-> "proposed", task |-> 0]

StartPoll(p) ==
  /\ stage[p] = "rest" /\ scheduled[Of[p]]
  /\ stage' = [stage EXCEPT ![p] = "config"]
  /\ run' = [run EXCEPT ![p] = AtStep("config")]
  /\ UNCHANGED <<sources, tables, owner, switches, failures>>

RecoverPoll(p) ==
  /\ stage[p] # "rest" /\ run[p] = Stopped
  /\ run' = [run EXCEPT ![p] = AtStep(IF stage[p] = "dispose" THEN "load" ELSE stage[p])]
  /\ UNCHANGED <<sources, tables, stage, owner, switches, failures>>

\* load_config: a deleted or disabled connector is skipped.
LoadConfig(p) ==
  /\ run[p].pc = "config"
  /\ IF enabled[Of[p]]
     THEN stage' = [stage EXCEPT ![p] = "fetch"] /\ run' = [run EXCEPT ![p] = AtStep("fetch")]
     ELSE stage' = [stage EXCEPT ![p] = "rest"] /\ run' = [run EXCEPT ![p] = Stopped]
  /\ UNCHANGED <<sources, tables, owner, switches, failures>>

Fetch(p) ==
  /\ run[p].pc = "fetch"
  /\ \/ /\ type[Of[p]] = "webhook-in"
        /\ run' = [run EXCEPT ![p].pc = "emit", ![p].batch = queue]
        /\ queue' = <<>>
     \/ /\ type[Of[p]] = "rss"
        /\ run' = [run EXCEPT ![p].pc = "emit", ![p].batch = listing]
        /\ UNCHANGED queue
  /\ UNCHANGED <<type, listing, accepted, tables, stage, owner, switches, failures>>

\* IdempotentInsertSignal: ON CONFLICT (connector_id, idempotency_key) DO NOTHING.
Ingest(p, i) ==
  IF SignalOf(Of[p], i) # {} THEN UNCHANGED signals
  ELSE signals' = Append(signals, [connector |-> Of[p], item |-> i, processed |-> FALSE,
                                   refused |-> FALSE])

\* One item; one that is malformed fails the step, and the poll, with the rest of the batch.
EmitBatch(p) ==
  /\ run[p].pc = "emit" /\ run[p].batch # <<>>
  /\ IF Head(run[p].batch) \in Malformed
     THEN /\ stage' = [stage EXCEPT ![p] = "rest"]
          /\ run' = [run EXCEPT ![p] = Stopped]
          /\ UNCHANGED signals
     ELSE /\ Ingest(p, Head(run[p].batch))
          /\ run' = [run EXCEPT ![p].batch = Tail(run[p].batch)]
          /\ UNCHANGED stage
  /\ UNCHANGED <<sources, tasks, enabled, scheduled, owner, switches, failures>>

FetchDone(p) ==
  /\ run[p].pc = "emit" /\ run[p].batch = <<>>
  /\ stage' = [stage EXCEPT ![p] = "dispose"]
  /\ run' = [run EXCEPT ![p] = AtStep("load")]
  /\ UNCHANGED <<sources, tables, owner, switches, failures>>
-----------------------------------------------------------------------------
(* The dispose step.  The signals are loaded once; each is then disposed of *)
(* by statements of their own.                                              *)

Load(p) ==
  /\ run[p].pc = "load"
  /\ run' = [run EXCEPT ![p].pc = "check", ![p].list = Unprocessed(Of[p])]
  /\ UNCHANGED <<sources, tables, stage, owner, switches, failures>>

\* They are taken in the order of created_at.
Oldest(S) == CHOOSE s \in S : \A u \in S : s <= u
At(p) == Oldest(run[p].list)

NextSignal(p) ==
  [run EXCEPT ![p].pc = "check", ![p].list = run[p].list \ {At(p)}, ![p].task = 0]

Make(p, state) == [run EXCEPT ![p].pc = "create", ![p].state = state]

\* Dispose: a task made from the signal already?
Check(p) ==
  /\ run[p].pc = "check" /\ run[p].list # {}
  /\ MadeFrom(At(p)) # {}
  /\ run' = [run EXCEPT ![p].pc = "mark"]
  /\ UNCHANGED <<sources, tables, stage, owner, switches, failures>>

\* Mutant: nobody asks.
IsNewAlways(p, kind) ==
  /\ run[p].pc = "check" /\ run[p].list # {}
  /\ Disposition[signals[At(p)].item] = kind

IsNew(p, kind) ==
  /\ run[p].pc = "check" /\ run[p].list # {}
  /\ MadeFrom(At(p)) = {}
  /\ Disposition[signals[At(p)].item] = kind

DisposeDone(p) ==
  /\ run[p].pc = "check" /\ run[p].list = {}
  /\ stage' = [stage EXCEPT ![p] = "rest"]
  /\ run' = [run EXCEPT ![p] = Stopped]
  /\ UNCHANGED <<sources, tables, owner, switches, failures>>

MarkProcessed(s) == signals' = [signals EXCEPT ![s].processed = TRUE]

\* A task was found: only the mark is made up for.
MarkFound(p) ==
  /\ run[p].pc = "mark"
  /\ MarkProcessed(At(p))
  /\ run' = NextSignal(p)
  /\ UNCHANGED <<sources, tasks, enabled, scheduled, stage, owner, switches, failures>>

ForcedTask(p) ==
  /\ IsNew(p, "forced_task")
  /\ run' = Make(p, "accepted")
  /\ UNCHANGED <<sources, tables, stage, owner, switches, failures>>

RichEvent(p) ==
  /\ IsNew(p, "rich_event")
  /\ run' = Make(p, IF Clears(Of[p], signals[At(p)].item) THEN "accepted" ELSE "proposed")
  /\ UNCHANGED <<sources, tables, stage, owner, switches, failures>>

\* llmJudge over the cap: the audit marks the signal before there is a task.
CapJudge(p) ==
  /\ IsNew(p, "llm_judge") /\ run[p].taken >= Cap
  /\ run' = [run EXCEPT ![p].pc = "cap"]
  /\ UNCHANGED <<sources, tables, stage, owner, switches, failures>>

RecordCap(p) ==
  /\ run[p].pc = "cap"
  /\ MarkProcessed(At(p))
  /\ run' = Make(p, "proposed")
  /\ UNCHANGED <<sources, tasks, enabled, scheduled, stage, owner, switches, failures>>

\* The model says yes or fails, or says no.  Where no model is wired (buildIntakeTriage
\* wires none) the signal is held as well, with no call: Cap is never reached then.
LlmJudge(p) ==
  /\ IsNew(p, "llm_judge") /\ run[p].taken < Cap
  /\ \/ run' = [Make(p, "proposed") EXCEPT ![p].taken = run[p].taken + 1]
     \/ run' = [run EXCEPT ![p].pc = "refuse", ![p].taken = run[p].taken + 1]
  /\ UNCHANGED <<sources, tables, stage, owner, switches, failures>>

RefuseSignal(p) ==
  /\ run[p].pc = "refuse"
  /\ MarkProcessed(At(p))
  /\ run' = [run EXCEPT ![p].pc = "refused"]
  /\ UNCHANGED <<sources, tasks, enabled, scheduled, stage, owner, switches, failures>>

\* writeConnectorAudit
RecordRefusal(p) ==
  /\ run[p].pc = "refused"
  /\ signals' = [signals EXCEPT ![At(p)].processed = TRUE, ![At(p)].refused = TRUE]
  /\ run' = NextSignal(p)
  /\ UNCHANGED <<sources, tasks, enabled, scheduled, stage, owner, switches, failures>>
-----------------------------------------------------------------------------
(* The task: its row, its chain when it is accepted, its record. *)

CreateTaskFromSignal(p) ==
  /\ run[p].pc = "create"
  /\ tasks' = Append(tasks, [signal |-> At(p), state |-> run[p].state, chain |-> "none", by |-> p])
  /\ run' = [run EXCEPT ![p].task = Len(tasks) + 1,
                        ![p].pc = IF run[p].state = "accepted" THEN "attach" ELSE "record"]
  /\ UNCHANGED <<sources, signals, enabled, scheduled, stage, owner, switches, failures>>

InsertChainWorkflow(p) ==
  /\ run[p].pc = "attach"
  /\ tasks' = [tasks EXCEPT ![run[p].task].chain = "row"]
  /\ run' = [run EXCEPT ![p].pc = "start"]
  /\ UNCHANGED <<sources, signals, enabled, scheduled, stage, owner, switches, failures>>

\* Mutant: the workflow is left to whoever accepts the task.
StartNothing(p) ==
  /\ run[p].pc = "start"
  /\ run' = [run EXCEPT ![p].pc = "record"]
  /\ UNCHANGED <<sources, tables, stage, owner, switches, failures>>

StartChainWorkflow(p) ==
  /\ run[p].pc = "start"
  /\ tasks' = [tasks EXCEPT ![run[p].task].chain = "running"]
  /\ run' = [run EXCEPT ![p].pc = "record"]
  /\ UNCHANGED <<sources, signals, enabled, scheduled, stage, owner, switches, failures>>

\* writeTaskAudit
RecordDisposition(p) ==
  /\ run[p].pc = "record"
  /\ MarkProcessed(At(p))
  /\ run' = NextSignal(p)
  /\ UNCHANGED <<sources, tasks, enabled, scheduled, stage, owner, switches, failures>>
-----------------------------------------------------------------------------
(* What goes wrong. *)

\* A statement or a call fails: the step returns the error, and the poll ends with it.
FailPoll(p) ==
  /\ run[p] # Stopped /\ failures < MaxFailures
  /\ stage' = [stage EXCEPT ![p] = "rest"]
  /\ run' = [run EXCEPT ![p] = Stopped]
  /\ failures' = failures + 1
  /\ UNCHANGED <<sources, tables, owner, switches>>

FailRequest(o) ==
  /\ owner[o] # Idle /\ failures < MaxFailures
  /\ owner' = [owner EXCEPT ![o] = Idle]
  /\ failures' = failures + 1
  /\ UNCHANGED <<sources, tables, stage, run, switches>>

\* The process dies; at the next boot RehydrateSchedules creates what is missing.
CrashPolls ==
  /\ failures < MaxFailures
  /\ failures' = failures + 1
  /\ queue' = <<>>
  /\ run' = [p \in Poll |-> Stopped]
  /\ owner' = [o \in Owner |-> Idle]
  /\ scheduled' = [c \in Connector |-> scheduled[c] \/ enabled[c]]
  /\ UNCHANGED <<type, listing, accepted, signals, tasks, enabled, stage, switches>>

PollStep(p) ==
  \/ RecoverPoll(p) \/ LoadConfig(p) \/ Fetch(p) \/ EmitBatch(p) \/ FetchDone(p)
  \/ Load(p) \/ Check(p) \/ DisposeDone(p) \/ MarkFound(p)
  \/ ForcedTask(p) \/ RichEvent(p) \/ CapJudge(p) \/ RecordCap(p) \/ LlmJudge(p)
  \/ RefuseSignal(p) \/ RecordRefusal(p)
  \/ CreateTaskFromSignal(p) \/ InsertChainWorkflow(p) \/ StartChainWorkflow(p)
  \/ RecordDisposition(p)

OwnerStep(o) == SwitchSchedule(o) \/ SetEnabled(o)

IntakeNext ==
  \/ \E p \in Poll : StartPoll(p) \/ PollStep(p) \/ FailPoll(p)
  \/ \E o \in Owner : OwnerStep(o) \/ FailRequest(o) \/ \E c \in Connector : EnableConnector(o, c)
  \/ \E i \in Item : Deliver(i) \/ Publish(i)
  \/ CrashPolls

IntakeSpec == IntakeInit /\ [][IntakeNext]_intakeVars
-----------------------------------------------------------------------------
(* Properties. *)

InHand(p, s) == run[p].pc \notin {"stopped", "config", "fetch", "emit", "load"}
                  /\ run[p].list # {} /\ At(p) = s

\* FR-004: a second task of a signal is never the work of one and the same poll, however
\* often it runs again; it takes another that overlaps with it.
OneTaskPerPoll ==
  \A t, u \in DOMAIN tasks :
    t # u /\ tasks[t].signal = tasks[u].signal => tasks[t].by # tasks[u].by

\* A signal is marked with no task only when the model refused it or the cap was reached:
\* a fault in between then loses it, but never one that needs no model.
OnlyJudgedIsDropped ==
  \A s \in DOMAIN signals :
    signals[s].processed /\ MadeFrom(s) = {} =>
      /\ Disposition[signals[s].item] = "llm_judge"
      /\ signals[s].refused \/ failures > 0 \/ \E p \in Poll : InHand(p, s)

\* An accepted delivery is queued, fetched or a signal, whichever connector drains it; a
\* fault loses it, or a malformed delivery drained before it.
DeliveryKept ==
  \A n \in DOMAIN accepted :
    LET i == accepted[n]
    IN  \/ i \in Malformed \/ failures > 0
        \/ \E m \in 1 .. n - 1 : accepted[m] \in Malformed
        \/ \E m \in DOMAIN queue : queue[m] = i
        \/ \E p \in Poll : run[p] # Stopped /\ \E k \in DOMAIN run[p].batch : run[p].batch[k] = i
        \/ \E c \in Connector : SignalOf(c, i) # {}

\* What reaches the service becomes a task or is judged, unless a fault takes it; and one
\* poll makes one task of it.
SignalsAreAccounted == OneTaskPerPoll /\ DeliveryKept /\ OnlyJudgedIsDropped

\* An accepted task has its chain, unless a poll is still at it or a fault cut it off: the
\* task that is found again is not looked at.
DrivenUnlessCut ==
  \A t \in DOMAIN tasks :
    tasks[t].state = "accepted" /\ tasks[t].chain # "running" =>
      failures > 0 \/ \E p \in Poll : run[p] # Stopped /\ run[p].task = t
=============================================================================
