# Tendant in TLA+

Tendant is a self-hosted assistant. Its Go server (`services/api`) keeps tasks
in PostgreSQL and drives each one through a *chain* of stages, served by a
person or by an agent, with a durable workflow of the DBOS library. GraphQL
resolvers, connectors that poll the outside world, timers and other tasks call
in while the chain runs, and the process may die at any moment.

The modules here model that: the tables, the workflows, the callers and what
DBOS promises about re-execution. TLC checks them on small instances; TLAPS
proves the theorems at the end of this file for every instance.

1. [The system](#the-system) - inventory of components
2. [The plan](#the-plan) - modules, in order, and what is still to come
3. [The modules and the code](#the-modules-and-the-code)
4. [The runs](#the-runs) - what each shows, bounds, fairness
5. [The theorems](#the-theorems)
6. [What is not modelled](#what-is-not-modelled)

Paths below are relative to `services/api/` unless they start with `db/`,
`specs/` or `apps/`.

## The system

Every component below shares one PostgreSQL database; that, `dbos.Send` /
`dbos.Recv` between workflows, and `pg_notify` are the only ways in which they
interact. DBOS runs a workflow as a function whose *steps* are checkpointed: a
step whose checkpoint is missing after a crash runs again, so every step
happens at least once, and everything between two steps must be deterministic.

| component | state it keeps | operations | hard behaviours | what makes it correct |
|---|---|---|---|---|
| lifecycle (`internal/lifecycle`) | `tasks.state`, the audit graph | `Transition`, `TransitionIntake`, `WriteAuditMessage` | many writers of one row; a legality check under the row lock | only legal edges; terminal states are final; one audit per change |
| chain (`internal/chain`) | `tasks.current_stage`, `agent_assignments`, `chain_workflows`, DBOS checkpoints and mailboxes | `ChainWorkflow` and its steps, `WakeDependents`, `HandleCancelCleanup` | re-run steps, deadlines against late answers, wakes against parking, cancellation between any two steps | state, stage, assignment and chain row agree; stages only advance; nothing executes before its blockers; a waiter can be answered and an answer counts |
| task creation (`internal/core/task.go`) | `tasks`, `chain_workflows` | create, create from a signal, attach the chain | two transactions and a workflow start, in that order | an accepted task gets its chain |
| task resolvers (`graph/schema.resolvers.go`) | none of their own | accept, dismiss, complete, cancel, update metadata | sequences of separate statements that overlap with each other and with the workflow | as for the chain |
| task relations (`graph/relations.resolvers.go`, `db/migrations/00021_task_graph.sql`) | `task_relations` | add, remove, list dependents | check-then-insert; wakes after a removal | blocking and subtask edges are acyclic but for overlapping inserts; no waiting task is forgotten |
| durable runtime (`internal/durable`, DBOS) | workflow status, checkpoints, messages | launch, recover, cancel | recovery after a crash | a pending workflow always runs again |
| toolflow (`internal/toolflow`, `graph/phase3_helpers.go`) | `pending_decisions`, `tool_outcomes` | compose, auto-approve, approve, deny, edit, expire, dispatch | first-write-wins between owner and deadline; dispatch of non-idempotent tools; a registry that is empty of remote tools while workflows recover; a waiting agent | a decision is resolved once; no dispatch without approval, none twice while the tool is registered; a waiter hears of its outcome, or the silence has a known cause |
| agent (`internal/agent`) | the saved conversation, checkpoints of the stage workflow | a turn of the model, a call, handoff, approval, end of a segment | a segment runs again with everything it has dispatched; counters survive an approval | bounded; every call is accounted for; one end, unless an approval stays silent, and the trail tells it |
| calibration (`internal/calibration`, `graph/phase8_helpers.go`) | `tools.trust_score`, `tool_routine_grants`, promotion decisions | record outcome, demote, propose, respond | promotions against demotions; sweeps against both; lock order | no grant survives a demotion; at most one open proposal and one live grant per routine; a bad outcome is never lost |
| feedback (`internal/feedback`, `graph/feedback_helpers.go`) | decision, messages, `agent_guidance` | open, message, accept, dismiss, expire, record | accept against expiry; guidance before the first-write-wins | guidance exists only for an accepted decision; one terminal record |
| intake (`internal/intake`, `graph/connector_helpers.go`) | `intake_signals`, tasks, schedules, a queue in memory | deliver, poll, ingest, dispose, triage, switch | at-least-once steps around several transactions; overlapping polls | a delivery becomes a signal, a signal is judged or becomes a task, an accepted task is driven |
| gate, overseer, gatescript (`internal/gate*`, `internal/overseer`) | script versions, evaluations | floor, script, autonomy, model; attach, disable | a row read once and used later; three statements without a transaction; a cap over rows written late | nothing irreversible without a person; autonomy does not outlive its grant; the tool points at the right script |
| router (`internal/router`) | none | pick an agent for a stage | none | a choice among eligible agents |
| realtime (`internal/realtime`, `graph/phase2_helpers.go`) | subscribers and buffers | dispatch, subscribe, reconnect, close | overflow, gaps in LISTEN, channels closed under a loop | no send on a closed channel; a stale client has a known cause |
| inbox (`internal/inbox`, `db/migrations/00018_inbox_messages.sql`) | `inbox_messages` | project, reconcile, page, dismiss | pages over a ranking that moves; a sweep beside triggers | a scroll is whole; what is open gets listed, what is dismissed stays away |
| push (`internal/push`) | device tokens | send | best effort | - |
| mobile app (`apps/mobile/lib`) | the feed in memory, a subscription, an outbox | fetch, load more, swipe, reconnect; enqueue, flush | answers that come after the list has changed | what it shows follows the server |
| config (`internal/config/overlay.go`) | `config_entries`, a cache per process | set, delete, refresh, listen | two writers of the cache that have read earlier; gaps in LISTEN | the cache holds what is stored, or there is a known cause |
| embedding (`internal/embedding`) | `embedding_versions`, two slots of vectors | ensure, rebuild, flip | supersession against late builds; a row without its workflow; recovery under another model | what serves is whole, of one model, and never older than before |
| mcp, connectors, models, auth, crypto, server | catalogues, settings, sessions | calls to remote services, look-ups | none of their own protocol | - |

### What is hard, and where

The hazards that the properties are for are listed with their lines in
`PROJECT.json`. In short: tables are written in several transactions where one
would be needed (completion, cancellation, acceptance, `completeTask`,
`addTaskRelation`); steps run again after they have committed; messages wait in
a mailbox for a reader that has moved on; a wake is sent before anybody parks,
or by a process that dies half way; deadlines race answers.

## The plan

In order of importance to the program.

| # | modules | about | state |
|---|---|---|---|
| 1 | `Lifecycle`, `Board`, `Chain`, `ChainProofs` | the life of a task, its callers and crashes; abstract board | built, eight theorems |
| 2 | `Relations`, `RelationsProofs` | the graph of tasks while it changes | built, three theorems |
| 3 | `Decisions`, `Toolflow`, `ToolflowProofs` | tool calls, approvals, deadlines, the agent that waits, over an abstract decision | built, six theorems |
| 4 | `Calibration`, `CalibrationProofs` | trust, grants and proposals, lock order, the demotion a bad outcome or a cancelled task causes | built, four theorems |
| 5 | `Intake`, `EdgeProofs` | deliveries, poll, ingest, disposition, re-execution, the chain of the task | built, three theorems |
| 6 | `Feedback`, `FeedbackProofs` | conversation, accept, dismiss, expiry, record | built, five theorems |
| 7 | `Stage`, `Runner`, `EdgeProofs` | the agent's loop and its durable segments, over what a chain takes a stage for | built, four theorems |
| 8 | `Gate` | a verdict's layers while scripts, grants and evaluations change | built, four theorems |
| 9 | `Realtime`, `EdgeProofs` | a change on its way to an open phone | built, three theorems |
| 10 | `Inbox`, `EdgeProofs` | projection, sweep, ranked pages and the phone that scrolls them | built, three theorems |
| 11 | `Overlay`, `Embedding`, `EmbeddingProofs` | a setting that changes at run time, and the index that follows it | built, five theorems |
| 12 | `Outbox` | offline mutations of the phone | not built |

How they fit: `Chain` takes an agent's stage for what `Stage` says, and `Runner`
is shown to implement `Stage`; `Runner` takes the answer to an approval from
`Toolflow`, and `Toolflow` the gate's verdict from `Gate`; `Gate` reads the band
and the grant that `Calibration` writes; `Intake` creates the task that `Chain`
drives; `Embedding` extends `Overlay`, whose cache tells it what to build;
`Feedback` begins when it is done; `Inbox` projects the rows all of them
write and `Realtime` tells the phone. Each boundary is a free choice on the one
side, so that a property holds whatever the other side does.

Every invariant that a run checks is also a theorem, and so are the safety parts of
the three refinements. What is left is liveness, which stays with TLC, and the phone's
outbox, which is not built.

## The modules and the code

### Lifecycle

The vocabulary: task states, legal edges (with the extra edge of intake
tasks), stages, their order. `internal/lifecycle/edges.go`,
`internal/chain/stages.go`.

### Board

What the chain promises to somebody who only watches `tasks.state`: tasks
appear as accepted or proposed, move along legal edges, and start executing
only when their blockers have ended. `Overtake` is the one concession: a
completion that had already read "executing" overwrites a cancellation. The
refinement therefore says that this is the *only* illegal move the code can
make.

### Chain

One workflow per task, a set `Client` of callers, crashes.

| in the model | in the code |
|---|---|
| `state`, `stage` | `tasks.state` ("absent" before the insert), `tasks.current_stage` |
| `slots[t]` | the rows of `agent_assignments`, oldest first, each with its stage, whether it is open, and how many `assignment_resolved` audits name it |
| `row[t]` | `chain_workflows`: none, live, or ended with its status |
| `wf[t]`, `at[t]`, `leg[t]`, `tries[t]`, `todo[t]` | DBOS: the workflow's status and what its checkpoints determine - the next step or wait, the stage being served, deadlines already spent, dependents still to wake |
| `mail[t][topic]` | `dbos.Send` messages not yet received |
| `thr[t]`, `out[t]` | the goroutine and the result of the body it has run; lost in a crash |
| `call[c]` | the next statement of a resolver and its local variables; lost in a crash |

A step is two actions: its body, whose transaction commits (`RunReadiness`,
`RunOpenAssignment`, ...), and `Record`, the checkpoint that moves `at[t]`. A
crash in between runs the body again. `runCompletionStep` reads outside its
transaction, so it is three (`ReadForCompletion`, `RunCompletion`, `Record`). A
resolver is one action per statement, and `Abandon` may end it before any of
them. `Poison` is a step that fails for good: DBOS records the error and never
runs the workflow again.

What is simplified: the blocking relation is a constant here (a task's blockers
exist before it does), it changes in `Relations`. The agent is the durable child
workflow, the only path `cmd/tendant/main.go` wires. Payloads, pushes, and
audit rows other than `assignment_resolved` and `workflow_cancelled` are left
out. The loop over dependents in a *caller* is one action that wakes any subset,
because it stops at the first error; in the workflow it is one checkpointed step
per dependent. The wait of the last try has no deadline, as in the code
(`timeout = 0` after `MaxStageTimeouts`).

### Relations

The same tasks seen from the graph: `edges` (`task_relations`), and of the chain
only what matters to waiting: the state, a gate that reads (`RunReadiness`
evaluates, then commits), the parked wait with its heartbeat, completion,
cancellation and the fan-out. `addTaskRelation` is its checks
(`AddTaskRelation`) and then its insert (`InsertTaskRelation`), where the unique
indexes speak; `removeTaskRelation` deletes and then wakes. Two callers may both
check before either inserts. `stale` remembers whose check an insert of the same
kind has overtaken, `raced` the kinds such a caller has inserted into; both are
history and guard nothing. `Existing` are the relations there are in the beginning.

### Decisions

What an approval promises to somebody who sees only the decision and the tool: it
is resolved once; nothing acts unless it was approved; and a call that is not
safe to repeat does not act again once its outcome has been recorded, unless its
tool could not be found in between (`Miss`). How often
it may act *before* is left open on purpose: the code cannot close that window
(`db/queries/outcomes.sql:32-33`), and `OneOutcome` of `Toolflow` counts it.

### Toolflow

One durable workflow per decision, one agent's stage workflow that asks and
waits, a set `Client` of callers, crashes.

| in the model | in the code |
|---|---|
| `verdict` | `pending_decisions`: absent, open, or `resolution` once `resolved_at` is set |
| `waiter` | the rows with a `notify_workflow_id` |
| `outcomes`, `audits` | `tool_outcomes` of the decision (with the approved `decision_resolved` audit of the same transaction); the audits of a rejection or an expiry |
| `executed` | external: how often `registry.Execute` reached the tool |
| `wf`, `at`, `envelope`, `result` | DBOS: the tool-call workflow's status, its position, what it received and the checkpointed `stepOutcome` |
| `approvals`, `told` | messages on the approval topic and on the outcome topic |
| `thr`, `out` | its goroutine and what the running body has obtained; lost in a crash |
| `agent`, `asked`, `body` | the agent's stage workflow: position, decision ids its checkpoints hold, goroutine |
| `halted` | the task's state, as far as the proposal looks at it |
| `Repeatable` | the decisions whose tool's `Idempotent` says the call may be repeated |
| `Remote` | those whose tool is an MCP adapter, which never says so (`internal/mcp/adapter.go:99`) |
| `registry` | the decisions whose tool `tools.Registry` knows; in memory: a crash leaves the built-in tools, `Register` and `Deregister` change the remote ones |
| `slipped` | history: calls the guard let pass although an outcome was recorded, because the registry did not know the tool |

`dispatchAndRecord` is the guard, the call and the transaction that writes outcome
and audits. The guard asks the registry first and the outcomes only then
(`internal/toolflow/workflow.go:378`): it stops a call (`SkipExecute`) that is
registered, not safe to repeat and has an outcome, and lets every other pass
(`PassGuard`). The call looks into the registry again: `Execute`, or
`ExecuteUnknown` when the tool is not there, which is a bad outcome like any other.
`RecordOutcome` is the transaction; a crash before it is the window above. Remote
tools come and go at any time after a crash: `cmd/tendant/main.go:280` recovers the
workflows and `:304` registers the remote tools, so a recovered dispatch may run in
between, and a sync or the removal of a server may take a tool away (`Forget`). A
rejection is its audit (`AuditRejected`). The expiry is
two transactions, `ResolveExpired` and `AuditExpired`. A bad outcome that nobody
waits for is the step's error (`failing`): whether the runtime then runs the step
again is its retry policy, on which the comment at
`internal/toolflow/workflow.go:491-497` counts, so both happen: `Retry`, as often
as `MaxRetries`, and `GiveUp`. A caller is one action per statement:
`proposeToolCall` is `Compose`, `Insert`, `Start` and, when the gate approved,
`SendApproval`; `approveArtifact` and `rejectApproval` are `Answer` and
`SendApproval`. `Abandon` ends any of them early.

What is simplified: the gate's verdict is a free choice between approving and
asking; a denied call makes no decision, a read-only one runs the tool at once,
and both are left out. An agent's calls always ask: the only gate
`cmd/tendant/agentwiring.go:48-56,95-104` wires for it never approves. Its turns are a
free choice of asking, ending or failing. `Halt` sets the task's state, which is
all of `cancelTask` that bears on a tool call; that it also cancels the agent's
stage ends `Runner` and is left out here.

### Calibration

`outcomes` are the rows of `tool_outcomes` in the order of their time, `ripe` how
many have matured; `score` and `grant` are a tool's and a routine's rows;
`status`, `offer`, `answered` are the promotion proposals. Transactions are read
committed: `tx[x]` buffers what a demoting transaction has written and names the
rows it holds. Locks are what the code takes: the demotion locks its tools in
order (`LockTool`), reads the open proposals and withdraws them one by one
(`Withdraw`); an acceptance resolves its proposal (`ResolveProposal`) and then
locks the tool (`Accept`). The two orders can close a circle, and then the
database aborts one: `AbortTx`, `AbortAnswer`. The sweep holds nothing; its four
statements are `Scan`, `CheckGrant`, `Weigh`, `InsertProposal`, and the audit is
`Announce`. Scores are in hundredths, `Demote` and `PromoteTo` are
`internal/calibration/score.go`.

Left out: the column `tools.rung`, a copy of the score's band. The demotion and the
acceptance write it with the score, but `ReconcileTools` writes it as configured at
every boot (`internal/tools/seed.go`, `UpsertTool`), whatever `trust_score` is, so it is
no evidence of the band. The gate does not read it: `autonomyApprove` takes
`Band(trust_score)` (`internal/gate/autonomy.go:32`), and so does `Automatic` here. What
does read it is `DeriveAutonomy` (`graph/autonomy.go:80`), which labels a task for the
client and decides nothing.

### Intake

`queue` is the webhook's channel in memory, `signals` and `tasks` the rows,
`stage[p]` what DBOS has checkpointed of a poll, `run[p]` the step that runs, one
action per statement. A step that is cut by a crash or an error begins again with
what the tables hold. `run[p].list` are the unprocessed signals it has loaded, and
`Oldest` the one in hand: ids are in the order of `created_at`. `listing` is what the
source of an rss connector lists. `accepted` is the history of deliveries answered with
202, which `DeliveryKept` compares with. Owner requests switch a connector and its
schedule in two statements, in either order of failure.

### Feedback

The durable loop of one task (`wf`, `at`, `envelope`, `thr`) with its bodies
`Open`, expiry and record, each one action per transaction, and the
resolvers as sequences of statements: accepting with a note inserts the note
before it resolves, the conversation reads the payload, asks the model, and
writes it back. One loop is enough: loops share only the tools they demote, and
that is `Calibration`.

### Stage, Runner

`Stage` is what the chain sees: a bounded number of approvals, one after the
other, and one result, or else a wait for an answer that never comes. `Runner` is the loop of `internal/agent/runner.go`. `body`
is the goroutine's conversation, as counters (turns, calls, observations, nudges,
calls that have reached the gate); `saved` is what the last segment has
returned. A segment is one DBOS step, so a crash throws `body` away and runs it
again, with the calls it has already dispatched. What a call is (allowed,
not allowed, handoff) and what the gate says of it are free choices. So is whether an
approval is ever answered (`Hear`): an expiry that finds the decision resolved and a
dispatch that fails for good send nothing (`internal/toolflow/workflow.go:268-272`,
`:213-215`), and the wait has no deadline of its own. `Bounded` says
what that can come to: turns are bounded by `MaxIter` and one more for each approval
(the turn that asks is not counted), dispatches by the budget, and both again for each
segment that a crash makes run twice.

### Gate

A proposal looks at the tool's row once (`Propose`), then runs the layers in
the code's order: reads, the floor's three clauses, the active script (`Script`,
`NoScript`, or one of its errors), autonomy with the grant looked up only now
(`Autonomy`), the model with its cap (`Grade`), and last the audits (`Audit`).
`attachGateScript` is insert and point, `disableGateScript` is clear and disable,
separate statements that another request or a failure may come between.

### Realtime

`wire` are notifications on the LISTEN connection, `loading` the goroutines that
load their row, `owed[s]` how many dispatch loops have yet to come to subscriber
`s` while they hold the read lock, `buffer` and `out` the two bounded channels
of a subscription, `pump` its goroutine. The client is `socket`, its current
subscription, and the request for the first page, whose answer is stale
(`got = FALSE`) when a change commits after the read. `lost` remembers why the
client was not told of a change.

### Inbox

| in the model | in the code |
|---|---|
| `source`, `ended`, `weight`, `created` | the row itself, and its task's state and priority |
| `projected`, `hidden` | `inbox_messages`: `resolved_at`, `dismissed_at` |
| `sweep` | the rows the reconciling statement has selected and not yet inserted |
| `feed` | `InboxFeedState`: entries, next cursor, loading |
| `build`, `more` | requests for a first page and for a further one, from the list each has started from |
| `swiping` | `dismissInboxMessage` calls under way |
| `firm`, `swiped`, `raced` | history, for the properties |

Ranking is `Score` at a pinned clock with the id to break ties, and a page
(`PagesAfter`, a set of the one there is) the first `PageLimit` entries below the
cursor; `Orders` is what removing an entry leaves of a list. `ShowMore` writes back the list the request
has started from, as `loadMore` does.
A row whose details cannot be loaded is skipped in its page without a trace
(`internal/inbox/assemble.go:50-68`); that failure is left out.

### Overlay, Embedding

`Overlay` is one key: `stored` the row (or the file's value), `cached` the entry
of `Overlay.entries`, `wire` the notifications on the connection, `listener` and
`call[c]` the two that refresh, each a read and then an assignment. `missed`
remembers what has kept the process from acting on the last write.

| in the model | in the code |
|---|---|
| `boot` | how far `main` has come: the overlay is loaded, it listens, DBOS is launched, the first `EnsureActiveVersion` returns, the hook is set |
| `model` | the embedder, fixed at boot; only it decides what a vector is, the dimension is a label |
| `ensure` | the one call of `EnsureActiveVersion` there is at a time, after its transaction what is left to cancel and to start |
| `versions[v]` | a row of `embedding_versions` with its workflow's status and position |
| `thread[v]` | its goroutine |
| `vectors[s][b]` | with which model a batch in a slot was computed |
| `crossed`, `strays` | history: builds that went on under another model; superseded ones that were not cancelled |

`Provision` and `Deduplicate` are the transaction under the advisory lock,
`FlipLive` is the other. A crash may be followed by the same program or by
another: the runtime recovers only workflows of its own version, and
`RecoverOrphans` is not asked to look for this one. The index of a slot is
dropped in `Prepare` and built before the flip; both are left out, as is the
length recorded for it, and a batch is one step that fails or succeeds as a
whole.

## The runs

`CHECK_DEADLOCK FALSE` everywhere: the systems really stop when the calls of the
bound are used up and everything has ended or waits for a person.

Bounds. `MaxCalls` bounds calls ever made, `MaxCrashes`, `MaxFaults`, `MaxFailures`
(`Intake`), `MaxLosses` (`Runner`) and `MaxBreaks` (`Realtime`) crashes
and failed statements, `MaxLost` fan-outs that die, `MaxRetries` failed
dispatches that run again, `MaxChanges` and `MaxUpdates` (`Realtime`) the writes to rows, `MaxAsks` and
`MaxScrolls` the pages a phone reads. `MaxStageTimeouts` is the code's own
constant. Nothing else is bounded.

| run | instance | question, and why the bounds are enough |
|---|---|---|
| `chain_one` | one intake task with a start date, 2 clients, 3 calls, 1 crash, an agent for execution | do state, stage, assignments, chain row and audit agree in every interleaving; does an answer count, does a cancelled workflow end, does a parked task resume though nobody wakes it? The first call makes the task; agents return or hand over to a person, so that the other two can accept, complete, cancel or reschedule in any stage, and overlap; a crash may fall between any body and its checkpoint |
| `chain_blocks` | two tasks, one blocks the other, 1 client, 3 calls | does the gate hold against the blocker's own chain, completion and cancellation? Is the state column a `Board`? |
| `relations` | three tasks, one blocking another from the beginning, 2 callers, 2 calls, `blocks` edges, 1 lost caller or fan-out | does a cycle of blockers come only from calls that overlap, is a wake ever missed, does everybody get to go on? Two calls that overlap close a cycle, and the property names them; two in a row, with the edge there is, could close one of three tasks, which only the recursive check sees. `subtask_of` goes through the same check and insert; it and the uniqueness of a parent are left to the theorem, which is over all kinds, because both kinds together take TLC too long |
| `toolflow` | two decisions, one of them repeatable and the other's tool remote, 1 client with 1 call, 1 crash, 1 retry, the agent | is a decision resolved once and dispatched only when approved, is it dispatched again only when its tool is missing, is the agent told what happened, does every call end? The call proposes, with the gate's approval or without, or answers what the agent has asked. One crash, or one retry and one deregistration, is enough for a second outcome; more of each, more callers, and answers that meet are covered by the theorems |
| `calibration` | two routines of one tool, two proposals, one demotion, one answer and one sweep at a time, 2 outcomes, 1 fault | does a grant outlive a bad outcome, is a proposal current, does one that is earned come? One of each meets the two others in every order, the circle of locks included |
| `intake` | one connector of either kind, two polls, five items of every disposition, a cap of one, 2 deliveries, 1 switch, 1 fault | what may a delivery, a signal, an accepted task lose? |
| `feedback` | 2 clients, 3 calls, 1 fault | do record, note, audit and demotion follow from the one answer? Three calls are two that overlap and one that comes late |
| `realtime` | 2 subscriptions, 4 changes, channels of one, 1 fault | four changes fill both channels and the loop and overflow them; an old subscription winds up while the next begins |
| `runner` | 2 turns, a budget of 2, replies of 2 calls, any verdict, 1 fault | is the run bounded, heard, on record, and does it end, unless an approval is never answered? |
| `gate` | 2 proposals of 3, 2 owner requests, 2 versions, a cap of 1, 1 promotion or demotion, 1 fault | is nothing approved that should not be? The third proposal is what exceeds the cap when two overlap |
| `inbox` | three rows of the three membership rules, pages of one, 2 first pages, 2 further requests, 1 change, 1 tick, 1 fault | a page overlaps a refresh or another page, and a row moves, appears or goes in between |
| `embedding` | 2 models, 2 dimensions, 2 batches, 3 writes, faults and crashes together | is the cache true, is what serves whole and of its own model, is it never replaced by something older, and is it what is configured once all is quiet? Three are what it takes: a change that supersedes a build, a cancellation that fails, and a crash into another model; or two writes and one lost notification |

### Disagreements

No run is about a sentence the code breaks; the passing runs state what holds
instead, with the exception built in. The disagreements met while modelling:

Chain. A completion that has read "executing" overwrites a cancellation
(`internal/chain/workflow.go:705`; `specs/002-task-lifecycle-chain/spec.md:291`
"Terminal states ... MUST be sinks", `internal/lifecycle/edges.go:58`):
`Board.Overtake` concedes exactly that move. The accepted state and the chain are
two transactions, so a crash strands an accepted task
(`specs/002-task-lifecycle-chain/spec.md:374-385`). A workflow between two stages
opens the next assignment of a halted task before it sees the cancellation
(`graph/chain_cancel_race_test.go:14-15` fixes another order). Two overlapping
`completeTask` calls both succeed and leave an answer behind (`spec.md:239-241`).
A crash before a checkpoint opens a second assignment for a stage answered
meanwhile (`db/queries/assignments.sql:38-40`) or audits it twice
(`internal/chain/workflow.go:662`); two overlapping cancels audit twice
(`spec.md:245-248`). Dismissing a task that was accepted leaves its chain row live
(`spec.md:415-416`).

Relations. Two overlapping calls close a cycle neither has seen
(`graph/relations.graphqls:42-43` "Rejects ... cycles"; `graph/relations.resolvers.go:36-50`
checks and inserts in two statements). The tasks of such a cycle wait for one
another until somebody removes an edge. `CyclesNeedOverlap` says that there is no other
way into one.

Toolflow. A deadline that finds the decision answered ends without a word to the
agent, who waits for ever (`internal/agent/workflow.go:155-157` "always reports
back", `internal/toolflow/workflow.go:270`); so it does when the dispatch step fails for good
(`:213`). A dispatch that is run again while the registry does not know its tool passes
the guard and records a second outcome, a bad one, which costs the tool its trust
(`internal/toolflow/workflow.go:494-497` "exactly one bad outcome is recorded";
`:376-377` "Unknown tools fall through"). After a crash a failure may be reported to the
agent as a success (`:387-393`). A late approval of a halted task's
call is dispatched (`specs/004-universal-gate-floor/spec.md:111`).

Calibration. A flagged outcome still matures clean; the flag inserts a second row
(`specs/009-calibration-autonomy-ratchet/spec.md:207-208`, `:345-346`). An owner
who declines a proposal between the demotion's list and its withdrawal rolls the
demotion back together with the bad outcome (`internal/calibration/calibrator.go:226-235`).
A proposal for a routine that has been granted meanwhile can never be accepted.
A demotion that fails in `cancelTask` skips the wake and the cancellation of the
workflow (`graph/schema.resolvers.go:292`). A sweep that dies after its insert
never writes `promotion_proposed`.

Intake. Two overlapping polls make two tasks of a signal
(`specs/008-intake-edge-connectors/spec.md`, SC-004, FR-004); a crash after the capped
audit loses the signal (SC-005); a malformed delivery, or a fault, loses what was
drained with it; an accepted task that is found again never gets its chain; two
statements can leave an enabled connector without a schedule, or the reverse
(`internal/intake/scheduler.go:12-13`).

Feedback. Accepting goes on when the row was resolved by somebody else, and sends
its answer anyway; a note stays active when the deadline has won; an answer just
before the deadline is never recorded; a crash repeats audit and demotion;
overlapping messages lose what the other has consulted.

Runner. The budget is per stage run (`internal/agent/runner.go:146` "per-task ...
shared across stages", `specs/007-agent-layer-routing/spec.md:334`). "Audit the run open
exactly once" (`runner.go:305`) is once per run of the first segment. The calls
behind one that pauses are dropped without an observation. A gateway that cannot
be reached leaves no closing audit.

Gate. Overlapping attachments, or an attachment and a disabling, leave an older
version or none active; overlapping proposals exceed the cap of the overseer
(`specs/005-overseer-tool-grader/spec.md`, FR-011). After a script that handed
over or failed, an approval of the autonomy layer is explained as the script's
(`graph/phase3_helpers.go:309-326`).

Realtime. A full buffer ends the subscription (`internal/realtime/subscriber.go:10-16`
"never silent staleness"), and the client subscribes again after three seconds
without a refetch: what came in between is shown only with the next change.

Inbox. `internal/inbox/reconcile.go:16-21` repairs "any projection a write managed
to bypass"; the sweep inserts missing rows, an update that bypassed the trigger
is never repaired, and a resolved decision stays listed. A swiped entry comes back
when a page is under way, because `loadMore` writes back the list it has started
from. `bootstrap.dart` lets `dismiss` report success "so the UI can roll back an
optimistic removal"; `inbox_page.dart:250` ignores the result. A row that is
re-prioritised may be shown twice or not at all in one scroll.

Config and embedding. After a reconnect the overlay does not look at the table
(`internal/config/overlay.go:175`), nor is it told of a write between `Load` and `LISTEN`
(`cmd/tendant/main.go:132-136`); an owner's refresh that is slow puts an older value over a
newer one. `EnsureActiveVersion` takes a `building` row for a build under way: one whose
call was cut before the workflow's start, one whose workflow has failed, and one of an
older program are never finished and never replaced until the configuration changes.
"Correctness rests on the flip re-check, not on cancellation succeeding"
(`internal/embedding/reindex.go:302-303`) is true of the flip, but a superseded build that
was not cancelled still writes its batches into what is by then the serving slot. A
recovered build goes on with the model of the new process and flips under the old one's
name. A change of `embedding.dimension` rebuilds every vector with the same model, to the
same vectors.

What the passing runs show beside these is how far the damage goes: assignments
may be duplicated, but at most one is ever *open*; a cancellation may be
overwritten, but there is no other illegal move; an answer may be left behind, but
a waiting workflow can always be answered; an agent may be left waiting, but
only when the call's workflow has failed or in the two cases `EndIsAccounted` names, and
then the tool was not called; a call may get a second outcome, but only while its tool is
missing, and each costs a crash or a retry; tasks may block one another, but only through
inserts that overlapped; a
feed may be stale, but only for one of four causes; a late build may write into the serving
slot, but it never takes over.

### Fairness

`FairSpec` of `Chain` asks for weak fairness of `Drive(t)`: the DBOS runtime
goes on with a workflow it can go on with, recovers it after a crash, and its
timers fire. That is what `durable.Init` and DBOS's recovery provide. Nothing is
assumed of people, agents or callers there; `AgentReturns`, `Poison` and `DateArrives`
are not fair either. `Relations` has the same fairness, per task, of the gate,
the heartbeat and the completed task's fan-out; that an *executing* task
completes, and that a cycle of blockers does not stay, is not assumed but a premise of
`NobodyWaitsForever`. Recovery is by the same program: that DBOS leaves workflows of
an older version alone, and `RecoverOrphans` names only those of `Chain` and `Feedback`
(`cmd/tendant/main.go:285-292`), is a limit of what is said of `Toolflow` and `Runner`.
`FairSpec` of `Toolflow` asks it of `Drive(d)` for each decision and of the
agent's own steps, `DriveAgent`. `Drive` contains the deadline: the wait has one,
`hitl.approval_timeout`, which is positive by default; a non-positive setting
would mean none. `Register` is not fair: a remote tool may stay away. That the agent asks, ends or registers is not fair, nor is
anybody's answer, and no step is obliged to fail.

`Calibration`: transactions and answers that have begun go on or are aborted, and
a sweep goes on; the schedule of the sweep is DBOS's cron. `Feedback`: `WF(Step)`,
the loop's steps, its recovery and its deadline of 168 hours. `Realtime`: the
dispatcher reconnects and its goroutines run, each pump runs, and the client
connects, subscribes and reads answers; that its requests fail, the socket drops
or the app comes back to the foreground is not fair. `Runner`: `WF(Step)`, the
segment that runs, its checkpoint, the registration of an approval and the recovery.
That the approval is answered (`Hear`) is not fair, so the liveness of `StageSpec` is
that the run has a result or waits for good; `AgentGoesOn`, in `NobodyIsLeftWaiting`,
says when `Toolflow` answers. `Inbox`: `WF(Reconcile)` and `WF(Repair)`, the sweep's schedule of 15
minutes. `Intake`, `Gate` and `Embedding` state no
liveness; `QuietServesConfig` says of the last what is so when nothing is left to do.

## The theorems

`ChainProofs` (over any set of tasks, blocking relation, callers, bounds):

- `Invariance`: `Spec => []Inv`. `Inv` is the conjunction of `TypeOK`;
  `WorkflowShape` (position, stage being served and goroutine fit, and a body
  that has run leads where its step may lead); `CallShape` (a caller works on a
  task, and a slot, that exists); `GateHeld`; `StageShape`.
- `TypeCorrect`, `GateIsKept` (`ExecutionAfterBlockers`), `StagesAdvance`
  (`StageOnlyForward`) follow from it.
- `Implements`: `Spec => BoardSpec`, the refinement.

Why the strengthening. `ExecutionAfterBlockers` alone is not inductive: from a
halted state with unfinished blockers a completion could write `done`. So
`GateHeld` adds that from the moment the gate's body has decided, through the
execution stage and to the end of completion, the blockers are finished and the
task is executing, done or halted - and that needs `WorkflowShape`, because only
the position says that the gate has been passed. A blocker that has ended stays
ended: every action that changes a state either starts from one that is not
terminal or overwrites `halted` with `done`. For `StageOnlyForward` the danger
is a body that runs again: `StageShape` says that the stage in the table is the
one being served or, only while `advance` or `resolve` is the position, the next.

- `TablesInvariance`: `Spec => []TablesInv`, and from it `TablesStayInAgreement`
  (`TablesAgree`) and `WaitersCanBeAnswered` (`WaiterHasItsSlot`). `TablesInv` adds
  to `Inv`: `RowShape` (a chain row and a workflow are made by one caller at a
  time), `Progress` (where the workflow of a task in a given state may stand),
  `SlotShape` (no assignment is ahead of the workflow, the open one is the last
  of all and of the stage being served), `OnceShape` (without a crash, one
  assignment per stage and one audit of each that has been resolved), `WaitShape`
  (a wait has an open assignment or an answer) and `AuditShape` (who may still
  write a second cancel audit).

Why. The tables are written in separate transactions by the resolvers, by cancel
cleanup and by a workflow whose bodies run again, and each conjunct compares two
of them at rest. What makes them agree is the position of whoever is between two
transactions, so every part is indexed by it: a caller that is about to close an
assignment has left the answer in the mailbox, or the workflow has gone by
(`CloseOf`); a stage without a checkpoint may be opened or audited again, but only
if a crash has made its body run again, hence `OnceShape` for `crashes = 0` and
the audit bound of the rest. That the number of cancel audits is bounded by the
number of callers counts the callers that have read a state which was not
terminal, and needs `IsFiniteSet(Client)`.

`RelationsProofs` (over any tasks, kinds, callers and bounds):

- `TypeCorrect`;
- `CyclesOnlyByOverlap`: `Spec => []CyclesNeedOverlap`, for any number of callers
  that overlap as they like. A cycle is stated as a closed set: a non-empty set of
  tasks each with a successor inside it. `InsertKeepsAcyclic`: if adding an edge
  made such a set, the tasks the new edge's target reaches would form one
  without it, unless they reach its source - which is what the check asks. The
  invariant `GraphInv` carries the check's answer from `AddTaskRelation` to
  `InsertTaskRelation` for every caller no insert of the kind has overtaken, since
  removing an edge never makes a task reach another; a caller that was overtaken is
  `stale`, and what it inserts makes its kind `raced`.
- `NoWakeMissed`: `Spec => []NoMissedWake`, with calls that overlap as they like.
  `NoMissedWake` speaks of tasks that are parked; its invariant `WakeInv` begins
  earlier, when the gate has read a blocker and not yet committed what it
  decided, for the last blocker may go in between. From there on a wake is in the
  topic, or a fan-out has the task in its list or will find it there, or a
  caller that removed the edge or cancelled the blocker will. The proof is one
  lemma for a step that leaves all of them in place (`ComingStays`) and one for
  each who wakes (`CallerWakes`, `WorkflowWakes`). A caller or a fan-out that dies
  half way is the exception: `lost`.

`ToolflowProofs` (over any decisions, any of them repeatable or remote, callers, bounds):

- `Invariance`: `Spec => []Inv`. `Inv` is the conjunction of `TypeOK`;
  `Agreement` (messages, envelopes, callers and the agent carry what the
  decision's row says, and the tool was called only for an approved one);
  `StepShape` (status, position and goroutine fit, and fit the row); `Ledger`
  (calls of the tool, recorded outcomes and what a body reports, at each point of
  a step); `Budget` (a dispatch step that has yet to call or to record has the crashes
  and retries to pay for it); `OneOutcome`.
- `TypeCorrect`, `OutcomeOnce`, `AgentToldTheTruth`, `EveryEndAccounted`
  follow from it: each is what `StepShape` and `Ledger` say of a workflow that
  has ended.
- `Implements`: `Spec => DecisionsSpec`, the refinement.

Why the strengthening. `OneOutcome` bounds calls by crashes, and a crash does
not say whose body it cut short. `Ledger` therefore counts where it matters: a
dispatch step about to run, with no outcome recorded, has called the tool at most
as often as the process has died - calling it once more is then within the bound,
and recording the outcome closes the guard, as long as the registry knows the tool.
`slipped` are the calls for which it did not. They are not lost to the theorem: `Budget`
compares their calls and outcomes with crashes and retries together, because only these
run the step again. That the guard's answer
stays true needs `StepShape`, because the approved audit and the outcome are one
transaction only of the body at that position. `Agreement` is what makes the
first write win for the tool too: a message, once sent, is what the row says, so
an envelope never dispatches a rejected or an expired decision. The types depend
on it as well, as the agent starts the decision it has asked for last.

`FeedbackProofs` (over any callers, ratings, context and bounds):

- `Invariance`: `Spec => []Inv`. `Inv` is the conjunction of `TypeOK`; `StepShape`
  and `CallShape` (where the loop and a caller are, and what the decision's row
  then says); `Messages` (an answer on its way is one somebody has given);
  `Ledger` (audits, demotions and records, at each point of a step); `Unfailing`
  (what holds as long as nothing has failed); `NoteClosesDecision`.
- `TypeCorrect`, `RecordsAgree` (`AnswerAgrees`), `NothingIsLeftOver`
  (`LeftoversAreExplained`), `ConsultedIsLostOnlyByOverlap`
  (`ConsultedAccumulates`).

Why the strengthening. That a loop which ends without a record has been beaten by
its deadline is about the end, but a fault and a late answer happen long before.
`Unfailing` therefore carries, through each position, which answers can still be
read if nothing has failed so far.

`EdgeProofs` (over any values of all constants) is about four components at the
edges of the system. It extends `Runner`, `Inbox`, `Intake` and `Realtime` at once,
which is why what all modules have bears their name in these four (`RunnerSpec`,
`InboxSpec` and so on) and each counts its faults under a name of its own. No theorem
relates two of them.

- Of `Runner`: `RunnerTypes`; `RunnerBounded` (`Bounded`); `RunnerAccounts`
  (`RunIsAccounted`); and `RunnerIsAStage`, `RunnerSpec => Abstract!Spec`: whatever the
  segments do, the run is a stage as the chain takes it. That is the safety half of
  `StageSpec`.
- Of `Inbox`: `InboxTypes`; `InboxScrolls` (`ScrollIsWhole`); `InboxKeepsAway`
  (`SwipedStaysAway`).
- Of `Intake`: `IntakeTypes`; `IntakeAccounts` (`SignalsAreAccounted`); `IntakeDrives`
  (`DrivenUnlessCut`).
- Of `Realtime`: `RealtimeTypes`; `NeverSendsOnClosed` (`NoSendOnClosed`);
  `StaleOnlyForACause` (`StaleIsExplained`).

`RunInv`. `Bounded` speaks of the saved conversation and of totals, and neither is
inductive: a crash throws the conversation away and keeps what it has spent.
`Spent` therefore compares dispatches and model calls with the conversation that is
running, or would run next, plus what crashes have cut off; `Speech` and `Balanced` say
that turns are iterations and outcomes told, and calls those observed, told, dropped or
still open, at every point of a reply; `Resumes` that a saved conversation has ended in a
call that was put to the owner, or is empty. `Opened` and `Closed` do the same for the
rows of the trail.

`BoxInv`. `ScrollIsWhole` is about the list on the screen, but a page is computed long
before it is shown, and from a list the screen may no longer have. `Follows` says what a
page on its way holds: what lies between the cursor it was asked with and its own, on the
clock of its scroll. `Shown` says of every list, the ones that requests carry included,
that it is whole up to its cursor, `Further` that cursors only move on, and `Stands`
that what has not moved since the scroll began is still listed. `Away` is the same for
an entry that was swiped: no list that can still come back holds it.

`TakeInv`. `AllHands` says what each poll holds at each step of a disposition, and
`TakeOthers` is the lemma that no other poll's step disturbs it, since the tables only
grow. `Driven` names the poll that has still to start an accepted task. For the deliveries,
`AllKept` follows each through its stations: the tail of the queue (`QueueIsTail`), a
batch, where it lies behind those accepted right before it (`Held`), and a signal; or it
is malformed, or behind one that is. That the signal in hand is the oldest needs the
least element of a set of numbers, which `LeastNat` takes from the well-foundedness of
the order.

`LiveInv`. `StaleIsExplained` speaks of rest; `LiveTold` must follow one change through
the wire, the loop, two channels and the request it causes, and say at each place that
something further on is still to come. `LiveMembers` says that a subscriber is in the map
until its pump removes it and loops only come to those in the map, `LiveServed` that a
current subscription's pump runs unless it was ended.

`GateProofs` (over any tool, calls, scripts, versions, requests and bounds):

- `Invariance`: `Spec => []Inv`. `Inv` is the conjunction of `TypeOK`; `Carried`
  (what a proposal has found at each layer is still true of what it has read, and a
  verdict follows from it); `Counted` (evaluations on record are those of proposals
  that have ended, and one that passed the cap did so while there was room for it
  and for all that did not overlap it); `Requests`, which is `Versions`, `Exclusive`
  and `Pointing` (what a request has inserted or cleared, that without overlap there
  is one request at a time, and where the tool points between its statements).
- `ApprovalsEntitled` (`ApprovalEntitled`), `CapKept` (`CapUnlessOverlapping`),
  `PointerKept` (`PointerFollowsRows`).

Why the strengthening. Each property compares a verdict with a row as it was when
it was read, or the tables with a history of who overlapped; both are gone when the
request ends, so the invariant carries them from statement to statement.

`CalibrationProofs` (over any tools, routines, proposals, transactions, requests,
sweeps and knobs):

- `Invariance`: `Spec => []Inv`. `Inv` is the conjunction of `TypeOK`; `OfferShape`,
  `SweepShape` (a proposal, and a sweep that makes one, name a routine); `TxShape` (the outcome a demotion adds is
  about a tool it locks or will lock, and its list holds every open proposal of a
  locked tool but those made after the lock); `ToolLocks`, `RowLocks` (who holds a
  tool's or a proposal's row holds it alone); `OwnerShape` (a proposal that is
  being accepted is open); and the properties.
- `GrantsAreEarned` (`GrantIsEarned`), `ProposalsStayHonest` (`ProposalsAreHonest`),
  `OnlyConsent` (`OnlyConsentRaises`).

Why the strengthening. An acceptance and a demotion take the same two rows in
opposite order, and each looks at a proposal before it holds the row. That
nothing is accepted while it is withdrawn rests on the tool's row: the acceptance
needs it last, the demotion holds it from its list to its commit. That what is
open after the commit is current rests on the list: what was open at the lock is
on it and withdrawn, what came later was made by a sweep while the lock was held
and says so (`raced`). And a resolution keeps the proposal's row until it has the
tool's, so that its look stays true (`RowLocks`, `OwnerShape`). `OnlyConsentRaises`
compares two states; it needs `OwnerShape`, because the step that accepts reads no
status, and that a lower score has no higher band (`ScoreMoves`).

`EmbeddingProofs` (over any models, dimensions, callers, batches and bounds):

- `Invariance`: `Spec => []Inv`. `Inv` is the conjunction of `TypeOK`; `BootShape`
  (what runs at which point of the boot); `CacheShape` (with nothing on the wire and
  nothing missed, the cached value, or the one the listener is about to assign, is
  the stored one); `VersionShape` and `SlotShape` (only the last version may be
  building, one serves, in the other slot, and one at most is about to be
  cancelled); `WriterShape` (another workflow that still writes into a slot in use
  is a stray, or was superseded under the model this process runs);
  `VectorShape` (each batch a version has written is there, and of its model but
  for the two causes); `AimShape` (a change that was heard of is being built, or
  serves).
- `CacheAlwaysTrue` (`CacheIsTrue`), `ServingAlwaysTrue` (`ServingIsTrue`),
  `QuietServes` (`QuietServesConfig`), `ServingOnlyForward` (`ServingMovesForward`).

Why the strengthening. `ServingIsTrue` is about what a search meets, long after it
was written: `VectorShape` carries it from batch to batch through a build, and
`WriterShape` names everybody who could still spoil it. That there is one such
workflow at most per slot is what `SlotShape` says of the cancellation, and it needs
that a superseded build that is still pending is being cancelled (`VersionShape`).
`QuietServesConfig` is about the end of a chain of notifications; `AimShape` is
the same claim at every link.

Only model-checked: the liveness properties (`WorkflowGoesOn`, `NobodyWaitsForever`,
`NobodyIsLeftWaiting`, `ProposalComes`, `LoopEnds`, `SubscribedAgain`, the end in
`StageSpec`, `OpenRowsAreListed`), which need fairness and `ENABLED` and are out of the
prover's reach, as is anything by induction over data. All invariants and action
properties of the runs are proved. Only proved, not listed in a run: the invariants of the
proof modules (each has been checked by TLC on a small instance before) and the types.

The assumptions of the theorems are the named ones of the modules: that the sets
are what they are meant to be, that bounds are natural numbers
(`BoundAssumption` of each; `RunnerBounds`, `InboxBounds`, `IntakeBounds`), and

- `TaskAssumption` and `ClientAssumption` of `Chain` (`Client` is finite: requests
  being served), `KindAssumption` of `Relations`, `DecisionAssumption` of
  `Toolflow`, `FeedbackAssumption`, `RealtimeAssumption`, `ModelAssumption` of
  `Embedding` (no model is the empty vector), `ShapeAssumption` and
  `ClientAssumption` of `Gate`;
- of `Calibration`, `RoutineAssumption` (every routine has a tool, and the NULL
  fingerprint is none), `KnobAssumption`, and `TxAssumption`: a demoting
  transaction is not a request of the owner, each being a connection of its own;
- of `Inbox`, `MessageAssumption` (ids are numbers, and the rows finitely many) and
  `RowAssumption` (every row has a rule and a date); of `Intake`, `SourceAssumption` (a
  malformed item is an item, and each has a disposition) and `DialAssumption` (the dial is
  in hundredths, the cap not zero); of `Runner`, `RunnerBounds` alone.

## What is not modelled

The components listed with `not_modelled` in `PROJECT.json`, with the reason
there: remote services, sessions, cryptography and HTTP wiring
have no protocol that TLC would say anything about. Of the phone only the inbox
and its subscription are modelled; its outbox of offline mutations and its
normalised cache are not. The resolvers' queries, authorisation and the mapping to
GraphQL change no state, and most of the server's lines are that mapping, generated
from the schema.

A receive that ends because the process shuts down could be taken for an expired
deadline (`internal/chain/wait.go:62`); whether it is depends on what the library
returns then, and the models let a crash end a wait without an outcome. DBOS and
PostgreSQL are external: a step runs at least once, a transaction is atomic, a
locked row is read as it is, a `Send` is durable and is received in order.
