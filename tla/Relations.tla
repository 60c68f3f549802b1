----------------------------- MODULE Relations -----------------------------
(***************************************************************************)
(* The task graph while it changes: owners add and remove relations        *)
(* (graph/relations.resolvers.go) while the readiness gates of the chain   *)
(* read them and finished tasks wake the tasks they blocked.               *)
(*                                                                         *)
(* A task's chain is reduced to its gate, its completion and the fan-out   *)
(* after it; Chain has the rest.  The gate is finer here: it reads the     *)
(* blockers and then commits, holding the lock of its own task's row but   *)
(* none on the blockers or the edges.                                      *)
(***************************************************************************)
EXTENDS Lifecycle

CONSTANTS Task,      \* the tasks, all past their expansion stage
          Existing,  \* the relations there are in the beginning
          UsedKind,  \* the kinds of relation callers add
          Client,    \* concurrent callers
          MaxCalls,  \* bound: calls ever made
          MaxLost    \* bound: callers and fan-outs that die half way

Kind == {"blocks", "subtask_of", "related", "duplicate_of"}
AcyclicKind == {"blocks", "subtask_of"}
SingleKind == {"subtask_of", "duplicate_of"}

ASSUME KindAssumption == UsedKind \subseteq Kind

ASSUME BoundAssumption == MaxCalls \in Nat /\ MaxLost \in Nat

Edge == [from : Task, to : Task, kind : Kind]

\* Every set of tasks has one that no edge of kind k in E leads from back into the set.
AcyclicIn(E, k) ==
  \A S \in (SUBSET Task) \ {{}} :
    \E s \in S : \A t \in S : [from |-> s, to |-> t, kind |-> k] \notin E

ASSUME ExistingAssumption ==
  Existing \subseteq Edge /\ \A k \in AcyclicKind : AcyclicIn(Existing, k)

VARIABLES
  edges,        \* task_relations
  state,        \* tasks.state
  at, ready,    \* where a task's workflow stands, what its gate has read
  wakes,        \* undelivered wake messages of its blocked topic
  todo,         \* dependents its fan-out still has to wake
  call,         \* what each client is doing
  calls, lost,  \* how much of the bounds is used
  stale,        \* history: callers whose cycle check an insert has overtaken
  raced         \* history: the kinds into which such a caller has inserted

flow == <<at, ready, todo>>
history == <<stale, raced>>
vars == <<edges, state, flow, wakes, call, calls, lost, history>>

Idle == [pc |-> "idle"]
Inserting == [pc : {"insert"}, edge : Edge]
Listing == [pc : {"list"}, task : Task]
Waking == [pc : {"wake"}, todo : SUBSET Task]

TypeOK ==
  /\ edges \subseteq Edge
  /\ state \in [Task -> {"accepted", "waiting", "executing", "done", "halted"}]
  /\ at \in [Task -> {"gate", "decided", "parked", "execution", "list", "wake", "end"}]
  /\ ready \in [Task -> BOOLEAN]
  /\ todo \in [Task -> SUBSET Task]
  /\ wakes \in [Task -> Nat]
  /\ call \in [Client -> {Idle} \cup Inserting \cup Listing \cup Waking]
  /\ calls \in 0 .. MaxCalls
  /\ lost \in 0 .. MaxLost
  /\ stale \subseteq Client
  /\ raced \subseteq Kind

Init ==
  /\ edges = Existing
  /\ state = [t \in Task |-> "accepted"]
  /\ at = [t \in Task |-> "gate"]
  /\ ready = [t \in Task |-> FALSE]
  /\ todo = [t \in Task |-> {}]
  /\ wakes = [t \in Task |-> 0]
  /\ call = [c \in Client |-> Idle]
  /\ calls = 0
  /\ lost = 0
  /\ stale = {}
  /\ raced = {}
-----------------------------------------------------------------------------
(* Queries. *)

\* Where the k-edges out of a set of tasks lead.
Successors(S, k) == {t \in Task : \E s \in S : [from |-> s, to |-> t, kind |-> k] \in edges}

\* Mutant: the query does not recurse.
ReachesDirectly(e) == [from |-> e.to, to |-> e.from, kind |-> e.kind] \in edges

\* The recursive query: e.from is in every set that has the successors of e.to and
\* with a task its successors.
RelationWouldCycle(e) ==
  \A S \in SUBSET Task :
    Successors({e.to}, e.kind) \cup Successors(S, e.kind) \subseteq S => e.from \in S

\* The unique constraint and the two partial unique indexes.
MayInsert(e) ==
  /\ e \notin edges
  /\ e.kind \in SingleKind => \A f \in edges : f.kind = e.kind => f.from # e.from

Unmet(t) ==
  {b \in Task : [from |-> b, to |-> t, kind |-> "blocks"] \in edges /\ ~IsTerminal(state[b])}

\* Mutant: only tasks whose row says waiting are woken.
WaitingDependents(t) ==
  {d \in Task : [from |-> t, to |-> d, kind |-> "blocks"] \in edges /\ state[d] = "waiting"}

Dependents(t) ==
  {d \in Task : /\ [from |-> t, to |-> d, kind |-> "blocks"] \in edges
                /\ state[d] \in {"accepted", "waiting"}}
-----------------------------------------------------------------------------
(* The callers. *)

Count == calls < MaxCalls /\ calls' = calls + 1

Begin(c, next) == Count /\ call[c] = Idle /\ call' = [call EXCEPT ![c] = next]

\* addTaskRelation: no self-link, no cycle ...
AddTaskRelation(c, e) ==
  /\ e.from # e.to
  /\ e.kind \in AcyclicKind => ~RelationWouldCycle(e)
  /\ Begin(c, [pc |-> "insert", edge |-> e])
  /\ UNCHANGED <<edges, state, flow, wakes, lost, history>>

\* Who has checked an edge of kind k and not inserted it yet.
Checked(k) == {d \in Client : call[d].pc = "insert" /\ call[d].edge.kind = k}

\* ... then, in a statement of its own, the insert.
InsertTaskRelation(c) ==
  /\ call[c].pc = "insert"
  /\ LET e == call[c].edge
     IN  \/ /\ MayInsert(e)
            /\ edges' = edges \cup {e}
            /\ stale' = (stale \cup Checked(e.kind)) \ {c}
            /\ raced' = IF c \in stale THEN raced \cup {e.kind} ELSE raced
         \/ ~MayInsert(e) /\ stale' = stale \ {c} /\ UNCHANGED <<edges, raced>>
  /\ call' = [call EXCEPT ![c] = Idle]
  /\ UNCHANGED <<state, flow, wakes, calls, lost>>

\* The caller has the tasks in D left to wake.
WakeNext(D) == IF D = {} THEN Idle ELSE [pc |-> "wake", todo |-> D]

\* removeTaskRelation: the delete, and for a blocker a wake of the to-task.
RemoveTaskRelation(c, e) ==
  /\ e \in edges
  /\ edges' = edges \ {e}
  /\ Begin(c, IF e.kind = "blocks" THEN WakeNext({e.to}) ELSE Idle)
  /\ UNCHANGED <<state, flow, wakes, lost, history>>

\* cancelTask and what it does to the board: halt the task, under its lock, then
\* list and wake its dependents.
CancelTask(c, t) ==
  /\ ~IsTerminal(state[t]) /\ at[t] # "decided"
  /\ state' = [state EXCEPT ![t] = "halted"]
  /\ Begin(c, [pc |-> "list", task |-> t])
  /\ UNCHANGED <<edges, flow, wakes, lost, history>>

ListDependents(c) ==
  /\ call[c].pc = "list"
  /\ call' = [call EXCEPT ![c] = WakeNext(Dependents(call[c].task))]
  /\ UNCHANGED <<edges, state, flow, wakes, calls, lost, history>>

WakeTask(c) ==
  /\ call[c].pc = "wake"
  /\ \E d \in call[c].todo :
       /\ wakes' = [wakes EXCEPT ![d] = @ + 1]
       /\ call' = [call EXCEPT ![c] = WakeNext(@.todo \ {d})]
  /\ UNCHANGED <<edges, state, flow, calls, lost, history>>

\* The caller dies between two statements.
Abandon(c) ==
  /\ call[c] # Idle
  /\ lost < MaxLost /\ lost' = lost + 1
  /\ call' = [call EXCEPT ![c] = Idle]
  /\ stale' = stale \ {c}
  /\ UNCHANGED <<edges, state, flow, wakes, calls, raced>>
-----------------------------------------------------------------------------
(* The workflows. *)

EvaluateReadiness(t) ==
  /\ at[t] = "gate"
  /\ \/ /\ IsTerminal(state[t])
        /\ at' = [at EXCEPT ![t] = "end"] /\ UNCHANGED ready
     \/ /\ ~IsTerminal(state[t])
        /\ at' = [at EXCEPT ![t] = "decided"]
        /\ ready' = [ready EXCEPT ![t] = Unmet(t) = {}]
  /\ UNCHANGED <<edges, state, todo, wakes, call, calls, lost, history>>

\* The transition the gate decided on commits.
RunReadiness(t) ==
  /\ at[t] = "decided"
  /\ state' = [state EXCEPT ![t] = IF ready[t] THEN "executing" ELSE "waiting"]
  /\ at' = [at EXCEPT ![t] = IF ready[t] THEN "execution" ELSE "parked"]
  /\ ready' = [ready EXCEPT ![t] = FALSE]
  /\ UNCHANGED <<edges, todo, wakes, call, calls, lost, history>>

WaitForWake(t) ==
  /\ at[t] = "parked" /\ wakes[t] > 0
  /\ wakes' = [wakes EXCEPT ![t] = @ - 1]
  /\ at' = [at EXCEPT ![t] = "gate"]
  /\ UNCHANGED <<edges, state, ready, todo, call, calls, lost, history>>

\* Mutant: a parked task waits for a wake only.
HeartbeatNever(t) == FALSE /\ UNCHANGED vars

Heartbeat(t) ==
  /\ at[t] = "parked" /\ wakes[t] = 0
  /\ at' = [at EXCEPT ![t] = "gate"]
  /\ UNCHANGED <<edges, state, ready, todo, wakes, call, calls, lost, history>>

\* The execution stage is over; a halt that came before is left alone.
RunCompletion(t) ==
  /\ at[t] = "execution"
  /\ state' = [state EXCEPT ![t] = IF @ = "executing" THEN "done" ELSE @]
  /\ at' = [at EXCEPT ![t] = "list"]
  /\ UNCHANGED <<edges, ready, todo, wakes, call, calls, lost, history>>

\* The tasks in D are still to be woken by t's workflow, which then ends.
FanOut(t, D) ==
  /\ todo' = [todo EXCEPT ![t] = D]
  /\ at' = [at EXCEPT ![t] = IF D = {} THEN "end" ELSE "wake"]

RunListDependents(t) ==
  /\ at[t] = "list"
  /\ FanOut(t, Dependents(t))
  /\ UNCHANGED <<edges, state, ready, wakes, call, calls, lost, history>>

WakeDependent(t) ==
  /\ at[t] = "wake"
  /\ \E d \in todo[t] :
       /\ wakes' = [wakes EXCEPT ![d] = @ + 1]
       /\ FanOut(t, todo[t] \ {d})
  /\ UNCHANGED <<edges, state, ready, call, calls, lost, history>>

\* The process dies during the fan-out: the restarted workflow finds a terminal
\* task and returns at once.
QuickExit(t) ==
  /\ at[t] \in {"list", "wake"} /\ IsTerminal(state[t])
  /\ lost < MaxLost /\ lost' = lost + 1
  /\ FanOut(t, {})
  /\ UNCHANGED <<edges, state, ready, wakes, call, calls, history>>

\* A workflow whose task was halted is cancelled, or takes its sentinel.
Unwind(t) ==
  /\ at[t] \in {"gate", "parked", "execution"} /\ state[t] = "halted"
  /\ at' = [at EXCEPT ![t] = "end"]
  /\ UNCHANGED <<edges, state, ready, todo, wakes, call, calls, lost, history>>
-----------------------------------------------------------------------------
Call(c) ==
  \/ \E f, t \in Task, k \in UsedKind :
       AddTaskRelation(c, [from |-> f, to |-> t, kind |-> k])
  \/ \E e \in edges : RemoveTaskRelation(c, e)
  \/ \E t \in Task : CancelTask(c, t)

Continue(c) == InsertTaskRelation(c) \/ ListDependents(c) \/ WakeTask(c)

\* What the DBOS runtime does by itself; RunCompletion needs a person or an agent.
Drive(t) ==
  \/ EvaluateReadiness(t) \/ RunReadiness(t) \/ WaitForWake(t) \/ Heartbeat(t)
  \/ RunListDependents(t) \/ WakeDependent(t)

Next ==
  \/ \E c \in Client : Call(c) \/ Continue(c) \/ Abandon(c)
  \/ \E t \in Task : Drive(t) \/ RunCompletion(t) \/ QuickExit(t) \/ Unwind(t)

Spec == Init /\ [][Next]_vars

FairSpec == Spec /\ \A t \in Task : WF_vars(Drive(t))
-----------------------------------------------------------------------------
(* Properties. *)

\* A pending insert was checked: it is no self-link and, unless another insert has
\* overtaken the check, closes no cycle.
CheckedInsert(c) ==
  call[c].pc = "insert" =>
    /\ call[c].edge.from # call[c].edge.to
    /\ call[c].edge.kind \in AcyclicKind /\ c \notin stale => ~RelationWouldCycle(call[c].edge)

\* A cycle of blocks or subtask_of, whose tasks would wait for each other for ever,
\* comes about in one way only: a caller inserts a relation of that kind although
\* another one was inserted after its check.  (addTaskRelation checks and inserts in
\* two statements; relations.graphqls promises that it rejects cycles.)
CyclesNeedOverlap == \A k \in AcyclicKind \ raced : AcyclicIn(edges, k)

\* Unless a caller or a fan-out died, a parked task that could run has a wake in its
\* topic, or one that somebody is about to send: the wake-ups of removed edges and of
\* finished blockers are not lost between the gate's read and its wait.
NoMissedWake ==
  \A t \in Task :
    lost = 0 /\ at[t] = "parked" /\ state[t] = "waiting" /\ Unmet(t) = {} =>
      \/ wakes[t] > 0
      \/ \E b \in Task : \/ at[b] = "list" /\ t \in Dependents(b)
                         \/ t \in todo[b]
      \/ \E c \in Client : \/ call[c].pc = "list" /\ t \in Dependents(call[c].task)
                           \/ call[c].pc = "wake" /\ t \in call[c].todo

\* If every task that executes finishes and no cycle of blockers stays, nobody waits for
\* ever, whatever order relations are added, removed and tasks cancelled in, and
\* although wakes are lost.
NobodyWaitsForever ==
  /\ \A t \in Task : []<>(state[t] # "executing")
  /\ []<>AcyclicIn(edges, "blocks")
  => \A t \in Task : state[t] = "waiting" ~> state[t] # "waiting"
=============================================================================
