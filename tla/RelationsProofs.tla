-------------------------- MODULE RelationsProofs --------------------------
(***************************************************************************)
(* Proofs about Relations: types; that the blocking graph and the subtask  *)
(* graph get a cycle in one way only, by an insert whose check another     *)
(* insert has overtaken; and that however calls overlap, no parked task    *)
(* misses the wake it waits for.                                           *)
(***************************************************************************)
EXTENDS Relations, TLAPS

USE KindAssumption, BoundAssumption, ExistingAssumption
-----------------------------------------------------------------------------
(* The cycle check, whatever the graph. *)

\* If no k-edge path leads from e.to back to e.from, adding e closes no cycle: in a
\* set that meets what is reachable from e.to, an old sink of that part stays one.
LEMMA InsertKeepsAcyclic ==
  ASSUME NEW e \in Edge, NEW k \in Kind, AcyclicIn(edges, k), edges' = edges \cup {e},
         e.kind = k => e.from # e.to /\ ~RelationWouldCycle(e)
  PROVE  AcyclicIn(edges, k)'
  <1> DEFINE Link(x, y) == [from |-> x, to |-> y, kind |-> k]
  <1>1. \A x, y \in Task : Link(x, y) \in edges' =>
          Link(x, y) \in edges \/ (e.kind = k /\ x = e.from /\ y = e.to)
    BY DEF Edge
  <1> SUFFICES ASSUME NEW S \in (SUBSET Task) \ {{}}
               PROVE  \E s \in S : \A t \in S : Link(s, t) \notin edges'
    BY DEF AcyclicIn
  <1>2. \A A \in (SUBSET Task) \ {{}} : \E s \in A : \A t \in A : Link(s, t) \notin edges
    BY DEF AcyclicIn
  <1>3. CASE e.kind # k BY <1>1, <1>2, <1>3
  <1>4. CASE e.kind = k
    <2>1. PICK R \in SUBSET Task : /\ Successors({e.to}, k) \cup Successors(R, k) \subseteq R
                                   /\ e.from \notin R
      BY <1>4 DEF RelationWouldCycle
    <2> DEFINE Far == R \cup {e.to}
    <2>2. e.from \notin Far /\ e.to \in Task BY <1>4, <2>1 DEF Edge
    <2>3. \A x \in Far, y \in Task : Link(x, y) \in edges => y \in R
      BY <2>1 DEF Successors
    <2>4. CASE S \cap Far = {}
      <3>1. e.to \notin S BY <2>4
      <3> HIDE DEF Far, Link
      <3> QED BY <1>1, <1>2, <3>1
    <2>5. CASE S \cap Far # {}
      <3>1. S \cap Far \in (SUBSET Task) \ {{}} BY <2>5
      <3>2. PICK s \in S \cap Far : \A t \in S \cap Far : Link(s, t) \notin edges
        BY <1>2, <3>1
      <3>3. \A t \in S : Link(s, t) \notin edges BY <2>3, <3>2
      <3>4. s # e.from BY <2>2
      <3> QED BY <1>1, <3>3, <3>4
    <2> QED BY <2>4, <2>5
  <1> QED BY <1>3, <1>4

\* A graph with fewer edges has no new cycle, and no new path for the check to find.
LEMMA RemoveKeepsAcyclic ==
  ASSUME edges' \subseteq edges
  PROVE  /\ \A k \in Kind : AcyclicIn(edges, k) => AcyclicIn(edges, k)'
         /\ \A e \in Edge : RelationWouldCycle(e)' => RelationWouldCycle(e)
  <1>1. \A k \in Kind : AcyclicIn(edges, k) => AcyclicIn(edges, k)' BY DEF AcyclicIn
  <1>2. ASSUME NEW e \in Edge, RelationWouldCycle(e)' PROVE RelationWouldCycle(e)
    <2>1. \A S \in SUBSET Task, k \in Kind : Successors(S, k)' \subseteq Successors(S, k)
      BY DEF Successors
    <2> SUFFICES ASSUME NEW S \in SUBSET Task,
                        Successors({e.to}, e.kind) \cup Successors(S, e.kind) \subseteq S
                 PROVE  e.from \in S
      BY DEF RelationWouldCycle
    <2>2. {e.to} \in SUBSET Task /\ e.kind \in Kind BY DEF Edge
    <2>3. Successors({e.to}, e.kind)' \cup Successors(S, e.kind)' \subseteq S BY <2>1, <2>2
    <2> QED BY <1>2, <2>3 DEF RelationWouldCycle
  <1> QED BY <1>1, <1>2
-----------------------------------------------------------------------------
(* Types. *)

\* Which pc a caller is at says what else it carries.
LEMMA CallType ==
  ASSUME TypeOK, NEW c \in Client
  PROVE  /\ call[c].pc = "insert" => call[c] \in Inserting
         /\ call[c].pc = "list" => call[c] \in Listing
         /\ call[c].pc = "wake" => call[c] \in Waking
  BY DEF TypeOK, Idle, Inserting, Listing, Waking

\* Every step keeps the types, in particular the number of wakes a natural number:
\* a wait never takes a message that is not there.
LEMMA TypeStep == TypeOK /\ [Next]_vars => TypeOK'
  <1> SUFFICES ASSUME TypeOK, Next PROVE TypeOK'
    BY DEF TypeOK, vars, flow, history
  <1> DEFINE Calls == {Idle} \cup Inserting \cup Listing \cup Waking
  <1>1. ASSUME NEW c \in Client, NEW e \in Edge, AddTaskRelation(c, e) PROVE TypeOK'
    <2>1. [pc |-> "insert", edge |-> e] \in Inserting BY DEF Inserting
    <2>2. call' \in [Client -> Calls] BY <1>1, <2>1 DEF TypeOK, AddTaskRelation, Begin
    <2> HIDE DEF Calls
    <2> QED BY <1>1, <2>2 DEF Calls, TypeOK, AddTaskRelation, Begin, Count, flow, history
  <1>2. ASSUME NEW c \in Client, InsertTaskRelation(c) PROVE TypeOK'
    <2>1. call[c].edge \in Edge BY <1>2, CallType DEF InsertTaskRelation, Inserting
    <2>2. edges' \subseteq Edge /\ call' \in [Client -> Calls]
      BY <1>2, <2>1 DEF TypeOK, InsertTaskRelation
    <2>3. stale' \subseteq Client /\ raced' \subseteq Kind
      BY <1>2, <2>1 DEF TypeOK, InsertTaskRelation, Checked, Edge
    <2> QED BY <1>2, <2>2, <2>3 DEF TypeOK, InsertTaskRelation, flow
  <1>3. ASSUME NEW c \in Client, NEW e \in edges, RemoveTaskRelation(c, e) PROVE TypeOK'
    <2>1. WakeNext({e.to}) \in Calls BY DEF TypeOK, Edge, Waking, WakeNext
    <2>2. call' \in [Client -> Calls] BY <1>3, <2>1 DEF TypeOK, RemoveTaskRelation, Begin
    <2> HIDE DEF Calls
    <2> QED BY <1>3, <2>2 DEF Calls, TypeOK, RemoveTaskRelation, Begin, Count, flow, history
  <1>4. ASSUME NEW c \in Client, NEW t \in Task, CancelTask(c, t) PROVE TypeOK'
    <2>1. [pc |-> "list", task |-> t] \in Listing BY DEF Listing
    <2>2. call' \in [Client -> Calls] BY <1>4, <2>1 DEF TypeOK, CancelTask, Begin
    <2> HIDE DEF Calls
    <2> QED BY <1>4, <2>2 DEF Calls, TypeOK, CancelTask, Begin, Count, flow, history
  <1>5. ASSUME NEW c \in Client, ListDependents(c) PROVE TypeOK'
    <2>1. WakeNext(Dependents(call[c].task)) \in Calls
      BY DEF Waking, Dependents, WakeNext
    <2>2. call' \in [Client -> Calls] BY <1>5, <2>1 DEF TypeOK, ListDependents
    <2> HIDE DEF Calls
    <2> QED BY <1>5, <2>2 DEF Calls, TypeOK, ListDependents, flow, history
  <1>6. ASSUME NEW c \in Client, WakeTask(c) PROVE TypeOK'
    <2>1. call[c] \in Waking BY <1>6, CallType DEF WakeTask
    <2>2. PICK d \in call[c].todo : /\ wakes' = [wakes EXCEPT ![d] = @ + 1]
                                    /\ call' = [call EXCEPT ![c] = WakeNext(@.todo \ {d})]
      BY <1>6 DEF WakeTask
    <2>3. d \in Task /\ WakeNext(call[c].todo \ {d}) \in Calls BY <2>1 DEF Waking, WakeNext
    <2>4. call' \in [Client -> Calls] BY <2>2, <2>3 DEF TypeOK
    <2>5. wakes' \in [Task -> Nat] BY <2>2, <2>3 DEF TypeOK
    <2> HIDE DEF Calls
    <2> QED BY <1>6, <2>4, <2>5 DEF Calls, TypeOK, WakeTask, flow, history
  <1>7. ASSUME NEW c \in Client, Abandon(c) PROVE TypeOK'
    BY <1>7 DEF TypeOK, Abandon, flow, history
  <1>8. ASSUME NEW t \in Task, EvaluateReadiness(t) \/ Heartbeat(t) \/ QuickExit(t) \/ Unwind(t)
        PROVE  TypeOK'
    <2>1. /\ at' \in [Task -> {"gate", "decided", "parked", "execution", "list", "wake", "end"}]
          /\ ready' \in [Task -> BOOLEAN]
          /\ todo' \in [Task -> SUBSET Task]
      BY <1>8 DEF TypeOK, EvaluateReadiness, Heartbeat, QuickExit, Unwind, FanOut
    <2>2. lost' \in 0 .. MaxLost
      BY <1>8 DEF TypeOK, EvaluateReadiness, Heartbeat, QuickExit, Unwind
    <2> QED
      BY <1>8, <2>1, <2>2 DEF TypeOK, EvaluateReadiness, Heartbeat, QuickExit, Unwind, history
  <1>9. ASSUME NEW t \in Task, RunReadiness(t) \/ RunCompletion(t) PROVE TypeOK'
    <2>1. state' \in [Task -> {"accepted", "waiting", "executing", "done", "halted"}]
      BY <1>9 DEF TypeOK, RunReadiness, RunCompletion
    <2>2. at' \in [Task -> {"gate", "decided", "parked", "execution", "list", "wake", "end"}]
      BY <1>9 DEF TypeOK, RunReadiness, RunCompletion
    <2>3. ready' \in [Task -> BOOLEAN] BY <1>9 DEF TypeOK, RunReadiness, RunCompletion
    <2> QED BY <1>9, <2>1, <2>2, <2>3 DEF TypeOK, RunReadiness, RunCompletion, history
  <1>10. ASSUME NEW t \in Task, WaitForWake(t) PROVE TypeOK'
    <2>1. wakes' \in [Task -> Nat] BY <1>10 DEF TypeOK, WaitForWake
    <2> QED BY <1>10, <2>1 DEF TypeOK, WaitForWake, history
  <1>11. ASSUME NEW t \in Task, RunListDependents(t) PROVE TypeOK'
    BY <1>11 DEF TypeOK, RunListDependents, FanOut, Dependents, history
  <1>12. ASSUME NEW t \in Task, WakeDependent(t) PROVE TypeOK'
    <2>1. wakes' \in [Task -> Nat] BY <1>12 DEF TypeOK, WakeDependent
    <2>2. todo' \in [Task -> SUBSET Task] BY <1>12 DEF TypeOK, WakeDependent, FanOut
    <2>3. at' \in [Task -> {"gate", "decided", "parked", "execution", "list", "wake", "end"}]
      BY <1>12 DEF TypeOK, WakeDependent, FanOut
    <2> QED BY <1>12, <2>1, <2>2, <2>3 DEF TypeOK, WakeDependent, history
  <1>13. \A f, t \in Task, k \in UsedKind : [from |-> f, to |-> t, kind |-> k] \in Edge
    BY DEF Edge
  <1> HIDE DEF Calls
  <1> QED
    BY <1>1, <1>2, <1>3, <1>4, <1>5, <1>6, <1>7, <1>8, <1>9,
       <1>10, <1>11, <1>12, <1>13
       DEF Next, Call, Continue, Drive

\* TypeOK holds in every reachable state, for any tasks, kinds, callers and bounds.
THEOREM TypeCorrect == Spec => []TypeOK
  <1>1. Init => TypeOK BY DEF Init, TypeOK
  <1> QED BY <1>1, TypeStep, PTL DEF Spec
-----------------------------------------------------------------------------
(* Cycles. *)

\* Between a check and its insert the edges of its kind only shrink, or the caller is
\* stale and its insert will show in raced.
GraphInv == TypeOK /\ CyclesNeedOverlap /\ \A c \in Client : CheckedInsert(c)

\* The relations there are in the beginning make no cycle, and nothing is pending.
LEMMA InitGraph == Init => GraphInv
  <1> SUFFICES ASSUME Init PROVE GraphInv OBVIOUS
  <1>1. TypeOK BY DEF Init, TypeOK
  <1>2. CyclesNeedOverlap BY DEF Init, CyclesNeedOverlap
  <1> QED BY <1>1, <1>2 DEF GraphInv, CheckedInsert, Init, Idle

\* A step that adds no edge and no pending insert.
LEMMA GraphShrinks ==
  ASSUME GraphInv, TypeOK', edges' \subseteq edges, raced' = raced,
         \A c \in Client : call'[c].pc = "insert" => call'[c] = call[c],
         \A c \in Client : call'[c].pc = "insert" /\ c \in stale => c \in stale'
  PROVE  GraphInv'
  <1>1. CyclesNeedOverlap'
    BY RemoveKeepsAcyclic DEF GraphInv, CyclesNeedOverlap, AcyclicKind, Kind
  <1>2. ASSUME NEW c \in Client PROVE CheckedInsert(c)'
    <2> SUFFICES ASSUME call'[c].pc = "insert" PROVE CheckedInsert(c)' BY DEF CheckedInsert
    <2>1. call'[c] = call[c] /\ (c \in stale => c \in stale') OBVIOUS
    <2>2. call[c].edge \in Edge BY <2>1, CallType DEF GraphInv, Inserting
    <2>3. RelationWouldCycle(call[c].edge)' => RelationWouldCycle(call[c].edge)
      BY <2>1, <2>2, RemoveKeepsAcyclic
    <2> QED BY <2>1, <2>3 DEF GraphInv, CheckedInsert
  <1> QED BY <1>1, <1>2 DEF GraphInv

\* The check sees what it needs: no path from the far end back.
LEMMA CheckGraph ==
  ASSUME GraphInv, TypeOK', NEW c \in Client, NEW e \in Edge, AddTaskRelation(c, e)
  PROVE  GraphInv'
  <1>1. edges' = edges /\ stale' = stale /\ raced' = raced
    BY DEF AddTaskRelation, history
  <1>2. /\ call'[c] = [pc |-> "insert", edge |-> e]
        /\ \A d \in Client \ {c} : call'[d] = call[d]
    BY DEF AddTaskRelation, Begin, GraphInv, TypeOK
  <1>3. CyclesNeedOverlap' BY <1>1 DEF GraphInv, CyclesNeedOverlap
  <1>4. CheckedInsert(c)'
    BY <1>1, <1>2 DEF CheckedInsert, AddTaskRelation, RelationWouldCycle, Successors
  <1>5. ASSUME NEW d \in Client \ {c} PROVE CheckedInsert(d)'
    BY <1>1, <1>2, <1>5 DEF GraphInv, CheckedInsert, RelationWouldCycle, Successors
  <1>6. \A d \in Client : CheckedInsert(d)' BY <1>4, <1>5
  <1> QED BY <1>3, <1>6 DEF GraphInv

\* An insert closes a cycle only if it is stale, and makes the checks of its kind stale.
LEMMA InsertGraph ==
  ASSUME GraphInv, TypeOK', NEW c \in Client, InsertTaskRelation(c)
  PROVE  GraphInv'
  <1> DEFINE e == call[c].edge
  <1>1. TypeOK /\ e \in Edge BY CallType DEF GraphInv, InsertTaskRelation, Inserting
  <1>2. /\ call'[c] = Idle
        /\ \A d \in Client \ {c} : call'[d] = call[d]
    BY <1>1 DEF InsertTaskRelation, TypeOK
  <1>3. CASE edges' = edges /\ raced' = raced /\ stale' = stale \ {c}
    <2>1. \A d \in Client : call'[d].pc = "insert" => call'[d] = call[d] BY <1>2 DEF Idle
    <2>3. \A d \in Client : call'[d].pc = "insert" /\ d \in stale => d \in stale'
      BY <1>2, <1>3 DEF Idle
    <2>2. edges' \subseteq edges /\ raced' = raced BY <1>3
    <2> QED BY <2>1, <2>2, <2>3, GraphShrinks
  <1>4. CASE /\ edges' = edges \cup {e}
             /\ stale' = (stale \cup Checked(e.kind)) \ {c}
             /\ raced' = IF c \in stale THEN raced \cup {e.kind} ELSE raced
    <2>1. /\ e.from # e.to
          /\ e.kind \in AcyclicKind /\ c \notin stale => ~RelationWouldCycle(e)
      BY DEF GraphInv, CheckedInsert, InsertTaskRelation
    <2>2. ASSUME NEW k \in AcyclicKind \ raced' PROVE AcyclicIn(edges, k)'
      <3>1. k \in Kind BY DEF AcyclicKind, Kind
      <3>2. AcyclicIn(edges, k) BY <1>4 DEF GraphInv, CyclesNeedOverlap
      <3>3. e.kind = k => ~RelationWouldCycle(e) BY <1>4, <2>1
      <3> HIDE DEF e
      <3> QED BY <1>1, <1>4, <2>1, <3>1, <3>2, <3>3, InsertKeepsAcyclic
    <2>3. ASSUME NEW d \in Client PROVE CheckedInsert(d)'
      <3> SUFFICES ASSUME call'[d].pc = "insert" PROVE CheckedInsert(d)'
        BY DEF CheckedInsert
      <3>1. d # c /\ call'[d] = call[d] BY <1>2 DEF Idle
      <3>2. PICK f \in Edge : f = call[d].edge BY <1>1, <3>1, CallType DEF Inserting
      <3>3. CheckedInsert(d) BY DEF GraphInv
      <3>4. ASSUME f.kind \in AcyclicKind, d \notin stale' PROVE ~RelationWouldCycle(f)'
        <4>1. d \notin stale /\ f.kind # e.kind BY <1>4, <3>1, <3>2, <3>4 DEF Checked
        <4>2. ~RelationWouldCycle(f) BY <3>1, <3>2, <3>3, <3>4, <4>1 DEF CheckedInsert
        <4>3. \A u, v : [from |-> u, to |-> v, kind |-> f.kind] # e BY <4>1
        <4>4. \A S \in SUBSET Task : Successors(S, f.kind)' \subseteq Successors(S, f.kind)
          BY <1>4, <3>1, <4>3 DEF Successors
        <4>5. {f.to} \in SUBSET Task BY <3>2 DEF Edge
        <4>6. PICK S \in SUBSET Task :
                /\ Successors({f.to}, f.kind) \cup Successors(S, f.kind) \subseteq S
                /\ f.from \notin S
          BY <4>2 DEF RelationWouldCycle
        <4>7. Successors({f.to}, f.kind)' \cup Successors(S, f.kind)' \subseteq S
          BY <4>4, <4>5, <4>6
        <4> QED BY <4>6, <4>7 DEF RelationWouldCycle
      <3> QED BY <3>1, <3>2, <3>3, <3>4 DEF CheckedInsert
    <2> HIDE DEF e
    <2> QED BY <2>2, <2>3 DEF GraphInv, CyclesNeedOverlap
  <1> QED BY <1>3, <1>4 DEF InsertTaskRelation

\* Every step keeps it: callers in any number, overlapping or not.
LEMMA GraphStep == GraphInv /\ [Next]_vars => GraphInv'
  <1> SUFFICES ASSUME GraphInv, [Next]_vars PROVE GraphInv' OBVIOUS
  <1>1. TypeOK /\ TypeOK' BY TypeStep DEF GraphInv
  <1>2. ASSUME NEW c \in Client, Call(c) PROVE GraphInv'
    <2>1. \A f, t \in Task, k \in UsedKind : [from |-> f, to |-> t, kind |-> k] \in Edge
      BY DEF Edge
    <2>2. ASSUME NEW e \in edges, RemoveTaskRelation(c, e) PROVE GraphInv'
      <3>1. \A d \in Client : call'[d] = call[d] \/ call'[d].pc # "insert"
        BY <1>1, <2>2 DEF RemoveTaskRelation, Begin, TypeOK, WakeNext, Idle
      <3> QED BY <1>1, <2>2, <3>1, GraphShrinks DEF RemoveTaskRelation, history
    <2>3. ASSUME NEW t \in Task, CancelTask(c, t) PROVE GraphInv'
      <3>1. \A d \in Client : call'[d] = call[d] \/ call'[d].pc # "insert"
        BY <1>1, <2>3 DEF CancelTask, Begin, TypeOK
      <3> QED BY <1>1, <2>3, <3>1, GraphShrinks DEF CancelTask, history
    <2> QED BY <1>1, <1>2, <2>1, <2>2, <2>3, CheckGraph DEF Call
  <1>3. ASSUME NEW c \in Client, ListDependents(c) \/ WakeTask(c) PROVE GraphInv'
    <2>1. \A d \in Client : call'[d] = call[d] \/ call'[d].pc # "insert"
      BY <1>1, <1>3 DEF ListDependents, WakeTask, TypeOK, WakeNext, Idle
    <2>2. edges' = edges /\ stale' = stale /\ raced' = raced
      BY <1>3 DEF ListDependents, WakeTask, history
    <2> QED BY <1>1, <2>1, <2>2, GraphShrinks
  <1>4. ASSUME NEW c \in Client, Abandon(c) PROVE GraphInv'
    <2>1. /\ call'[c].pc # "insert" /\ \A d \in Client \ {c} : call'[d] = call[d]
          /\ edges' = edges /\ stale' = stale \ {c} /\ raced' = raced
      BY <1>1, <1>4 DEF Abandon, TypeOK, Idle
    <2>2. \A d \in Client : call'[d].pc = "insert" => call'[d] = call[d] BY <2>1
    <2>3. \A d \in Client : call'[d].pc = "insert" /\ d \in stale => d \in stale' BY <2>1
    <2>4. edges' \subseteq edges /\ raced' = raced BY <2>1
    <2> QED BY <1>1, <2>2, <2>3, <2>4, GraphShrinks
  <1>5. ASSUME NEW t \in Task, Drive(t) \/ RunCompletion(t) \/ QuickExit(t) \/ Unwind(t)
        PROVE  GraphInv'
    <2>1. edges' = edges /\ call' = call /\ stale' = stale /\ raced' = raced
      BY <1>5
         DEF Drive, EvaluateReadiness, RunReadiness, WaitForWake, Heartbeat,
             RunListDependents, WakeDependent, RunCompletion, QuickExit, Unwind, history
    <2> QED BY <1>1, <2>1, GraphShrinks
  <1>6. CASE UNCHANGED vars BY <1>1, <1>6, GraphShrinks DEF vars, history
  <1> QED BY <1>1, <1>2, <1>3, <1>4, <1>5, <1>6, InsertGraph DEF Next, Continue

\* However many callers add and remove relations at once, among however many tasks: a
\* cycle of blocks or subtask_of comes from an insert that another insert of the kind has
\* overtaken since its check, and from nothing else.  The check of addTaskRelation is
\* right; its distance from the insert is what lets a cycle through.
THEOREM CyclesOnlyByOverlap == Spec => []CyclesNeedOverlap
  <1>1. GraphInv => CyclesNeedOverlap BY DEF GraphInv
  <1> QED BY <1>1, InitGraph, GraphStep, PTL DEF Spec
-----------------------------------------------------------------------------
(* No missed wake. *)

\* A task's row says what its gate has found; only a fan-out that has begun has tasks to
\* wake.
GateShape ==
  \A t \in Task :
    /\ at[t] \in {"gate", "parked"} => state[t] \in {"accepted", "waiting", "halted"}
    /\ at[t] = "decided" => state[t] \in {"accepted", "waiting"}
    /\ todo[t] # {} => at[t] \in {"wake", "end"}

\* The task parks or is about to: the gate has read a blocker and not read since.
Parking(t) ==
  /\ at[t] = "parked" \/ (at[t] = "decided" /\ ~ready[t])
  /\ state[t] \in {"accepted", "waiting"}

\* A fan-out has the task in its todo, or will find it in its list.
FanOutComes(t) ==
  \E b \in Task : \/ at[b] = "list" /\ t \in Dependents(b)
                  \/ t \in todo[b]

\* A caller that removed an edge or cancelled a blocker is as far.
CallerComes(t) ==
  \E c \in Client : \/ call[c].pc = "list" /\ t \in Dependents(call[c].task)
                    \/ call[c].pc = "wake" /\ t \in call[c].todo

Coming(t) == wakes[t] > 0 \/ FanOutComes(t) \/ CallerComes(t)

\* NoMissedWake begins before the task has parked: between the gate's read, which saw a
\* blocker, and the wait, the last blocker may go, and its wake has to be there or coming.
WakeInv ==
  /\ TypeOK
  /\ GateShape
  /\ \A t \in Task : lost = 0 /\ Parking(t) /\ Unmet(t) = {} => Coming(t)

\* The rows and the gates stay together, whatever else goes on.
LEMMA ShapeStep == ASSUME TypeOK, GateShape, Next PROVE GateShape'
  <1> USE DEF TypeOK
  <1>1. ASSUME NEW c \in Client, Call(c) PROVE GateShape'
    BY <1>1
       DEF Call, AddTaskRelation, RemoveTaskRelation, CancelTask, IsTerminal, Terminal, flow,
           GateShape
  <1>2. ASSUME NEW c \in Client, Continue(c) \/ Abandon(c) PROVE GateShape'
    BY <1>2
       DEF Continue, InsertTaskRelation, ListDependents, WakeTask, Abandon, flow, GateShape
  <1>3. ASSUME NEW t \in Task, Drive(t) \/ RunCompletion(t) \/ QuickExit(t) \/ Unwind(t)
        PROVE  GateShape'
    <2>1. CASE EvaluateReadiness(t)
      BY <2>1 DEF EvaluateReadiness, IsTerminal, Terminal, GateShape
    <2>2. CASE RunReadiness(t) BY <2>2 DEF RunReadiness, GateShape
    <2>3. CASE WaitForWake(t) \/ Heartbeat(t)
      BY <2>3 DEF WaitForWake, Heartbeat, GateShape
    <2>4. CASE RunListDependents(t) \/ WakeDependent(t)
      BY <2>4 DEF RunListDependents, WakeDependent, FanOut, GateShape
    <2>5. CASE RunCompletion(t) BY <2>5 DEF RunCompletion, GateShape
    <2>6. CASE QuickExit(t) \/ Unwind(t) BY <2>6 DEF QuickExit, Unwind, FanOut, GateShape
    <2> QED BY <1>3, <2>1, <2>2, <2>3, <2>4, <2>5, <2>6 DEF Drive
  <1> QED BY <1>1, <1>2, <1>3 DEF Next

\* A blocker in the graph.
LEMMA Blocker ==
  ASSUME TypeOK, NEW t \in Task, state[t] \in {"accepted", "waiting"}
  PROVE  \A b \in Task : t \in Dependents(b) <=> [from |-> b, to |-> t, kind |-> "blocks"] \in edges
  BY DEF Dependents

\* Where nothing is unmet now and nothing was removed or finished, nothing was unmet before.
LEMMA UnmetBefore ==
  ASSUME NEW t \in Task, edges \subseteq edges',
         \A b \in Task : IsTerminal(state'[b]) => IsTerminal(state[b])
  PROVE  Unmet(t)' = {} => Unmet(t) = {}
  BY DEF Unmet

\* A wake that is there or coming stays so, when each of those who may bring it keeps it.
LEMMA ComingStays ==
  ASSUME TypeOK, NEW t \in Task, Coming(t), edges \subseteq edges',
         state[t] \in {"accepted", "waiting"}, state'[t] \in {"accepted", "waiting"},
         wakes[t] > 0 => wakes'[t] > 0,
         \A b \in Task : at[b] = "list" => at'[b] = "list" \/ Dependents(b) \subseteq todo'[b],
         \A b \in Task : t \in todo[b] => t \in todo'[b] \/ wakes'[t] > 0,
         \A c \in Client : call[c].pc = "list" /\ t \in Dependents(call[c].task) =>
           \/ call'[c] = call[c]
           \/ call'[c].pc = "wake" /\ Dependents(call[c].task) \subseteq call'[c].todo,
         \A c \in Client : call[c].pc = "wake" /\ t \in call[c].todo =>
           (call'[c].pc = "wake" /\ t \in call'[c].todo) \/ wakes'[t] > 0
  PROVE  Coming(t)'
  <1>1. \A b \in Task : t \in Dependents(b) => t \in Dependents(b)'
    BY DEF Dependents
  <1>2. \A c \in Client : call[c].pc = "list" => call[c].task \in Task
    BY CallType DEF Listing
  <1>3. CASE wakes[t] > 0 BY <1>3 DEF Coming
  <1>4. ASSUME NEW b \in Task, at[b] = "list", t \in Dependents(b) PROVE Coming(t)'
    BY <1>1, <1>4 DEF Coming, FanOutComes
  <1>5. ASSUME NEW b \in Task, t \in todo[b] PROVE Coming(t)'
    BY <1>5 DEF Coming, FanOutComes
  <1>6. ASSUME NEW c \in Client, call[c].pc = "list", t \in Dependents(call[c].task)
        PROVE  Coming(t)'
    <2>1. CASE call'[c] = call[c]
      <3>1. t \in Dependents(call[c].task)' BY <1>1, <1>2, <1>6, <2>1 DEF Dependents
      <3> QED BY <1>6, <2>1, <3>1 DEF Coming, CallerComes
    <2>2. CASE call'[c].pc = "wake" /\ Dependents(call[c].task) \subseteq call'[c].todo
      BY <1>6, <2>2 DEF Coming, CallerComes
    <2> QED BY <1>6, <2>1, <2>2
  <1>7. ASSUME NEW c \in Client, call[c].pc = "wake", t \in call[c].todo PROVE Coming(t)'
    BY <1>7 DEF Coming, CallerComes
  <1> QED BY <1>3, <1>4, <1>5, <1>6, <1>7 DEF Coming, FanOutComes, CallerComes

\* A step of a caller.
LEMMA CallerWakes ==
  ASSUME WakeInv, NEW t \in Task, NEW c \in Client, Call(c) \/ Continue(c) \/ Abandon(c),
         lost' = 0, Parking(t)', Unmet(t)' = {}
  PROVE  Coming(t)'
  <1> USE DEF WakeInv
  <1>1. /\ at' = at /\ ready' = ready /\ todo' = todo
        /\ TypeOK
    BY DEF Call, Continue, AddTaskRelation, RemoveTaskRelation, CancelTask, InsertTaskRelation,
           ListDependents, WakeTask, Abandon, flow
  <1>2. lost = 0 /\ ~Abandon(c)
    <2>1. lost \in Nat BY <1>1 DEF TypeOK
    <2>2. ~Abandon(c) BY <2>1 DEF Abandon
    <2>3. lost' = lost
      BY <2>2
         DEF Call, Continue, AddTaskRelation, RemoveTaskRelation, CancelTask,
             InsertTaskRelation, ListDependents, WakeTask
    <2> QED BY <2>2, <2>3
  <1>3. Parking(t)
    <2>1. CASE state' = state BY <1>1, <2>1 DEF Parking
    <2>2. ASSUME NEW b \in Task, CancelTask(c, b) PROVE Parking(t)
      <3>1. state' = [state EXCEPT ![b] = "halted"] BY <2>2 DEF CancelTask
      <3>2. t # b /\ state'[t] = state[t] BY <1>1, <3>1 DEF Parking, TypeOK
      <3> QED BY <1>1, <3>2 DEF Parking
    <2> QED
      BY <1>2, <2>1, <2>2
         DEF Call, Continue, AddTaskRelation, RemoveTaskRelation, InsertTaskRelation,
             ListDependents, WakeTask
  <1>4. state[t] \in {"accepted", "waiting"} /\ state'[t] \in {"accepted", "waiting"}
    BY <1>3 DEF Parking
  <1>5. ASSUME edges \subseteq edges', state' = state PROVE Coming(t)
    <2>1. Unmet(t) = {} BY <1>5, UnmetBefore
    <2> QED BY <1>2, <1>3, <2>1
  <1>6. ASSUME NEW e \in Edge, AddTaskRelation(c, e) PROVE Coming(t)'
    <2>1. /\ edges' = edges /\ state' = state /\ wakes' = wakes
          /\ call[c] = Idle /\ \A d \in Client \ {c} : call'[d] = call[d]
      BY <1>1, <1>6 DEF AddTaskRelation, Begin, TypeOK
    <2>2. call[c].pc = "idle" BY <2>1 DEF Idle
    <2>3. \A d \in Client : call[d].pc \in {"list", "wake"} => call'[d] = call[d]
      BY <2>1, <2>2
    <2> HIDE DEF WakeInv
    <2> QED BY <1>1, <1>4, <1>5, <2>1, <2>3, ComingStays
  <1>7. CASE InsertTaskRelation(c)
    <2>1. /\ edges \subseteq edges' /\ state' = state /\ wakes' = wakes
          /\ call[c].pc = "insert" /\ \A d \in Client \ {c} : call'[d] = call[d]
      BY <1>1, <1>7 DEF InsertTaskRelation, TypeOK
    <2>2. \A d \in Client : call[d].pc \in {"list", "wake"} => call'[d] = call[d]
      BY <2>1
    <2> HIDE DEF WakeInv
    <2> QED BY <1>1, <1>4, <1>5, <2>1, <2>2, ComingStays
  <1>8. ASSUME NEW e \in edges, RemoveTaskRelation(c, e) PROVE Coming(t)'
    <2>1. /\ edges' = edges \ {e} /\ state' = state /\ wakes' = wakes
          /\ call[c] = Idle /\ \A d \in Client \ {c} : call'[d] = call[d]
          /\ e.kind = "blocks" => call'[c] = [pc |-> "wake", todo |-> {e.to}]
      BY <1>1, <1>8 DEF RemoveTaskRelation, Begin, TypeOK, WakeNext
    <2>2. CASE e.kind = "blocks" /\ e.to = t
      <3>1. call'[c].pc = "wake" /\ t \in call'[c].todo BY <2>1, <2>2
      <3> QED BY <3>1 DEF Coming, CallerComes
    <2>3. CASE ~(e.kind = "blocks" /\ e.to = t)
      <3> DEFINE Link(b) == [from |-> b, to |-> t, kind |-> "blocks"]
      <3>1. \A b \in Task : Link(b) \in edges' <=> Link(b) \in edges BY <2>1, <2>3
      <3>2. Unmet(t) = {} BY <2>1, <3>1 DEF Unmet
      <3>3. \A b \in Task : t \in Dependents(b) => t \in Dependents(b)'
        BY <2>1, <3>1 DEF Dependents
      <3>4. Coming(t) BY <1>2, <1>3, <3>2
      <3>5. call[c].pc = "idle" BY <2>1 DEF Idle
      <3>6. CASE wakes[t] > 0 \/ FanOutComes(t)
        BY <1>1, <2>1, <3>3, <3>6 DEF Coming, FanOutComes
      <3>7. ASSUME NEW d \in Client, call[d].pc = "list", t \in Dependents(call[d].task)
            PROVE  Coming(t)'
        <4>1. call[d].task \in Task BY <1>1, <3>7, CallType DEF Listing
        <4>2. call'[d] = call[d] BY <2>1, <3>5, <3>7
        <4>3. t \in Dependents(call[d].task)' BY <2>1, <3>1, <3>7, <4>1, <4>2 DEF Dependents
        <4> QED BY <3>7, <4>2, <4>3 DEF Coming, CallerComes
      <3>8. ASSUME NEW d \in Client, call[d].pc = "wake", t \in call[d].todo PROVE Coming(t)'
        <4>1. call'[d] = call[d] BY <2>1, <3>5, <3>8
        <4> QED BY <3>8, <4>1 DEF Coming, CallerComes
      <3> QED BY <3>4, <3>6, <3>7, <3>8 DEF Coming, CallerComes
    <2> QED BY <2>2, <2>3
  <1>9. ASSUME NEW b \in Task, CancelTask(c, b) PROVE Coming(t)'
    <2>1. /\ edges' = edges /\ wakes' = wakes /\ state' = [state EXCEPT ![b] = "halted"]
          /\ call[c] = Idle /\ \A d \in Client \ {c} : call'[d] = call[d]
          /\ call'[c] = [pc |-> "list", task |-> b]
      BY <1>1, <1>9 DEF CancelTask, Begin, TypeOK
    <2>2. CASE b \in Unmet(t)
      <3>1. t \in Dependents(b)' BY <1>4, <2>1, <2>2 DEF Unmet, Dependents
      <3>2. call'[c].pc = "list" /\ call'[c].task = b BY <2>1
      <3>3. t \in Dependents(call[c].task)' BY <3>1, <3>2 DEF Dependents
      <3> QED BY <3>2, <3>3 DEF Coming, CallerComes
    <2>3. CASE b \notin Unmet(t)
      <3>1. Unmet(t) = {}
        <4>1. \A a \in Task \ {b} : state'[a] = state[a] BY <1>1, <2>1 DEF TypeOK
        <4> QED BY <2>1, <2>3, <4>1 DEF Unmet
      <3>2. Coming(t) BY <1>2, <1>3, <3>1
      <3>3. call[c].pc = "idle" BY <2>1 DEF Idle
      <3>4. \A d \in Client : call[d].pc \in {"list", "wake"} => call'[d] = call[d]
        BY <2>1, <3>3
      <3> HIDE DEF WakeInv
      <3> QED BY <1>1, <1>4, <2>1, <3>2, <3>4, ComingStays
    <2> QED BY <2>2, <2>3
  <1>10. CASE ListDependents(c)
    <2>1. /\ edges' = edges /\ state' = state /\ wakes' = wakes /\ call[c].pc = "list"
          /\ \A d \in Client \ {c} : call'[d] = call[d]
          /\ call'[c] = WakeNext(Dependents(call[c].task))
      BY <1>1, <1>10 DEF ListDependents, TypeOK
    <2>2. t \in Dependents(call[c].task) =>
            call'[c].pc = "wake" /\ call'[c].todo = Dependents(call[c].task)
      BY <2>1 DEF WakeNext
    <2>3. \A d \in Client : call[d].pc = "list" /\ t \in Dependents(call[d].task) =>
            \/ call'[d] = call[d]
            \/ call'[d].pc = "wake" /\ Dependents(call[d].task) \subseteq call'[d].todo
      BY <2>1, <2>2
    <2>4. \A d \in Client : call[d].pc = "wake" => call'[d] = call[d]
      BY <2>1
    <2> HIDE DEF WakeInv
    <2> QED BY <1>1, <1>4, <1>5, <2>1, <2>3, <2>4, ComingStays
  <1>11. CASE WakeTask(c)
    <2>1. /\ edges' = edges /\ state' = state /\ call[c] \in Waking
      BY <1>1, <1>11, CallType DEF WakeTask
    <2>2. PICK a \in call[c].todo : /\ wakes' = [wakes EXCEPT ![a] = @ + 1]
                                    /\ call' = [call EXCEPT ![c] = WakeNext(@.todo \ {a})]
      BY <1>11 DEF WakeTask
    <2>3. /\ \A d \in Client \ {c} : call'[d] = call[d]
          /\ call'[c] = WakeNext(call[c].todo \ {a})
      BY <1>1, <2>2 DEF TypeOK
    <2>4. t \in call[c].todo /\ t # a =>
            call'[c].pc = "wake" /\ call'[c].todo = call[c].todo \ {a}
      BY <2>3 DEF WakeNext
    <2>5. (wakes[t] > 0 => wakes'[t] > 0) /\ (t = a => wakes'[t] > 0)
      BY <1>1, <2>2 DEF TypeOK
    <2>6. \A d \in Client : call[d].pc = "list" => call'[d] = call[d]
      BY <2>3, <1>11 DEF WakeTask
    <2>7. \A d \in Client : call[d].pc = "wake" /\ t \in call[d].todo =>
            (call'[d].pc = "wake" /\ t \in call'[d].todo) \/ wakes'[t] > 0
      BY <2>3, <2>4, <2>5
    <2> HIDE DEF WakeInv
    <2> QED BY <1>1, <1>4, <1>5, <2>1, <2>5, <2>6, <2>7, ComingStays
  <1>12. \A f, u \in Task, k \in UsedKind : [from |-> f, to |-> u, kind |-> k] \in Edge
    BY DEF Edge
  <1> HIDE DEF WakeInv
  <1> QED
    BY <1>2, <1>6, <1>7, <1>8, <1>9, <1>10, <1>11, <1>12 DEF Call, Continue

\* A step of a workflow.
LEMMA WorkflowWakes ==
  ASSUME WakeInv, NEW t \in Task, NEW b \in Task,
         Drive(b) \/ RunCompletion(b) \/ QuickExit(b) \/ Unwind(b),
         lost' = 0, Parking(t)', Unmet(t)' = {}
  PROVE  Coming(t)'
  <1> USE DEF WakeInv
  <1>1. TypeOK /\ edges' = edges /\ call' = call
    BY DEF Drive, EvaluateReadiness, RunReadiness, WaitForWake, Heartbeat,
           RunListDependents, WakeDependent, RunCompletion, QuickExit, Unwind
  <1>2. lost = 0 /\ ~QuickExit(b)
    <2>1. lost \in Nat BY <1>1 DEF TypeOK
    <2>2. ~QuickExit(b) BY <2>1 DEF QuickExit
    <2>3. lost' = lost
      BY <2>2
         DEF Drive, EvaluateReadiness, RunReadiness, WaitForWake, Heartbeat,
             RunListDependents, WakeDependent, RunCompletion, Unwind
    <2> QED BY <2>2, <2>3
  <1>3. \A c \in Client :
          /\ call[c].pc = "list" => call'[c] = call[c]
          /\ call[c].pc = "wake" => call'[c] = call[c]
    BY <1>1
  <1>4. ASSUME Parking(t), \A a \in Task : IsTerminal(state'[a]) => IsTerminal(state[a])
        PROVE  Coming(t)
    <2>1. Unmet(t) = {} BY <1>1, <1>4, UnmetBefore
    <2> QED BY <1>2, <1>4, <2>1
  <1>5. CASE EvaluateReadiness(b)
    <2>1. /\ state' = state /\ todo' = todo /\ wakes' = wakes /\ at[b] = "gate"
          /\ \A a \in Task \ {b} : at'[a] = at[a] /\ ready'[a] = ready[a]
          /\ at'[b] \in {"end", "decided"}
          /\ at'[b] = "decided" => ready'[b] = (Unmet(b) = {})
      BY <1>1, <1>5 DEF EvaluateReadiness, TypeOK
    <2>2. t # b
      <3>1. ASSUME t = b PROVE FALSE
        <4>1. ready'[b] = (Unmet(b) = {}) BY <2>1, <3>1 DEF Parking
        <4>2. Unmet(b)' = Unmet(b) BY <1>1, <2>1 DEF Unmet
        <4> QED BY <2>1, <3>1, <4>1, <4>2 DEF Parking
      <3> QED BY <3>1
    <2>3. Parking(t) /\ Coming(t) BY <1>4, <2>1, <2>2 DEF Parking
    <2>4. \A a \in Task : at[a] = "list" => at'[a] = "list" BY <2>1
    <2> HIDE DEF WakeInv
    <2> QED BY <1>1, <1>3, <2>1, <2>3, <2>4, ComingStays DEF Parking
  <1>6. CASE RunReadiness(b)
    <2>1. /\ todo' = todo /\ wakes' = wakes /\ at[b] = "decided"
          /\ \A a \in Task \ {b} : at'[a] = at[a] /\ state'[a] = state[a] /\ ready'[a] = ready[a]
          /\ state[b] \in {"accepted", "waiting"} /\ state'[b] \in {"executing", "waiting"}
          /\ at'[b] = (IF ready[b] THEN "execution" ELSE "parked")
      BY <1>1, <1>6 DEF RunReadiness, TypeOK, GateShape
    <2>2. Parking(t)
      <3>1. CASE t = b BY <2>1, <3>1 DEF Parking
      <3>2. CASE t # b BY <2>1, <3>2 DEF Parking
      <3> QED BY <3>1, <3>2
    <2>3. \A a \in Task : IsTerminal(state'[a]) => IsTerminal(state[a])
      BY <2>1 DEF IsTerminal, Terminal
    <2>4. Coming(t) BY <1>4, <2>2, <2>3
    <2>5. \A a \in Task : at[a] = "list" => at'[a] = "list" BY <2>1
    <2> HIDE DEF WakeInv
    <2> QED BY <1>1, <1>3, <2>1, <2>2, <2>4, <2>5, ComingStays DEF Parking
  <1>7. CASE WaitForWake(b) \/ Heartbeat(b)
    <2>1. /\ state' = state /\ todo' = todo /\ ready' = ready /\ at[b] = "parked"
          /\ \A a \in Task \ {b} : at'[a] = at[a] /\ wakes'[a] = wakes[a]
          /\ at'[b] = "gate"
      BY <1>1, <1>7 DEF WaitForWake, Heartbeat, TypeOK
    <2>2. t # b BY <2>1 DEF Parking
    <2>3. Parking(t) /\ Coming(t) BY <1>4, <2>1, <2>2 DEF Parking
    <2>4. \A a \in Task : at[a] = "list" => at'[a] = "list" BY <2>1
    <2> HIDE DEF WakeInv
    <2> QED BY <1>1, <1>3, <2>1, <2>2, <2>3, <2>4, ComingStays DEF Parking
  <1>8. CASE Unwind(b)
    <2>1. /\ state' = state /\ todo' = todo /\ ready' = ready /\ wakes' = wakes
          /\ at[b] # "list" /\ at'[b] = "end"
          /\ \A a \in Task \ {b} : at'[a] = at[a]
      BY <1>1, <1>8 DEF Unwind, TypeOK
    <2>2. t # b BY <2>1 DEF Parking
    <2>3. Parking(t) /\ Coming(t) BY <1>4, <2>1, <2>2 DEF Parking
    <2>4. \A a \in Task : at[a] = "list" => at'[a] = "list" BY <2>1
    <2> HIDE DEF WakeInv
    <2> QED BY <1>1, <1>3, <2>1, <2>3, <2>4, ComingStays DEF Parking
  <1>9. CASE RunListDependents(b)
    <2>1. /\ state' = state /\ ready' = ready /\ wakes' = wakes
          /\ at[b] = "list" /\ at'[b] \in {"wake", "end"}
          /\ todo'[b] = Dependents(b) /\ todo[b] = {}
          /\ \A a \in Task \ {b} : at'[a] = at[a] /\ todo'[a] = todo[a]
      BY <1>1, <1>9 DEF RunListDependents, FanOut, TypeOK, GateShape
    <2>2. t # b BY <2>1 DEF Parking
    <2>3. Parking(t) /\ Coming(t) BY <1>4, <2>1, <2>2 DEF Parking
    <2>4. \A a \in Task : at[a] = "list" => at'[a] = "list" \/ Dependents(a) \subseteq todo'[a]
      BY <2>1
    <2>5. \A a \in Task : t \in todo[a] => t \in todo'[a] BY <2>1
    <2> HIDE DEF WakeInv
    <2> QED BY <1>1, <1>3, <2>1, <2>3, <2>4, <2>5, ComingStays DEF Parking
  <1>10. CASE WakeDependent(b)
    <2>1. /\ state' = state /\ ready' = ready /\ at[b] = "wake" /\ at'[b] \in {"wake", "end"}
          /\ \A a \in Task \ {b} : at'[a] = at[a] /\ todo'[a] = todo[a]
      BY <1>1, <1>10 DEF WakeDependent, FanOut, TypeOK
    <2>2. t # b BY <2>1 DEF Parking
    <2>3. Parking(t) /\ Coming(t) BY <1>4, <2>1, <2>2 DEF Parking
    <2>4. \A a \in Task : at[a] = "list" => at'[a] = "list" BY <2>1
    <2>5. /\ wakes[t] > 0 => wakes'[t] > 0
          /\ t \in todo[b] => t \in todo'[b] \/ wakes'[t] > 0
      <3>1. ASSUME NEW d \in todo[b], wakes' = [wakes EXCEPT ![d] = @ + 1],
                   todo' = [todo EXCEPT ![b] = @ \ {d}]
            PROVE  /\ wakes[t] > 0 => wakes'[t] > 0
                   /\ t \in todo[b] => t \in todo'[b] \/ wakes'[t] > 0
        <4>1. wakes[t] \in Nat /\ wakes[d] \in Nat /\ todo'[b] = todo[b] \ {d}
          BY <1>1, <3>1 DEF TypeOK
        <4>2. CASE t = d BY <1>1, <3>1, <4>1, <4>2 DEF TypeOK
        <4>3. CASE t # d BY <1>1, <3>1, <4>1, <4>3 DEF TypeOK
        <4> QED BY <4>2, <4>3
      <3> QED BY <1>10, <3>1 DEF WakeDependent, FanOut
    <2>6. \A a \in Task : t \in todo[a] => t \in todo'[a] \/ wakes'[t] > 0
      BY <2>1, <2>5
    <2> HIDE DEF WakeInv
    <2> QED BY <1>1, <1>3, <2>1, <2>3, <2>4, <2>5, <2>6, ComingStays DEF Parking
  <1>11. CASE RunCompletion(b)
    <2>1. /\ ready' = ready /\ wakes' = wakes /\ todo' = todo
          /\ at[b] = "execution" /\ at'[b] = "list"
          /\ \A a \in Task \ {b} : at'[a] = at[a] /\ state'[a] = state[a]
      BY <1>1, <1>11 DEF RunCompletion, TypeOK
    <2>2. t # b BY <2>1 DEF Parking
    <2>3. Parking(t) BY <2>1, <2>2 DEF Parking
    <2>4. CASE b \in Unmet(t)
      <3>1. t \in Dependents(b)' BY <1>1, <2>1, <2>2, <2>3, <2>4 DEF Unmet, Dependents, Parking
      <3> QED BY <2>1, <3>1 DEF Coming, FanOutComes
    <2>5. CASE b \notin Unmet(t)
      <3>1. Unmet(t) = {} BY <1>1, <2>1, <2>5 DEF Unmet
      <3>2. Coming(t) BY <1>2, <2>3, <3>1
      <3>3. \A a \in Task : at[a] = "list" => at'[a] = "list" BY <2>1
      <3>4. state'[t] \in {"accepted", "waiting"} BY <2>1, <2>2, <2>3 DEF Parking
      <3> HIDE DEF WakeInv
      <3> QED BY <1>1, <1>3, <2>1, <2>3, <3>2, <3>3, <3>4, ComingStays DEF Parking
    <2> QED BY <2>4, <2>5
  <1> HIDE DEF WakeInv
  <1> QED
    BY <1>2, <1>5, <1>6, <1>7, <1>8, <1>9, <1>10, <1>11 DEF Drive

\* In the beginning every task is at its gate.
LEMMA InitWake == Init => WakeInv
  <1> SUFFICES ASSUME Init PROVE WakeInv OBVIOUS
  <1>1. TypeOK BY DEF Init, TypeOK
  <1>2. GateShape BY DEF Init, GateShape
  <1>3. \A t \in Task : ~Parking(t) BY DEF Init, Parking
  <1> QED BY <1>1, <1>2, <1>3 DEF WakeInv

\* Every step keeps what is there or coming.
LEMMA WakeStep == ASSUME WakeInv, [Next]_vars PROVE WakeInv'
  <1>1. TypeOK' BY TypeStep DEF WakeInv
  <1>2. CASE Next
    <2>1. GateShape' BY <1>2, ShapeStep DEF WakeInv
    <2>2. ASSUME NEW t \in Task, lost' = 0, Parking(t)', Unmet(t)' = {} PROVE Coming(t)'
      BY <1>2, <2>2, CallerWakes, WorkflowWakes DEF Next
    <2> QED BY <1>1, <2>1, <2>2 DEF WakeInv
  <1>3. CASE UNCHANGED vars
    BY <1>3
       DEF vars, flow, history, WakeInv, TypeOK, GateShape, Parking, Unmet, Coming, FanOutComes,
           CallerComes, Dependents
  <1> QED BY <1>2, <1>3

\* Whatever tasks, callers and bounds: unless a caller or a fan-out dies half way, no task
\* is parked on a blocker that is gone without a wake in its topic or one about to be
\* sent, however removals, cancellations and completions fall between its gate's read,
\* the commit of what the gate decided and its wait.
THEOREM NoWakeMissed == Spec => []NoMissedWake
  <1>1. WakeInv => NoMissedWake
    BY DEF WakeInv, NoMissedWake, Parking, Coming, FanOutComes, CallerComes
  <1> QED BY <1>1, InitWake, WakeStep, PTL DEF Spec
=============================================================================
