----------------------------- MODULE ChainProofs -----------------------------
(***************************************************************************)
(* Proofs about Chain, for every value of its constants.  The inductive    *)
(* invariant is Inv of Chain; TypeInv is the part of it that says what the *)
(* variables are, on which the steps of every other part rest.             *)
(***************************************************************************)
EXTENDS Chain, TLAPS, FiniteSetTheorems

USE TaskAssumption, BoundAssumption DEF MaxStageTimeouts

TypeInv == TypeOK /\ WorkflowShape /\ CallShape

-----------------------------------------------------------------------------
(* Calls, messages, assignments. *)

\* A caller that is at a statement has a task, a slot, a stage to work on.
LEMMA BusyCall ==
  ASSUME TypeOK, NEW c \in Client, call[c].pc \in Pc \ {"idle"}
  PROVE  call[c] \in Busy
  BY DEF TypeOK, Idle

\* Going on to the next statement changes nothing of a call but its pc.
LEMMA GotoType ==
  ASSUME TypeOK, NEW c \in Client, call[c].pc \in Pc \ {"idle"},
         NEW next \in Pc \ {"idle"}, Goto(c, next)
  PROVE  /\ call' \in [Client -> Busy \cup {Idle}]
         /\ call'[c] \in Busy /\ call'[c].pc = next
         /\ call'[c].task = call[c].task /\ call'[c].slot = call[c].slot
         /\ \A d \in Client \ {c} : call'[d] = call[d]
  <1>1. call[c] \in Busy BY BusyCall
  <1>2. /\ [call[c] EXCEPT !.pc = next] \in Busy
        /\ [call[c] EXCEPT !.pc = next].pc = next
        /\ [call[c] EXCEPT !.pc = next].task = call[c].task
        /\ [call[c] EXCEPT !.pc = next].slot = call[c].slot
    BY <1>1 DEF Busy
  <1>3. call' = [call EXCEPT ![c] = [call[c] EXCEPT !.pc = next]] BY DEF Goto
  <1> QED BY <1>2, <1>3 DEF TypeOK

\* A caller that is done is idle, and no other caller changes.
LEMMA DoneType ==
  ASSUME TypeOK, NEW c \in Client, Done(c)
  PROVE  /\ call' \in [Client -> Busy \cup {Idle}]
         /\ call'[c] = Idle
         /\ \A d \in Client \ {c} : call'[d] = call[d]
  BY DEF TypeOK, Done

\* dbos.Send to a topic a workflow reads leaves a mailbox of messages.
LEMMA DeliverType ==
  ASSUME TypeOK, NEW t \in Task, NEW p \in Topic, NEW m \in Message, Deliver(t, p, m)
  PROVE  mail' \in [Task -> [Topic -> Seq(Message)]]
  BY DEF TypeOK, Deliver

\* So does the fan-out of wakes.
LEMMA WakeType ==
  ASSUME TypeOK, NEW D, Wake(D)
  PROVE  mail' \in [Task -> [Topic -> Seq(Message)]]
<1> SUFFICES ASSUME NEW d \in Task PROVE mail'[d] \in [Topic -> Seq(Message)]
  BY DEF Wake
<1>1. mail[d] \in [Topic -> Seq(Message)] BY DEF TypeOK
<1>2. Append(mail[d]["blocked"], "wake") \in Seq(Message) BY <1>1 DEF Topic, Message
<1> QED BY <1>1, <1>2 DEF Wake

\* A workflow that returns has an outcome, and only its goroutine stops.
LEMMA ReturnType ==
  ASSUME TypeOK, NEW t \in Task, NEW s \in {"success", "error"}, Return(t, s)
  PROVE  /\ wf' \in [Task -> {"none", "pending", "success", "cancelled", "error"}]
         /\ thr' \in [Task -> Thread]
         /\ thr'[t] = "off"
         /\ \A u \in Task \ {t} : thr'[u] = thr[u]
  BY DEF TypeOK, Return, Thread

\* Receiving a message leaves a mailbox of messages.
LEMMA TailType ==
  ASSUME TypeOK, NEW t \in Task, NEW p \in Topic, mail[t][p] # <<>>,
         mail' = [mail EXCEPT ![t][p] = Tail(@)]
  PROVE  mail' \in [Task -> [Topic -> Seq(Message)]]
  BY DEF TypeOK

\* Replacing elements of a sequence by others of its type gives a sequence.
LEMMA SameDomainSeq ==
  ASSUME NEW S, NEW s \in Seq(S), NEW f, f = [i \in DOMAIN s |-> f[i]],
         \A i \in DOMAIN s : f[i] \in S
  PROVE  f \in Seq(S)
<1>1. DOMAIN s = 1 .. Len(s) /\ Len(s) \in Nat OBVIOUS
<1>2. f \in [1 .. Len(s) -> S] BY <1>1
<1> QED BY <1>1, <1>2

\* Closing an assignment, with or without its audit, gives an assignment.
LEMMA SlotType ==
  ASSUME TypeOK, NEW t \in Task, NEW i \in DOMAIN slots[t]
  PROVE  /\ slots[t][i] \in Slot
         /\ [slots[t][i] EXCEPT !.open = FALSE] \in Slot
         /\ [slots[t][i] EXCEPT !.open = FALSE, !.audits = @ + 1] \in Slot
<1>1. slots[t] \in Seq(Slot) BY DEF TypeOK
<1> DEFINE r == slots[t][i]
<1>2. r \in Slot BY <1>1
<1> HIDE DEF r
<1>3. [r EXCEPT !.open = FALSE] \in Slot BY <1>2 DEF Slot
<1>4. r.audits + 1 \in Nat BY <1>2 DEF Slot
<1>5. [r EXCEPT !.open = FALSE, !.audits = r.audits + 1] \in Slot BY <1>2, <1>4 DEF Slot
<1> QED BY <1>2, <1>3, <1>5 DEF r

-----------------------------------------------------------------------------
(* Type correctness, one step per action. *)

\* Every step preserves the types; that a body's result is a position, and that the
\* count of expired waits stays in range, rests on the shape of the workflow.
LEMMA TypeStep == ASSUME TypeInv, Next PROVE TypeOK'
  <1> USE DEF TypeInv, TypeOK, board, durable, memory, Position, Thread
  <1>1. ASSUME NEW t \in Task, Start(t) PROVE TypeOK'
    <2>1. CASE IsTerminal(state[t])
      <3>1. Return(t, "success") BY <1>1, <2>1 DEF Start
      <3> QED BY <1>1, <3>1, ReturnType DEF Start
    <2>2. CASE ~IsTerminal(state[t])
      <3>1. thr' = [thr EXCEPT ![t] = "ready"] /\ wf' = wf BY <1>1, <2>2 DEF Start
      <3>2. thr' \in [Task -> Thread] BY <3>1
      <3> QED BY <1>1, <3>1, <3>2 DEF Start
    <2> QED BY <2>1, <2>2
  <1>2. ASSUME NEW t \in Task, Record(t) PROVE TypeOK'
    <2>1. out[t] \in Position BY <1>2 DEF Record, WorkflowShape, ShapeOf, Leads, AfterLeg
    <2>2. at' \in [Task -> Position] BY <1>2, <2>1 DEF Record
    <2>3. leg' \in [Task -> Served \cup {"completion"}]
      BY <1>2 DEF Record, NextStage, Served
    <2>4. tries' \in [Task -> 0 .. MaxStageTimeouts]
      BY <1>2 DEF Record, WorkflowShape, ShapeOf, MayExpire
    <2> QED BY <1>2, <2>2, <2>3, <2>4 DEF Record
  <1>3. ASSUME NEW t \in Task, Stop(t) PROVE TypeOK'
    BY <1>3 DEF Stop
  <1>4. ASSUME NEW t \in Task, Recover(t) PROVE TypeOK'
    BY <1>4 DEF Recover
  <1>5. ASSUME NEW t \in Task, EnterReceive(t) PROVE TypeOK'
    BY <1>5 DEF EnterReceive, AtStep
  <1>6. ASSUME NEW t \in Task, RunAdvanceStage(t) PROVE TypeOK'
    BY <1>6 DEF RunAdvanceStage, AtStep, Commit, Stage
  <1>7. ASSUME NEW t \in Task, RunRouteAndOccupy(t) PROVE TypeOK'
    BY <1>7 DEF RunRouteAndOccupy, AtStep, Commit
  <1>8. ASSUME NEW t \in Task, RunOpenAssignment(t) PROVE TypeOK'
    <2>1. leg[t] \in Served BY <1>8 DEF RunOpenAssignment, AtStep, WorkflowShape, ShapeOf, Occupying
    <2>2. slots' \in [Task -> Seq(Slot)]
      <3>1. [stage |-> leg[t], open |-> TRUE, audits |-> 0] \in Slot BY <2>1 DEF Slot
      <3>2. Append(slots[t], [stage |-> leg[t], open |-> TRUE, audits |-> 0]) \in Seq(Slot)
        BY <3>1
      <3>3. CASE UNCHANGED slots BY <3>3
      <3>4. CASE slots' = [slots EXCEPT ![t] =
                             Append(@, [stage |-> leg[t], open |-> TRUE, audits |-> 0])]
        BY <3>2, <3>4
      <3> QED BY <1>8, <3>3, <3>4 DEF RunOpenAssignment
    <2> QED BY <1>8, <2>2 DEF RunOpenAssignment, Commit
  <1>9. ASSUME NEW t \in Task, ReceiveResult(t) PROVE TypeOK'
    <2>1. leg[t] \in Topic BY <1>9 DEF ReceiveResult, WorkflowShape, ShapeOf, Occupying, Topic
    <2>2. mail' \in [Task -> [Topic -> Seq(Message)]] BY <1>9, <2>1, TailType DEF ReceiveResult
    <2>3. CASE Return(t, "success") /\ UNCHANGED at
      BY <1>9, <2>2, <2>3, ReturnType DEF ReceiveResult
    <2>4. CASE /\ at' = [at EXCEPT ![t] = "resolve"] /\ thr' = [thr EXCEPT ![t] = "ready"]
               /\ UNCHANGED wf
      BY <1>9, <2>1, <2>2, <2>4 DEF ReceiveResult
    <2> QED BY <1>9, <2>3, <2>4 DEF ReceiveResult
  <1>10. ASSUME NEW t \in Task, Expire(t) PROVE TypeOK'
    BY <1>10 DEF Expire, MayExpire
  <1>11. ASSUME NEW t \in Task, RunStageTimeout(t) PROVE TypeOK'
    BY <1>11 DEF RunStageTimeout, AtStep, Commit
  <1>12. ASSUME NEW t \in Task, RunResolveAndAdvance(t) PROVE TypeOK'
    <2>1. leg[t] \in Served
      BY <1>12 DEF RunResolveAndAdvance, AtStep, WorkflowShape, ShapeOf, Occupying
    <2>2. slots' \in [Task -> Seq(Slot)]
      <3>1. slots' = [slots EXCEPT ![t] = Resolved(t)] BY <1>12 DEF RunResolveAndAdvance
      <3>2. \A i \in DOMAIN slots[t] : Resolved(t)[i] \in Slot
        <4> TAKE i \in DOMAIN slots[t]
        <4>1. CASE i \in LatestSlot(t, leg[t]) BY <4>1, SlotType DEF Resolved
        <4>2. CASE i \notin LatestSlot(t, leg[t]) BY <4>2, SlotType DEF Resolved
        <4> QED BY <4>1, <4>2
      <3>3. Resolved(t) = [i \in DOMAIN slots[t] |-> Resolved(t)[i]] BY DEF Resolved
      <3>4. slots[t] \in Seq(Slot) OBVIOUS
      <3>5. Resolved(t) \in Seq(Slot) BY ONLY <3>2, <3>3, <3>4, SameDomainSeq
      <3> QED BY <3>1, <3>5
    <2>3. stage' \in [Task -> Stage] BY <1>12, <2>1 DEF RunResolveAndAdvance, NextStage, Stage
    <2>4. AfterLeg(leg[t]) \in Position BY DEF AfterLeg
    <2> QED BY <1>12, <2>2, <2>3, <2>4 DEF RunResolveAndAdvance, Commit
  <1>13. ASSUME NEW t \in Task, RunReadiness(t) PROVE TypeOK'
    <2>1. \/ UNCHANGED state
          \/ state' = [state EXCEPT ![t] =
                         IF @ \in {"accepted", "waiting"} THEN "executing" ELSE @]
          \/ state' = [state EXCEPT ![t] = IF @ = "accepted" THEN "waiting" ELSE @]
      BY <1>13 DEF RunReadiness
    <2>2. state' \in [Task -> State \cup {"absent"}]
      <3>1. CASE UNCHANGED state BY <3>1
      <3>2. CASE state' = [state EXCEPT ![t] =
                             IF @ \in {"accepted", "waiting"} THEN "executing" ELSE @]
        BY <3>2 DEF State
      <3>3. CASE state' = [state EXCEPT ![t] = IF @ = "accepted" THEN "waiting" ELSE @]
        BY <3>3 DEF State
      <3> QED BY <2>1, <3>1, <3>2, <3>3
    <2>3. PICK next \in {"end", "route", "parked"} : Commit(t, next) BY <1>13 DEF RunReadiness
    <2> QED BY <1>13, <2>2, <2>3 DEF RunReadiness, Commit
  <1>14. ASSUME NEW t \in Task, ReceiveWake(t) PROVE TypeOK'
    <2>1. "blocked" \in Topic BY DEF Topic
    <2>2. mail' \in [Task -> [Topic -> Seq(Message)]] BY <1>14, <2>1, TailType DEF ReceiveWake
    <2>3. CASE Return(t, "success") /\ UNCHANGED at
      BY <1>14, <2>2, <2>3, ReturnType DEF ReceiveWake
    <2>4. CASE /\ at' = [at EXCEPT ![t] = "gate"] /\ thr' = [thr EXCEPT ![t] = "ready"]
               /\ UNCHANGED wf
      BY <1>14, <2>1, <2>2, <2>4 DEF ReceiveWake
    <2> QED BY <1>14, <2>3, <2>4 DEF ReceiveWake
  <1>15. ASSUME NEW t \in Task, Heartbeat(t) PROVE TypeOK'
    BY <1>15 DEF Heartbeat
  <1>16. ASSUME NEW t \in Task, ReadForCompletion(t) PROVE TypeOK'
    <2>1. state[t] \in State BY <1>16 DEF ReadForCompletion, AtStep, CallShape, ChainAccepted
    <2> QED BY <1>16, <2>1 DEF ReadForCompletion
  <1>17. ASSUME NEW t \in Task, RunCompletion(t) PROVE TypeOK'
    BY <1>17 DEF RunCompletion, EndChainWorkflow, Commit, State
  <1>18. ASSUME NEW t \in Task, RunListDependents(t) PROVE TypeOK'
    BY <1>18 DEF RunListDependents, AtStep, Commit, Dependents
  <1>19. ASSUME NEW t \in Task, WakeDependent(t) PROVE TypeOK'
    <2>1. CASE Return(t, "error") /\ UNCHANGED <<todo, mail>>
      BY <1>19, <2>1, ReturnType DEF WakeDependent
    <2>2. CASE \E d \in todo[t] : /\ Wake({d}) /\ todo' = [todo EXCEPT ![t] = @ \ {d}]
                                  /\ UNCHANGED <<wf, thr>>
      <3>1. mail' \in [Task -> [Topic -> Seq(Message)]] BY <2>2, WakeType
      <3>2. todo' \in [Task -> SUBSET Task] BY <2>2
      <3>3. UNCHANGED <<board, wf, at, leg, tries, thr, out, call, calls, crashes>>
        BY <1>19, <2>2 DEF WakeDependent
      <3> QED BY <3>1, <3>2, <3>3
    <2> QED BY <1>19, <2>1, <2>2 DEF WakeDependent
  <1>20. ASSUME NEW t \in Task, EnqueueFeedback(t) PROVE TypeOK'
    BY <1>20 DEF EnqueueFeedback, AtStep
  <1>21. ASSUME NEW t \in Task, Finish(t) PROVE TypeOK'
    BY <1>21 DEF Finish, Return
  <1>22. ASSUME NEW t \in Task, Poison(t) PROVE TypeOK'
    BY <1>22 DEF Poison, Return
  <1>23. ASSUME NEW t \in Task, AgentReturns(t) PROVE TypeOK'
    BY <1>23 DEF AgentReturns
  <1>24. ASSUME NEW t \in Task, DateArrives(t) PROVE TypeOK'
    BY <1>24 DEF DateArrives
  <1>25. ASSUME NEW c \in Client, NEW t \in Task, Create(c, t) PROVE TypeOK'
    BY <1>25 DEF Create, Place, Begin, Count, Busy, Pc, State, Stage
  <1>26. ASSUME NEW c \in Client, NEW t \in Task, Ingest(c, t) PROVE TypeOK'
    <2>1. CASE Place(t, "accepted") /\ Begin(c, t, "attach")
      BY <1>26, <2>1 DEF Ingest, Place, Begin, Count, Busy, Pc, State, Stage
    <2>2. CASE Place(t, "proposed") /\ Count /\ UNCHANGED call
      BY <1>26, <2>2 DEF Ingest, Place, Count, State
    <2> QED BY <1>26, <2>1, <2>2 DEF Ingest
  <1>27. ASSUME NEW c \in Client, NEW t \in Task, Accept(c, t) PROVE TypeOK'
    BY <1>27 DEF Accept, Begin, Count, Busy, Pc, Stage, State
  <1>28. ASSUME NEW c \in Client, NEW t \in Task, Dismiss(c, t) PROVE TypeOK'
    BY <1>28 DEF Dismiss, Begin, Count, Busy, Pc, Stage, State
  <1>29. ASSUME NEW c \in Client, NEW t \in Task, CompleteTask(c, t) PROVE TypeOK'
    BY <1>29 DEF CompleteTask, Begin, Count, Busy, Pc, Stage
  <1>30. ASSUME NEW c \in Client, NEW t \in Task, CancelTask(c, t) PROVE TypeOK'
    BY <1>30 DEF CancelTask, Count, Busy, Pc
  <1>31. ASSUME NEW c \in Client, NEW t \in Task, Reschedule(c, t) PROVE TypeOK'
    BY <1>31 DEF Reschedule, Count
  <1>32. ASSUME NEW c \in Client, Attach(c) PROVE TypeOK'
    <2>1. call[c] \in Busy BY <1>32, BusyCall DEF Attach, At, Pc
    <2>2. call' \in [Client -> Busy \cup {Idle}] BY <1>32, <2>1, GotoType DEF Attach, At, Pc
    <2> QED BY <1>32, <2>2 DEF Attach
  <1>33. ASSUME NEW c \in Client, RunWorkflow(c) PROVE TypeOK'
    <2>1. /\ wf' \in [Task -> {"none", "pending", "success", "cancelled", "error"}]
          /\ thr' \in [Task -> Thread]
      BY <1>33 DEF RunWorkflow
    <2> QED BY <1>33, <2>1, DoneType DEF RunWorkflow
  <1>34. ASSUME NEW c \in Client, FindOpenAssignment(c) PROVE TypeOK'
    <2>1. CASE Done(c) BY <1>34, <2>1, DoneType DEF FindOpenAssignment
    <2>2. CASE \E i \in OpenSlots(call[c].task) :
                 call' = [call EXCEPT ![c].slot = i, ![c].pc = "send"]
      <3>1. PICK i \in OpenSlots(call[c].task) :
                   call' = [call EXCEPT ![c].slot = i, ![c].pc = "send"]
        BY <2>2
      <3>2. call[c] \in Busy BY <1>34, BusyCall DEF FindOpenAssignment, At, Pc
      <3>3. i \in Nat BY <3>2 DEF OpenSlots, Busy
      <3>4. [call[c] EXCEPT !.slot = i, !.pc = "send"] \in Busy BY <3>2, <3>3 DEF Busy, Pc
      <3>5. call' \in [Client -> Busy \cup {Idle}] BY <3>1, <3>4
      <3> QED BY <1>34, <3>5 DEF FindOpenAssignment
    <2> QED BY <1>34, <2>1, <2>2 DEF FindOpenAssignment
  <1>35. ASSUME NEW c \in Client, SendResult(c) PROVE TypeOK'
    <2>1. call[c] \in Busy BY <1>35, BusyCall DEF SendResult, At, Pc
    <2>2. slots[call[c].task][call[c].slot].stage \in Topic
      <3>1. call[c].task \in Task /\ call[c].slot \in DOMAIN slots[call[c].task]
        BY <1>35, <2>1 DEF SendResult, At, CallShape, CallOf, Busy
      <3>2. slots[call[c].task][call[c].slot] \in Slot BY <3>1, SlotType
      <3> QED BY <3>2 DEF Slot, Topic
    <2>3. mail' \in [Task -> [Topic -> Seq(Message)]]
      BY <1>35, <2>1, <2>2, DeliverType DEF SendResult, Busy, Message
    <2>4. call' \in [Client -> Busy \cup {Idle}] BY <1>35, <2>1, GotoType DEF SendResult, At, Pc
    <2> QED BY <1>35, <2>3, <2>4 DEF SendResult
  <1>36. ASSUME NEW c \in Client, CloseAssignment(c) PROVE TypeOK'
    <2>1. call[c] \in Busy BY <1>36, BusyCall DEF CloseAssignment, At, Pc
    <2>2. slots' \in [Task -> Seq(Slot)]
      <3> DEFINE u == call[c].task  k == call[c].slot
      <3>1. u \in Task /\ k \in DOMAIN slots[u]
        BY <1>36, <2>1 DEF CloseAssignment, At, CallShape, CallOf, Busy
      <3>2. [slots[u][k] EXCEPT !.open = FALSE] \in Slot BY <3>1, SlotType
      <3> HIDE DEF u, k
      <3>3. [slots[u] EXCEPT ![k] = [@ EXCEPT !.open = FALSE]] \in Seq(Slot) BY <3>1, <3>2
      <3> QED BY <1>36, <3>1, <3>3 DEF CloseAssignment, u, k
    <2> QED BY <1>36, <2>2, DoneType DEF CloseAssignment
  <1>37. ASSUME NEW c \in Client, FindLiveWorkflow(c) PROVE TypeOK'
    <2>1. call[c] \in Busy BY <1>37, BusyCall DEF FindLiveWorkflow, At, Pc
    <2>2. [call[c] EXCEPT !.live = (row[call[c].task] = "live"), !.pc = "cleanup"] \in Busy
      BY <2>1 DEF Busy, Pc
    <2>3. call' \in [Client -> Busy \cup {Idle}] BY <1>37, <2>2 DEF FindLiveWorkflow
    <2> QED BY <1>37, <2>3 DEF FindLiveWorkflow
  <1>38. ASSUME NEW c \in Client, HandleCancelCleanup(c) PROVE TypeOK'
    <2>1. call[c] \in Busy BY <1>38, BusyCall DEF HandleCancelCleanup, At, Pc
    <2>2. call' \in [Client -> Busy \cup {Idle}]
      BY <1>38, <2>1, GotoType DEF HandleCancelCleanup, At, Pc
    <2>3. state' \in [Task -> State \cup {"absent"}]
      BY <1>38 DEF HandleCancelCleanup, Halted, State
    <2>4. cancels' \in [Task -> Nat]
      <3>1. call[c].task \in Task BY <2>1 DEF Busy
      <3>2. cancels[call[c].task] + 1 \in Nat BY <3>1
      <3> QED BY <1>38, <3>2 DEF HandleCancelCleanup
    <2>5. row' \in [Task -> {"none", "live", "success", "cancelled"}]
      <3>1. EndChainWorkflow(call[c].task, "cancelled") BY <1>38 DEF HandleCancelCleanup
      <3>2. row \in [Task -> {"none", "live", "success", "cancelled"}] OBVIOUS
      <3> HIDE DEF TypeInv, TypeOK, board, durable, memory, Position, Thread
      <3> QED BY <3>1, <3>2 DEF EndChainWorkflow
    <2> QED BY <1>38, <2>2, <2>3, <2>4, <2>5 DEF HandleCancelCleanup
  <1>39. ASSUME NEW c \in Client, CancelWorkflow(c) PROVE TypeOK'
    <2>1. call[c] \in Busy BY <1>39, BusyCall DEF CancelWorkflow, At, Pc
    <2>2. call' \in [Client -> Busy \cup {Idle}] BY <1>39, <2>1, GotoType DEF CancelWorkflow, At, Pc
    <2>3. wf' \in [Task -> {"none", "pending", "success", "cancelled", "error"}]
      <3>1. CASE UNCHANGED wf BY <3>1
      <3>2. CASE wf' = [wf EXCEPT ![call[c].task] = IF @ = "pending" THEN "cancelled" ELSE @]
        BY <3>2
      <3> QED BY <1>39, <3>1, <3>2 DEF CancelWorkflow
    <2> QED BY <1>39, <2>2, <2>3 DEF CancelWorkflow
  <1>40. ASSUME NEW c \in Client, SignalStage(c) PROVE TypeOK'
    <2>1. call[c] \in Busy BY <1>40, BusyCall DEF SignalStage, At, Pc
    <2>2. call' \in [Client -> Busy \cup {Idle}] BY <1>40, <2>1, GotoType DEF SignalStage, At, Pc
    <2>3. mail' \in [Task -> [Topic -> Seq(Message)]]
      BY <1>40, <2>1, DeliverType DEF SignalStage, Busy, Topic, Message
    <2> QED BY <1>40, <2>2, <2>3 DEF SignalStage
  <1>41. ASSUME NEW c \in Client, SignalBlocked(c) PROVE TypeOK'
    <2>1. call[c] \in Busy BY <1>41, BusyCall DEF SignalBlocked, At, Pc
    <2>2. call' \in [Client -> Busy \cup {Idle}] BY <1>41, <2>1, GotoType DEF SignalBlocked, At, Pc
    <2>3. mail' \in [Task -> [Topic -> Seq(Message)]]
      BY <1>41, <2>1, DeliverType DEF SignalBlocked, Busy, Topic, Message
    <2> QED BY <1>41, <2>2, <2>3 DEF SignalBlocked
  <1>42. ASSUME NEW c \in Client, WakeDependents(c) PROVE TypeOK'
    <2>1. mail' \in [Task -> [Topic -> Seq(Message)]] BY <1>42, WakeType DEF WakeDependents
    <2> QED BY <1>42, <2>1, DoneType DEF WakeDependents
  <1>43. ASSUME NEW c \in Client, Abandon(c) PROVE TypeOK'
    BY <1>43, DoneType DEF Abandon
  <1>44. CASE Crash BY <1>44 DEF Crash
  <1> HIDE DEF TypeInv, TypeOK, board, durable, memory, Position, Thread
  <1> QED
    BY <1>1, <1>2, <1>3, <1>4, <1>5, <1>6, <1>7, <1>8, <1>9, <1>10, <1>11, <1>12, <1>13,
       <1>14, <1>15, <1>16, <1>17, <1>18, <1>19, <1>20, <1>21, <1>22, <1>23, <1>24, <1>25,
       <1>26, <1>27, <1>28, <1>29, <1>30, <1>31, <1>32, <1>33, <1>34, <1>35, <1>36, <1>37,
       <1>38, <1>39, <1>40, <1>41, <1>42, <1>43, <1>44
       DEF Next, Drive, Arrive, Continue

-----------------------------------------------------------------------------
(* Which actions write what. *)

\* The actions that change the state of a task.
LEMMA StateWriters ==
  ASSUME Next
  PROVE  \/ UNCHANGED state
         \/ \E t \in Task : RunReadiness(t) \/ RunCompletion(t)
         \/ \E c \in Client, t \in Task :
              Create(c, t) \/ Ingest(c, t) \/ Accept(c, t) \/ Dismiss(c, t)
         \/ \E c \in Client : HandleCancelCleanup(c)
  <1>1. ASSUME NEW t \in Task, Drive(t) \/ Poison(t) \/ AgentReturns(t) \/ DateArrives(t),
               ~RunReadiness(t), ~RunCompletion(t)
        PROVE  UNCHANGED state
    BY <1>1 DEF Drive, board, durable, Commit, Start, Record, Stop, Recover, EnterReceive,
           RunAdvanceStage, RunRouteAndOccupy, RunOpenAssignment, ReceiveResult, Expire,
           RunStageTimeout, RunResolveAndAdvance, ReceiveWake, Heartbeat, ReadForCompletion,
           RunListDependents, WakeDependent, EnqueueFeedback, Finish, Poison, AgentReturns,
           DateArrives
  <1>2. ASSUME NEW c \in Client, NEW t \in Task, Arrive(c, t),
               ~Create(c, t), ~Ingest(c, t), ~Accept(c, t), ~Dismiss(c, t)
        PROVE  UNCHANGED state
    BY <1>2 DEF Arrive, board, durable, memory, CompleteTask, CancelTask, Reschedule
  <1>3. ASSUME NEW c \in Client, Continue(c) \/ Abandon(c), ~HandleCancelCleanup(c)
        PROVE  UNCHANGED state
    BY <1>3 DEF Continue, board, durable, Attach, RunWorkflow, FindOpenAssignment, SendResult,
           CloseAssignment, FindLiveWorkflow, CancelWorkflow, SignalStage, SignalBlocked,
           WakeDependents, Abandon
  <1> QED BY <1>1, <1>2, <1>3 DEF Next, Crash, board

\* The actions that write assignments.
LEMMA SlotWriters ==
  ASSUME Next
  PROVE  \/ UNCHANGED slots
         \/ \E t \in Task : RunOpenAssignment(t) \/ RunResolveAndAdvance(t)
         \/ \E c \in Client : CloseAssignment(c)
  <1>1. ASSUME NEW t \in Task, Drive(t) \/ Poison(t) \/ AgentReturns(t) \/ DateArrives(t),
               ~RunOpenAssignment(t), ~RunResolveAndAdvance(t)
        PROVE  UNCHANGED slots
    BY <1>1 DEF Drive, board, durable, Commit, Start, Record, Stop, Recover, EnterReceive,
           RunAdvanceStage, RunRouteAndOccupy, ReceiveResult, Expire, RunStageTimeout,
           RunReadiness, ReceiveWake, Heartbeat, ReadForCompletion, RunCompletion,
           RunListDependents, WakeDependent, EnqueueFeedback, Finish, Poison, AgentReturns,
           DateArrives
  <1>2. ASSUME NEW c \in Client, NEW t \in Task, Arrive(c, t)
        PROVE  UNCHANGED slots
    BY <1>2 DEF Arrive, board, durable, memory, Create, Ingest, Accept, Dismiss, CompleteTask,
           CancelTask, Reschedule
  <1>3. ASSUME NEW c \in Client, Continue(c) \/ Abandon(c), ~CloseAssignment(c)
        PROVE  UNCHANGED slots
    BY <1>3 DEF Continue, board, durable, Attach, RunWorkflow, FindOpenAssignment, SendResult,
           FindLiveWorkflow, HandleCancelCleanup, CancelWorkflow, SignalStage,
           SignalBlocked, WakeDependents, Abandon
  <1> QED BY <1>1, <1>2, <1>3 DEF Next, Crash, board

\* The actions that move a workflow; the others leave its position and goroutine alone.
LEMMA FlowWriters ==
  ASSUME Next
  PROVE  \/ UNCHANGED <<wf, at, leg, tries, thr, out>>
         \/ \E t \in Task : Drive(t) \/ Poison(t) \/ AgentReturns(t)
         \/ \E c \in Client : RunWorkflow(c) \/ CancelWorkflow(c)
         \/ Crash
  <1>1. ASSUME NEW t \in Task, DateArrives(t)
        PROVE  UNCHANGED <<wf, at, leg, tries, thr, out>>
    BY <1>1 DEF DateArrives, durable, memory
  <1>2. ASSUME NEW c \in Client, NEW t \in Task, Arrive(c, t)
        PROVE  UNCHANGED <<wf, at, leg, tries, thr, out>>
    BY <1>2 DEF Arrive, board, durable, memory, Create, Ingest, Accept, Dismiss, CompleteTask,
           CancelTask, Reschedule
  <1>3. ASSUME NEW c \in Client, Continue(c) \/ Abandon(c), ~RunWorkflow(c), ~CancelWorkflow(c)
        PROVE  UNCHANGED <<wf, at, leg, tries, thr, out>>
    BY <1>3 DEF Continue, board, durable, Attach, FindOpenAssignment, SendResult,
           CloseAssignment, FindLiveWorkflow, HandleCancelCleanup, SignalStage,
           SignalBlocked, WakeDependents, Abandon
  <1> QED BY <1>1, <1>2, <1>3 DEF Next

\* The actions that write the stage column.
LEMMA StageWriters ==
  ASSUME Next
  PROVE  \/ UNCHANGED stage
         \/ \E t \in Task : RunAdvanceStage(t) \/ RunResolveAndAdvance(t)
  <1>1. ASSUME NEW t \in Task, Drive(t) \/ Poison(t) \/ AgentReturns(t) \/ DateArrives(t),
               ~RunAdvanceStage(t), ~RunResolveAndAdvance(t)
        PROVE  UNCHANGED stage
    BY <1>1 DEF Drive, board, durable, Commit, Start, Record, Stop, Recover, EnterReceive,
           RunRouteAndOccupy, RunOpenAssignment, ReceiveResult, Expire, RunStageTimeout,
           RunReadiness, ReceiveWake, Heartbeat, ReadForCompletion, RunCompletion,
           RunListDependents, WakeDependent, EnqueueFeedback, Finish, Poison, AgentReturns,
           DateArrives
  <1>2. ASSUME NEW c \in Client, NEW t \in Task, Arrive(c, t)
        PROVE  UNCHANGED stage
    BY <1>2 DEF Arrive, board, durable, memory, Create, Ingest, Accept, Dismiss, CompleteTask,
           CancelTask, Reschedule
  <1>3. ASSUME NEW c \in Client, Continue(c) \/ Abandon(c)
        PROVE  UNCHANGED stage
    BY <1>3 DEF Continue, board, durable, Attach, RunWorkflow, FindOpenAssignment, SendResult,
           CloseAssignment, FindLiveWorkflow, HandleCancelCleanup, CancelWorkflow,
           SignalStage, SignalBlocked, WakeDependents, Abandon
  <1> QED BY <1>1, <1>2, <1>3 DEF Next, Crash, board

-----------------------------------------------------------------------------
(* Position, stage and goroutine of a workflow. *)

\* A step that leaves position, goroutine and results of a task alone keeps its shape.
LEMMA ShapeFrame ==
  ASSUME NEW u \in Task, ShapeOf(u), at'[u] = at[u], leg'[u] = leg[u], tries'[u] = tries[u],
         thr'[u] = thr[u], out'[u] = out[u]
  PROVE  ShapeOf(u)'
  BY DEF ShapeOf, MayExpire

\* Every step preserves the fit of position, served stage and goroutine.
LEMMA ShapeStep == ASSUME TypeInv, Next PROVE WorkflowShape'
  <1> SUFFICES ASSUME NEW u \in Task PROVE ShapeOf(u)'
    BY DEF WorkflowShape
  <1>0. ShapeOf(u) BY DEF TypeInv, WorkflowShape
  <1> USE DEF TypeInv, TypeOK, board, durable, memory
  <1>1. ASSUME NEW t \in Task, Start(t) PROVE ShapeOf(u)'
    <2>1. CASE u # t BY <1>0, <1>1, <2>1, ShapeFrame DEF Start, Return
    <2>2. CASE u = t BY <1>0, <1>1, <2>2 DEF Start, ShapeOf, Occupying, MayExpire, Return
    <2> QED BY <2>1, <2>2
  <1>2. ASSUME NEW t \in Task, Record(t) PROVE ShapeOf(u)'
    <2>1. CASE u # t BY <1>0, <1>2, <2>1, ShapeFrame DEF Record
    <2>2. CASE u = t
      BY <1>0, <1>2, <2>2
         DEF Record, ShapeOf, Occupying, MayExpire, Leads, AfterLeg, NextStage, Served
    <2> QED BY <2>1, <2>2
  <1>3. ASSUME NEW t \in Task, Stop(t) PROVE ShapeOf(u)'
    <2>1. CASE u # t BY <1>0, <1>3, <2>1, ShapeFrame DEF Stop
    <2>2. CASE u = t BY <1>0, <1>3, <2>2 DEF Stop, ShapeOf, Occupying, MayExpire
    <2> QED BY <2>1, <2>2
  <1>4. ASSUME NEW t \in Task, Recover(t) PROVE ShapeOf(u)'
    <2>1. CASE u # t BY <1>0, <1>4, <2>1, ShapeFrame DEF Recover
    <2>2. CASE u = t BY <1>0, <1>4, <2>2 DEF Recover, ShapeOf, Occupying, MayExpire
    <2> QED BY <2>1, <2>2
  <1>5. ASSUME NEW t \in Task, EnterReceive(t) PROVE ShapeOf(u)'
    <2>1. CASE u # t BY <1>0, <1>5, <2>1, ShapeFrame DEF EnterReceive, AtStep
    <2>2. CASE u = t BY <1>0, <1>5, <2>2 DEF EnterReceive, ShapeOf, Occupying, MayExpire, AtStep
    <2> QED BY <2>1, <2>2
  <1>6. ASSUME NEW t \in Task, RunAdvanceStage(t) PROVE ShapeOf(u)'
    <2>1. CASE u # t BY <1>0, <1>6, <2>1, ShapeFrame DEF RunAdvanceStage, AtStep, Commit
    <2>2. CASE u = t
      BY <1>0, <1>6, <2>2
         DEF RunAdvanceStage, ShapeOf, Occupying, MayExpire, AtStep, Commit, Leads
    <2> QED BY <2>1, <2>2
  <1>7. ASSUME NEW t \in Task, RunRouteAndOccupy(t) PROVE ShapeOf(u)'
    <2>1. CASE u # t BY <1>0, <1>7, <2>1, ShapeFrame DEF RunRouteAndOccupy, AtStep, Commit
    <2>2. CASE u = t
      BY <1>0, <1>7, <2>2
         DEF RunRouteAndOccupy, ShapeOf, Occupying, MayExpire, AtStep, Commit, Leads
    <2> QED BY <2>1, <2>2
  <1>8. ASSUME NEW t \in Task, RunOpenAssignment(t) PROVE ShapeOf(u)'
    <2>1. CASE u # t BY <1>0, <1>8, <2>1, ShapeFrame DEF RunOpenAssignment, AtStep, Commit
    <2>2. CASE u = t
      BY <1>0, <1>8, <2>2
         DEF RunOpenAssignment, ShapeOf, Occupying, MayExpire, AtStep, Commit, Leads
    <2> QED BY <2>1, <2>2
  <1>9. ASSUME NEW t \in Task, ReceiveResult(t) PROVE ShapeOf(u)'
    <2>1. CASE u # t BY <1>0, <1>9, <2>1, ShapeFrame DEF ReceiveResult, Return
    <2>2. CASE u = t
      BY <1>0, <1>9, <2>2 DEF ReceiveResult, ShapeOf, Occupying, MayExpire, Return
    <2> QED BY <2>1, <2>2
  <1>10. ASSUME NEW t \in Task, Expire(t) PROVE ShapeOf(u)'
    <2>1. CASE u # t BY <1>0, <1>10, <2>1, ShapeFrame DEF Expire
    <2>2. CASE u = t BY <1>0, <1>10, <2>2 DEF Expire, ShapeOf, Occupying, MayExpire
    <2> QED BY <2>1, <2>2
  <1>11. ASSUME NEW t \in Task, RunStageTimeout(t) PROVE ShapeOf(u)'
    <2>1. CASE u # t BY <1>0, <1>11, <2>1, ShapeFrame DEF RunStageTimeout, AtStep, Commit
    <2>2. CASE u = t
      BY <1>0, <1>11, <2>2
         DEF RunStageTimeout, ShapeOf, Occupying, MayExpire, AtStep, Commit, Leads
    <2> QED BY <2>1, <2>2
  <1>12. ASSUME NEW t \in Task, RunResolveAndAdvance(t) PROVE ShapeOf(u)'
    <2>1. CASE u # t BY <1>0, <1>12, <2>1, ShapeFrame DEF RunResolveAndAdvance, AtStep, Commit
    <2>2. CASE u = t
      BY <1>0, <1>12, <2>2
         DEF RunResolveAndAdvance, ShapeOf, Occupying, MayExpire, AtStep, Commit, Leads
    <2> QED BY <2>1, <2>2
  <1>13. ASSUME NEW t \in Task, RunReadiness(t) PROVE ShapeOf(u)'
    <2>1. CASE u # t BY <1>0, <1>13, <2>1, ShapeFrame DEF RunReadiness, AtStep, Commit
    <2>2. CASE u = t
      BY <1>0, <1>13, <2>2
         DEF RunReadiness, ShapeOf, Occupying, MayExpire, AtStep, Commit, Leads
    <2> QED BY <2>1, <2>2
  <1>14. ASSUME NEW t \in Task, ReceiveWake(t) PROVE ShapeOf(u)'
    <2>1. CASE u # t BY <1>0, <1>14, <2>1, ShapeFrame DEF ReceiveWake, Return
    <2>2. CASE u = t BY <1>0, <1>14, <2>2 DEF ReceiveWake, ShapeOf, Occupying, MayExpire, Return
    <2> QED BY <2>1, <2>2
  <1>15. ASSUME NEW t \in Task, Heartbeat(t) PROVE ShapeOf(u)'
    <2>1. CASE u # t BY <1>0, <1>15, <2>1, ShapeFrame DEF Heartbeat
    <2>2. CASE u = t BY <1>0, <1>15, <2>2 DEF Heartbeat, ShapeOf, Occupying, MayExpire
    <2> QED BY <2>1, <2>2
  <1>16. ASSUME NEW t \in Task, ReadForCompletion(t) PROVE ShapeOf(u)'
    <2>1. CASE u # t BY <1>0, <1>16, <2>1, ShapeFrame DEF ReadForCompletion, AtStep
    <2>2. CASE u = t
      BY <1>0, <1>16, <2>2
         DEF ReadForCompletion, ShapeOf, Occupying, MayExpire, AtStep, CallShape,
             ChainAccepted
    <2> QED BY <2>1, <2>2
  <1>17. ASSUME NEW t \in Task, RunCompletion(t) PROVE ShapeOf(u)'
    <2>1. CASE u # t BY <1>0, <1>17, <2>1, ShapeFrame DEF RunCompletion, Commit
    <2>2. CASE u = t
      BY <1>0, <1>17, <2>2 DEF RunCompletion, ShapeOf, Occupying, MayExpire, Commit, Leads
    <2> QED BY <2>1, <2>2
  <1>18. ASSUME NEW t \in Task, RunListDependents(t) PROVE ShapeOf(u)'
    <2>1. CASE u # t BY <1>0, <1>18, <2>1, ShapeFrame DEF RunListDependents, AtStep, Commit
    <2>2. CASE u = t
      BY <1>0, <1>18, <2>2
         DEF RunListDependents, ShapeOf, Occupying, MayExpire, AtStep, Commit, Leads
    <2> QED BY <2>1, <2>2
  <1>19. ASSUME NEW t \in Task, WakeDependent(t) PROVE ShapeOf(u)'
    <2>1. CASE u # t BY <1>0, <1>19, <2>1, ShapeFrame DEF WakeDependent, AtStep, Return
    <2>2. CASE u = t
      BY <1>0, <1>19, <2>2 DEF WakeDependent, ShapeOf, Occupying, MayExpire, AtStep, Return
    <2> QED BY <2>1, <2>2
  <1>20. ASSUME NEW t \in Task, EnqueueFeedback(t) PROVE ShapeOf(u)'
    <2>1. CASE u # t BY <1>0, <1>20, <2>1, ShapeFrame DEF EnqueueFeedback, AtStep
    <2>2. CASE u = t
      BY <1>0, <1>20, <2>2 DEF EnqueueFeedback, ShapeOf, Occupying, MayExpire, AtStep
    <2> QED BY <2>1, <2>2
  <1>21. ASSUME NEW t \in Task, Finish(t) PROVE ShapeOf(u)'
    <2>1. CASE u # t BY <1>0, <1>21, <2>1, ShapeFrame DEF Finish, Return
    <2>2. CASE u = t BY <1>0, <1>21, <2>2 DEF Finish, ShapeOf, Occupying, MayExpire, Return
    <2> QED BY <2>1, <2>2
  <1>22. ASSUME NEW t \in Task, Poison(t) PROVE ShapeOf(u)'
    <2>1. CASE u # t BY <1>0, <1>22, <2>1, ShapeFrame DEF Poison, Return
    <2>2. CASE u = t BY <1>0, <1>22, <2>2 DEF Poison, ShapeOf, Occupying, MayExpire, Return
    <2> QED BY <2>1, <2>2
  <1>23. ASSUME NEW t \in Task, AgentReturns(t) PROVE ShapeOf(u)'
    <2>1. CASE u # t BY <1>0, <1>23, <2>1, ShapeFrame DEF AgentReturns
    <2>2. CASE u = t BY <1>0, <1>23, <2>2 DEF AgentReturns, ShapeOf, Occupying, MayExpire
    <2> QED BY <2>1, <2>2
  <1>24. ASSUME NEW c \in Client, RunWorkflow(c) PROVE ShapeOf(u)'
    BY <1>0, <1>24 DEF RunWorkflow, ShapeOf, MayExpire
  <1>25. CASE Crash BY <1>0, <1>25 DEF Crash, ShapeOf, MayExpire
  <1>26. ASSUME UNCHANGED <<at, leg, tries, thr, out>> PROVE ShapeOf(u)'
    BY <1>0, <1>26, ShapeFrame
  <1>27. ASSUME NEW t \in Task, DateArrives(t) PROVE ShapeOf(u)' BY <1>26, <1>27 DEF DateArrives
  <1>28. ASSUME NEW c \in Client, NEW t \in Task, Arrive(c, t) PROVE ShapeOf(u)'
    BY <1>26, <1>28
       DEF Arrive, Create, Ingest, Accept, Dismiss, CompleteTask, CancelTask, Reschedule
  <1>29. ASSUME NEW c \in Client, Continue(c) \/ Abandon(c), ~RunWorkflow(c) PROVE ShapeOf(u)'
    BY <1>26, <1>29
       DEF Continue, Attach, FindOpenAssignment, SendResult, CloseAssignment,
           FindLiveWorkflow, HandleCancelCleanup, CancelWorkflow, SignalStage,
           SignalBlocked, WakeDependents, Abandon
  <1> HIDE DEF TypeInv, TypeOK, board, durable, memory
  <1> QED
    BY <1>1, <1>2, <1>3, <1>4, <1>5, <1>6, <1>7, <1>8, <1>9, <1>10, <1>11, <1>12, <1>13,
       <1>14, <1>15, <1>16, <1>17, <1>18, <1>19, <1>20, <1>21, <1>22, <1>23, <1>24, <1>25,
       <1>26, <1>27, <1>28, <1>29
       DEF Next, Drive, Continue

-----------------------------------------------------------------------------
(* Tasks and callers. *)

\* A task that exists never disappears, and one that was accepted stays accepted.
LEMMA StaysPlaced ==
  ASSUME TypeInv, Next, NEW u \in Task
  PROVE  /\ state[u] # "absent" => state'[u] # "absent"
         /\ state[u] \notin {"absent", "proposed"}
              => state'[u] \notin {"absent", "proposed"}
  <1> USE DEF TypeInv, TypeOK
  <1>1. ASSUME NEW t \in Task, RunReadiness(t) \/ RunCompletion(t)
        PROVE  /\ state[u] # "absent" => state'[u] # "absent"
               /\ state[u] \notin {"absent", "proposed"}
                    => state'[u] \notin {"absent", "proposed"}
    BY <1>1 DEF RunReadiness, RunCompletion
  <1>2. ASSUME NEW c \in Client, NEW t \in Task,
               Create(c, t) \/ Ingest(c, t) \/ Accept(c, t) \/ Dismiss(c, t)
        PROVE  /\ state[u] # "absent" => state'[u] # "absent"
               /\ state[u] \notin {"absent", "proposed"}
                    => state'[u] \notin {"absent", "proposed"}
    BY <1>2 DEF Create, Ingest, Accept, Dismiss, Place
  <1>3. ASSUME NEW c \in Client, HandleCancelCleanup(c)
        PROVE  /\ state[u] # "absent" => state'[u] # "absent"
               /\ state[u] \notin {"absent", "proposed"}
                    => state'[u] \notin {"absent", "proposed"}
    BY <1>3 DEF HandleCancelCleanup, Halted
  <1> HIDE DEF TypeInv, TypeOK
  <1> QED BY <1>1, <1>2, <1>3, StateWriters

\* Assignments are never deleted.
LEMMA SlotsStay ==
  ASSUME TypeInv, Next, NEW u \in Task
  PROVE  DOMAIN slots[u] \subseteq DOMAIN slots'[u]
  <1> USE DEF TypeInv, TypeOK
  <1>1. ASSUME NEW t \in Task, RunOpenAssignment(t)
        PROVE  DOMAIN slots[u] \subseteq DOMAIN slots'[u]
    <2> DEFINE new == [stage |-> leg[t], open |-> TRUE, audits |-> 0]
    <2>1. CASE UNCHANGED slots BY <2>1
    <2>2. CASE slots' = [slots EXCEPT ![t] = Append(@, new)]
      <3> HIDE DEF new
      <3>1. DOMAIN slots[t] = 1 .. Len(slots[t]) /\ Len(slots[t]) \in Nat OBVIOUS
      <3>2. DOMAIN Append(slots[t], new) = 1 .. Len(slots[t]) + 1 OBVIOUS
      <3> QED BY <2>2, <3>1, <3>2
    <2> QED BY <1>1, <2>1, <2>2 DEF RunOpenAssignment
  <1>2. ASSUME NEW t \in Task, RunResolveAndAdvance(t)
        PROVE  DOMAIN slots[u] \subseteq DOMAIN slots'[u]
    BY <1>2 DEF RunResolveAndAdvance, Resolved
  <1>3. ASSUME NEW c \in Client, CloseAssignment(c)
        PROVE  DOMAIN slots[u] \subseteq DOMAIN slots'[u]
    BY <1>3 DEF CloseAssignment
  <1> HIDE DEF TypeInv, TypeOK
  <1> QED BY <1>1, <1>2, <1>3, SlotWriters

\* The runtime touches only tasks that have a workflow, and creates none.
LEMMA DriveLocal ==
  ASSUME TypeInv, NEW t \in Task, Drive(t) \/ Poison(t) \/ AgentReturns(t), NEW u \in Task
  PROVE  /\ wf[t] # "none" /\ wf'[t] # "none"
         /\ u # t => wf'[u] = wf[u] /\ thr'[u] = thr[u] /\ at'[u] = at[u]
  <1> USE DEF TypeInv, TypeOK, CallShape, ChainAccepted, durable
  <1> DEFINE P == /\ wf[t] # "none" /\ wf'[t] # "none"
                  /\ u # t => wf'[u] = wf[u] /\ thr'[u] = thr[u] /\ at'[u] = at[u]
  <1>1. ASSUME \/ Start(t) \/ Stop(t) \/ Recover(t) \/ Poison(t) \/ Finish(t)
               \/ AgentReturns(t) \/ EnterReceive(t)
        PROVE  P
    BY <1>1
       DEF Start, Stop, Recover, Poison, Finish, AgentReturns, EnterReceive, AtStep, Commit,
           Return
  <1>2. ASSUME Record(t) PROVE P
    BY <1>2 DEF Record, AtStep, Commit, Return
  <1>3. ASSUME \/ RunAdvanceStage(t) \/ RunRouteAndOccupy(t) \/ RunOpenAssignment(t)
               \/ RunStageTimeout(t) \/ RunResolveAndAdvance(t)
        PROVE  P
    BY <1>3 DEF RunAdvanceStage, RunRouteAndOccupy, RunOpenAssignment, RunStageTimeout,
           RunResolveAndAdvance, AtStep, Commit, Return
  <1>4. ASSUME RunReadiness(t) PROVE P
    BY <1>4 DEF RunReadiness, AtStep, Commit, Return
  <1>5. ASSUME RunCompletion(t) \/ RunListDependents(t) PROVE P
    BY <1>5 DEF RunCompletion, RunListDependents, AtStep, Commit, Return
  <1>6. ASSUME ReceiveResult(t) \/ ReceiveWake(t) PROVE P
    BY <1>6 DEF ReceiveResult, ReceiveWake, AtStep, Commit, Return
  <1>7. ASSUME Expire(t) \/ Heartbeat(t) \/ ReadForCompletion(t) PROVE P
    BY <1>7 DEF Expire, Heartbeat, ReadForCompletion, AtStep, Commit, Return
  <1>8. ASSUME EnqueueFeedback(t) PROVE P
    BY <1>8 DEF EnqueueFeedback, AtStep, Commit, Return
  <1>9. ASSUME WakeDependent(t) PROVE P
    <2>1. AtStep(t, "wake") /\ UNCHANGED at /\ (Return(t, "error") \/ UNCHANGED <<wf, thr>>)
      BY <1>9 DEF WakeDependent
    <2> QED BY <2>1 DEF AtStep, Return
  <1> HIDE DEF TypeInv, TypeOK, P
  <1> QED BY <1>1, <1>2, <1>3, <1>4, <1>5, <1>6, <1>7, <1>8, <1>9 DEF Drive, P

\* No step gives a workflow to a task that was not accepted.
LEMMA AcceptedStep == ASSUME TypeInv, Next PROVE ChainAccepted'
  <1> SUFFICES ASSUME NEW u \in Task
               PROVE  /\ wf'[u] = "none" => thr'[u] = "off" /\ at'[u] = "advance"
                      /\ wf'[u] # "none" => state'[u] \notin {"absent", "proposed"}
    BY DEF ChainAccepted
  <1>1. /\ wf[u] = "none" => thr[u] = "off" /\ at[u] = "advance"
        /\ wf[u] # "none" => state[u] \notin {"absent", "proposed"}
    BY DEF TypeInv, CallShape, ChainAccepted
  <1>2. CASE UNCHANGED <<wf, at, leg, tries, thr, out>>
    BY <1>1, <1>2, StaysPlaced
  <1>3. ASSUME NEW t \in Task, Drive(t) \/ Poison(t) \/ AgentReturns(t)
        PROVE  /\ wf'[u] = "none" => thr'[u] = "off" /\ at'[u] = "advance"
               /\ wf'[u] # "none" => state'[u] \notin {"absent", "proposed"}
    BY <1>1, <1>3, StaysPlaced, DriveLocal
  <1>4. ASSUME NEW c \in Client, RunWorkflow(c)
        PROVE  /\ wf'[u] = "none" => thr'[u] = "off" /\ at'[u] = "advance"
               /\ wf'[u] # "none" => state'[u] \notin {"absent", "proposed"}
    <2>1. call[c].task \in Task
      BY <1>4, BusyCall DEF TypeInv, RunWorkflow, At, Pc, Busy
    <2>2. state[call[c].task] \notin {"absent", "proposed"}
      BY <1>4 DEF RunWorkflow, At, TypeInv, CallShape, CallOf
    <2>3. UNCHANGED state BY <1>4 DEF RunWorkflow, board
    <2> QED BY <1>1, <1>4, <2>1, <2>2, <2>3 DEF RunWorkflow, TypeInv, TypeOK
  <1>5. ASSUME NEW c \in Client, CancelWorkflow(c)
        PROVE  /\ wf'[u] = "none" => thr'[u] = "off" /\ at'[u] = "advance"
               /\ wf'[u] # "none" => state'[u] \notin {"absent", "proposed"}
    <2>1. UNCHANGED <<state, at, thr>> BY <1>5 DEF CancelWorkflow, board
    <2>2. wf'[u] # wf[u] => wf[u] = "pending" /\ wf'[u] = "cancelled"
      BY <1>5 DEF CancelWorkflow, TypeInv, TypeOK
    <2> QED BY <1>1, <2>1, <2>2
  <1>6. CASE Crash BY <1>1, <1>6 DEF Crash, board, durable
  <1> QED BY <1>2, <1>3, <1>4, <1>5, <1>6, FlowWriters

\* Whatever others do, what CallOf says of a caller that does not move stays true.
LEMMA CallFrame ==
  ASSUME TypeInv, Next, NEW d \in Client, call'[d] = call[d]
  PROVE  CallOf(d)'
  <1>1. CASE call[d].pc \in Pc \ {"idle"}
    <2>1. call[d].task \in Task BY <1>1, BusyCall DEF TypeInv, Busy
    <2>2. CallOf(d) BY DEF TypeInv, CallShape
    <2> QED BY <2>1, <2>2, StaysPlaced, SlotsStay DEF CallOf
  <1>2. CASE call[d].pc \notin Pc \ {"idle"}
    BY <1>2 DEF CallOf, TypeInv, TypeOK, Idle, Busy, Pc
  <1> QED BY <1>1, <1>2

\* Every step keeps callers on tasks and assignments that exist.
LEMMA CallStep == ASSUME TypeInv, Next PROVE \A d \in Client : CallOf(d)'
  <1> SUFFICES ASSUME NEW d \in Client PROVE CallOf(d)'
    OBVIOUS
  <1>0. CallOf(d) BY DEF TypeInv, CallShape
  <1>1. ASSUME NEW t \in Task, Drive(t) \/ Poison(t) \/ AgentReturns(t) \/ DateArrives(t)
        PROVE  CallOf(d)'
    <2>1. UNCHANGED call
      BY <1>1 DEF Drive, memory, Commit, Start, Record, Stop, Recover, EnterReceive,
             RunAdvanceStage, RunRouteAndOccupy, RunOpenAssignment, ReceiveResult, Expire,
             RunStageTimeout, RunResolveAndAdvance, RunReadiness, ReceiveWake, Heartbeat,
             ReadForCompletion, RunCompletion, RunListDependents, WakeDependent,
             EnqueueFeedback, Finish, Poison, AgentReturns, DateArrives
    <2> QED BY <2>1, CallFrame
  <1>2. ASSUME NEW c \in Client, NEW t \in Task, Create(c, t) PROVE CallOf(d)'
    <2>1. CASE d # c BY <1>2, <2>1, CallFrame DEF Create, Begin, TypeInv, TypeOK
    <2>2. CASE d = c
      BY <1>2, <2>2 DEF Create, Begin, Place, TypeInv, TypeOK, CallOf
    <2> QED BY <2>1, <2>2
  <1>3. ASSUME NEW c \in Client, NEW t \in Task, Accept(c, t) PROVE CallOf(d)'
    <2>1. CASE d # c BY <1>3, <2>1, CallFrame DEF Accept, Begin, TypeInv, TypeOK
    <2>2. CASE d = c
      BY <1>3, <2>2 DEF Accept, Begin,  TypeInv, TypeOK, CallOf
    <2> QED BY <2>1, <2>2
  <1>4. ASSUME NEW c \in Client, NEW t \in Task, Dismiss(c, t) PROVE CallOf(d)'
    <2>1. CASE d # c BY <1>4, <2>1, CallFrame DEF Dismiss, Begin, TypeInv, TypeOK
    <2>2. CASE d = c
      BY <1>4, <2>2 DEF Dismiss, Begin,  TypeInv, TypeOK, CallOf
    <2> QED BY <2>1, <2>2
  <1>5. ASSUME NEW c \in Client, NEW t \in Task, CompleteTask(c, t) PROVE CallOf(d)'
    <2>1. CASE d # c BY <1>5, <2>1, CallFrame DEF CompleteTask, Begin, TypeInv, TypeOK
    <2>2. CASE d = c
      BY <1>5, <2>2 DEF CompleteTask, Begin, State, board, TypeInv, TypeOK, CallOf
    <2> QED BY <2>1, <2>2
  <1>6. ASSUME NEW c \in Client, NEW t \in Task, Ingest(c, t) PROVE CallOf(d)'
    <2>1. CASE call'[d] = call[d] BY <2>1, CallFrame
    <2>2. CASE d = c /\ Place(t, "accepted") /\ Begin(c, t, "attach")
      BY <1>6, <2>2 DEF Begin, Place, TypeInv, TypeOK, CallOf
    <2> QED BY <1>6, <2>1, <2>2 DEF Ingest, Begin, TypeInv, TypeOK
  <1>7. ASSUME NEW c \in Client, NEW t \in Task, CancelTask(c, t) PROVE CallOf(d)'
    <2>1. CASE d # c BY <1>7, <2>1, CallFrame DEF CancelTask, TypeInv, TypeOK
    <2>2. CASE d = c
      BY <1>7, <2>2 DEF CancelTask, State, board, TypeInv, TypeOK, CallOf
    <2> QED BY <2>1, <2>2
  <1>8. ASSUME NEW c \in Client, NEW t \in Task, Reschedule(c, t) PROVE CallOf(d)'
    BY <1>8, CallFrame DEF Reschedule, memory
  <1>9. ASSUME NEW c \in Client, Attach(c) PROVE CallOf(d)'
    <2>1. CASE d # c BY <1>9, <2>1, CallFrame DEF Attach, Goto, TypeInv, TypeOK
    <2>2. CASE d = c
      <3>1. call[c].pc \in Pc \ {"idle"} BY <1>9 DEF Attach, At, Pc
      <3>2. Goto(c, "launch") /\ "launch" \in Pc \ {"idle"} BY <1>9 DEF Attach, Pc
      <3>3. /\ call'[c].pc = "launch"
            /\ call'[c].task = call[c].task /\ call'[c].slot = call[c].slot
        BY <3>1, <3>2, GotoType DEF TypeInv
      <3>4. UNCHANGED <<state, slots>> BY <1>9 DEF Attach, board
      <3> QED BY <1>0, <1>9, <2>2, <3>3, <3>4 DEF CallOf, Attach, At
    <2> QED BY <2>1, <2>2
  <1>10. ASSUME NEW c \in Client, SendResult(c) PROVE CallOf(d)'
    <2>1. CASE d # c BY <1>10, <2>1, CallFrame DEF SendResult, Goto, TypeInv, TypeOK
    <2>2. CASE d = c
      <3>1. call[c].pc \in Pc \ {"idle"} BY <1>10 DEF SendResult, At, Pc
      <3>2. Goto(c, "close") /\ "close" \in Pc \ {"idle"} BY <1>10 DEF SendResult, Pc
      <3>3. /\ call'[c].pc = "close"
            /\ call'[c].task = call[c].task /\ call'[c].slot = call[c].slot
        BY <3>1, <3>2, GotoType DEF TypeInv
      <3>4. UNCHANGED <<state, slots>> BY <1>10 DEF SendResult, board
      <3> QED BY <1>0, <1>10, <2>2, <3>3, <3>4 DEF CallOf, SendResult, At
    <2> QED BY <2>1, <2>2
  <1>11. ASSUME NEW c \in Client, CancelWorkflow(c) PROVE CallOf(d)'
    <2>1. CASE d # c BY <1>11, <2>1, CallFrame DEF CancelWorkflow, Goto, TypeInv, TypeOK
    <2>2. CASE d = c
      <3>1. call[c].pc \in Pc \ {"idle"} BY <1>11 DEF CancelWorkflow, At, Pc
      <3>2. Goto(c, "signalStage") /\ "signalStage" \in Pc \ {"idle"}
        BY <1>11 DEF CancelWorkflow, Pc
      <3>3. /\ call'[c].pc = "signalStage"
            /\ call'[c].task = call[c].task /\ call'[c].slot = call[c].slot
        BY <3>1, <3>2, GotoType DEF TypeInv
      <3>4. UNCHANGED <<state, slots>> BY <1>11 DEF CancelWorkflow, board
      <3> QED BY <1>0, <1>11, <2>2, <3>3, <3>4 DEF CallOf, CancelWorkflow, At
    <2> QED BY <2>1, <2>2
  <1>12. ASSUME NEW c \in Client, SignalStage(c) PROVE CallOf(d)'
    <2>1. CASE d # c BY <1>12, <2>1, CallFrame DEF SignalStage, Goto, TypeInv, TypeOK
    <2>2. CASE d = c
      <3>1. call[c].pc \in Pc \ {"idle"} BY <1>12 DEF SignalStage, At, Pc
      <3>2. Goto(c, "signalBlocked") /\ "signalBlocked" \in Pc \ {"idle"}
        BY <1>12 DEF SignalStage, Pc
      <3>3. /\ call'[c].pc = "signalBlocked"
            /\ call'[c].task = call[c].task /\ call'[c].slot = call[c].slot
        BY <3>1, <3>2, GotoType DEF TypeInv
      <3>4. UNCHANGED <<state, slots>> BY <1>12 DEF SignalStage, board
      <3> QED BY <1>0, <1>12, <2>2, <3>3, <3>4 DEF CallOf, SignalStage, At
    <2> QED BY <2>1, <2>2
  <1>13. ASSUME NEW c \in Client, SignalBlocked(c) PROVE CallOf(d)'
    <2>1. CASE d # c BY <1>13, <2>1, CallFrame DEF SignalBlocked, Goto, TypeInv, TypeOK
    <2>2. CASE d = c
      <3>1. call[c].pc \in Pc \ {"idle"} BY <1>13 DEF SignalBlocked, At, Pc
      <3>2. Goto(c, "wakeDependents") /\ "wakeDependents" \in Pc \ {"idle"}
        BY <1>13 DEF SignalBlocked, Pc
      <3>3. /\ call'[c].pc = "wakeDependents"
            /\ call'[c].task = call[c].task /\ call'[c].slot = call[c].slot
        BY <3>1, <3>2, GotoType DEF TypeInv
      <3>4. UNCHANGED <<state, slots>> BY <1>13 DEF SignalBlocked, board
      <3> QED BY <1>0, <1>13, <2>2, <3>3, <3>4 DEF CallOf, SignalBlocked, At
    <2> QED BY <2>1, <2>2
  <1>14. ASSUME NEW c \in Client, HandleCancelCleanup(c) PROVE CallOf(d)'
    <2>1. CASE d # c BY <1>14, <2>1, CallFrame DEF HandleCancelCleanup, Goto, TypeInv, TypeOK
    <2>2. CASE d = c
      <3>1. call[c] \in Busy BY <1>14, BusyCall DEF HandleCancelCleanup, At, Pc, TypeInv
      <3>2. state'[call[c].task] # "absent"
        BY <1>0, <1>14, <2>2, <3>1, StaysPlaced DEF HandleCancelCleanup, At, CallOf, Busy
      <3>3. PICK next \in {"cancelWorkflow", "wakeDependents"} : Goto(c, next)
        BY <1>14 DEF HandleCancelCleanup
      <3>4. call'[c].task = call[c].task /\ call'[c].pc = next
        BY <1>14, <3>3, GotoType DEF HandleCancelCleanup, At, Pc, TypeInv
      <3> QED BY <2>2, <3>2, <3>4 DEF CallOf
    <2> QED BY <2>1, <2>2
  <1>15. ASSUME NEW c \in Client, FindOpenAssignment(c) PROVE CallOf(d)'
    <2>1. CASE d # c BY <1>15, <2>1, CallFrame DEF FindOpenAssignment, Done, TypeInv, TypeOK
    <2>2. CASE d = c /\ Done(c) BY <2>2, DoneType DEF TypeInv, CallOf, Idle
    <2>3. CASE d = c /\ \E i \in OpenSlots(call[c].task) :
                 call' = [call EXCEPT ![c].slot = i, ![c].pc = "send"]
      <3>1. call[c] \in Busy BY <1>15, BusyCall DEF FindOpenAssignment, At, Pc, TypeInv
      <3>2. call'[c].pc = "send" /\ call'[c].task = call[c].task
            /\ call'[c].slot \in DOMAIN slots[call[c].task]
        BY <2>3, <3>1 DEF TypeInv, TypeOK, Busy, OpenSlots
      <3>3. UNCHANGED <<state, slots>> BY <1>15 DEF FindOpenAssignment, board
      <3>4. state[call[c].task] \notin {"absent"}
        BY <1>0, <1>15, <2>3 DEF FindOpenAssignment, At, CallOf
      <3> QED BY <2>3, <3>2, <3>3, <3>4 DEF CallOf
    <2> QED BY <1>15, <2>1, <2>2, <2>3 DEF FindOpenAssignment
  <1>16. ASSUME NEW c \in Client, FindLiveWorkflow(c) PROVE CallOf(d)'
    <2>1. CASE d # c BY <1>16, <2>1, CallFrame DEF FindLiveWorkflow, TypeInv, TypeOK
    <2>2. CASE d = c
      BY <1>0, <1>16, <2>2, BusyCall
         DEF FindLiveWorkflow, At, Pc, board, TypeInv, TypeOK, CallOf, Busy
    <2> QED BY <2>1, <2>2
  <1>17. ASSUME NEW c \in Client, RunWorkflow(c) PROVE CallOf(d)'
    <2>1. CASE d # c BY <1>17, <2>1, CallFrame DEF RunWorkflow, Done, TypeInv, TypeOK
    <2>2. CASE d = c
      BY <1>17, <2>2, DoneType DEF RunWorkflow, TypeInv, CallOf, Idle
    <2> QED BY <2>1, <2>2
  <1>18. ASSUME NEW c \in Client, CloseAssignment(c) PROVE CallOf(d)'
    <2>1. CASE d # c BY <1>18, <2>1, CallFrame DEF CloseAssignment, Done, TypeInv, TypeOK
    <2>2. CASE d = c
      BY <1>18, <2>2, DoneType DEF CloseAssignment, TypeInv, CallOf, Idle
    <2> QED BY <2>1, <2>2
  <1>19. ASSUME NEW c \in Client, WakeDependents(c) PROVE CallOf(d)'
    <2>1. CASE d # c BY <1>19, <2>1, CallFrame DEF WakeDependents, Done, TypeInv, TypeOK
    <2>2. CASE d = c
      BY <1>19, <2>2, DoneType DEF WakeDependents, TypeInv, CallOf, Idle
    <2> QED BY <2>1, <2>2
  <1>20. ASSUME NEW c \in Client, Abandon(c) PROVE CallOf(d)'
    <2>1. CASE d # c BY <1>20, <2>1, CallFrame DEF Abandon, Done, TypeInv, TypeOK
    <2>2. CASE d = c
      BY <1>20, <2>2, DoneType DEF Abandon, TypeInv, CallOf, Idle
    <2> QED BY <2>1, <2>2
  <1>21. CASE Crash BY <1>21 DEF Crash, CallOf, Idle
  <1> QED BY <1>1, <1>2, <1>3, <1>4, <1>5, <1>6, <1>7, <1>8, <1>9, <1>10, <1>11, <1>12,
            <1>13, <1>14, <1>15, <1>16, <1>17, <1>18, <1>19, <1>20, <1>21
         DEF Next, Arrive, Continue

-----------------------------------------------------------------------------
(* The readiness gate. *)

\* A finished task stays finished.
LEMMA StaysTerminal ==
  ASSUME TypeInv, Next, NEW u \in Task, IsTerminal(state[u])
  PROVE  IsTerminal(state'[u])
  <1> USE DEF TypeInv, TypeOK, IsTerminal, Terminal
  <1>1. ASSUME NEW t \in Task, RunReadiness(t) \/ RunCompletion(t) PROVE IsTerminal(state'[u])
    BY <1>1 DEF RunReadiness, RunCompletion
  <1>2. ASSUME NEW c \in Client, NEW t \in Task,
               Create(c, t) \/ Ingest(c, t) \/ Accept(c, t) \/ Dismiss(c, t)
        PROVE  IsTerminal(state'[u])
    BY <1>2 DEF Create, Ingest, Accept, Dismiss, Place
  <1>3. ASSUME NEW c \in Client, HandleCancelCleanup(c) PROVE IsTerminal(state'[u])
    BY <1>3 DEF HandleCancelCleanup, Halted
  <1>4. ASSUME UNCHANGED state PROVE IsTerminal(state'[u]) BY <1>4
  <1> HIDE DEF TypeInv, TypeOK, IsTerminal, Terminal
  <1> QED BY <1>1, <1>2, <1>3, <1>4, StateWriters

\* Once the blockers of a task are finished they stay so.
LEMMA UnmetStays ==
  ASSUME TypeInv, Next, NEW u \in Task, Unmet(u) = {}
  PROVE  Unmet(u)' = {}
  BY StaysTerminal DEF Unmet

\* A task that has passed the gate never returns.
LEMMA StaysPast ==
  ASSUME TypeInv, Next, NEW u \in Task, state[u] \in {"executing", "done", "halted"}
  PROVE  state'[u] \in {"executing", "done", "halted"}
  <1> USE DEF TypeInv, TypeOK
  <1>1. ASSUME NEW t \in Task, RunReadiness(t) \/ RunCompletion(t)
        PROVE  state'[u] \in {"executing", "done", "halted"}
    BY <1>1 DEF RunReadiness, RunCompletion
  <1>2. ASSUME NEW c \in Client, NEW t \in Task,
               Create(c, t) \/ Ingest(c, t) \/ Accept(c, t) \/ Dismiss(c, t)
        PROVE  state'[u] \in {"executing", "done", "halted"}
    BY <1>2 DEF Create, Ingest, Accept, Dismiss, Place
  <1>3. ASSUME NEW c \in Client, HandleCancelCleanup(c)
        PROVE  state'[u] \in {"executing", "done", "halted"}
    BY <1>3 DEF HandleCancelCleanup, Halted
  <1>4. ASSUME UNCHANGED state PROVE state'[u] \in {"executing", "done", "halted"} BY <1>4
  <1> HIDE DEF TypeInv, TypeOK
  <1> QED BY <1>1, <1>2, <1>3, <1>4, StateWriters

\* Beyond the gate the next position is beyond it too, and so was the last one,
\* except for the readiness step that opened it.
LEMMA GateEntry ==
  ASSUME TypeInv, Next, NEW u \in Task, ~PastGate(u), PastGate(u)'
  PROVE  RunReadiness(u) /\ ~IsTerminal(state[u]) /\ Ready(u)
  <1> DEFINE G == RunReadiness(u) /\ ~IsTerminal(state[u]) /\ Ready(u)
  <1>0. ShapeOf(u) BY DEF TypeInv, WorkflowShape
  <1> USE DEF TypeInv, TypeOK, PastGate, Occupying
  <1>1. ASSUME NEW t \in Task, Start(t) PROVE G
    BY <1>0, <1>1 DEF Start, Return, durable
  <1>2. ASSUME NEW t \in Task, Record(t) PROVE G
    BY <1>0, <1>2 DEF Record, ShapeOf, Occupying, Leads, AfterLeg, NextStage, Served
  <1>3. ASSUME NEW t \in Task, Stop(t) PROVE G
    BY <1>0, <1>3 DEF Stop, durable
  <1>4. ASSUME NEW t \in Task, Recover(t) PROVE G
    BY <1>0, <1>4 DEF Recover, durable
  <1>5. ASSUME NEW t \in Task, EnterReceive(t) PROVE G
    BY <1>0, <1>5 DEF EnterReceive, AtStep, durable
  <1>6. ASSUME NEW t \in Task, RunAdvanceStage(t) PROVE G
    BY <1>0, <1>6 DEF RunAdvanceStage, AtStep, Commit
  <1>7. ASSUME NEW t \in Task, RunRouteAndOccupy(t) PROVE G
    BY <1>0, <1>7 DEF RunRouteAndOccupy, AtStep, Commit
  <1>8. ASSUME NEW t \in Task, RunOpenAssignment(t) PROVE G
    BY <1>0, <1>8 DEF RunOpenAssignment, AtStep, Commit
  <1>9. ASSUME NEW t \in Task, ReceiveResult(t) PROVE G
    BY <1>0, <1>9 DEF ReceiveResult, Return
  <1>10. ASSUME NEW t \in Task, Expire(t) PROVE G
    BY <1>0, <1>10 DEF Expire
  <1>11. ASSUME NEW t \in Task, RunStageTimeout(t) PROVE G
    BY <1>0, <1>11 DEF RunStageTimeout, AtStep, Commit
  <1>12. ASSUME NEW t \in Task, RunResolveAndAdvance(t) PROVE G
    BY <1>0, <1>12 DEF RunResolveAndAdvance, AtStep, Commit
  <1>13. ASSUME NEW t \in Task, ReceiveWake(t) PROVE G
    BY <1>0, <1>13 DEF ReceiveWake, Return
  <1>14. ASSUME NEW t \in Task, Heartbeat(t) PROVE G
    BY <1>0, <1>14 DEF Heartbeat
  <1>15. ASSUME NEW t \in Task, ReadForCompletion(t) PROVE G
    BY <1>0, <1>15 DEF ReadForCompletion, AtStep, durable
  <1>16. ASSUME NEW t \in Task, RunCompletion(t) PROVE G
    BY <1>0, <1>16 DEF RunCompletion, ShapeOf, Commit
  <1>17. ASSUME NEW t \in Task, RunListDependents(t) PROVE G
    BY <1>0, <1>17 DEF RunListDependents, AtStep, Commit
  <1>18. ASSUME NEW t \in Task, WakeDependent(t) PROVE G
    BY <1>0, <1>18 DEF WakeDependent, AtStep, Return
  <1>19. ASSUME NEW t \in Task, EnqueueFeedback(t) PROVE G
    BY <1>0, <1>19 DEF EnqueueFeedback, AtStep
  <1>20. ASSUME NEW t \in Task, Finish(t) PROVE G
    BY <1>0, <1>20 DEF Finish, Return
  <1>21. ASSUME NEW t \in Task, Poison(t) PROVE G
    BY <1>0, <1>21 DEF Poison, Return
  <1>22. ASSUME NEW t \in Task, AgentReturns(t) PROVE G
    BY <1>0, <1>22 DEF AgentReturns
  <1>23. ASSUME NEW t \in Task, RunReadiness(t) PROVE G
    <2>1. u = t BY <1>23 DEF RunReadiness, Commit
    <2>2. thr'[u] = "ran" /\ at'[u] = "gate" /\ UNCHANGED leg
      BY <1>23, <2>1 DEF RunReadiness, AtStep, Commit
    <2>3. out'[u] = "route" BY <2>2
    <2> QED BY <1>23, <2>1, <2>3 DEF RunReadiness, Commit
  <1>24. ASSUME NEW c \in Client, RunWorkflow(c) \/ CancelWorkflow(c) PROVE G
    BY <1>24 DEF RunWorkflow, CancelWorkflow
  <1>25. CASE Crash BY <1>25 DEF Crash, durable
  <1>26. CASE UNCHANGED <<wf, at, leg, tries, thr, out>> BY <1>26
  <1> HIDE DEF TypeInv, TypeOK, PastGate, Occupying, G
  <1>q. G BY <1>1, <1>2, <1>3, <1>4, <1>5, <1>6, <1>7, <1>8, <1>9, <1>10, <1>11, <1>12,
            <1>13, <1>14, <1>15, <1>16, <1>17, <1>18, <1>19, <1>20, <1>21, <1>22, <1>23,
            <1>24, <1>25, <1>26,
            FlowWriters DEF Drive
  <1> QED BY <1>q DEF G

\* Every step keeps the gate: only readiness leads beyond it, and no blocker that was
\* finished then becomes unfinished.
LEMMA GateStep == ASSUME TypeInv, GateHeld, Next PROVE GateHeld'
  <1>1. ASSUME NEW u \in Task, PastGate(u)'
        PROVE  Unmet(u)' = {} /\ state'[u] \in {"executing", "done", "halted"}
    <2>1. CASE PastGate(u)
      BY <2>1, UnmetStays, StaysPast DEF GateHeld
    <2>2. CASE ~PastGate(u)
      <3>1. RunReadiness(u) /\ ~IsTerminal(state[u]) /\ Ready(u) BY <1>1, <2>2, GateEntry
      <3>2. Unmet(u)' = {} BY <3>1, UnmetStays DEF Ready
      <3>3. state[u] \in {"accepted", "waiting", "executing"}
        BY <3>1 DEF TypeInv, TypeOK, CallShape, ChainAccepted, RunReadiness, AtStep,
                    IsTerminal, Terminal, State
      <3>4. state'[u] = "executing" BY <3>1, <3>3 DEF RunReadiness, TypeInv, TypeOK
      <3> QED BY <3>2, <3>4
    <2> QED BY <2>1, <2>2
  <1>2. ASSUME NEW u \in Task, state'[u] \in {"executing", "done"}
        PROVE  Unmet(u)' = {}
    <2> SUFFICES Unmet(u) = {} BY UnmetStays
    <2>0. CASE state[u] \in {"executing", "done"}
      BY <2>0 DEF GateHeld, ExecutionAfterBlockers
    <2>1. ASSUME state[u] \notin {"executing", "done"}, NEW t \in Task, RunReadiness(t)
          PROVE  Unmet(u) = {}
      BY <1>2, <2>1 DEF RunReadiness, Ready, TypeInv, TypeOK
    <2>2. ASSUME state[u] \notin {"executing", "done"}, NEW t \in Task, RunCompletion(t)
          PROVE  Unmet(u) = {}
      <3>1. u = t BY <1>2, <2>2 DEF RunCompletion, TypeInv, TypeOK
      <3>2. at[u] = "complete"
        BY <2>2, <3>1 DEF RunCompletion, TypeInv, WorkflowShape, ShapeOf
      <3> QED BY <3>2 DEF GateHeld, PastGate
    <2>3. ASSUME state[u] \notin {"executing", "done"}, NEW c \in Client, NEW t \in Task,
                 Create(c, t) \/ Ingest(c, t) \/ Accept(c, t) \/ Dismiss(c, t)
          PROVE  FALSE
      BY <1>2, <2>3 DEF Create, Ingest, Accept, Dismiss, Place, TypeInv, TypeOK
    <2>4. ASSUME state[u] \notin {"executing", "done"}, NEW c \in Client, HandleCancelCleanup(c)
          PROVE  FALSE
      BY <1>2, <2>4 DEF HandleCancelCleanup, Halted, IsTerminal, Terminal, TypeInv, TypeOK
    <2> QED BY <1>2, <2>0, <2>1, <2>2, <2>3, <2>4, StateWriters
  <1> QED BY <1>1, <1>2 DEF GateHeld, ExecutionAfterBlockers

-----------------------------------------------------------------------------
(* The stage column. *)

\* Every step keeps the stage column and the served stage together.
LEMMA StageStep == ASSUME TypeInv, StageShape, Next PROVE StageShape'
  <1> SUFFICES ASSUME NEW u \in Task PROVE StageOf(u)'
    BY DEF StageShape
  <1>0. ShapeOf(u) BY DEF TypeInv, WorkflowShape
  <1>s. StageOf(u) BY DEF StageShape
  <1> USE DEF TypeInv, TypeOK, StageOf
  <1>1. ASSUME NEW t \in Task, Start(t) PROVE StageOf(u)'
    BY <1>0, <1>s, <1>1 DEF Start, Return, durable, board
  <1>2. ASSUME NEW t \in Task, Record(t) PROVE StageOf(u)'
    <2>1. CASE u # t BY <1>s, <1>2, <2>1 DEF Record, board
    <2>2. CASE u = t
      <3>1. /\ thr[u] = "ran" /\ thr'[u] = "ready" /\ UNCHANGED stage
            /\ at'[u] = out[u] /\ out[u] \in Leads(at[u], leg[u])
            /\ leg'[u] = IF at[u] = "resolve" THEN NextStage(leg[u]) ELSE leg[u]
        BY <1>0, <1>s, <1>2, <2>2 DEF Record, ShapeOf, board
      <3>2. CASE at[u] = "resolve"
        <4>1. at'[u] \in {"complete", "gate", "route"} BY <3>1, <3>2 DEF Leads, AfterLeg
        <4> QED BY <1>s, <3>1, <3>2, <4>1
      <3>3. CASE at[u] # "resolve"
        <4>1. at'[u] \notin {"advance", "resolve"} BY <3>1, <3>3 DEF Leads
        <4>2. stage[u] = leg[u] BY <1>0, <1>s, <3>1, <3>3 DEF ShapeOf
        <4> QED BY <1>s, <3>1, <3>3, <4>1, <4>2
      <3> QED BY <3>2, <3>3
    <2> QED BY <2>1, <2>2
  <1>3. ASSUME NEW t \in Task, Stop(t) PROVE StageOf(u)'
    BY <1>0, <1>s, <1>3 DEF Stop, durable, board
  <1>4. ASSUME NEW t \in Task, Recover(t) PROVE StageOf(u)'
    BY <1>0, <1>s, <1>4 DEF Recover, durable, board
  <1>5. ASSUME NEW t \in Task, EnterReceive(t) PROVE StageOf(u)'
    BY <1>0, <1>s, <1>5 DEF EnterReceive, AtStep, durable, board
  <1>6. ASSUME NEW t \in Task, RunAdvanceStage(t) PROVE StageOf(u)'
    BY <1>0, <1>s, <1>6 DEF RunAdvanceStage, ShapeOf, AtStep, Commit
  <1>7. ASSUME NEW t \in Task, RunRouteAndOccupy(t) PROVE StageOf(u)'
    BY <1>0, <1>s, <1>7 DEF RunRouteAndOccupy, AtStep, Commit, board
  <1>8. ASSUME NEW t \in Task, RunOpenAssignment(t) PROVE StageOf(u)'
    BY <1>0, <1>s, <1>8 DEF RunOpenAssignment, AtStep, Commit
  <1>9. ASSUME NEW t \in Task, ReceiveResult(t) PROVE StageOf(u)'
    BY <1>0, <1>s, <1>9 DEF ReceiveResult, Return, board
  <1>10. ASSUME NEW t \in Task, Expire(t) PROVE StageOf(u)'
    BY <1>0, <1>s, <1>10 DEF Expire, board
  <1>11. ASSUME NEW t \in Task, RunStageTimeout(t) PROVE StageOf(u)'
    BY <1>0, <1>s, <1>11 DEF RunStageTimeout, AtStep, Commit, board
  <1>12. ASSUME NEW t \in Task, RunResolveAndAdvance(t) PROVE StageOf(u)'
    BY <1>0, <1>s, <1>12 DEF RunResolveAndAdvance, AtStep, Commit
  <1>13. ASSUME NEW t \in Task, RunReadiness(t) PROVE StageOf(u)'
    BY <1>0, <1>s, <1>13 DEF RunReadiness, AtStep, Commit
  <1>14. ASSUME NEW t \in Task, ReceiveWake(t) PROVE StageOf(u)'
    BY <1>0, <1>s, <1>14 DEF ReceiveWake, Return, board
  <1>15. ASSUME NEW t \in Task, Heartbeat(t) PROVE StageOf(u)'
    BY <1>0, <1>s, <1>15 DEF Heartbeat, board
  <1>16. ASSUME NEW t \in Task, ReadForCompletion(t) PROVE StageOf(u)'
    BY <1>0, <1>s, <1>16 DEF ReadForCompletion, AtStep, durable, board
  <1>17. ASSUME NEW t \in Task, RunCompletion(t) PROVE StageOf(u)'
    BY <1>0, <1>s, <1>17 DEF RunCompletion, ShapeOf, Commit
  <1>18. ASSUME NEW t \in Task, RunListDependents(t) PROVE StageOf(u)'
    BY <1>0, <1>s, <1>18 DEF RunListDependents, AtStep, Commit, board
  <1>19. ASSUME NEW t \in Task, WakeDependent(t) PROVE StageOf(u)'
    BY <1>0, <1>s, <1>19 DEF WakeDependent, AtStep, Return, board
  <1>20. ASSUME NEW t \in Task, EnqueueFeedback(t) PROVE StageOf(u)'
    BY <1>0, <1>s, <1>20 DEF EnqueueFeedback, AtStep, board
  <1>21. ASSUME NEW t \in Task, Finish(t) PROVE StageOf(u)'
    BY <1>0, <1>s, <1>21 DEF Finish, Return, board
  <1>22. ASSUME NEW t \in Task, Poison(t) PROVE StageOf(u)'
    BY <1>0, <1>s, <1>22 DEF Poison, Return, board
  <1>23. ASSUME NEW t \in Task, AgentReturns(t) PROVE StageOf(u)'
    BY <1>0, <1>s, <1>23 DEF AgentReturns, board
  <1>24. ASSUME NEW c \in Client, RunWorkflow(c) \/ CancelWorkflow(c) PROVE StageOf(u)'
    BY <1>0, <1>s, <1>24 DEF RunWorkflow, CancelWorkflow, board
  <1>25. CASE Crash BY <1>s, <1>25 DEF Crash, durable, board
  <1>26. ASSUME UNCHANGED stage, UNCHANGED <<wf, at, leg, tries, thr, out>> PROVE StageOf(u)'
    BY <1>s, <1>26
  <1> HIDE DEF TypeInv, TypeOK, StageOf
  <1>28. ASSUME NEW t \in Task, Drive(t) \/ Poison(t) \/ AgentReturns(t) PROVE StageOf(u)'
    BY <1>28, <1>1, <1>2, <1>3, <1>4, <1>5, <1>6, <1>7, <1>8, <1>9, <1>10, <1>11, <1>12,
       <1>13, <1>14, <1>15, <1>16, <1>17, <1>18, <1>19, <1>20, <1>21, <1>22, <1>23 DEF Drive
  <1>29. CASE UNCHANGED <<wf, at, leg, tries, thr, out>>
    BY <1>6, <1>12, <1>26, <1>29, StageWriters
  <1> QED BY <1>24, <1>25, <1>28, <1>29, FlowWriters

-----------------------------------------------------------------------------
(* The inductive invariant and what follows from it. *)

\* The initial states satisfy the inductive invariant.
LEMMA InitInv == ASSUME Init PROVE Inv
  <1> USE DEF Init
  <1>1. TypeOK
    <2>1. call \in [Client -> Busy \cup {Idle}] OBVIOUS
    <2>2. slots \in [Task -> Seq(Slot)] OBVIOUS
    <2>3. mail \in [Task -> [Topic -> Seq(Message)]] OBVIOUS
    <2>4. state \in [Task -> State \cup {"absent"}] /\ stage \in [Task -> Stage]
      BY DEF Stage
    <2>5. at \in [Task -> Position] /\ leg \in [Task -> Served \cup {"completion"}]
          /\ thr \in [Task -> Thread]
      BY DEF Position, Served, Thread
    <2> QED BY <2>1, <2>2, <2>3, <2>4, <2>5 DEF TypeOK
  <1>2. WorkflowShape BY DEF WorkflowShape, ShapeOf, Occupying
  <1>3. CallShape BY DEF CallShape, ChainAccepted, CallOf, Idle
  <1>4. GateHeld BY DEF GateHeld, ExecutionAfterBlockers, PastGate, Occupying
  <1>5. StageShape BY DEF StageShape, StageOf
  <1> QED BY <1>1, <1>2, <1>3, <1>4, <1>5 DEF Inv

\* Every step preserves the inductive invariant.
LEMMA NextInv == ASSUME Inv, [Next]_vars PROVE Inv'
  <1>1. CASE Next
    <2>1. TypeInv /\ GateHeld /\ StageShape BY DEF Inv, TypeInv
    <2> QED BY <1>1, <2>1, TypeStep, ShapeStep, AcceptedStep, CallStep, GateStep, StageStep
            DEF Inv, CallShape
  <1>2. CASE UNCHANGED vars
    <2> USE <1>2 DEF vars, board, durable, memory
    <2>1. TypeOK' BY DEF Inv, TypeOK
    <2>2. WorkflowShape' BY DEF Inv, WorkflowShape, ShapeOf, MayExpire
    <2>3. CallShape' BY DEF Inv, CallShape, ChainAccepted, CallOf
    <2>4. GateHeld' BY DEF Inv, GateHeld, ExecutionAfterBlockers, PastGate, Unmet
    <2>5. StageShape' BY DEF Inv, StageShape, StageOf
    <2> QED BY <2>1, <2>2, <2>3, <2>4, <2>5 DEF Inv
  <1> QED BY <1>1, <1>2

\* The inductive invariant holds in every reachable state, for any set of tasks,
\* blocks, callers, calls and crashes.
THEOREM Invariance == Spec => []Inv
  BY InitInv, NextInv, PTL DEF Spec

\* Type correctness.
THEOREM TypeCorrect == Spec => []TypeOK
  <1>1. Inv => TypeOK BY DEF Inv
  <1> QED BY <1>1, Invariance, PTL

\* A task that executes or has executed had all its blockers finished: the gate of
\* runReadinessStep holds against every interleaving of chains, callers and crashes.
THEOREM GateIsKept == Spec => []ExecutionAfterBlockers
  <1>1. Inv => ExecutionAfterBlockers BY DEF Inv, GateHeld
  <1> QED BY <1>1, Invariance, PTL

\* No step takes the stage of a task back.
LEMMA StageForward ==
  ASSUME Inv, [Next]_vars, NEW u \in Task
  PROVE  Rank[stage'[u]] >= Rank[stage[u]]
  <1> USE DEF Rank, Stage
  <1>0. stage[u] \in Stage BY DEF Inv, TypeOK
  <1>1. ASSUME NEW t \in Task, RunAdvanceStage(t) PROVE Rank[stage'[u]] >= Rank[stage[u]]
    <2>1. stage[t] \in {"creation", "triage"}
      BY <1>1 DEF RunAdvanceStage, AtStep, Inv, StageShape, StageOf
    <2> QED BY <1>0, <1>1, <2>1 DEF RunAdvanceStage, Inv, TypeOK
  <1>2. ASSUME NEW t \in Task, RunResolveAndAdvance(t)
        PROVE  Rank[stage'[u]] >= Rank[stage[u]]
    <2>1. stage[t] \in {leg[t], NextStage(leg[t])}
      BY <1>2 DEF RunResolveAndAdvance, AtStep, Inv, StageShape, StageOf
    <2>2. leg[t] \in Served
      BY <1>2 DEF RunResolveAndAdvance, AtStep, Inv, WorkflowShape, ShapeOf, Occupying
    <2>3. stage'[u] = IF u = t THEN NextStage(leg[t]) ELSE stage[u]
      BY <1>2 DEF RunResolveAndAdvance, Inv, TypeOK
    <2> QED BY <1>0, <2>1, <2>2, <2>3 DEF NextStage, Served
  <1>3. CASE UNCHANGED stage BY <1>0, <1>3
  <1> QED BY <1>1, <1>2, <1>3, StageWriters DEF vars, board

\* tasks.current_stage only ever advances, although recovered workflows run their
\* bodies again.
THEOREM StagesAdvance == Spec => StageOnlyForward
  <1>1. ASSUME Inv, [Next]_vars
        PROVE  [\A t \in Task : Rank[stage'[t]] >= Rank[stage[t]]]_vars
    BY <1>1, StageForward
  <1> QED BY <1>1, Invariance, PTL DEF Spec, StageOnlyForward

\* Every step is a step of the board, or leaves the states of the tasks alone.
LEMMA BoardStep == ASSUME Inv, [Next]_vars PROVE [Abstract!Next]_state
  <1> SUFFICES ASSUME Next PROVE Abstract!Next \/ UNCHANGED state
    BY DEF vars, board
  <1> USE DEF Inv, TypeOK
  <1>1. ASSUME NEW t \in Task, RunReadiness(t) PROVE Abstract!Next \/ UNCHANGED state
    <2>0. state[t] # "absent"
      BY <1>1 DEF CallShape, ChainAccepted, RunReadiness, AtStep
    <2>1. CASE state' = [state EXCEPT ![t] = "executing"]
               /\ state[t] \in {"accepted", "waiting"} /\ Ready(t)
      <3>1. Abstract!Move(t)
        BY <2>1
           DEF Abstract!Move, Abstract!Cleared, Abstract!IsTerminal, Abstract!Terminal,
               Ready, Unmet, IsTerminal, Terminal, Abstract!IsLegal, Abstract!IsLegalIntake,
               Abstract!LegalEdge, Abstract!State
      <3> QED BY <3>1 DEF Abstract!Next
    <2>2. CASE state' = [state EXCEPT ![t] = "waiting"] /\ state[t] = "accepted"
      <3>1. Abstract!Move(t)
        BY <2>2
           DEF Abstract!Move, Abstract!IsLegal, Abstract!IsLegalIntake, Abstract!LegalEdge,
               Abstract!State
      <3> QED BY <3>1 DEF Abstract!Next
    <2>3. CASE UNCHANGED state BY <2>3
    <2> QED BY <1>1, <2>1, <2>2, <2>3 DEF RunReadiness
  <1>2. ASSUME NEW t \in Task, RunCompletion(t) PROVE Abstract!Next \/ UNCHANGED state
    <2>1. state[t] \in {"executing", "done", "halted"}
      BY <1>2 DEF RunCompletion, WorkflowShape, ShapeOf, GateHeld, PastGate
    <2>2. CASE state' = [state EXCEPT ![t] = "done"]
      <3>1. CASE state[t] = "executing"
        <4>1. Abstract!Move(t)
          BY <2>2, <3>1
             DEF Abstract!Move, Abstract!IsLegal, Abstract!IsLegalIntake,
                 Abstract!LegalEdge, Abstract!State
        <4> QED BY <4>1 DEF Abstract!Next
      <3>2. CASE state[t] = "done" BY <2>2, <3>2
      <3>3. CASE state[t] = "halted" BY <2>2, <3>3 DEF Abstract!Overtake, Abstract!Next
      <3> QED BY <2>1, <3>1, <3>2, <3>3
    <2>3. CASE UNCHANGED state BY <2>3
    <2> QED BY <1>2, <2>2, <2>3 DEF RunCompletion
  <1>3. ASSUME NEW c \in Client, NEW t \in Task, Create(c, t) \/ Ingest(c, t)
        PROVE  Abstract!Next \/ UNCHANGED state
    <2>1. Abstract!Appear(t) BY <1>3 DEF Create, Ingest, Place, Abstract!Appear
    <2> QED BY <2>1 DEF Abstract!Next
  <1>4. ASSUME NEW c \in Client, NEW t \in Task, Accept(c, t)
        PROVE  Abstract!Next \/ UNCHANGED state
    <2>1. Abstract!Move(t)
      BY <1>4
         DEF Accept, Abstract!Move, Abstract!IsLegal, Abstract!IsLegalIntake,
             Abstract!LegalEdge, Abstract!State
    <2> QED BY <2>1 DEF Abstract!Next
  <1>5. ASSUME NEW c \in Client, NEW t \in Task, Dismiss(c, t)
        PROVE  Abstract!Next \/ UNCHANGED state
    <2>1. Abstract!Move(t)
      BY <1>5
         DEF Dismiss, Abstract!Move, Abstract!IsLegal, Abstract!IsLegalIntake,
             Abstract!LegalEdge, Abstract!State
    <2> QED BY <2>1 DEF Abstract!Next
  <1>6. ASSUME NEW c \in Client, HandleCancelCleanup(c)
        PROVE  Abstract!Next \/ UNCHANGED state
    <2> DEFINE t == call[c].task
    <2>1. t \in Task BY <1>6, BusyCall DEF HandleCancelCleanup, At, Pc, Busy
    <2>2. state[t] # "absent" BY <1>6 DEF HandleCancelCleanup, At, CallShape, CallOf
    <2>3. state' = [state EXCEPT ![t] = Halted(@)] BY <1>6 DEF HandleCancelCleanup
    <2> HIDE DEF t
    <2>4. CASE IsTerminal(state[t]) BY <2>3, <2>4 DEF Halted
    <2>5. CASE ~IsTerminal(state[t])
      <3>1. Abstract!Move(t)
        BY <2>1, <2>2, <2>3, <2>5 DEF Halted, IsTerminal, Terminal, State, Abstract!Move,
           Abstract!IsLegal, Abstract!IsLegalIntake, Abstract!LegalEdge, Abstract!State
      <3> QED BY <2>1, <3>1 DEF Abstract!Next
    <2> QED BY <2>4, <2>5
  <1> HIDE DEF Inv, TypeOK
  <1> QED BY <1>1, <1>2, <1>3, <1>4, <1>5, <1>6, StateWriters

\* The chain implements the board: tasks.state changes only along the legal edges and
\* never to executing before the blockers are finished.
THEOREM Implements == Spec => BoardSpec
  <1>1. ASSUME Init PROVE Abstract!Init BY <1>1 DEF Init, Abstract!Init
  <1> QED BY <1>1, BoardStep, Invariance, PTL DEF Spec, BoardSpec, Abstract!Spec
-----------------------------------------------------------------------------
(* The state of a task and the position of its workflow. *)

\* Every step leaves the workflow where a task of its state may have it.
LEMMA ProgressStep == ASSUME Inv, Progress, Next PROVE Progress'
  <1> SUFFICES ASSUME NEW u \in Task PROVE ProgressOf(u)'
    BY DEF Progress
  <1>0. /\ ShapeOf(u) /\ StageOf(u)
        /\ wf[u] = "none" => thr[u] = "off" /\ at[u] = "advance"
        /\ wf[u] # "none" => state[u] \notin {"absent", "proposed"}
        /\ PastGate(u) => state[u] \in {"executing", "done", "halted"}
    BY DEF Inv, WorkflowShape, StageShape, CallShape, ChainAccepted, GateHeld
  <1>p. ProgressOf(u) BY DEF Progress
  <1>y. TypeOK BY DEF Inv
  <1> USE <1>y DEF TypeOK, ProgressOf, ShapeOf, StageOf, PastGate, Occupying
  <1>1. ASSUME NEW t \in Task, Start(t) PROVE ProgressOf(u)'
    BY <1>0, <1>p, <1>1 DEF Start, Return, durable, board
  <1>2. ASSUME NEW t \in Task, Record(t) PROVE ProgressOf(u)'
    <2>1. CASE u # t BY <1>p, <1>2, <2>1 DEF Record, board, IsTerminal
    <2>2. CASE u = t
      <3>1. /\ thr[u] = "ran" /\ thr'[u] = "ready" /\ UNCHANGED <<state, stage>>
            /\ at'[u] = out[u] /\ out[u] \in Leads(at[u], leg[u])
            /\ leg'[u] = IF at[u] = "resolve" THEN NextStage(leg[u]) ELSE leg[u]
        BY <1>0, <1>2, <2>2 DEF Record, board
      <3>2. CASE at[u] = "resolve"
        BY <1>0, <1>p, <3>1, <3>2 DEF Leads, AfterLeg, NextStage, Served
      <3>3. CASE at[u] = "gate"
        BY <1>0, <1>p, <3>1, <3>3 DEF Leads, IsTerminal, Terminal
      <3>4. CASE at[u] \notin {"gate", "resolve"}
        BY <1>0, <1>p, <3>1, <3>4 DEF Leads, IsTerminal, Terminal
      <3> QED BY <3>2, <3>3, <3>4
    <2> QED BY <2>1, <2>2
  <1>3. ASSUME NEW t \in Task, Stop(t) PROVE ProgressOf(u)'
    BY <1>0, <1>p, <1>3 DEF Stop, durable, board
  <1>4. ASSUME NEW t \in Task, Recover(t) PROVE ProgressOf(u)'
    BY <1>0, <1>p, <1>4 DEF Recover, durable, board
  <1>5. ASSUME NEW t \in Task, EnterReceive(t) PROVE ProgressOf(u)'
    BY <1>0, <1>p, <1>5 DEF EnterReceive, AtStep, durable, board
  <1>6. ASSUME NEW t \in Task, RunAdvanceStage(t) PROVE ProgressOf(u)'
    BY <1>0, <1>p, <1>6 DEF RunAdvanceStage, AtStep, Commit, durable, board
  <1>7. ASSUME NEW t \in Task, RunRouteAndOccupy(t) PROVE ProgressOf(u)'
    BY <1>0, <1>p, <1>7 DEF RunRouteAndOccupy, AtStep, Commit, durable, board
  <1>8. ASSUME NEW t \in Task, RunOpenAssignment(t) PROVE ProgressOf(u)'
    BY <1>0, <1>p, <1>8 DEF RunOpenAssignment, AtStep, Commit, durable, board
  <1>9. ASSUME NEW t \in Task, ReceiveResult(t) PROVE ProgressOf(u)'
    BY <1>0, <1>p, <1>9 DEF ReceiveResult, Return, durable, board
  <1>10. ASSUME NEW t \in Task, Expire(t) PROVE ProgressOf(u)'
    BY <1>0, <1>p, <1>10 DEF Expire, durable, board
  <1>11. ASSUME NEW t \in Task, RunStageTimeout(t) PROVE ProgressOf(u)'
    BY <1>0, <1>p, <1>11 DEF RunStageTimeout, AtStep, Commit, durable, board
  <1>12. ASSUME NEW t \in Task, RunResolveAndAdvance(t) PROVE ProgressOf(u)'
    <2>1. CASE u # t BY <1>p, <1>12, <2>1 DEF RunResolveAndAdvance, Commit, AtStep
    <2>2. CASE u = t
      <3>1. /\ at[u] = "resolve" /\ thr[u] = "ready" /\ thr'[u] = "ran"
            /\ out'[u] \in {"complete", "gate", "route"} /\ wf[u] # "none"
            /\ UNCHANGED <<state, wf, at, leg>>
        BY <1>0, <1>12, <2>2 DEF RunResolveAndAdvance, Commit, AtStep, AfterLeg
      <3> QED BY <1>0, <1>p, <3>1
    <2> QED BY <2>1, <2>2
  <1>13. ASSUME NEW t \in Task, RunReadiness(t) PROVE ProgressOf(u)'
    <2>1. CASE u # t BY <1>p, <1>13, <2>1 DEF RunReadiness, Commit, AtStep, IsTerminal
    <2>2. CASE u = t
      <3>1. /\ at[u] = "gate" /\ at'[u] = "gate" /\ thr'[u] = "ran" /\ thr[u] = "ready"
            /\ UNCHANGED <<stage, leg, wf>> /\ wf[u] # "none"
            /\ \/ IsTerminal(state[u]) /\ state'[u] = state[u]
               \/ ~IsTerminal(state[u]) /\ out'[u] \in {"route", "parked"}
                  /\ state'[u] \in {state[u], "executing", "waiting"}
        BY <1>0, <1>13, <2>2 DEF RunReadiness, Commit, AtStep
      <3> QED BY <1>0, <1>p, <3>1 DEF IsTerminal, Terminal
    <2> QED BY <2>1, <2>2
  <1>14. ASSUME NEW t \in Task, ReceiveWake(t) PROVE ProgressOf(u)'
    BY <1>0, <1>p, <1>14 DEF ReceiveWake, Return, durable, board
  <1>15. ASSUME NEW t \in Task, Heartbeat(t) PROVE ProgressOf(u)'
    BY <1>0, <1>p, <1>15 DEF Heartbeat, durable, board
  <1>16. ASSUME NEW t \in Task, ReadForCompletion(t) PROVE ProgressOf(u)'
    BY <1>0, <1>p, <1>16
       DEF ReadForCompletion, AtStep, State, IsTerminal, Terminal, durable, board
  <1>17. ASSUME NEW t \in Task, RunCompletion(t) PROVE ProgressOf(u)'
    BY <1>0, <1>p, <1>17 DEF RunCompletion, Commit, IsTerminal, Terminal, durable, board
  <1>18. ASSUME NEW t \in Task, RunListDependents(t) PROVE ProgressOf(u)'
    BY <1>0, <1>p, <1>18 DEF RunListDependents, AtStep, Commit, durable, board
  <1>19. ASSUME NEW t \in Task, WakeDependent(t) PROVE ProgressOf(u)'
    BY <1>0, <1>p, <1>19 DEF WakeDependent, AtStep, Return, durable, board
  <1>20. ASSUME NEW t \in Task, EnqueueFeedback(t) PROVE ProgressOf(u)'
    BY <1>0, <1>p, <1>20 DEF EnqueueFeedback, AtStep, durable, board
  <1>21. ASSUME NEW t \in Task, Finish(t) PROVE ProgressOf(u)'
    BY <1>0, <1>p, <1>21 DEF Finish, Return, durable, board
  <1>22. ASSUME NEW t \in Task, Poison(t) PROVE ProgressOf(u)'
    BY <1>0, <1>p, <1>22 DEF Poison, Return, durable, board
  <1>23. ASSUME NEW t \in Task, AgentReturns(t) PROVE ProgressOf(u)'
    BY <1>0, <1>p, <1>23 DEF AgentReturns, Served, durable, board
  <1>24. ASSUME NEW c \in Client, RunWorkflow(c) \/ CancelWorkflow(c) PROVE ProgressOf(u)'
    BY <1>0, <1>p, <1>24 DEF RunWorkflow, CancelWorkflow, board
  <1>25. CASE Crash BY <1>p, <1>25 DEF Crash, durable, board
  <1>26. ASSUME NEW c \in Client, NEW t \in Task,
                Create(c, t) \/ Ingest(c, t) \/ Accept(c, t) \/ Dismiss(c, t)
        PROVE  ProgressOf(u)'
    BY <1>0, <1>p, <1>26
       DEF Create, Ingest, Accept, Dismiss, Place, durable, IsTerminal, Terminal
  <1>27. ASSUME NEW c \in Client, HandleCancelCleanup(c) PROVE ProgressOf(u)'
    BY <1>0, <1>p, <1>27 DEF HandleCancelCleanup, Halted, durable, IsTerminal, Terminal
  <1>28. ASSUME UNCHANGED <<state, stage, wf, at, leg, tries, thr, out>> PROVE ProgressOf(u)'
    BY <1>p, <1>28 DEF IsTerminal
  <1> HIDE <1>y DEF TypeOK, ProgressOf, ShapeOf, StageOf, PastGate, Occupying
  <1>29. ASSUME NEW t \in Task, Drive(t) \/ Poison(t) \/ AgentReturns(t) PROVE ProgressOf(u)'
    BY <1>29, <1>1, <1>2, <1>3, <1>4, <1>5, <1>6, <1>7, <1>8, <1>9, <1>10, <1>11, <1>12, <1>13,
       <1>14, <1>15, <1>16, <1>17, <1>18, <1>19, <1>20, <1>21, <1>22, <1>23
       DEF Drive
  <1>30. CASE UNCHANGED <<wf, at, leg, tries, thr, out>>
    BY <1>6, <1>12, <1>13, <1>17, <1>26, <1>27, <1>28, <1>30, StageWriters, StateWriters
  <1> QED BY <1>24, <1>25, <1>29, <1>30, FlowWriters

-----------------------------------------------------------------------------
(* How a caller comes to a statement. *)

\* A caller that moves begins a call, goes on to the statement that follows, or comes to
\* one the proofs below do not ask about.
CallMoved(d) ==
  \/ call'[d] = call[d]
  \/ call'[d].pc \notin {"attach", "launch", "close", "findRow", "cleanup"}
  \/ /\ call'[d].pc = "attach"
     /\ \E t \in Task : call'[d].task = t /\ (Create(d, t) \/ Ingest(d, t) \/ Accept(d, t))
  \/ call'[d].pc = "launch" /\ call'[d].task = call[d].task /\ Attach(d)
  \/ /\ call'[d].pc = "close" /\ call'[d].task = call[d].task /\ call'[d].slot = call[d].slot
     /\ SendResult(d)
  \/ call'[d].pc = "findRow" /\ \E t \in Task : call'[d].task = t /\ CancelTask(d, t)
  \/ call'[d].pc = "cleanup" /\ call'[d].task = call[d].task /\ FindLiveWorkflow(d)

\* Every caller moves so.
LEMMA CallMoves == ASSUME TypeInv, Next, NEW d \in Client PROVE CallMoved(d)
  <1> USE DEF CallMoved
  <1>y. TypeOK /\ call \in [Client -> Busy \cup {Idle}] BY DEF TypeInv, TypeOK
  <1>1. ASSUME NEW t \in Task, Drive(t) \/ Poison(t) \/ AgentReturns(t) \/ DateArrives(t)
        PROVE  CallMoved(d)
    BY <1>1
       DEF Drive, memory, Commit, Start, Record, Stop, Recover, EnterReceive,
           RunAdvanceStage, RunRouteAndOccupy, RunOpenAssignment, ReceiveResult, Expire,
           RunStageTimeout, RunResolveAndAdvance, RunReadiness, ReceiveWake, Heartbeat,
           ReadForCompletion, RunCompletion, RunListDependents, WakeDependent,
           EnqueueFeedback, Finish, Poison, AgentReturns, DateArrives
  <1>2. ASSUME NEW c \in Client, NEW t \in Task, Create(c, t) \/ Ingest(c, t) \/ Accept(c, t)
        PROVE  CallMoved(d)
    <2>1. CASE d # c \/ UNCHANGED call
      BY <1>y, <1>2, <2>1 DEF Create, Ingest, Accept, Begin
    <2>2. CASE d = c /\ Begin(c, t, "attach")
      <3>1. call'[d].pc = "attach" /\ call'[d].task = t BY <1>y, <2>2 DEF Begin
      <3> QED BY <1>2, <2>2, <3>1
    <2> QED BY <1>2, <2>1, <2>2 DEF Create, Ingest, Accept
  <1>3. ASSUME NEW c \in Client, NEW t \in Task, Dismiss(c, t) \/ CompleteTask(c, t)
        PROVE  CallMoved(d)
    <2>1. d # c => call'[d] = call[d] BY <1>y, <1>3 DEF Dismiss, CompleteTask, Begin
    <2>2. d = c => call'[d].pc \in {"wakeDependents", "find"}
      BY <1>y, <1>3 DEF Dismiss, CompleteTask, Begin
    <2> QED BY <2>1, <2>2
  <1>4. ASSUME NEW c \in Client, NEW t \in Task, CancelTask(c, t) PROVE CallMoved(d)
    <2>1. d # c => call'[d] = call[d] BY <1>y, <1>4 DEF CancelTask
    <2>2. d = c => call'[d].pc = "findRow" /\ call'[d].task = t BY <1>y, <1>4 DEF CancelTask
    <2> QED BY <1>4, <2>1, <2>2
  <1>5. ASSUME NEW c \in Client, NEW t \in Task, Reschedule(c, t) PROVE CallMoved(d)
    BY <1>5 DEF Reschedule, memory
  <1>6. ASSUME NEW c \in Client, NEW next \in Pc \ {"idle"}, call[c].pc \in Pc \ {"idle"},
               Goto(c, next)
        PROVE  /\ d # c => call'[d] = call[d]
               /\ d = c => /\ call'[d].pc = next /\ call'[d].task = call[d].task
                           /\ call'[d].slot = call[d].slot
    BY <1>y, <1>6, GotoType
  <1>7. ASSUME NEW c \in Client, Attach(c) PROVE CallMoved(d)
    BY <1>6, <1>7 DEF Attach, At, Pc
  <1>8. ASSUME NEW c \in Client, SendResult(c) PROVE CallMoved(d)
    BY <1>6, <1>8 DEF SendResult, At, Pc
  <1>9. ASSUME NEW c \in Client, CancelWorkflow(c) PROVE CallMoved(d)
    <2>1. call[c].pc \in Pc \ {"idle"} /\ Goto(c, "signalStage") /\ "signalStage" \in Pc
      BY <1>9 DEF CancelWorkflow, At, Pc
    <2>2. /\ d # c => call'[d] = call[d]
          /\ d = c => call'[d].pc = "signalStage"
      BY <1>6, <2>1
    <2> QED BY <2>2
  <1>10. ASSUME NEW c \in Client, SignalStage(c) PROVE CallMoved(d)
    <2>1. call[c].pc \in Pc \ {"idle"} /\ Goto(c, "signalBlocked") /\ "signalBlocked" \in Pc
      BY <1>10 DEF SignalStage, At, Pc
    <2>2. /\ d # c => call'[d] = call[d]
          /\ d = c => call'[d].pc = "signalBlocked"
      BY <1>6, <2>1
    <2> QED BY <2>2
  <1>11. ASSUME NEW c \in Client, SignalBlocked(c) PROVE CallMoved(d)
    <2>1. call[c].pc \in Pc \ {"idle"} /\ Goto(c, "wakeDependents") /\ "wakeDependents" \in Pc
      BY <1>11 DEF SignalBlocked, At, Pc
    <2>2. /\ d # c => call'[d] = call[d]
          /\ d = c => call'[d].pc = "wakeDependents"
      BY <1>6, <2>1
    <2> QED BY <2>2
  <1>12. ASSUME NEW c \in Client, HandleCancelCleanup(c) PROVE CallMoved(d)
    <2>1. /\ call[c].pc \in Pc \ {"idle"}
          /\ \E next \in {"cancelWorkflow", "wakeDependents"} : Goto(c, next)
      BY <1>12 DEF HandleCancelCleanup, At, Pc
    <2>2. /\ d # c => call'[d] = call[d]
          /\ d = c => call'[d].pc \in {"cancelWorkflow", "wakeDependents"}
      BY <1>6, <2>1 DEF Pc
    <2> QED BY <2>2
  <1>13. ASSUME NEW c \in Client, FindOpenAssignment(c) PROVE CallMoved(d)
    <2>1. CASE Done(c) BY <1>y, <2>1, DoneType DEF Idle
    <2>2. CASE \E i \in OpenSlots(call[c].task) :
                 call' = [call EXCEPT ![c].slot = i, ![c].pc = "send"]
      <3>1. call[c] \in Busy BY <1>y, <1>13, BusyCall DEF FindOpenAssignment, At, Pc
      <3>2. /\ d # c => call'[d] = call[d]
            /\ d = c => call'[d].pc = "send"
        BY <1>y, <2>2, <3>1 DEF Busy
      <3> QED BY <3>2
    <2> QED BY <1>13, <2>1, <2>2 DEF FindOpenAssignment
  <1>14. ASSUME NEW c \in Client, FindLiveWorkflow(c) PROVE CallMoved(d)
    <2>1. call[c] \in Busy BY <1>y, <1>14, BusyCall DEF FindLiveWorkflow, At, Pc
    <2>2. /\ d # c => call'[d] = call[d]
          /\ d = c => call'[d].pc = "cleanup" /\ call'[d].task = call[d].task
      BY <1>y, <1>14, <2>1 DEF FindLiveWorkflow, Busy
    <2> QED BY <1>14, <2>2
  <1>15. ASSUME NEW c \in Client, Done(c) PROVE CallMoved(d)
    BY <1>y, <1>15, DoneType DEF Idle
  <1>16. CASE Crash BY <1>16 DEF Crash, Idle
  <1> HIDE DEF CallMoved
  <1>17. ASSUME NEW c \in Client, Continue(c) \/ Abandon(c) PROVE CallMoved(d)
    BY <1>7, <1>8, <1>9, <1>10, <1>11, <1>12, <1>13, <1>14, <1>15, <1>17
       DEF Continue, RunWorkflow, CloseAssignment, WakeDependents, Abandon
  <1> QED BY <1>1, <1>2, <1>3, <1>4, <1>5, <1>16, <1>17 DEF Next, Arrive

\* The actions that write the chain_workflows row.
LEMMA RowWriters ==
  ASSUME Next
  PROVE  \/ UNCHANGED row
         \/ \E t \in Task : RunCompletion(t)
         \/ \E c \in Client : Attach(c) \/ HandleCancelCleanup(c)
  <1>1. ASSUME NEW t \in Task, Drive(t) \/ Poison(t) \/ AgentReturns(t) \/ DateArrives(t),
               ~RunCompletion(t)
        PROVE  UNCHANGED row
    BY <1>1 DEF Drive, board, durable, Commit, Start, Record, Stop, Recover, EnterReceive,
           RunAdvanceStage, RunRouteAndOccupy, RunOpenAssignment, ReceiveResult, Expire,
           RunStageTimeout, RunResolveAndAdvance, RunReadiness, ReceiveWake, Heartbeat,
           ReadForCompletion, RunListDependents, WakeDependent, EnqueueFeedback, Finish,
           Poison, AgentReturns, DateArrives
  <1>2. ASSUME NEW c \in Client, NEW t \in Task, Arrive(c, t)
        PROVE  UNCHANGED row
    BY <1>2 DEF Arrive, board, durable, memory, Create, Ingest, Accept, Dismiss, CompleteTask,
           CancelTask, Reschedule
  <1>3. ASSUME NEW c \in Client, Continue(c) \/ Abandon(c), ~Attach(c), ~HandleCancelCleanup(c)
        PROVE  UNCHANGED row
    BY <1>3 DEF Continue, board, durable, RunWorkflow, FindOpenAssignment, SendResult,
           CloseAssignment, FindLiveWorkflow, CancelWorkflow, SignalStage, SignalBlocked,
           WakeDependents, Abandon
  <1> QED BY <1>1, <1>2, <1>3 DEF Next, Crash, board

-----------------------------------------------------------------------------
(* The chain_workflows row. *)

\* Every step keeps the row of a task with its state and its workflow.
LEMMA RowStep == ASSUME Inv, Progress, RowShape, Next PROVE \A t \in Task : RowOf(t)'
  <1> SUFFICES ASSUME NEW u \in Task PROVE RowOf(u)'
    OBVIOUS
  <1>0. /\ ShapeOf(u) /\ ProgressOf(u) /\ RowOf(u)
        /\ wf[u] = "none" => thr[u] = "off" /\ at[u] = "advance"
        /\ wf[u] # "none" => state[u] \notin {"absent", "proposed"}
        /\ PastGate(u) => state[u] \in {"executing", "done", "halted"}
    BY DEF Inv, WorkflowShape, CallShape, ChainAccepted, GateHeld, Progress, RowShape
  <1>y. TypeOK /\ TypeInv BY DEF Inv, TypeInv
  <1> USE <1>y DEF TypeOK, ProgressOf, RowOf, ShapeOf, PastGate
  <1>1. ASSUME NEW t \in Task, Start(t) PROVE RowOf(u)'
    BY <1>0, <1>1 DEF Start, Return, IsTerminal, Terminal, durable, board
  <1>2. ASSUME NEW t \in Task, Record(t) PROVE RowOf(u)'
    BY <1>0, <1>2 DEF Record, durable, board
  <1>3. ASSUME NEW t \in Task, Stop(t) PROVE RowOf(u)'
    BY <1>0, <1>3 DEF Stop, durable, board
  <1>4. ASSUME NEW t \in Task, Recover(t) PROVE RowOf(u)'
    BY <1>0, <1>4 DEF Recover, durable, board
  <1>5. ASSUME NEW t \in Task, EnterReceive(t) PROVE RowOf(u)'
    BY <1>0, <1>5 DEF EnterReceive, AtStep, durable, board
  <1>6. ASSUME NEW t \in Task, RunAdvanceStage(t) PROVE RowOf(u)'
    BY <1>0, <1>6 DEF RunAdvanceStage, AtStep, Commit, durable, board
  <1>7. ASSUME NEW t \in Task, RunRouteAndOccupy(t) PROVE RowOf(u)'
    BY <1>0, <1>7 DEF RunRouteAndOccupy, AtStep, Commit, durable, board
  <1>8. ASSUME NEW t \in Task, RunOpenAssignment(t) PROVE RowOf(u)'
    BY <1>0, <1>8 DEF RunOpenAssignment, AtStep, Commit, durable, board
  <1>9. ASSUME NEW t \in Task, ReceiveResult(t) PROVE RowOf(u)'
    BY <1>0, <1>9 DEF ReceiveResult, Return, durable, board
  <1>10. ASSUME NEW t \in Task, Expire(t) PROVE RowOf(u)'
    BY <1>0, <1>10 DEF Expire, durable, board
  <1>11. ASSUME NEW t \in Task, RunStageTimeout(t) PROVE RowOf(u)'
    BY <1>0, <1>11 DEF RunStageTimeout, AtStep, Commit, durable, board
  <1>12. ASSUME NEW t \in Task, RunResolveAndAdvance(t) PROVE RowOf(u)'
    BY <1>0, <1>12 DEF RunResolveAndAdvance, AtStep, Commit, durable, board
  <1>13. ASSUME NEW t \in Task, RunReadiness(t) PROVE RowOf(u)'
    BY <1>0, <1>13 DEF RunReadiness, AtStep, Commit, IsTerminal, Terminal, durable, board
  <1>14. ASSUME NEW t \in Task, ReceiveWake(t) PROVE RowOf(u)'
    BY <1>0, <1>14 DEF ReceiveWake, Return, durable, board
  <1>15. ASSUME NEW t \in Task, Heartbeat(t) PROVE RowOf(u)'
    BY <1>0, <1>15 DEF Heartbeat, durable, board
  <1>16. ASSUME NEW t \in Task, ReadForCompletion(t) PROVE RowOf(u)'
    BY <1>0, <1>16 DEF ReadForCompletion, AtStep, IsTerminal, Terminal, durable, board
  <1>17. ASSUME NEW t \in Task, RunCompletion(t) PROVE RowOf(u)'
    BY <1>0, <1>17
       DEF RunCompletion, Commit, EndChainWorkflow, IsTerminal, Terminal, durable, board
  <1>18. ASSUME NEW t \in Task, RunListDependents(t) PROVE RowOf(u)'
    BY <1>0, <1>18 DEF RunListDependents, AtStep, Commit, durable, board
  <1>19. ASSUME NEW t \in Task, WakeDependent(t) PROVE RowOf(u)'
    BY <1>0, <1>19 DEF WakeDependent, AtStep, Return, durable, board
  <1>20. ASSUME NEW t \in Task, EnqueueFeedback(t) PROVE RowOf(u)'
    BY <1>0, <1>20 DEF EnqueueFeedback, AtStep, durable, board
  <1>21. ASSUME NEW t \in Task, Finish(t) PROVE RowOf(u)'
    BY <1>0, <1>21 DEF Finish, Return, durable, board
  <1>22. ASSUME NEW t \in Task, Poison(t) PROVE RowOf(u)'
    BY <1>0, <1>22 DEF Poison, Return, durable, board
  <1>23. ASSUME NEW t \in Task, AgentReturns(t) PROVE RowOf(u)'
    BY <1>0, <1>23 DEF AgentReturns, durable, board
  <1>24. ASSUME NEW c \in Client, RunWorkflow(c) PROVE RowOf(u)'
    <2>1. call[c].task = u => wf[u] = "none" /\ row[u] # "none"
      BY <1>24 DEF RunWorkflow, At, RowShape, AttachOf
    <2> QED BY <1>0, <1>24, <2>1 DEF RunWorkflow, board
  <1>25. ASSUME NEW c \in Client, CancelWorkflow(c) PROVE RowOf(u)'
    BY <1>0, <1>25 DEF CancelWorkflow, board
  <1>26. CASE Crash BY <1>0, <1>26 DEF Crash, durable, board
  <1>27. ASSUME NEW c \in Client, NEW t \in Task,
                Create(c, t) \/ Ingest(c, t) \/ Accept(c, t) \/ Dismiss(c, t)
        PROVE  RowOf(u)'
    BY <1>0, <1>27
       DEF Create, Ingest, Accept, Dismiss, Place, durable, IsTerminal, Terminal
  <1>28. ASSUME NEW c \in Client, HandleCancelCleanup(c) PROVE RowOf(u)'
    <2>1. UNCHANGED <<wf, at, thr, out>> BY <1>28 DEF HandleCancelCleanup, durable
    <2>2. /\ row'[u] = row[u] \/ (row[u] = "live" /\ row'[u] = "cancelled")
          /\ call[c].task = u => row'[u] # "live" /\ state'[u] = Halted(state[u])
          /\ call[c].task # u => row'[u] = row[u] /\ state'[u] = state[u]
      BY <1>28 DEF HandleCancelCleanup, EndChainWorkflow
    <2>3. call[c].task = u => state[u] # "absent"
      BY <1>28 DEF HandleCancelCleanup, At, Inv, CallShape, CallOf
    <2>4. row[u] = "live" => state[u] \notin {"absent", "proposed"} BY <1>0
    <2> HIDE <1>y DEF TypeOK
    <2> QED BY <1>0, <2>1, <2>2, <2>3, <2>4 DEF Halted, IsTerminal, Terminal
  <1>29. ASSUME NEW c \in Client, Attach(c) PROVE RowOf(u)'
    <2>1. call[c].task = u => /\ wf[u] = "none" /\ row[u] = "none"
                              /\ state[u] \notin {"absent", "proposed"}
      BY <1>29 DEF Attach, At, RowShape, AttachOf, Inv, CallShape, CallOf
    <2> QED BY <1>0, <1>29, <2>1 DEF Attach, durable
  <1>30. ASSUME UNCHANGED <<state, row, wf, at, leg, tries, thr, out>> PROVE RowOf(u)'
    BY <1>0, <1>30 DEF IsTerminal
  <1> HIDE DEF TypeOK, ProgressOf, RowOf, ShapeOf, PastGate
  <1>31. ASSUME NEW t \in Task, Drive(t) \/ Poison(t) \/ AgentReturns(t) PROVE RowOf(u)'
    BY <1>31, <1>1, <1>2, <1>3, <1>4, <1>5, <1>6, <1>7, <1>8, <1>9, <1>10, <1>11, <1>12, <1>13,
       <1>14, <1>15, <1>16, <1>17, <1>18, <1>19, <1>20, <1>21, <1>22, <1>23
       DEF Drive
  <1>32. CASE UNCHANGED <<wf, at, leg, tries, thr, out>>
    BY <1>13, <1>17, <1>27, <1>28, <1>29, <1>30, <1>32, StateWriters, RowWriters
  <1> QED BY <1>24, <1>25, <1>26, <1>31, <1>32, FlowWriters

\* The row of a task whose chain somebody is about to attach stays away until they do, and
\* so does its workflow.
LEMMA AttachStep == ASSUME Inv, RowShape, Next PROVE \A c \in Client : AttachOf(c)'
  <1> SUFFICES ASSUME NEW d \in Client, call'[d].pc \in {"attach", "launch"} PROVE AttachOf(d)'
    BY DEF AttachOf
  <1>y. TypeInv /\ TypeOK BY DEF Inv, TypeInv
  <1> DEFINE t == call'[d].task
             Attaches(c) == call[c].pc \in {"attach", "launch"}
  <1>1. ASSUME NEW c \in Client, Attaches(c)
        PROVE  /\ call[c].task \in Task /\ wf[call[c].task] = "none"
               /\ state[call[c].task] \notin {"absent", "proposed"}
               /\ \A e \in Client \ {c} : Attaches(e) => call[e].task # call[c].task
    <2>1. call[c] \in Busy BY <1>y, <1>1, BusyCall DEF Pc
    <2> QED BY <1>1, <2>1 DEF Busy, RowShape, AttachOf, Inv, CallShape, CallOf
  <1>2. ASSUME NEW c \in Client, call'[c].pc \in {"attach", "launch"}
        PROVE  \/ Attaches(c) /\ call'[c].task = call[c].task
               \/ /\ call'[c].pc = "attach" /\ call'[c].task \in Task
                  /\ state[call'[c].task] \in {"absent", "proposed"}
                  /\ Create(c, call'[c].task) \/ Ingest(c, call'[c].task)
                       \/ Accept(c, call'[c].task)
    <2>1. CallMoved(c) BY <1>y, CallMoves
    <2>2. CASE call'[c] = call[c] BY <1>2, <2>2
    <2>3. ASSUME NEW u \in Task, call'[c].task = u, call'[c].pc = "attach",
                 Create(c, u) \/ Ingest(c, u) \/ Accept(c, u)
          PROVE  state[u] \in {"absent", "proposed"}
      BY <2>3 DEF Create, Ingest, Accept, Place
    <2> QED BY <1>2, <2>1, <2>2, <2>3 DEF CallMoved, Attach, At
  <1>3. ASSUME NEW c \in Client, NEW u \in Task, Create(c, u) \/ Ingest(c, u) \/ Accept(c, u)
        PROVE  /\ \A e \in Client \ {c} : call'[e] = call[e]
               /\ UNCHANGED <<row, wf>>
    BY <1>y, <1>3 DEF Create, Ingest, Accept, Begin, TypeOK, durable
  <1> HIDE DEF Attaches
  <1>4. \A e \in Client \ {d} : call'[e].pc \in {"attach", "launch"} => call'[e].task # t
    <2> SUFFICES ASSUME NEW e \in Client \ {d}, call'[e].pc \in {"attach", "launch"}
                 PROVE  call'[e].task # t
      OBVIOUS
    <2>1. CASE /\ Attaches(d) /\ call'[d].task = call[d].task
               /\ Attaches(e) /\ call'[e].task = call[e].task
      BY <1>1, <2>1
    <2>2. CASE Create(d, t) \/ Ingest(d, t) \/ Accept(d, t)
      BY <1>1, <1>2, <1>3, <2>2 DEF Attaches
    <2>3. CASE Create(e, call'[e].task) \/ Ingest(e, call'[e].task) \/ Accept(e, call'[e].task)
      BY <1>1, <1>2, <1>3, <2>3 DEF Attaches
    <2> QED BY <1>2, <2>1, <2>2, <2>3
  <1>5. CASE call'[d].task \in Task /\ state[t] \in {"absent", "proposed"}
             /\ (Create(d, t) \/ Ingest(d, t) \/ Accept(d, t)) /\ call'[d].pc = "attach"
    <2>1. row[t] = "none" /\ wf[t] = "none" BY <1>5 DEF RowShape, RowOf
    <2> QED BY <1>3, <1>4, <1>5, <2>1 DEF AttachOf
  <1>6. CASE Attaches(d) /\ call'[d].task = call[d].task
    <2>0. t \in Task /\ wf[t] = "none" BY <1>1, <1>6
    <2>1. wf'[t] = "none"
      <3>1. ASSUME NEW u \in Task, Drive(u) \/ Poison(u) \/ AgentReturns(u)
            PROVE  wf'[t] = wf[t]
        BY <1>y, <2>0, <3>1, DriveLocal
      <3>2. ASSUME NEW c \in Client, RunWorkflow(c) PROVE wf'[t] = wf[t]
        <4>1. c # d BY <1>y, <3>2, DoneType DEF RunWorkflow, Idle
        <4>2. call[c].task # t BY <1>1, <1>6, <3>2, <4>1 DEF RunWorkflow, At, Attaches
        <4> QED BY <1>y, <3>2, <4>2 DEF RunWorkflow, TypeOK
      <3>3. ASSUME NEW c \in Client, CancelWorkflow(c) PROVE wf'[t] = wf[t]
        BY <1>y, <2>0, <3>3 DEF CancelWorkflow, TypeOK
      <3> QED BY <2>0, <3>1, <3>2, <3>3, FlowWriters DEF Crash, durable
    <2>2. \/ row'[t] = "none" <=> row[t] = "none"
          \/ Attach(d)
      <3>1. ASSUME NEW u \in Task, RunCompletion(u) PROVE row'[t] = row[t]
        <4>1. u # t
          BY <2>0, <3>1 DEF RunCompletion, Inv, CallShape, ChainAccepted
        <4> QED BY <1>y, <3>1, <4>1 DEF RunCompletion, EndChainWorkflow, TypeOK
      <3>2. ASSUME NEW c \in Client, c # d, Attach(c) PROVE row'[t] = row[t]
        <4>1. call[c].task # t BY <1>1, <1>6, <3>2 DEF Attach, At, Attaches
        <4> QED BY <1>y, <3>2, <4>1 DEF Attach, TypeOK
      <3>3. ASSUME NEW c \in Client, HandleCancelCleanup(c)
            PROVE  row'[t] = "none" <=> row[t] = "none"
        BY <1>y, <2>0, <3>3 DEF HandleCancelCleanup, EndChainWorkflow, TypeOK
      <3> QED BY <3>1, <3>2, <3>3, RowWriters
    <2>3. CASE Attach(d)
      <3>1. /\ call[d].pc \in Pc \ {"idle"} /\ Goto(d, "launch")
            /\ "launch" \in Pc \ {"idle"}
        BY <2>3 DEF Attach, At, Pc
      <3>2. call'[d].pc = "launch" BY <1>y, <3>1, GotoType
      <3>3. row'[t] = "live" BY <1>y, <1>6, <2>0, <2>3 DEF Attach, TypeOK
      <3> QED BY <1>4, <2>1, <3>2, <3>3 DEF AttachOf
    <2>4. CASE ~Attach(d)
      <3>1. CallMoved(d) BY <1>y, CallMoves
      <3>2. CASE call'[d].pc = call[d].pc
        BY <1>4, <1>6, <2>0, <2>1, <2>2, <2>4, <3>2 DEF AttachOf, RowShape
      <3>3. ASSUME NEW u \in Task, call'[d].pc = "attach", call'[d].task = u,
                   Create(d, u) \/ Ingest(d, u) \/ Accept(d, u)
            PROVE  AttachOf(d)'
        <4>1. state[u] \in {"absent", "proposed"} BY <3>3 DEF Create, Ingest, Accept, Place
        <4> QED BY <1>5, <2>0, <3>3, <4>1
      <3> QED BY <2>4, <3>1, <3>2, <3>3 DEF CallMoved
    <2> QED BY <2>3, <2>4
  <1> QED BY <1>2, <1>5, <1>6

-----------------------------------------------------------------------------
(* Assignments. *)

\* The ranks of the served stages order them.
LEMMA Ranks ==
  /\ \A s \in Served \cup {"completion"} : Rank[s] \in Nat
  /\ \A r, s \in Served \cup {"completion"} : Rank[r] = Rank[s] => r = s
  /\ \A s \in Served : /\ NextStage(s) \in Served \cup {"completion"}
                       /\ Rank[s] < Rank[NextStage(s)]
  BY DEF Rank, Stage, Served, NextStage

\* What resolving a stage makes of its last assignment, and leaves of the others.
LEMMA ResolvedSlots ==
  ASSUME TypeOK, NEW t \in Task
  PROVE  /\ Resolved(t) \in Seq(Slot) /\ Len(Resolved(t)) = Len(slots[t])
         /\ DOMAIN Resolved(t) = DOMAIN slots[t]
         /\ \A i \in DOMAIN slots[t] :
              /\ Resolved(t)[i].stage = slots[t][i].stage
              /\ i \in LatestSlot(t, leg[t]) => /\ Resolved(t)[i].open = FALSE
                                                /\ Resolved(t)[i].audits = slots[t][i].audits + 1
              /\ i \notin LatestSlot(t, leg[t]) => Resolved(t)[i] = slots[t][i]
  <1>1. slots[t] \in Seq(Slot) BY DEF TypeOK
  <1>2. \A i \in DOMAIN slots[t] :
          /\ i \in LatestSlot(t, leg[t])
               => Resolved(t)[i] = [slots[t][i] EXCEPT !.open = FALSE, !.audits = @ + 1]
          /\ i \notin LatestSlot(t, leg[t]) => Resolved(t)[i] = slots[t][i]
    BY DEF Resolved
  <1>3. \A i \in DOMAIN slots[t] : Resolved(t)[i] \in Slot BY <1>2, SlotType
  <1>4. Resolved(t) = [i \in DOMAIN slots[t] |-> Resolved(t)[i]] BY DEF Resolved
  <1>5. Resolved(t) \in Seq(Slot) BY ONLY <1>1, <1>3, <1>4, SameDomainSeq
  <1>6. DOMAIN Resolved(t) = DOMAIN slots[t] BY <1>4
  <1>7. Len(Resolved(t)) = Len(slots[t]) BY <1>1, <1>5, <1>6
  <1>8. ASSUME NEW i \in DOMAIN slots[t], i \in LatestSlot(t, leg[t])
        PROVE  /\ Resolved(t)[i].stage = slots[t][i].stage
               /\ Resolved(t)[i].open = FALSE
               /\ Resolved(t)[i].audits = slots[t][i].audits + 1
    <2>1. slots[t][i] \in Slot BY SlotType
    <2> QED BY <1>2, <1>8, <2>1 DEF Slot
  <1> QED BY <1>2, <1>5, <1>6, <1>7, <1>8

\* The position and the served stage of a workflow that opens and resolves nothing, and
\* records nothing: it does not come to have resolved its stage.
Still(t) ==
  /\ leg'[t] = leg[t]
  /\ thr'[t] = "ran" /\ at'[t] = "resolve" => thr[t] = "ran" /\ at[t] = "resolve"

\* Only the body that resolves a stage, and the checkpoint after it, move a workflow beyond it.
LEMMA StillUnlessMoved ==
  ASSUME TypeInv, Next, NEW u \in Task, ~Record(u), ~RunResolveAndAdvance(u)
  PROVE  Still(u)
  <1>0. TypeOK /\ ShapeOf(u) BY DEF TypeInv, WorkflowShape
  <1> USE <1>0 DEF TypeOK, ShapeOf, Still
  <1>1. ASSUME NEW t \in Task, Start(t) PROVE Still(u)
    BY <1>0, <1>1 DEF Start, Return, durable
  <1>2. ASSUME NEW t \in Task, Stop(t) PROVE Still(u)
    BY <1>0, <1>2 DEF Stop, durable
  <1>3. ASSUME NEW t \in Task, Recover(t) PROVE Still(u)
    BY <1>0, <1>3 DEF Recover, durable
  <1>4. ASSUME NEW t \in Task, EnterReceive(t) PROVE Still(u)
    BY <1>0, <1>4 DEF EnterReceive, AtStep, durable
  <1>5. ASSUME NEW t \in Task, RunAdvanceStage(t) PROVE Still(u)
    BY <1>0, <1>5 DEF RunAdvanceStage, AtStep, Commit, durable
  <1>6. ASSUME NEW t \in Task, RunRouteAndOccupy(t) PROVE Still(u)
    BY <1>0, <1>6 DEF RunRouteAndOccupy, AtStep, Commit, durable
  <1>7. ASSUME NEW t \in Task, ReceiveResult(t) PROVE Still(u)
    BY <1>0, <1>7 DEF ReceiveResult, Return, durable
  <1>8. ASSUME NEW t \in Task, Expire(t) PROVE Still(u)
    BY <1>0, <1>8 DEF Expire, durable
  <1>9. ASSUME NEW t \in Task, RunStageTimeout(t) PROVE Still(u)
    BY <1>0, <1>9 DEF RunStageTimeout, AtStep, Commit, durable
  <1>10. ASSUME NEW t \in Task, RunReadiness(t) PROVE Still(u)
    BY <1>0, <1>10 DEF RunReadiness, AtStep, Commit, durable
  <1>11. ASSUME NEW t \in Task, ReceiveWake(t) PROVE Still(u)
    BY <1>0, <1>11 DEF ReceiveWake, Return, durable
  <1>12. ASSUME NEW t \in Task, Heartbeat(t) PROVE Still(u)
    BY <1>0, <1>12 DEF Heartbeat, durable
  <1>13. ASSUME NEW t \in Task, ReadForCompletion(t) PROVE Still(u)
    BY <1>0, <1>13 DEF ReadForCompletion, AtStep, durable
  <1>14. ASSUME NEW t \in Task, RunCompletion(t) PROVE Still(u)
    BY <1>0, <1>14 DEF RunCompletion, Commit, durable
  <1>15. ASSUME NEW t \in Task, RunListDependents(t) PROVE Still(u)
    BY <1>0, <1>15 DEF RunListDependents, AtStep, Commit, durable
  <1>16. ASSUME NEW t \in Task, WakeDependent(t) PROVE Still(u)
    BY <1>0, <1>16 DEF WakeDependent, AtStep, Return, durable
  <1>17. ASSUME NEW t \in Task, EnqueueFeedback(t) PROVE Still(u)
    BY <1>0, <1>17 DEF EnqueueFeedback, AtStep, durable
  <1>18. ASSUME NEW t \in Task, Finish(t) PROVE Still(u)
    BY <1>0, <1>18 DEF Finish, Return, durable
  <1>19. ASSUME NEW t \in Task, Poison(t) PROVE Still(u)
    BY <1>0, <1>19 DEF Poison, Return, durable
  <1>20. ASSUME NEW t \in Task, AgentReturns(t) PROVE Still(u)
    BY <1>0, <1>20 DEF AgentReturns, durable
  <1>21. ASSUME NEW t \in Task, RunOpenAssignment(t) PROVE Still(u)
    BY <1>21 DEF RunOpenAssignment, AtStep, Commit
  <1>22. ASSUME NEW t \in Task, t # u, Record(t) \/ RunResolveAndAdvance(t) PROVE Still(u)
    BY <1>22 DEF Record, RunResolveAndAdvance, Commit, AtStep
  <1>23. ASSUME NEW c \in Client, RunWorkflow(c) \/ CancelWorkflow(c) PROVE Still(u)
    BY <1>23 DEF RunWorkflow, CancelWorkflow
  <1>24. CASE Crash BY <1>24 DEF Crash, durable
  <1>25. CASE UNCHANGED <<wf, at, leg, tries, thr, out>> BY <1>25
  <1> HIDE <1>0 DEF TypeOK, ShapeOf, Still
  <1>26. ASSUME NEW t \in Task, Drive(t) \/ Poison(t) \/ AgentReturns(t) PROVE Still(u)
    BY <1>1, <1>2, <1>3, <1>4, <1>5, <1>6, <1>7, <1>8, <1>9, <1>10, <1>11, <1>12, <1>13, <1>14,
       <1>15, <1>16, <1>17, <1>18, <1>19, <1>20, <1>21, <1>22, <1>26
       DEF Drive
  <1> QED BY <1>23, <1>24, <1>25, <1>26, FlowWriters

\* What SlotOf says of an assignment stays true while the workflow is still, nothing reopens
\* and no assignment becomes the last of its stage.
LEMMA SlotKept ==
  ASSUME NEW u \in Task, Still(u), NEW i \in DOMAIN slots[u], SlotOf(u, i),
         slots'[u][i].stage = slots[u][i].stage, slots'[u][i].audits = slots[u][i].audits,
         slots'[u][i].open => slots[u][i].open /\ Len(slots'[u]) = Len(slots[u]),
         IsLast(u, i)' => IsLast(u, i)
  PROVE  SlotOf(u, i)'
  <1>1. PICK s : s = slots[u][i].stage
    OBVIOUS
  <1>2. leg'[u] = leg[u] /\ (Behind(u, s)' => Behind(u, s)) BY DEF Behind, Still
  <1> QED BY <1>1, <1>2 DEF SlotOf

\* What SlotOf says of assignments that do not change stays true while the workflow is still.
LEMMA SlotFrame ==
  ASSUME NEW u \in Task, Still(u), slots'[u] = slots[u],
         NEW i \in DOMAIN slots[u], SlotOf(u, i)
  PROVE  SlotOf(u, i)'
  <1>1. IsLast(u, i)' => IsLast(u, i) BY DEF IsLast, SlotsOf
  <1> QED BY <1>1, SlotKept

\* Opening an assignment: it is the only one that is open, and the last.
LEMMA SlotOpened ==
  ASSUME Inv, SlotShape, NEW u \in Task, RunOpenAssignment(u)
  PROVE  \A i \in DOMAIN slots'[u] : SlotOf(u, i)'
  <1>y. TypeOK /\ TypeInv BY DEF Inv, TypeInv
  <1>1. leg'[u] = leg[u] /\ leg[u] \in Served /\ at'[u] = "open" /\ at[u] = "open" /\ Still(u)
    BY <1>y DEF RunOpenAssignment, AtStep, Commit, TypeInv, WorkflowShape, ShapeOf, Occupying,
                Still, TypeOK
  <1>2. CASE UNCHANGED slots
    BY <1>1, <1>2, SlotFrame DEF SlotShape
  <1>3. CASE /\ ~HasOpenSlotFor(u, leg[u])
             /\ slots' = [slots EXCEPT ![u] =
                            Append(@, [stage |-> leg[u], open |-> TRUE, audits |-> 0])]
    <2> SUFFICES ASSUME NEW n, n = Len(slots[u]), NEW l, l = leg[u], NEW new,
                        new = [stage |-> l, open |-> TRUE, audits |-> 0]
                 PROVE  \A i \in DOMAIN slots'[u] : SlotOf(u, i)'
      OBVIOUS
    <2>1. slots'[u] = Append(slots[u], new) /\ slots[u] \in Seq(Slot)
      BY <1>y, <1>3 DEF TypeOK
    <2>2. n \in Nat /\ DOMAIN slots[u] = 1 .. n /\ DOMAIN slots'[u] = 1 .. n + 1
          /\ Len(slots'[u]) = n + 1
          /\ slots'[u][n + 1] = new /\ \A i \in 1 .. n : slots'[u][i] = slots[u][i]
      BY <2>1
    <2>3. \A i \in 1 .. n : SlotOf(u, i) /\ ~slots[u][i].open
      BY <1>3, <2>2 DEF SlotShape, SlotOf, HasOpenSlotFor, OpenSlots
    <2>4. leg'[u] = l /\ ~Behind(u, l)' /\ Rank[l] \in Nat BY <1>1, Ranks DEF Behind
    <2>5. SlotOf(u, n + 1)'
      <3>1. slots'[u][n + 1].stage = l BY <2>2
      <3> QED BY <2>2, <2>4, <3>1 DEF SlotOf
    <2>6. ASSUME NEW i \in 1 .. n PROVE SlotOf(u, i)'
      <3>1. slots'[u][i] = slots[u][i] BY <2>2
      <3>2. IsLast(u, i)' => IsLast(u, i)
        <4>1. \A j \in SlotsOf(u, slots[u][i].stage) : j \in DOMAIN slots'[u]
                /\ slots'[u][j].stage = slots[u][i].stage
          BY <2>2 DEF SlotsOf
        <4> QED BY <3>1, <4>1 DEF IsLast, SlotsOf
      <3> QED BY <1>1, <2>2, <2>3, <3>1, <3>2, SlotKept
    <2> QED BY <2>2, <2>5, <2>6
  <1> QED BY <1>2, <1>3 DEF RunOpenAssignment

\* Resolving a stage: nothing is open any more, and its last assignment is audited.
LEMMA SlotResolved ==
  ASSUME Inv, SlotShape, NEW u \in Task, RunResolveAndAdvance(u)
  PROVE  \A i \in DOMAIN slots'[u] : SlotOf(u, i)'
  <1>y. TypeOK /\ TypeInv BY DEF Inv, TypeInv
  <1>1. leg'[u] = leg[u] /\ leg[u] \in Served /\ slots'[u] = Resolved(u)
    BY <1>y DEF RunResolveAndAdvance, AtStep, Commit, TypeInv, WorkflowShape, ShapeOf,
                Occupying, TypeOK
  <1>2. DOMAIN slots'[u] = DOMAIN slots[u] BY <1>1, <1>y, ResolvedSlots
  <1>3. ASSUME NEW i \in DOMAIN slots[u] PROVE SlotOf(u, i)'
    <2>1. slots'[u][i].stage = slots[u][i].stage
          /\ (i \in LatestSlot(u, leg[u]) => ~slots'[u][i].open
                                       /\ slots'[u][i].audits = slots[u][i].audits + 1)
          /\ (i \notin LatestSlot(u, leg[u]) => slots'[u][i] = slots[u][i])
      BY <1>1, <1>y, ResolvedSlots
    <2>2. slots[u][i] \in Slot BY <1>y, SlotType
    <2>3. slots[u][i].audits \in Nat /\ slots[u][i].stage \in Served BY <2>2 DEF Slot
    <2>4. SlotOf(u, i) BY DEF SlotShape
    <2>5. ~slots'[u][i].open
      <3>1. CASE slots[u][i].open
        <4>1. i = Len(slots[u]) /\ slots[u][i].stage = leg[u] BY <2>4, <3>1 DEF SlotOf
        <4>2. \A j \in DOMAIN slots[u] : j <= i BY <1>y, <4>1 DEF TypeOK
        <4>3. i \in LatestSlot(u, leg[u]) BY <4>1, <4>2 DEF LatestSlot, SlotsOf
        <4> QED BY <2>1, <4>3
      <3>2. CASE ~slots[u][i].open BY <2>1, <3>2
      <3> QED BY <3>1, <3>2
    <2>6. IsLast(u, i)' <=> IsLast(u, i)
      <3>1. \A j \in DOMAIN slots[u] : slots'[u][j].stage = slots[u][j].stage
        BY <1>1, <1>y, ResolvedSlots
      <3> QED BY <1>2, <2>1, <3>1 DEF IsLast, SlotsOf
    <2>7. CASE slots[u][i].stage = leg[u] /\ IsLast(u, i)
      <3>1. i \in LatestSlot(u, leg[u]) BY <2>7 DEF LatestSlot, IsLast, SlotsOf
      <3>2. slots'[u][i].audits > 0 BY <2>1, <2>3, <3>1
      <3> QED BY <1>1, <2>1, <2>4, <2>5, <3>2 DEF SlotOf
    <2>8. CASE ~(slots[u][i].stage = leg[u] /\ IsLast(u, i))
      <3>1. PICK s : s = slots[u][i].stage
        OBVIOUS
      <3>2. IsLast(u, i) /\ Behind(u, s)' => Behind(u, s) BY <1>1, <2>8, <3>1 DEF Behind
      <3>3. Behind(u, s)' /\ IsLast(u, i)' => slots[u][i].audits > 0
        BY <2>4, <2>6, <3>1, <3>2 DEF SlotOf
      <3>4. slots[u][i].audits > 0 => slots'[u][i].audits > 0 BY <2>1, <2>3
      <3>5. Rank[s] <= Rank[leg[u]] /\ slots'[u][i].stage = s BY <2>1, <2>4, <3>1 DEF SlotOf
      <3> QED BY <1>1, <2>5, <3>3, <3>4, <3>5 DEF SlotOf
    <2> QED BY <2>7, <2>8
  <1> QED BY <1>2, <1>3

\* Closing an assignment changes nothing else of it.
LEMMA ClosedSlots ==
  ASSUME TypeInv, NEW c \in Client, CloseAssignment(c), NEW u \in Task
  PROVE  /\ slots'[u] \in Seq(Slot) /\ DOMAIN slots'[u] = DOMAIN slots[u]
         /\ Len(slots'[u]) = Len(slots[u])
         /\ \A i \in DOMAIN slots[u] :
              /\ slots'[u][i].stage = slots[u][i].stage
              /\ slots'[u][i].audits = slots[u][i].audits
              /\ slots'[u][i].open => slots[u][i].open
              /\ slots[u][i].open /\ ~slots'[u][i].open => u = call[c].task /\ i = call[c].slot
  <1>y. TypeOK BY DEF TypeInv
  <1> DEFINE t == call[c].task  k == call[c].slot
  <1>1. t \in Task /\ k \in DOMAIN slots[t]
    BY <1>y, BusyCall DEF CloseAssignment, At, Pc, Busy, TypeInv, CallShape, CallOf
  <1>2. slots' = [slots EXCEPT ![t][k] = [@ EXCEPT !.open = FALSE]] BY DEF CloseAssignment
  <1> HIDE DEF t, k
  <1>3. slots[t] \in Seq(Slot) /\ slots[u] \in Seq(Slot) BY <1>y, <1>1 DEF TypeOK
  <1>4. [slots[t][k] EXCEPT !.open = FALSE] \in Slot /\ slots[t][k] \in Slot
    BY <1>y, <1>1, SlotType
  <1>5. /\ [slots[t][k] EXCEPT !.open = FALSE].stage = slots[t][k].stage
        /\ [slots[t][k] EXCEPT !.open = FALSE].audits = slots[t][k].audits
        /\ ~[slots[t][k] EXCEPT !.open = FALSE].open
    BY <1>4 DEF Slot
  <1>6. CASE u # t
    <2>1. slots'[u] = slots[u] BY <1>y, <1>2, <1>6 DEF TypeOK
    <2> QED BY <1>3, <2>1
  <1>7. CASE u = t
    <2> DEFINE r == [slots[t][k] EXCEPT !.open = FALSE]
    <2>1. slots'[u] = [slots[u] EXCEPT ![k] = r] BY <1>y, <1>1, <1>2, <1>7 DEF TypeOK
    <2> HIDE DEF r
    <2>2. /\ r \in Slot /\ r.stage = slots[t][k].stage /\ r.audits = slots[t][k].audits
          /\ ~r.open
      BY <1>4, <1>5 DEF r
    <2>3. slots'[u] \in Seq(Slot) /\ Len(slots'[u]) = Len(slots[u])
          /\ DOMAIN slots'[u] = DOMAIN slots[u]
      BY <1>1, <1>3, <1>7, <2>1, <2>2
    <2>4. \A i \in DOMAIN slots[u] : slots'[u][i] = IF i = k THEN r ELSE slots[u][i]
      BY <2>1
    <2> QED BY <1>7, <2>2, <2>3, <2>4 DEF t, k
  <1> QED BY <1>6, <1>7

\* The checkpoint of a workflow: what it leaves behind is closed and audited.
LEMMA SlotRecorded ==
  ASSUME Inv, SlotShape, NEW u \in Task, Record(u)
  PROVE  \A i \in DOMAIN slots'[u] : SlotOf(u, i)'
  <1>y. TypeOK BY DEF Inv
  <1>1. slots' = slots /\ thr'[u] = "ready" /\ thr[u] = "ran"
        /\ leg'[u] = IF at[u] = "resolve" THEN NextStage(leg[u]) ELSE leg[u]
    BY <1>y DEF Record, board, TypeOK
  <1>2. at[u] = "resolve" => leg[u] \in Served
    BY DEF Inv, WorkflowShape, ShapeOf, Occupying
  <1> SUFFICES ASSUME NEW i \in DOMAIN slots[u] PROVE SlotOf(u, i)'
    BY <1>1
  <1> DEFINE s == slots[u][i].stage
  <1>3. slots[u][i] \in Slot /\ s \in Served BY <1>y, SlotType DEF Slot
  <1>4. SlotOf(u, i) /\ (IsLast(u, i)' <=> IsLast(u, i))
    BY <1>1 DEF SlotShape, IsLast, SlotsOf
  <1>5. CASE at[u] = "resolve"
    <2>1. /\ Rank[leg[u]] < Rank[leg'[u]] /\ Rank[leg[u]] \in Nat /\ Rank[leg'[u]] \in Nat
          /\ Rank[s] \in Nat
      BY <1>1, <1>2, <1>3, <1>5, Ranks
    <2>2. Rank[s] <= Rank[leg[u]] BY <1>4 DEF SlotOf
    <2>3. Behind(u, s) BY <1>1, <1>2, <1>3, <1>5, <2>1, <2>2, Ranks DEF Behind
    <2>4. ~slots[u][i].open /\ (IsLast(u, i) => slots[u][i].audits > 0) BY <1>4, <2>3 DEF SlotOf
    <2> QED BY <1>1, <1>4, <2>1, <2>2, <2>4 DEF SlotOf
  <1>6. CASE at[u] # "resolve"
    <2>1. leg'[u] = leg[u] /\ (Behind(u, s)' => Behind(u, s)) BY <1>1, <1>6 DEF Behind
    <2> QED BY <1>1, <1>4, <2>1 DEF SlotOf
  <1> QED BY <1>5, <1>6

\* A task without a workflow has none after the step only if it had none before.
LEMMA WorkflowStays ==
  ASSUME TypeInv, Next, NEW u \in Task, wf[u] # "none"
  PROVE  wf'[u] # "none"
  <1>1. ASSUME NEW t \in Task, Drive(t) \/ Poison(t) \/ AgentReturns(t) PROVE wf'[u] # "none"
    BY <1>1, DriveLocal
  <1>2. ASSUME NEW c \in Client, RunWorkflow(c) \/ CancelWorkflow(c) PROVE wf'[u] # "none"
    BY <1>2 DEF RunWorkflow, CancelWorkflow, TypeInv, TypeOK
  <1>3. CASE UNCHANGED wf BY <1>3
  <1> QED BY <1>1, <1>2, <1>3, FlowWriters DEF Crash, durable

\* Every step keeps the assignments where the workflow is.
LEMMA SlotStep == ASSUME Inv, SlotShape, Next PROVE SlotShape'
  <1> SUFFICES ASSUME NEW u \in Task
               PROVE  /\ wf'[u] = "none" => slots'[u] = <<>>
                      /\ \A i \in DOMAIN slots'[u] : SlotOf(u, i)'
    BY DEF SlotShape
  <1>y. TypeOK /\ TypeInv BY DEF Inv, TypeInv
  <1>1. wf'[u] = "none" => slots'[u] = <<>>
    <2> SUFFICES ASSUME wf'[u] = "none" PROVE slots'[u] = <<>>
      OBVIOUS
    <2>1. wf[u] = "none" /\ slots[u] = <<>> BY <1>y, WorkflowStays DEF SlotShape
    <2>2. ASSUME NEW t \in Task, RunOpenAssignment(t) \/ RunResolveAndAdvance(t)
          PROVE  slots'[u] = slots[u]
      <3>1. wf[t] # "none"
        BY <1>y, <2>2
           DEF RunOpenAssignment, RunResolveAndAdvance, AtStep, TypeInv, CallShape, ChainAccepted
      <3>2. u # t /\ slots \in [Task -> Seq(Slot)] BY <1>y, <2>1, <3>1 DEF TypeOK
      <3>3. \/ slots' = slots
            \/ \E x : slots' = [slots EXCEPT ![t] = x]
        BY <2>2 DEF RunOpenAssignment, RunResolveAndAdvance
      <3> QED BY <3>2, <3>3
    <2>3. ASSUME NEW c \in Client, CloseAssignment(c) PROVE slots'[u] = slots[u]
      <3>1. Len(slots'[u]) = 0 /\ slots'[u] \in Seq(Slot) BY <1>y, <2>1, <2>3, ClosedSlots
      <3> QED BY <2>1, <3>1
    <2> QED BY <2>1, <2>2, <2>3, SlotWriters
  <1>2. \A i \in DOMAIN slots'[u] : SlotOf(u, i)'
    <2>1. CASE Record(u) BY <2>1, SlotRecorded
    <2>2. CASE RunResolveAndAdvance(u) BY <2>2, SlotResolved
    <2>3. CASE RunOpenAssignment(u) BY <2>3, SlotOpened
    <2>4. CASE ~Record(u) /\ ~RunResolveAndAdvance(u) /\ ~RunOpenAssignment(u)
      <3>1. Still(u) BY <1>y, <2>4, StillUnlessMoved
      <3>2. CASE slots'[u] = slots[u] BY <3>1, <3>2, SlotFrame DEF SlotShape
      <3>3. ASSUME NEW c \in Client, CloseAssignment(c)
            PROVE  \A i \in DOMAIN slots'[u] : SlotOf(u, i)'
        <4>1. DOMAIN slots'[u] = DOMAIN slots[u] BY <1>y, <3>3, ClosedSlots
        <4> SUFFICES ASSUME NEW i \in DOMAIN slots[u] PROVE SlotOf(u, i)'
          BY <4>1
        <4>2. SlotOf(u, i) BY DEF SlotShape
        <4>3. \A j \in DOMAIN slots[u] : slots'[u][j].stage = slots[u][j].stage
          BY <1>y, <3>3, ClosedSlots
        <4>4. Len(slots'[u]) = Len(slots[u]) /\ slots'[u][i].audits = slots[u][i].audits
              /\ (slots'[u][i].open => slots[u][i].open)
          BY <1>y, <3>3, ClosedSlots
        <4>5. IsLast(u, i)' <=> IsLast(u, i) BY <4>1, <4>3 DEF IsLast, SlotsOf
        <4> QED BY <3>1, <4>2, <4>3, <4>4, <4>5, SlotKept
      <3>4. ASSUME NEW t \in Task, RunOpenAssignment(t) \/ RunResolveAndAdvance(t)
            PROVE  slots'[u] = slots[u]
        BY <1>y, <2>4, <3>4 DEF RunOpenAssignment, RunResolveAndAdvance, TypeOK
      <3> QED BY <3>2, <3>3, <3>4, SlotWriters
    <2> QED BY <2>1, <2>2, <2>3, <2>4
  <1> QED BY <1>1, <1>2

-----------------------------------------------------------------------------
(* What happens once when nothing crashes. *)

\* The workflow does not come back to a stage it has opened or resolved.
Onward(t) ==
  /\ Unopened(t)' => Unopened(t)
  /\ thr[t] = "ran" /\ at[t] = "resolve" => thr'[t] = "ran" /\ at'[t] = "resolve"

\* Only a crash, or the checkpoint that begins the next stage, could take it back.
LEMMA OnwardUnlessCrashed ==
  ASSUME TypeInv, RowShape, Next, ~Crash, NEW u \in Task, ~Record(u)
  PROVE  Onward(u)
  <1>0. /\ TypeOK /\ ShapeOf(u)
        /\ wf[u] = "none" => thr[u] = "off" /\ at[u] = "advance"
    BY DEF TypeInv, WorkflowShape, CallShape, ChainAccepted
  <1> USE <1>0 DEF TypeOK, ShapeOf, Onward, Unopened
  <1>1. ASSUME NEW t \in Task, Start(t) PROVE Onward(u)
    BY <1>0, <1>1 DEF Start, Return, durable
  <1>2. ASSUME NEW t \in Task, Record(t) PROVE Onward(u)
    <2>1. t # u BY <1>2
    <2> QED BY <1>2, <2>1 DEF Record
  <1>3. ASSUME NEW t \in Task, Stop(t) PROVE Onward(u)
    BY <1>0, <1>3 DEF Stop, durable
  <1>4. ASSUME NEW t \in Task, Recover(t) PROVE Onward(u)
    BY <1>0, <1>4 DEF Recover, durable
  <1>5. ASSUME NEW t \in Task, EnterReceive(t) PROVE Onward(u)
    BY <1>0, <1>5 DEF EnterReceive, AtStep, durable
  <1>6. ASSUME NEW t \in Task, RunAdvanceStage(t) PROVE Onward(u)
    BY <1>0, <1>6 DEF RunAdvanceStage, AtStep, Commit, durable
  <1>7. ASSUME NEW t \in Task, RunRouteAndOccupy(t) PROVE Onward(u)
    BY <1>0, <1>7 DEF RunRouteAndOccupy, AtStep, Commit, durable
  <1>8. ASSUME NEW t \in Task, RunOpenAssignment(t) PROVE Onward(u)
    BY <1>8 DEF RunOpenAssignment, AtStep, Commit
  <1>9. ASSUME NEW t \in Task, ReceiveResult(t) PROVE Onward(u)
    BY <1>0, <1>9 DEF ReceiveResult, Return, durable
  <1>10. ASSUME NEW t \in Task, Expire(t) PROVE Onward(u)
    BY <1>0, <1>10 DEF Expire, durable
  <1>11. ASSUME NEW t \in Task, RunStageTimeout(t) PROVE Onward(u)
    BY <1>0, <1>11 DEF RunStageTimeout, AtStep, Commit, durable
  <1>12. ASSUME NEW t \in Task, RunResolveAndAdvance(t) PROVE Onward(u)
    BY <1>12 DEF RunResolveAndAdvance, AtStep, Commit
  <1>13. ASSUME NEW t \in Task, RunReadiness(t) PROVE Onward(u)
    BY <1>0, <1>13 DEF RunReadiness, AtStep, Commit, durable
  <1>14. ASSUME NEW t \in Task, ReceiveWake(t) PROVE Onward(u)
    BY <1>0, <1>14 DEF ReceiveWake, Return, durable
  <1>15. ASSUME NEW t \in Task, Heartbeat(t) PROVE Onward(u)
    BY <1>0, <1>15 DEF Heartbeat, durable
  <1>16. ASSUME NEW t \in Task, ReadForCompletion(t) PROVE Onward(u)
    BY <1>0, <1>16 DEF ReadForCompletion, AtStep, durable
  <1>17. ASSUME NEW t \in Task, RunCompletion(t) PROVE Onward(u)
    BY <1>0, <1>17 DEF RunCompletion, Commit, durable
  <1>18. ASSUME NEW t \in Task, RunListDependents(t) PROVE Onward(u)
    BY <1>0, <1>18 DEF RunListDependents, AtStep, Commit, durable
  <1>19. ASSUME NEW t \in Task, WakeDependent(t) PROVE Onward(u)
    BY <1>0, <1>19 DEF WakeDependent, AtStep, Return, durable
  <1>20. ASSUME NEW t \in Task, EnqueueFeedback(t) PROVE Onward(u)
    BY <1>0, <1>20 DEF EnqueueFeedback, AtStep, durable
  <1>21. ASSUME NEW t \in Task, Finish(t) PROVE Onward(u)
    BY <1>0, <1>21 DEF Finish, Return, durable
  <1>22. ASSUME NEW t \in Task, Poison(t) PROVE Onward(u)
    BY <1>0, <1>22 DEF Poison, Return, durable
  <1>23. ASSUME NEW t \in Task, AgentReturns(t) PROVE Onward(u)
    BY <1>0, <1>23 DEF AgentReturns, durable
  <1>24. ASSUME NEW c \in Client, RunWorkflow(c) PROVE Onward(u)
    <2>1. call[c].pc = "launch" /\ thr' = [thr EXCEPT ![call[c].task] = "start"] /\ at' = at
      BY <1>24 DEF RunWorkflow, At
    <2>2. call[c].task = u => wf[u] = "none" BY <2>1 DEF RowShape, AttachOf
    <2> QED BY <1>0, <2>1, <2>2
  <1>25. ASSUME NEW c \in Client, CancelWorkflow(c) PROVE Onward(u)
    BY <1>25 DEF CancelWorkflow
  <1>26. CASE UNCHANGED <<wf, at, leg, tries, thr, out>> BY <1>26
  <1> HIDE <1>0 DEF TypeOK, ShapeOf, Onward, Unopened
  <1>27. ASSUME NEW t \in Task, Drive(t) \/ Poison(t) \/ AgentReturns(t) PROVE Onward(u)
    BY <1>1, <1>2, <1>3, <1>4, <1>5, <1>6, <1>7, <1>8, <1>9, <1>10, <1>11, <1>12, <1>13, <1>14,
       <1>15, <1>16, <1>17, <1>18, <1>19, <1>20, <1>21, <1>22, <1>23, <1>27
       DEF Drive
  <1> QED BY <1>24, <1>25, <1>26, <1>27, FlowWriters

\* What OnceOf says stays true while the workflow moves onward and assignments are at most closed.
LEMMA OnceKept ==
  ASSUME NEW u \in Task, OnceOf(u), leg'[u] = leg[u], Unopened(u)' => Unopened(u),
         TypeOK, DOMAIN slots'[u] = DOMAIN slots[u],
         \A i \in DOMAIN slots[u] : /\ slots'[u][i].stage = slots[u][i].stage
                                    /\ slots'[u][i].audits = slots[u][i].audits,
         \A s \in Served : Behind(u, s) => Behind(u, s)'
  PROVE  OnceOf(u)'
  <1> SUFFICES ASSUME NEW i \in DOMAIN slots[u]
               PROVE  /\ Unopened(u)' => slots'[u][i].stage # leg'[u]
                      /\ \A j \in DOMAIN slots[u] :
                           slots'[u][i].stage = slots'[u][j].stage => i = j
                      /\ slots'[u][i].audits <= IF Behind(u, slots[u][i].stage)' THEN 1 ELSE 0
    BY DEF OnceOf
  <1>1. slots[u][i] \in Slot BY SlotType
  <1> SUFFICES ASSUME NEW s, s = slots[u][i].stage
               PROVE  slots'[u][i].audits <= IF Behind(u, s)' THEN 1 ELSE 0
    BY DEF OnceOf
  <1>2. slots[u][i].audits \in Nat /\ s \in Served BY <1>1 DEF Slot
  <1>3. slots[u][i].audits <= IF Behind(u, s) THEN 1 ELSE 0 BY DEF OnceOf
  <1>4. Behind(u, s) => Behind(u, s)' BY <1>2
  <1> QED BY <1>2, <1>3, <1>4


\* The checkpoint of a resolved stage: the next one has no assignment yet.
LEMMA OnceRecorded ==
  ASSUME Inv, SlotShape, NEW u \in Task, OnceOf(u), Record(u)
  PROVE  OnceOf(u)'
  <1>y. TypeOK /\ ShapeOf(u) BY DEF Inv, WorkflowShape
  <1>1. slots' = slots /\ thr'[u] = "ready" /\ thr[u] = "ran" /\ at'[u] = out[u]
        /\ leg'[u] = IF at[u] = "resolve" THEN NextStage(leg[u]) ELSE leg[u]
    BY <1>y DEF Record, board, TypeOK
  <1>2. CASE at[u] = "resolve"
    <2>1. leg[u] \in Served BY <1>2, <1>y DEF ShapeOf, Occupying
    <2>2. /\ Rank[leg[u]] < Rank[leg'[u]] /\ Rank[leg[u]] \in Nat /\ Rank[leg'[u]] \in Nat
      BY <1>1, <1>2, <2>1, Ranks
    <2>3. ASSUME NEW i \in DOMAIN slots[u], NEW s, s = slots[u][i].stage
          PROVE  /\ s # leg'[u] /\ Behind(u, s)'
                 /\ slots[u][i].audits <= 1
      <3>1. slots[u][i] \in Slot BY <1>y, SlotType
      <3>2. s \in Served /\ slots[u][i].audits \in Nat BY <2>3, <3>1 DEF Slot
      <3>3. Rank[s] <= Rank[leg[u]] BY <2>3 DEF SlotShape, SlotOf
      <3>4. Rank[s] \in Nat BY <3>2, Ranks
      <3>5. Rank[s] < Rank[leg'[u]] BY <2>2, <3>3, <3>4
      <3>6. slots[u][i].audits <= 1 BY <3>2 DEF OnceOf
      <3> QED BY <2>2, <3>5, <3>6 DEF Behind
    <2>4. \A i \in DOMAIN slots[u] :
            /\ slots[u][i].stage # leg'[u] /\ slots[u][i].audits <= 1
            /\ Behind(u, slots[u][i].stage)'
      <3> SUFFICES ASSUME NEW i \in DOMAIN slots[u]
                   PROVE  /\ slots[u][i].stage # leg'[u] /\ slots[u][i].audits <= 1
                          /\ Behind(u, slots[u][i].stage)'
        OBVIOUS
      <3>1. PICK s : s = slots[u][i].stage
        OBVIOUS
      <3>2. Behind(u, s)' BY <2>3, <3>1
      <3> QED BY <1>1, <2>3, <3>1, <3>2 DEF Behind
    <2> QED BY <1>1, <2>4 DEF OnceOf
  <1>3. CASE at[u] # "resolve"
    <2>1. leg'[u] = leg[u] /\ \A s \in Served : Behind(u, s) => Behind(u, s)'
      BY <1>1, <1>3 DEF Behind
    <2>2. Unopened(u)' => Unopened(u)
      BY <1>1, <1>3, <1>y DEF Unopened, ShapeOf, Leads
    <2> QED BY <1>y, <1>1, <2>1, <2>2, OnceKept
  <1> QED BY <1>2, <1>3

\* Resolving a stage audits its one assignment, for the first time.
LEMMA OnceResolved ==
  ASSUME Inv, NEW u \in Task, OnceOf(u), RunResolveAndAdvance(u)
  PROVE  OnceOf(u)'
  <1>y. TypeOK BY DEF Inv
  <1>1. leg'[u] = leg[u] /\ slots'[u] = Resolved(u) /\ at[u] = "resolve" /\ at'[u] = "resolve"
        /\ thr[u] = "ready" /\ thr'[u] = "ran"
    BY <1>y DEF RunResolveAndAdvance, AtStep, Commit, TypeOK
  <1>2. DOMAIN slots'[u] = DOMAIN slots[u]
        /\ \A i \in DOMAIN slots[u] : slots'[u][i].stage = slots[u][i].stage
    BY <1>1, <1>y, ResolvedSlots
  <1>3. leg[u] \in Served /\ Rank[leg[u]] \in Nat
    BY <1>1, Ranks DEF Inv, WorkflowShape, ShapeOf, Occupying
  <1>4. ~Unopened(u)' BY <1>1 DEF Unopened
  <1>5. ASSUME NEW i \in DOMAIN slots[u], NEW s, s = slots[u][i].stage
        PROVE  slots'[u][i].audits <= IF Behind(u, s)' THEN 1 ELSE 0
    <2>1. slots[u][i] \in Slot BY <1>y, SlotType
    <2>2. slots[u][i].audits \in Nat BY <2>1 DEF Slot
    <2>3. slots[u][i].audits <= IF Behind(u, s) THEN 1 ELSE 0 BY <1>5 DEF OnceOf
    <2>4. Behind(u, s) => Behind(u, s)' BY <1>1 DEF Behind
    <2>5. CASE i \in LatestSlot(u, leg[u])
      <3>1. s = leg[u] BY <1>5, <2>5 DEF LatestSlot, SlotsOf
      <3>2. ~Behind(u, s) /\ Behind(u, s)' BY <1>1, <1>3, <3>1 DEF Behind
      <3>3. slots'[u][i].audits = slots[u][i].audits + 1 BY <1>1, <1>y, <2>5, ResolvedSlots
      <3> QED BY <2>2, <2>3, <3>2, <3>3
    <2>6. CASE i \notin LatestSlot(u, leg[u])
      <3>1. slots'[u][i].audits = slots[u][i].audits BY <1>1, <1>y, <2>6, ResolvedSlots
      <3> QED BY <2>2, <2>3, <2>4, <3>1
    <2> QED BY <2>5, <2>6
  <1>6. \A i \in DOMAIN slots[u] :
          slots'[u][i].audits <= IF Behind(u, slots[u][i].stage)' THEN 1 ELSE 0
    <2> SUFFICES ASSUME NEW i \in DOMAIN slots[u]
                 PROVE  slots'[u][i].audits <= IF Behind(u, slots[u][i].stage)' THEN 1 ELSE 0
      OBVIOUS
    <2>1. PICK s : s = slots[u][i].stage
      OBVIOUS
    <2>2. slots'[u][i].stage = s BY <1>2, <2>1
    <2> QED BY <1>5, <2>1, <2>2
  <1>7. \A i, j \in DOMAIN slots[u] : slots'[u][i].stage = slots'[u][j].stage => i = j
    BY <1>2 DEF OnceOf
  <1> QED BY <1>2, <1>4, <1>6, <1>7 DEF OnceOf

\* The body that opens an assignment finds none of its stage.
LEMMA OnceOpened ==
  ASSUME Inv, NEW u \in Task, OnceOf(u), RunOpenAssignment(u)
  PROVE  OnceOf(u)'
  <1>y. TypeOK BY DEF Inv
  <1>1. leg'[u] = leg[u] /\ at[u] = "open" /\ at'[u] = "open" /\ thr[u] = "ready"
        /\ thr'[u] = "ran"
    BY <1>y DEF RunOpenAssignment, AtStep, Commit, TypeOK
  <1>2. Unopened(u) /\ ~Unopened(u)' BY <1>1 DEF Unopened
  <1>3. \A s \in Served : Behind(u, s) => Behind(u, s)' BY <1>1 DEF Behind
  <1>4. CASE UNCHANGED slots BY <1>y, <1>1, <1>2, <1>3, <1>4, OnceKept
  <1>5. CASE slots' = [slots EXCEPT ![u] =
                         Append(@, [stage |-> leg[u], open |-> TRUE, audits |-> 0])]
    <2> SUFFICES ASSUME NEW n, n = Len(slots[u]), NEW l, l = leg[u], NEW new,
                        new = [stage |-> l, open |-> TRUE, audits |-> 0]
                 PROVE  OnceOf(u)'
      OBVIOUS
    <2>1. slots'[u] = Append(slots[u], new) /\ slots[u] \in Seq(Slot)
      BY <1>y, <1>5 DEF TypeOK
    <2>2. n \in Nat /\ DOMAIN slots[u] = 1 .. n /\ DOMAIN slots'[u] = 1 .. n + 1
          /\ slots'[u][n + 1] = new /\ \A i \in 1 .. n : slots'[u][i] = slots[u][i]
      BY <2>1
    <2>3. \A i \in 1 .. n : slots[u][i].stage # l BY <1>2, <2>2 DEF OnceOf
    <2>4. \A i, j \in 1 .. n + 1 : slots'[u][i].stage = slots'[u][j].stage => i = j
      <3>1. \A i \in 1 .. n + 1 : i \in 1 .. n \/ i = n + 1 BY <2>2
      <3>2. \A i, j \in 1 .. n : slots'[u][i].stage = slots'[u][j].stage => i = j
        <4>1. \A i, j \in DOMAIN slots[u] : slots[u][i].stage = slots[u][j].stage => i = j
          BY DEF OnceOf
        <4>2. \A i \in 1 .. n : i \in DOMAIN slots[u] /\ slots'[u][i] = slots[u][i] BY <2>2
        <4> QED BY <4>1, <4>2
      <3>3. slots'[u][n + 1].stage = l /\ \A i \in 1 .. n : slots'[u][i].stage # l
        BY <2>2, <2>3
      <3> QED BY <3>1, <3>2, <3>3
    <2>5. ASSUME NEW i \in 1 .. n + 1, NEW s, s = slots'[u][i].stage
          PROVE  slots'[u][i].audits <= IF Behind(u, s)' THEN 1 ELSE 0
      <3>1. CASE i = n + 1 BY <2>2, <3>1
      <3>2. CASE i # n + 1
        <4>1. i \in DOMAIN slots[u] /\ slots'[u][i] = slots[u][i] BY <2>2, <3>2
        <4>2. slots[u][i] \in Slot BY <1>y, <4>1, SlotType
        <4>3. slots[u][i].audits \in Nat /\ s \in Served BY <2>5, <4>1, <4>2 DEF Slot
        <4>4. slots[u][i].audits <= IF Behind(u, s) THEN 1 ELSE 0 BY <2>5, <4>1 DEF OnceOf
        <4> QED BY <1>3, <4>1, <4>3, <4>4
      <3> QED BY <3>1, <3>2
    <2>6. \A i \in 1 .. n + 1 :
            slots'[u][i].audits <= IF Behind(u, slots[u][i].stage)' THEN 1 ELSE 0
      <3> SUFFICES ASSUME NEW i \in 1 .. n + 1
                   PROVE  slots'[u][i].audits <= IF Behind(u, slots[u][i].stage)' THEN 1 ELSE 0
        OBVIOUS
      <3>1. PICK s : s = slots'[u][i].stage
        OBVIOUS
      <3> QED BY <2>5, <3>1
    <2> QED BY <1>2, <2>2, <2>4, <2>6 DEF OnceOf
  <1> QED BY <1>4, <1>5 DEF RunOpenAssignment

\* As long as nothing crashes, every stage is opened and audited once.
LEMMA OnceStep == ASSUME Inv, RowShape, SlotShape, OnceShape, Next PROVE OnceShape'
  <1>y. TypeOK /\ TypeInv BY DEF Inv, TypeInv
  <1> SUFFICES ASSUME crashes' = 0, NEW u \in Task PROVE OnceOf(u)'
    BY DEF OnceShape
  <1>1. ~Crash BY <1>y DEF Crash, TypeOK
  <1>2. crashes' = crashes
    <2>1. ASSUME NEW t \in Task, Drive(t) \/ Poison(t) \/ AgentReturns(t) \/ DateArrives(t)
          PROVE  crashes' = crashes
      BY <2>1
         DEF Drive, Commit, Start, Record, Stop, Recover, EnterReceive, RunAdvanceStage,
             RunRouteAndOccupy, RunOpenAssignment, ReceiveResult, Expire, RunStageTimeout,
             RunResolveAndAdvance, RunReadiness, ReceiveWake, Heartbeat, ReadForCompletion,
             RunCompletion, RunListDependents, WakeDependent, EnqueueFeedback, Finish, Poison,
             AgentReturns, DateArrives
    <2>2. ASSUME NEW c \in Client, NEW t \in Task, Arrive(c, t) PROVE crashes' = crashes
      BY <2>2 DEF Arrive, Create, Ingest, Accept, Dismiss, CompleteTask, CancelTask, Reschedule
    <2>3. ASSUME NEW c \in Client, Continue(c) \/ Abandon(c) PROVE crashes' = crashes
      BY <2>3
         DEF Continue, Attach, RunWorkflow, FindOpenAssignment, SendResult, CloseAssignment,
             FindLiveWorkflow, HandleCancelCleanup, CancelWorkflow, SignalStage,
             SignalBlocked, WakeDependents, Abandon
    <2> QED BY <1>1, <2>1, <2>2, <2>3 DEF Next
  <1>3. OnceOf(u) BY <1>2 DEF OnceShape
  <1>4. CASE Record(u) BY <1>3, <1>4, OnceRecorded
  <1>5. CASE RunResolveAndAdvance(u) BY <1>3, <1>5, OnceResolved
  <1>6. CASE RunOpenAssignment(u) BY <1>3, <1>6, OnceOpened
  <1>7. CASE ~Record(u) /\ ~RunResolveAndAdvance(u) /\ ~RunOpenAssignment(u)
    <2>1. Still(u) /\ Onward(u) BY <1>y, <1>1, <1>7, StillUnlessMoved, OnwardUnlessCrashed
    <2>2. leg'[u] = leg[u] /\ (Unopened(u)' => Unopened(u))
          /\ \A s \in Served : Behind(u, s) => Behind(u, s)'
      BY <2>1 DEF Still, Onward, Behind
    <2>3. /\ DOMAIN slots'[u] = DOMAIN slots[u]
          /\ \A i \in DOMAIN slots[u] : /\ slots'[u][i].stage = slots[u][i].stage
                                        /\ slots'[u][i].audits = slots[u][i].audits
      <3>1. ASSUME NEW c \in Client, CloseAssignment(c)
            PROVE  /\ DOMAIN slots'[u] = DOMAIN slots[u]
                   /\ \A i \in DOMAIN slots[u] : /\ slots'[u][i].stage = slots[u][i].stage
                                                 /\ slots'[u][i].audits = slots[u][i].audits
        BY <1>y, <3>1, ClosedSlots
      <3>2. ASSUME NEW t \in Task, RunOpenAssignment(t) \/ RunResolveAndAdvance(t)
            PROVE  slots'[u] = slots[u]
        <4>1. u # t /\ slots \in [Task -> Seq(Slot)] BY <1>7, <1>y, <3>2 DEF TypeOK
        <4>2. \/ slots' = slots
              \/ \E x : slots' = [slots EXCEPT ![t] = x]
          BY <3>2 DEF RunOpenAssignment, RunResolveAndAdvance
        <4> QED BY <4>1, <4>2
      <3> QED BY <3>1, <3>2, SlotWriters
    <2> QED BY <1>y, <1>3, <2>2, <2>3, OnceKept
  <1> QED BY <1>4, <1>5, <1>6, <1>7

-----------------------------------------------------------------------------
(* Answers. *)

\* What stays of a workflow that neither opens an assignment nor records a step.
Held(t) ==
  /\ leg'[t] = leg[t]
  /\ at[t] = "resolve" => at'[t] = "resolve"
  /\ Waits(t)' => Waits(t)
  /\ wf'[t] = "pending" => wf[t] \in {"pending", "none"}

\* Whatever anybody else does, its wait goes on.
LEMMA HeldUnlessMoved ==
  ASSUME TypeInv, RowShape, Next, NEW u \in Task, ~Record(u), ~RunOpenAssignment(u)
  PROVE  Held(u)
  <1>0. TypeOK /\ ShapeOf(u) BY DEF TypeInv, WorkflowShape
  <1> USE <1>0 DEF TypeOK, ShapeOf, Held, Waits
  <1>1. ASSUME NEW t \in Task, Start(t) PROVE Held(u)
    BY <1>0, <1>1 DEF Start, Return, durable
  <1>2. ASSUME NEW t \in Task, Record(t) PROVE Held(u)
    <2>1. t # u BY <1>2
    <2> QED BY <1>2, <2>1 DEF Record
  <1>3. ASSUME NEW t \in Task, Stop(t) PROVE Held(u)
    BY <1>0, <1>3 DEF Stop, durable
  <1>4. ASSUME NEW t \in Task, Recover(t) PROVE Held(u)
    BY <1>0, <1>4 DEF Recover, durable
  <1>5. ASSUME NEW t \in Task, EnterReceive(t) PROVE Held(u)
    BY <1>0, <1>5 DEF EnterReceive, AtStep, durable
  <1>6. ASSUME NEW t \in Task, RunAdvanceStage(t) PROVE Held(u)
    BY <1>0, <1>6 DEF RunAdvanceStage, AtStep, Commit, durable
  <1>7. ASSUME NEW t \in Task, RunRouteAndOccupy(t) PROVE Held(u)
    BY <1>0, <1>7 DEF RunRouteAndOccupy, AtStep, Commit, durable
  <1>8. ASSUME NEW t \in Task, RunOpenAssignment(t) PROVE Held(u)
    <2>1. t # u BY <1>8
    <2> QED BY <1>8, <2>1 DEF RunOpenAssignment, Commit
  <1>9. ASSUME NEW t \in Task, ReceiveResult(t) PROVE Held(u)
    BY <1>0, <1>9 DEF ReceiveResult, Return, durable
  <1>10. ASSUME NEW t \in Task, Expire(t) PROVE Held(u)
    BY <1>0, <1>10 DEF Expire, durable
  <1>11. ASSUME NEW t \in Task, RunStageTimeout(t) PROVE Held(u)
    BY <1>0, <1>11 DEF RunStageTimeout, AtStep, Commit, durable
  <1>12. ASSUME NEW t \in Task, RunResolveAndAdvance(t) PROVE Held(u)
    BY <1>0, <1>12 DEF RunResolveAndAdvance, AtStep, Commit, durable
  <1>13. ASSUME NEW t \in Task, RunReadiness(t) PROVE Held(u)
    BY <1>0, <1>13 DEF RunReadiness, AtStep, Commit, durable
  <1>14. ASSUME NEW t \in Task, ReceiveWake(t) PROVE Held(u)
    BY <1>0, <1>14 DEF ReceiveWake, Return, durable
  <1>15. ASSUME NEW t \in Task, Heartbeat(t) PROVE Held(u)
    BY <1>0, <1>15 DEF Heartbeat, durable
  <1>16. ASSUME NEW t \in Task, ReadForCompletion(t) PROVE Held(u)
    BY <1>0, <1>16 DEF ReadForCompletion, AtStep, durable
  <1>17. ASSUME NEW t \in Task, RunCompletion(t) PROVE Held(u)
    BY <1>0, <1>17 DEF RunCompletion, Commit, durable
  <1>18. ASSUME NEW t \in Task, RunListDependents(t) PROVE Held(u)
    BY <1>0, <1>18 DEF RunListDependents, AtStep, Commit, durable
  <1>19. ASSUME NEW t \in Task, WakeDependent(t) PROVE Held(u)
    BY <1>0, <1>19 DEF WakeDependent, AtStep, Return, durable
  <1>20. ASSUME NEW t \in Task, EnqueueFeedback(t) PROVE Held(u)
    BY <1>0, <1>20 DEF EnqueueFeedback, AtStep, durable
  <1>21. ASSUME NEW t \in Task, Finish(t) PROVE Held(u)
    BY <1>0, <1>21 DEF Finish, Return, durable
  <1>22. ASSUME NEW t \in Task, Poison(t) PROVE Held(u)
    BY <1>0, <1>22 DEF Poison, Return, durable
  <1>23. ASSUME NEW t \in Task, AgentReturns(t) PROVE Held(u)
    BY <1>0, <1>23 DEF AgentReturns, durable
  <1>24. ASSUME NEW c \in Client, RunWorkflow(c) PROVE Held(u)
    <2>1. /\ call[c].pc = "launch" /\ wf' = [wf EXCEPT ![call[c].task] = "pending"]
          /\ thr' = [thr EXCEPT ![call[c].task] = "start"] /\ at' = at /\ leg' = leg
      BY <1>24 DEF RunWorkflow, At
    <2>2. call[c].task = u => wf[u] = "none" BY <2>1 DEF RowShape, AttachOf
    <2> QED BY <1>0, <2>1, <2>2
  <1>25. ASSUME NEW c \in Client, CancelWorkflow(c) PROVE Held(u)
    BY <1>25 DEF CancelWorkflow
  <1>26. CASE UNCHANGED <<wf, at, leg, tries, thr, out>> BY <1>26
  <1>27. CASE Crash BY <1>27 DEF Crash, durable
  <1> HIDE <1>0 DEF TypeOK, ShapeOf, Held, Waits
  <1>28. ASSUME NEW t \in Task, Drive(t) \/ Poison(t) \/ AgentReturns(t) PROVE Held(u)
    BY <1>1, <1>2, <1>3, <1>4, <1>5, <1>6, <1>7, <1>8, <1>9, <1>10, <1>11, <1>12, <1>13, <1>14,
       <1>15, <1>16, <1>17, <1>18, <1>19, <1>20, <1>21, <1>22, <1>23, <1>28
       DEF Drive
  <1> QED BY <1>24, <1>25, <1>26, <1>27, <1>28, FlowWriters

\* The actions that send and receive messages.
LEMMA MailWriters ==
  ASSUME Next
  PROVE  \/ UNCHANGED mail
         \/ \E t \in Task : ReceiveResult(t) \/ ReceiveWake(t) \/ WakeDependent(t)
         \/ \E c \in Client : \/ SendResult(c) \/ SignalStage(c) \/ SignalBlocked(c)
                              \/ WakeDependents(c)
  <1>1. ASSUME NEW t \in Task, Drive(t) \/ Poison(t) \/ AgentReturns(t) \/ DateArrives(t),
               ~ReceiveResult(t), ~ReceiveWake(t), ~WakeDependent(t)
        PROVE  UNCHANGED mail
    BY <1>1
       DEF Drive, durable, Commit, Start, Record, Stop, Recover, EnterReceive,
           RunAdvanceStage, RunRouteAndOccupy, RunOpenAssignment, Expire, RunStageTimeout,
           RunResolveAndAdvance, RunReadiness, Heartbeat, ReadForCompletion, RunCompletion,
           RunListDependents, EnqueueFeedback, Finish, Poison, AgentReturns, DateArrives
  <1>2. ASSUME NEW c \in Client, NEW t \in Task, Arrive(c, t)
        PROVE  UNCHANGED mail
    BY <1>2 DEF Arrive, durable, Create, Ingest, Accept, Dismiss, CompleteTask, CancelTask,
           Reschedule
  <1>3. ASSUME NEW c \in Client, Continue(c) \/ Abandon(c), ~SendResult(c), ~SignalStage(c),
               ~SignalBlocked(c), ~WakeDependents(c)
        PROVE  UNCHANGED mail
    BY <1>3 DEF Continue, durable, Attach, RunWorkflow, FindOpenAssignment, CloseAssignment,
           FindLiveWorkflow, HandleCancelCleanup, CancelWorkflow, Abandon
  <1> QED BY <1>1, <1>2, <1>3 DEF Next, Crash, durable

\* Sending leaves no mailbox empty.
LEMMA AppendNotEmpty ==
  ASSUME NEW q \in Seq(Message), NEW m \in Message
  PROVE  Append(q, m) # <<>>
  <1>1. Len(Append(q, m)) = Len(q) + 1 /\ Len(q) \in Nat
    OBVIOUS
  <1>2. Len(<<>>) = 0
    OBVIOUS
  <1> QED BY <1>1, <1>2

\* A message that was sent is there until it is received.
LEMMA MailStays ==
  ASSUME TypeInv, Next, NEW u \in Task, NEW s \in Served, mail[u][s] # <<>>,
         ~ReceiveResult(u)
  PROVE  mail'[u][s] # <<>>
  <1>y. TypeOK BY DEF TypeInv
  <1>0. mail \in [Task -> [Topic -> Seq(Message)]] /\ mail[u] \in [Topic -> Seq(Message)]
        /\ s \in Topic /\ s # "blocked"
    BY <1>y DEF TypeOK, Topic, Served
  <1>1. ASSUME NEW t \in Task, NEW p \in Topic, NEW m \in Message, Deliver(t, p, m)
        PROVE  mail'[u][s] # <<>>
    <2>1. mail[t][p] \in Seq(Message) BY <1>0
    <2>2. Append(mail[t][p], m) # <<>> BY <2>1, AppendNotEmpty
    <2> QED BY <1>0, <1>1, <2>2 DEF Deliver
  <1>2. ASSUME NEW D, Wake(D) PROVE mail'[u][s] # <<>>
    BY <1>0, <1>2 DEF Wake
  <1>3. ASSUME NEW t \in Task, ReceiveResult(t) PROVE mail'[u][s] # <<>>
    <2>1. mail' = [mail EXCEPT ![t][leg[t]] = Tail(@)] /\ t # u BY <1>3 DEF ReceiveResult
    <2> QED BY <1>0, <2>1
  <1>4. ASSUME NEW t \in Task, ReceiveWake(t) PROVE mail'[u][s] # <<>>
    <2>1. mail' = [mail EXCEPT ![t]["blocked"] = Tail(@)] BY <1>4 DEF ReceiveWake
    <2> QED BY <1>0, <2>1
  <1>5. ASSUME NEW t \in Task, WakeDependent(t) PROVE mail'[u][s] # <<>>
    <2>1. UNCHANGED mail \/ \E d \in todo[t] : Wake({d}) BY <1>5 DEF WakeDependent
    <2> QED BY <1>2, <2>1
  <1>6. ASSUME NEW c \in Client, SendResult(c) PROVE mail'[u][s] # <<>>
    <2>1. call[c] \in Busy BY <1>6, <1>y, BusyCall DEF SendResult, At, Pc
    <2>2. call[c].task \in Task /\ call[c].slot \in DOMAIN slots[call[c].task]
      BY <1>6, <2>1 DEF SendResult, At, TypeInv, CallShape, CallOf, Busy
    <2>3. slots[call[c].task][call[c].slot].stage \in Topic
      BY <1>y, <2>2, SlotType DEF Slot, Topic
    <2> QED BY <1>1, <1>6, <2>2, <2>3 DEF SendResult, Message
  <1>7. ASSUME NEW c \in Client, SignalStage(c) \/ SignalBlocked(c) PROVE mail'[u][s] # <<>>
    <2>1. call[c] \in Busy BY <1>7, <1>y, BusyCall DEF SignalStage, SignalBlocked, At, Pc
    <2>2. call[c].task \in Task BY <2>1 DEF Busy
    <2>3. \/ UNCHANGED mail
          \/ call[c].stage \in Served /\ Deliver(call[c].task, call[c].stage, "cancel")
          \/ Deliver(call[c].task, "blocked", "cancel")
      BY <1>7 DEF SignalStage, SignalBlocked
    <2>4. "cancel" \in Message /\ "blocked" \in Topic /\ Served \subseteq Topic
      BY DEF Message, Topic
    <2> QED BY <1>1, <2>2, <2>3, <2>4
  <1>8. ASSUME NEW c \in Client, WakeDependents(c) PROVE mail'[u][s] # <<>>
    <2>1. \E D \in SUBSET Task : Wake(D) BY <1>8 DEF WakeDependents, Dependents
    <2> QED BY <1>2, <2>1
  <1>9. CASE UNCHANGED mail BY <1>9
  <1> QED BY <1>3, <1>4, <1>5, <1>6, <1>7, <1>8, <1>9, MailWriters

\* An assignment keeps its stage.
LEMMA SlotStageStays ==
  ASSUME TypeInv, Next, NEW u \in Task, NEW i \in DOMAIN slots[u]
  PROVE  slots'[u][i].stage = slots[u][i].stage
  <1>y. TypeOK BY DEF TypeInv
  <1>0. slots \in [Task -> Seq(Slot)] /\ slots[u] \in Seq(Slot) BY <1>y DEF TypeOK
  <1>1. ASSUME NEW t \in Task, RunOpenAssignment(t)
        PROVE  slots'[u][i].stage = slots[u][i].stage
    <2>1. slots' = slots \/ \E x : slots' = [slots EXCEPT ![t] = Append(@, x)]
      BY <1>1 DEF RunOpenAssignment
    <2>2. CASE slots' = slots BY <2>2
    <2>3. ASSUME NEW x, slots' = [slots EXCEPT ![t] = Append(@, x)]
          PROVE  slots'[u][i].stage = slots[u][i].stage
      <3>1. CASE u # t BY <1>0, <2>3, <3>1
      <3>2. CASE u = t
        <4>1. slots'[u] = Append(slots[u], x) BY <1>0, <2>3, <3>2
        <4> QED BY <1>0, <4>1
      <3> QED BY <3>1, <3>2
    <2> QED BY <2>1, <2>2, <2>3
  <1>2. ASSUME NEW t \in Task, RunResolveAndAdvance(t)
        PROVE  slots'[u][i].stage = slots[u][i].stage
    <2>1. slots' = [slots EXCEPT ![t] = Resolved(t)] BY <1>2 DEF RunResolveAndAdvance
    <2>2. u # t => slots'[u] = slots[u] BY <1>0, <2>1
    <2>3. u = t => slots'[u] = Resolved(u) BY <1>0, <2>1
    <2> QED BY <1>y, <2>2, <2>3, ResolvedSlots
  <1>3. ASSUME NEW c \in Client, CloseAssignment(c)
        PROVE  slots'[u][i].stage = slots[u][i].stage
    BY <1>3, ClosedSlots
  <1> QED BY <1>1, <1>2, <1>3, SlotWriters


\* A wait that goes on keeps its open assignment or its answer.
LEMMA WaitKept ==
  ASSUME Inv, RowShape, WaitShape, Next, NEW u \in Task
  PROVE  WaitOf(u)'
  <1>y. TypeOK /\ TypeInv BY DEF Inv, TypeInv
  <1>w. /\ ShapeOf(u) /\ WaitOf(u)
        /\ wf[u] = "none" => thr[u] = "off" /\ at[u] = "advance"
    BY DEF Inv, WorkflowShape, CallShape, ChainAccepted, WaitShape
  <1> SUFFICES ASSUME wf'[u] = "pending", Waits(u)'
               PROVE  HasOpenSlotFor(u, leg[u])' \/ mail'[u][leg'[u]] # <<>>
    BY DEF WaitOf
  <1>1. CASE RunOpenAssignment(u)
    <2>1. leg'[u] = leg[u] BY <1>1, <1>y DEF RunOpenAssignment, Commit
    <2>2. CASE HasOpenSlotFor(u, leg[u]) /\ UNCHANGED slots
      BY <2>1, <2>2 DEF HasOpenSlotFor, OpenSlots
    <2>3. CASE slots' = [slots EXCEPT ![u] =
                           Append(@, [stage |-> leg[u], open |-> TRUE, audits |-> 0])]
      <3> SUFFICES ASSUME NEW n, n = Len(slots[u]), NEW l, l = leg[u]
                   PROVE  HasOpenSlotFor(u, leg[u])'
        OBVIOUS
      <3>1. /\ slots[u] \in Seq(Slot)
            /\ slots'[u] = Append(slots[u], [stage |-> l, open |-> TRUE, audits |-> 0])
        BY <1>y, <2>3 DEF TypeOK
      <3>2. n + 1 \in DOMAIN slots'[u] /\ slots'[u][n + 1].open /\ slots'[u][n + 1].stage = l
        BY <3>1
      <3> QED BY <2>1, <3>2 DEF HasOpenSlotFor, OpenSlots
    <2> QED BY <1>1, <2>2, <2>3 DEF RunOpenAssignment
  <1>2. CASE ~RunOpenAssignment(u)
    <2>1. leg'[u] = leg[u] /\ Waits(u) /\ wf[u] = "pending"
      <3>1. CASE Record(u)
        <4>1. /\ at'[u] = out[u] /\ thr[u] = "ran" /\ thr'[u] = "ready" /\ wf' = wf
              /\ leg'[u] = IF at[u] = "resolve" THEN NextStage(leg[u]) ELSE leg[u]
          BY <1>y, <3>1 DEF Record, TypeOK
        <4>2. out[u] \in Leads(at[u], leg[u]) BY <1>w, <4>1 DEF ShapeOf
        <4>3. at'[u] \in {"wait", "timeout"} BY <4>1 DEF Waits
        <4>4. at[u] \in {"open", "timeout"} BY <4>1, <4>2, <4>3 DEF Leads, AfterLeg
        <4> QED BY <4>1, <4>4 DEF Waits
      <3>2. CASE ~Record(u)
        <4>1. Held(u) BY <1>y, <1>2, <3>2, HeldUnlessMoved
        <4>2. leg'[u] = leg[u] /\ Waits(u) /\ wf[u] \in {"pending", "none"} BY <4>1 DEF Held
        <4> QED BY <1>w, <4>2 DEF Waits
      <3> QED BY <3>1, <3>2
    <2>2. leg[u] \in Served BY <1>w, <2>1 DEF ShapeOf, Waits, Occupying
    <2>3. ~ReceiveResult(u)
      <3> SUFFICES ASSUME ReceiveResult(u) PROVE FALSE
        OBVIOUS
      <3>1. at[u] = "wait" /\ (wf'[u] # "pending" \/ at'[u] = "resolve")
        BY <1>y, <2>1 DEF ReceiveResult, Return, TypeOK
      <3> QED BY <3>1 DEF Waits
    <2>4. mail[u][leg[u]] # <<>> => mail'[u][leg'[u]] # <<>>
      BY <1>y, <2>1, <2>2, <2>3, MailStays
    <2>5. CASE mail[u][leg[u]] # <<>> BY <2>4, <2>5
    <2>6. CASE mail[u][leg[u]] = <<>>
      <3>1. PICK i \in OpenSlots(u) : slots[u][i].stage = leg[u]
        BY <1>w, <2>1, <2>6 DEF WaitOf, HasOpenSlotFor
      <3>2. i \in DOMAIN slots[u] /\ slots[u][i].open BY <3>1 DEF OpenSlots
      <3>3. i \in DOMAIN slots'[u] /\ slots'[u][i].stage = leg'[u]
        BY <1>y, <2>1, <3>1, <3>2, SlotsStay, SlotStageStays
      <3>4. slots'[u][i].open
        <4>1. ASSUME NEW c \in Client, CloseAssignment(c) PROVE slots'[u][i].open
          <5> SUFFICES ASSUME ~slots'[u][i].open PROVE FALSE
            OBVIOUS
          <5>1. u = call[c].task /\ i = call[c].slot BY <1>y, <3>2, <4>1, ClosedSlots
          <5>2. Answered(u, leg[u])
            BY <2>1, <3>1, <4>1, <5>1 DEF WaitShape, CloseOf, CloseAssignment, At
          <5>3. at[u] # "resolve" /\ Rank[leg[u]] \in Nat BY <2>1, <2>2, Ranks DEF Waits
          <5> QED BY <2>6, <5>2, <5>3 DEF Answered
        <4>2. ASSUME NEW t \in Task, RunResolveAndAdvance(t) \/ RunOpenAssignment(t)
              PROVE  slots'[u][i].open
          <5>1. u # t /\ slots \in [Task -> Seq(Slot)]
            BY <1>y, <1>2, <2>1, <4>2 DEF TypeOK, RunResolveAndAdvance, AtStep, Waits
          <5>2. slots' = slots \/ \E x : slots' = [slots EXCEPT ![t] = x]
            BY <4>2 DEF RunOpenAssignment, RunResolveAndAdvance
          <5> QED BY <3>2, <5>1, <5>2
        <4>3. CASE UNCHANGED slots BY <3>2, <4>3
        <4> QED BY <4>1, <4>2, <4>3, SlotWriters
      <3> QED BY <3>3, <3>4 DEF HasOpenSlotFor, OpenSlots
    <2> QED BY <2>5, <2>6
  <1> QED BY <1>1, <1>2

\* The answer to a stage is not undone.
LEMMA AnsweredStays ==
  ASSUME TypeInv, RowShape, Next, NEW u \in Task, NEW s \in Served, Answered(u, s),
         wf[u] = "pending", wf'[u] = "pending"
  PROVE  Answered(u, s)'
  <1>y. TypeOK /\ ShapeOf(u) BY DEF TypeInv, WorkflowShape
  <1>1. CASE Record(u)
    <2>1. /\ mail' = mail /\ leg'[u] = IF at[u] = "resolve" THEN NextStage(leg[u]) ELSE leg[u]
      BY <1>y, <1>1 DEF Record, TypeOK
    <2>2. CASE at[u] = "resolve"
      <3>1. leg[u] \in Served BY <1>y, <2>2 DEF ShapeOf, Occupying
      <3>2. /\ Rank[leg[u]] < Rank[leg'[u]] /\ Rank[leg[u]] \in Nat /\ Rank[leg'[u]] \in Nat
            /\ Rank[s] \in Nat
        BY <2>1, <2>2, <3>1, Ranks
      <3> QED BY <2>1, <3>2 DEF Answered
    <2>3. CASE at[u] # "resolve" BY <2>1, <2>3 DEF Answered
    <2> QED BY <2>2, <2>3
  <1>2. CASE RunOpenAssignment(u)
    <2>1. mail' = mail /\ leg' = leg /\ at' = at BY <1>2 DEF RunOpenAssignment, Commit
    <2> QED BY <2>1 DEF Answered
  <1>3. CASE ReceiveResult(u)
    <2>1. /\ mail' = [mail EXCEPT ![u][leg[u]] = Tail(@)] /\ leg' = leg /\ at[u] = "wait"
          /\ at'[u] = "resolve"
      BY <1>y, <1>3 DEF ReceiveResult, Return, TypeOK
    <2>2. s # leg[u] => mail'[u][s] = mail[u][s] BY <1>y, <2>1 DEF TypeOK, Topic
    <2> QED BY <2>1, <2>2 DEF Answered
  <1>4. CASE ~Record(u) /\ ~RunOpenAssignment(u) /\ ~ReceiveResult(u)
    <2>1. leg'[u] = leg[u] /\ (at[u] = "resolve" => at'[u] = "resolve")
      BY <1>4, HeldUnlessMoved DEF Held
    <2>2. mail[u][s] # <<>> => mail'[u][s] # <<>> BY <1>4, MailStays
    <2> QED BY <2>1, <2>2 DEF Answered
  <1> QED BY <1>1, <1>2, <1>3, <1>4

\* A caller that closes an assignment has sent the answer to it.
LEMMA CloseKept ==
  ASSUME Inv, RowShape, SlotShape, WaitShape, Next, NEW d \in Client
  PROVE  CloseOf(d)'
  <1>y. TypeOK /\ TypeInv /\ call \in [Client -> Busy \cup {Idle}]
    BY DEF Inv, TypeInv, TypeOK
  <1> SUFFICES ASSUME NEW t, t = call'[d].task, NEW k, k = call'[d].slot,
                      call'[d].pc = "close", wf'[t] = "pending"
               PROVE  Answered(t, slots[t][k].stage)'
    BY DEF CloseOf
  <1>1. \/ call'[d] = call[d]
        \/ call[d].task = t /\ call[d].slot = k /\ SendResult(d)
    BY <1>y, CallMoves DEF CallMoved
  <1>2. call[d].pc \in {"send", "close"} BY <1>1 DEF SendResult, At
  <1>3. call[d] \in Busy /\ call[d].task = t /\ call[d].slot = k
    BY <1>y, <1>1, <1>2, BusyCall DEF Pc
  <1>4. t \in Task /\ k \in DOMAIN slots[t]
    BY <1>2, <1>3 DEF Busy, Inv, CallShape, CallOf
  <1>5. PICK s : s = slots[t][k].stage
    OBVIOUS
  <1>6. s \in Served /\ slots'[t][k].stage = s
    BY <1>y, <1>4, <1>5, SlotType, SlotStageStays DEF Slot
  <1>7. CASE SendResult(d)
    <2>1. mail' = [mail EXCEPT ![t][s] = Append(@, "result")]
      BY <1>3, <1>5, <1>7 DEF SendResult, Deliver
    <2>2. mail \in [Task -> [Topic -> Seq(Message)]] /\ s \in Topic
      BY <1>y, <1>6 DEF TypeOK, Topic
    <2>3. mail[t] \in [Topic -> Seq(Message)] /\ mail[t][s] \in Seq(Message) BY <1>4, <2>2
    <2>4. mail'[t] = [mail[t] EXCEPT ![s] = Append(@, "result")] BY <1>4, <2>1, <2>2
    <2>5. mail'[t][s] = Append(mail[t][s], "result") BY <2>2, <2>3, <2>4
    <2>6. mail'[t][s] # <<>> BY <2>3, <2>5, AppendNotEmpty DEF Message
    <2> QED BY <1>6, <2>6 DEF Answered
  <1>8. CASE call'[d] = call[d]
    <2>1. wf[t] = "pending"
      <3>1. wf[t] # "none" BY <1>4 DEF SlotShape
      <3>2. CASE RunOpenAssignment(t) \/ Record(t)
        BY <3>2 DEF RunOpenAssignment, Record, Commit
      <3>3. CASE ~RunOpenAssignment(t) /\ ~Record(t)
        BY <1>y, <1>4, <3>1, <3>3, HeldUnlessMoved DEF Held
      <3> QED BY <3>2, <3>3
    <2>2. Answered(t, s) BY <1>3, <1>5, <1>8, <2>1 DEF WaitShape, CloseOf
    <2>3. Answered(t, s)' BY <1>y, <1>4, <1>6, <2>1, <2>2, AnsweredStays
    <2> QED BY <1>6, <2>3 DEF Answered
  <1> QED BY <1>1, <1>7, <1>8

\* Every step keeps whoever waits answerable.
LEMMA WaitStep == ASSUME Inv, RowShape, SlotShape, WaitShape, Next PROVE WaitShape'
  BY WaitKept, CloseKept DEF WaitShape

-----------------------------------------------------------------------------
(* Cancellations. *)

\* The callers that may still cancel a task are some of the callers.
LEMMA CancellingFinite ==
  ASSUME NEW t \in Task
  PROVE  /\ IsFiniteSet(Cancelling(t)) /\ Cardinality(Cancelling(t)) \in Nat
         /\ Cardinality(Cancelling(t)) <= Cardinality(Client)
  <1>1. Cancelling(t) \subseteq Client BY DEF Cancelling
  <1> QED BY <1>1, ClientAssumption, FS_Subset, FS_CardinalityType

\* Only a caller that finds the task unfinished joins them.
LEMMA CancellingShrinks ==
  ASSUME TypeInv, Next, NEW u \in Task, IsTerminal(state[u])
  PROVE  Cancelling(u)' \subseteq Cancelling(u)
  <1> SUFFICES ASSUME NEW d \in Client, call'[d].pc \in {"findRow", "cleanup"}, call'[d].task = u
               PROVE  call[d].pc \in {"findRow", "cleanup"} /\ call[d].task = u
    BY DEF Cancelling
  <1>1. CallMoved(d) BY CallMoves
  <1>2. ~CancelTask(d, u) BY DEF CancelTask, IsTerminal
  <1>3. \/ call'[d] = call[d]
        \/ call'[d].task = call[d].task /\ FindLiveWorkflow(d)
    BY <1>1, <1>2 DEF CallMoved
  <1> QED BY <1>3 DEF FindLiveWorkflow, At

\* A cancellation that is carried out leaves one caller fewer to write another.
LEMMA CancelWritten ==
  ASSUME TypeInv, AuditShape, NEW c \in Client, HandleCancelCleanup(c), Next,
         NEW u \in Task, u = call[c].task
  PROVE  AuditOf(u)'
  <1>y. TypeOK BY DEF TypeInv
  <1>1. call[c] \in Busy /\ call[c].pc = "cleanup"
    BY <1>y, BusyCall DEF HandleCancelCleanup, At, Pc
  <1>2. /\ cancels'[u] = cancels[u] + 1 /\ cancels[u] \in Nat
        /\ state' = [state EXCEPT ![u] = Halted(@)]
    BY <1>y DEF HandleCancelCleanup, TypeOK
  <1>3. IsTerminal(state'[u]) BY <1>y, <1>2 DEF TypeOK, Halted, IsTerminal, Terminal
  <1>4. \E next \in {"cancelWorkflow", "wakeDependents"} : Goto(c, next)
    BY DEF HandleCancelCleanup
  <1>5. /\ call'[c].pc \in {"cancelWorkflow", "wakeDependents"}
        /\ \A d \in Client \ {c} : call'[d] = call[d]
    BY <1>y, <1>1, <1>4, GotoType DEF Pc
  <1>6. Cancelling(u)' = Cancelling(u) \ {c} /\ c \in Cancelling(u)
    BY <1>1, <1>5 DEF Cancelling
  <1>7. Cardinality(Cancelling(u)') = Cardinality(Cancelling(u)) - 1
    <2>1. /\ IsFiniteSet(Cancelling(u)) /\ c \in Cancelling(u)
          /\ Cancelling(u)' = Cancelling(u) \ {c}
      BY <1>6, CancellingFinite
    <2> QED BY ONLY <2>1, FS_RemoveElement
  <1>8. cancels[u] + Cardinality(Cancelling(u)) <= Cardinality(Client)
    <2>1. CASE cancels[u] > 0 BY <2>1 DEF AuditShape, AuditOf
    <2>2. CASE cancels[u] = 0 BY <2>2, CancellingFinite
    <2> QED BY <1>2, <2>1, <2>2
  <1>9. cancels'[u] + Cardinality(Cancelling(u)') <= Cardinality(Client)
    BY <1>2, <1>7, <1>8, CancellingFinite, ClientAssumption, FS_CardinalityType
  <1> QED BY <1>3, <1>9 DEF AuditOf

\* The action that writes the audit of a cancellation.
LEMMA CancelWriters ==
  ASSUME Next
  PROVE  UNCHANGED cancels \/ \E c \in Client : HandleCancelCleanup(c)
  <1>1. ASSUME NEW t \in Task, Drive(t) \/ Poison(t) \/ AgentReturns(t) \/ DateArrives(t)
        PROVE  UNCHANGED cancels
    BY <1>1
       DEF Drive, board, Commit, Start, Record, Stop, Recover, EnterReceive, RunAdvanceStage,
           RunRouteAndOccupy, RunOpenAssignment, ReceiveResult, Expire, RunStageTimeout,
           RunResolveAndAdvance, RunReadiness, ReceiveWake, Heartbeat, ReadForCompletion,
           RunCompletion, RunListDependents, WakeDependent, EnqueueFeedback, Finish, Poison,
           AgentReturns, DateArrives
  <1>2. ASSUME NEW c \in Client, NEW t \in Task, Arrive(c, t)
        PROVE  UNCHANGED cancels
    BY <1>2 DEF Arrive, board, Create, Ingest, Accept, Dismiss, CompleteTask, CancelTask,
           Reschedule
  <1>3. ASSUME NEW c \in Client, Continue(c) \/ Abandon(c), ~HandleCancelCleanup(c)
        PROVE  UNCHANGED cancels
    BY <1>3 DEF Continue, board, Attach, RunWorkflow, FindOpenAssignment, SendResult,
           CloseAssignment, FindLiveWorkflow, CancelWorkflow, SignalStage, SignalBlocked,
           WakeDependents, Abandon
  <1> QED BY <1>1, <1>2, <1>3 DEF Next, Crash, board

\* Every step keeps the count of cancellations.
LEMMA AuditStep == ASSUME Inv, AuditShape, Next PROVE AuditShape'
  <1>y. TypeOK /\ TypeInv BY DEF Inv, TypeInv
  <1> SUFFICES ASSUME NEW u \in Task PROVE AuditOf(u)'
    BY DEF AuditShape
  <1>1. ASSUME NEW c \in Client, HandleCancelCleanup(c), u = call[c].task PROVE AuditOf(u)'
    BY <1>y, <1>1, CancelWritten
  <1>2. CASE cancels'[u] = cancels[u]
    <2> SUFFICES ASSUME cancels[u] > 0
                 PROVE  /\ IsTerminal(state'[u])
                        /\ cancels[u] + Cardinality(Cancelling(u)') <= Cardinality(Client)
      BY <1>2 DEF AuditOf
    <2>1. /\ IsTerminal(state[u])
          /\ cancels[u] + Cardinality(Cancelling(u)) <= Cardinality(Client)
      BY DEF AuditShape, AuditOf
    <2>2. IsTerminal(state'[u]) BY <1>y, <2>1, StaysTerminal
    <2>3. Cancelling(u)' \subseteq Cancelling(u) BY <1>y, <2>1, CancellingShrinks
    <2>4. /\ Cardinality(Cancelling(u)') <= Cardinality(Cancelling(u))
          /\ Cardinality(Cancelling(u)') \in Nat /\ Cardinality(Cancelling(u)) \in Nat
      BY <2>3, CancellingFinite, FS_Subset, FS_CardinalityType
    <2> QED BY <1>y, <2>1, <2>2, <2>4, ClientAssumption, FS_CardinalityType DEF TypeOK
  <1>3. ASSUME NEW c \in Client, HandleCancelCleanup(c), u # call[c].task
        PROVE  cancels'[u] = cancels[u]
    BY <1>y, <1>3 DEF HandleCancelCleanup, TypeOK
  <1> QED BY <1>1, <1>2, <1>3, CancelWriters

-----------------------------------------------------------------------------
(* The tables agree, and whoever waits can be answered. *)

\* What is added to the inductive invariant holds before the first call.
LEMMA InitTables == ASSUME Init PROVE TablesInv
  <1>1. Inv BY InitInv
  <1> USE DEF Init
  <1>2. RowShape BY DEF RowShape, RowOf, AttachOf, Idle, IsTerminal, Terminal
  <1>3. Progress BY DEF Progress, ProgressOf
  <1>4. SlotShape BY DEF SlotShape
  <1>5. OnceShape BY DEF OnceShape, OnceOf
  <1>6. WaitShape BY DEF WaitShape, WaitOf, CloseOf, Idle
  <1>7. AuditShape BY DEF AuditShape, AuditOf
  <1> QED BY <1>1, <1>2, <1>3, <1>4, <1>5, <1>6, <1>7 DEF TablesInv

\* Every step keeps it.
LEMMA NextTables == ASSUME TablesInv, [Next]_vars PROVE TablesInv'
  <1>1. Inv' BY NextInv DEF TablesInv
  <1>2. CASE Next
    <2>1. RowShape' BY <1>2, RowStep, AttachStep DEF TablesInv, RowShape
    <2> QED BY <1>1, <1>2, <2>1, ProgressStep, SlotStep, OnceStep, WaitStep, AuditStep
            DEF TablesInv
  <1>3. CASE UNCHANGED vars
    <2> USE <1>3 DEF vars, board, durable, memory, TablesInv
    <2>1. RowShape' BY DEF RowShape, RowOf, AttachOf
    <2>2. Progress' BY DEF Progress, ProgressOf
    <2>3. SlotShape' BY DEF SlotShape, SlotOf, IsLast, Behind, SlotsOf
    <2>4. OnceShape' BY DEF OnceShape, OnceOf, Unopened, Behind
    <2>5. WaitShape'
      BY DEF WaitShape, WaitOf, CloseOf, Waits, Answered, HasOpenSlotFor, OpenSlots
    <2>6. AuditShape' BY DEF AuditShape, AuditOf, Cancelling
    <2> QED BY <1>1, <2>1, <2>2, <2>3, <2>4, <2>5, <2>6
  <1> QED BY <1>2, <1>3

\* The strengthened invariant holds in every reachable state, for any set of tasks, blocks
\* and callers, and any number of calls and crashes.
THEOREM TablesInvariance == Spec => []TablesInv
  BY InitTables, NextTables, PTL DEF Spec

\* A set whose members are all the same has at most one.
LEMMA AtMostOne ==
  ASSUME NEW S, \A x, y \in S : x = y
  PROVE  Cardinality(S) <= 1
  <1>1. CASE S = {} BY <1>1, FS_EmptySet
  <1>2. ASSUME NEW x \in S PROVE Cardinality(S) <= 1
    <2>1. S = {x} BY <1>2
    <2>2. Cardinality({x}) = 1 BY ONLY FS_Singleton, Zenon
    <2> QED BY <2>1, <2>2
  <1> QED BY <1>1, <1>2

\* The state and the stage of a task agree, because the position of its workflow ties both.
LEMMA StateAndStage ==
  ASSUME TablesInv, NEW t \in Task
  PROVE  /\ state[t] \in {"absent", "proposed"} => stage[t] = "creation"
         /\ state[t] = "waiting" => stage[t] = "execution"
         /\ state[t] = "executing" => stage[t] \in {"execution", "completion"}
         /\ state[t] = "done" => stage[t] = "completion"
  <1>1. ProgressOf(t) /\ ShapeOf(t) /\ StageOf(t)
    BY DEF TablesInv, Progress, Inv, WorkflowShape, StageShape
  <1> QED BY <1>1 DEF ProgressOf, ShapeOf, StageOf, NextStage, Occupying

\* A done task has left every stage behind.
LEMMA DoneLeavesNothing ==
  ASSUME TablesInv, NEW t \in Task, state[t] = "done"
  PROVE  /\ OpenSlots(t) = {}
         /\ \A s \in Served : \A i \in SlotsOf(t, s) :
              (\A j \in SlotsOf(t, s) : j <= i) => slots[t][i].audits > 0
  <1>1. leg[t] = "completion" BY DEF TablesInv, Progress, ProgressOf
  <1>2. \A s \in Served : s # leg[t] /\ Rank[s] < Rank[leg[t]]
    BY <1>1 DEF Served, Rank, Stage
  <1>3. \A i \in DOMAIN slots[t] : SlotOf(t, i) /\ slots[t][i].stage \in Served
    <2> TAKE i \in DOMAIN slots[t]
    <2>1. slots[t][i] \in Slot BY SlotType DEF TablesInv, Inv
    <2> QED BY <2>1 DEF TablesInv, SlotShape, Slot
  <1>4. OpenSlots(t) = {} BY <1>2, <1>3 DEF OpenSlots, SlotOf
  <1>5. ASSUME NEW s \in Served, NEW i \in SlotsOf(t, s), \A j \in SlotsOf(t, s) : j <= i
        PROVE  slots[t][i].audits > 0
    <2>1. i \in DOMAIN slots[t] /\ slots[t][i].stage = s BY DEF SlotsOf
    <2>2. Behind(t, s) /\ IsLast(t, i) BY <1>2, <1>5, <2>1 DEF Behind, IsLast
    <2> QED BY <1>3, <2>1, <2>2 DEF SlotOf
  <1> QED BY <1>4, <1>5

\* Without a crash, a stage has one assignment and its result one audit.
LEMMA OnceCounted ==
  ASSUME TablesInv, crashes = 0, NEW t \in Task
  PROVE  /\ \A s \in Served : Cardinality(SlotsOf(t, s)) <= 1
         /\ \A i \in DOMAIN slots[t] : slots[t][i].audits <= 1
  <1>1. OnceOf(t) BY DEF TablesInv, OnceShape
  <1>2. ASSUME NEW s \in Served PROVE Cardinality(SlotsOf(t, s)) <= 1
    <2>1. \A i, j \in SlotsOf(t, s) : i = j BY <1>1 DEF OnceOf, SlotsOf
    <2> QED BY <2>1, AtMostOne
  <1>3. ASSUME NEW i \in DOMAIN slots[t] PROVE slots[t][i].audits <= 1
    <2>1. slots[t][i] \in Slot BY SlotType DEF TablesInv, Inv
    <2>2. slots[t][i].audits \in Nat BY <2>1 DEF Slot
    <2> QED BY <1>1, <2>2 DEF OnceOf
  <1> QED BY <1>2, <1>3

\* The tables that the resolvers, completion, cancel cleanup and the steps of the workflow write
\* in separate transactions agree: chain_workflows with tasks.state, tasks.state with
\* tasks.current_stage, agent_assignments and their audits with both.
THEOREM TablesStayInAgreement == Spec => []TablesAgree
  <1>1. TablesInv => TablesAgree
    <2> SUFFICES ASSUME TablesInv PROVE TablesAgree
      OBVIOUS
    <2>1. RowAgreesWithState BY DEF RowAgreesWithState, TablesInv, RowShape, RowOf, SlotShape
    <2>2. StateFitsStage BY StateAndStage DEF StateFitsStage
    <2>3. DoneIsAudited BY DoneLeavesNothing DEF DoneIsAudited
    <2>4. OnceUnlessCrashed BY OnceCounted DEF OnceUnlessCrashed
    <2>5. CancelAuditOnce
      <3> SUFFICES ASSUME NEW t \in Task PROVE cancels[t] <= Cardinality(Client)
        BY DEF CancelAuditOnce
      <3>1. cancels[t] \in Nat BY DEF TablesInv, Inv, TypeOK
      <3>2. Cardinality(Client) \in Nat BY ClientAssumption, FS_CardinalityType
      <3>3. cancels[t] > 0 => cancels[t] + Cardinality(Cancelling(t)) <= Cardinality(Client)
        BY DEF TablesInv, AuditShape, AuditOf
      <3> QED BY <3>1, <3>2, <3>3, CancellingFinite
    <2> QED BY <2>1, <2>2, <2>3, <2>4, <2>5 DEF TablesAgree
  <1> QED BY <1>1, TablesInvariance, PTL

\* A task never has two open assignments to choose from, and a workflow that waits for a human
\* has one, or has its answer under way.
THEOREM WaitersCanBeAnswered == Spec => []WaiterHasItsSlot
  <1>1. TablesInv => WaiterHasItsSlot
    <2> SUFFICES ASSUME TablesInv PROVE WaiterHasItsSlot
      OBVIOUS
    <2>1. AtMostOneOpenSlot
      <3> SUFFICES ASSUME NEW t \in Task PROVE Cardinality(OpenSlots(t)) <= 1
        BY DEF AtMostOneOpenSlot
      <3>1. \A i, j \in OpenSlots(t) : i = j
        BY DEF OpenSlots, TablesInv, SlotShape, SlotOf
      <3> QED BY <3>1, AtMostOne
    <2>2. WaiterCanBeAnswered
      BY DEF WaiterCanBeAnswered, TablesInv, WaitShape, WaitOf, Waits, HasOpenSlotFor
    <2> QED BY <2>1, <2>2 DEF WaiterHasItsSlot
  <1> QED BY <1>1, TablesInvariance, PTL
=============================================================================
