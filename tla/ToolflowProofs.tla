--------------------------- MODULE ToolflowProofs ---------------------------
(***************************************************************************)
(* Proofs about Toolflow, for every value of its constants.  The inductive *)
(* invariant is Inv of Toolflow; TypeInv is the part of it on which the    *)
(* steps of the others rest.                                               *)
(***************************************************************************)
EXTENDS Toolflow, TLAPS

USE DecisionAssumption, BoundAssumption

TypeInv == TypeOK /\ StepShape /\ Ledger

-----------------------------------------------------------------------------
(* Type correctness. *)

\* A caller at a statement after the insert has a decision and an answer.
LEMMA BusyCall ==
  ASSUME TypeOK, NEW c \in Client, call[c].pc \in {"start", "send"}
  PROVE  call[c] \in Busy
<1>1. call[c] \in Composing \cup Busy \cup {Idle} BY DEF TypeOK
<1>2. CASE call[c] \in Composing
  <2>1. call[c].pc = "insert" BY <1>2 DEF Composing
  <2> QED BY <2>1
<1>3. CASE call[c] = Idle BY <1>3 DEF Idle
<1> QED BY <1>1, <1>2, <1>3

\* Starting a workflow leaves statuses and goroutines.
LEMMA StartType ==
  ASSUME TypeOK, NEW d \in Decision, StartWorkflow(d)
  PROVE  /\ wf' \in [Decision -> {"none", "pending", "done", "failed"}]
         /\ thr' \in [Decision -> {"off", "idle", "expired", "guarded", "executed", "failing",
                               "ran"}]
<1>1. CASE wf[d] = "none"
  <2>1. wf' = [wf EXCEPT ![d] = "pending"] /\ thr' = [thr EXCEPT ![d] = "idle"]
    BY <1>1 DEF StartWorkflow
  <2>2. wf' \in [Decision -> {"none", "pending", "done", "failed"}] BY <2>1 DEF TypeOK
  <2>3. thr' \in [Decision -> {"off", "idle", "expired", "guarded", "executed", "failing",
                               "ran"}]
    BY <2>1 DEF TypeOK
  <2> QED BY <2>2, <2>3
<1>2. CASE wf[d] # "none" BY <1>2 DEF TypeOK, StartWorkflow
<1> QED BY <1>1, <1>2

\* A body that is over reports a disposition.
EndsWell(d, o) == o \in Kind /\ Ends(d, o)

\* It leaves goroutines and reports.
LEMMA EndsType ==
  ASSUME TypeOK, NEW d \in Decision, NEW o, EndsWell(d, o)
  PROVE  /\ thr' \in [Decision -> {"off", "idle", "expired", "guarded", "executed", "failing",
                               "ran"}]
         /\ out' \in [Decision -> Kind \cup {"none"}]
<1>1. thr' = [thr EXCEPT ![d] = "ran"] /\ out' = [out EXCEPT ![d] = o] /\ o \in Kind
  BY DEF EndsWell, Ends
<1> QED BY <1>1 DEF TypeOK

\* The outcome recorded last is the last.
LEMMA LastOfAppend ==
  ASSUME NEW S, NEW s \in Seq(S), NEW o \in S
  PROVE  Append(s, o) # <<>> /\ Append(s, o)[Len(Append(s, o))] = o
  OBVIOUS

\* The agent that has asked has a last decision.
LEMMA LastAsked ==
  ASSUME TypeOK, asked # <<>>
  PROVE  Len(asked) \in DOMAIN asked /\ asked[Len(asked)] \in Decision
  BY DEF TypeOK

\* Every step preserves the types; that a recorded outcome is one rests on Ledger, and
\* that the agent starts and awaits a decision on Agreement.
LEMMA TypeStep == ASSUME TypeOK, Agreement, StepShape, Ledger, Next PROVE TypeOK'
  <1> USE DEF TypeOK, rows, flow, stage, clients, tools, bounds
  <1>1. ASSUME NEW c \in Client, Compose(c) PROVE TypeOK'
    <2> PICK auto \in BOOLEAN : call' = [call EXCEPT ![c] = [pc |-> "insert", auto |-> auto]]
      BY <1>1 DEF Compose
    <2>1. [pc |-> "insert", auto |-> auto] \in Composing BY DEF Composing
    <2>2. call' \in [Client -> Composing \cup Busy \cup {Idle}] BY <2>1
    <2> QED BY <1>1, <2>2 DEF Compose
  <1>2. ASSUME NEW c \in Client, Insert(c) PROVE TypeOK'
    <2>1. call[c] \in Composing
      <3>1. call[c] \in Composing \cup Busy \cup {Idle} OBVIOUS
      <3>2. call[c].pc = "insert" BY <1>2 DEF Insert
      <3>3. CASE call[c] \in Busy BY <3>2, <3>3 DEF Busy
      <3>4. CASE call[c] = Idle BY <3>2, <3>4 DEF Idle
      <3> QED BY <3>1, <3>3, <3>4
    <2> PICK d \in Decision :
          /\ verdict' = [verdict EXCEPT ![d] = IF call[c].auto THEN "approved" ELSE "open"]
          /\ call' = [call EXCEPT ![c] =
               [pc |-> "start", decision |-> d, approved |-> call[c].auto]]
      BY <1>2 DEF Insert
    <2>2. [pc |-> "start", decision |-> d, approved |-> call[c].auto] \in Busy
      BY <2>1 DEF Composing, Busy
    <2>3. call' \in [Client -> Composing \cup Busy \cup {Idle}] BY <2>2
    <2> QED BY <1>2, <2>3 DEF Insert
  <1>3. ASSUME NEW c \in Client, Start(c) PROVE TypeOK'
    <2>1. call[c] \in Busy BY <1>3, BusyCall DEF Start
    <2>2. call[c].decision \in Decision BY <2>1 DEF Busy
    <2>3. [call[c] EXCEPT !.pc = "send"] \in Busy BY <2>1 DEF Busy
    <2>4. call' \in [Client -> Composing \cup Busy \cup {Idle}] BY <1>3, <2>3 DEF Start
    <2> QED BY <1>3, <2>2, <2>4, StartType DEF Start
  <1>4. ASSUME NEW c \in Client, NEW d \in Decision, Answer(c, d) PROVE TypeOK'
    <2> PICK v \in {"approved", "rejected"} :
          /\ verdict' = [verdict EXCEPT ![d] = v]
          /\ call' = [call EXCEPT ![c] =
               [pc |-> "send", decision |-> d, approved |-> v = "approved"]]
      BY <1>4 DEF Answer, Resolve
    <2>1. [pc |-> "send", decision |-> d, approved |-> v = "approved"] \in Busy BY DEF Busy
    <2>2. call' \in [Client -> Composing \cup Busy \cup {Idle}] BY <2>1
    <2> QED BY <1>4, <2>2 DEF Answer
  <1>5. ASSUME NEW c \in Client, SendApproval(c) PROVE TypeOK'
    <2>1. call[c] \in Busy BY <1>5, BusyCall DEF SendApproval
    <2> DEFINE d == call[c].decision
               v == IF call[c].approved THEN "approved" ELSE "rejected"
    <2>2. d \in Decision BY <2>1 DEF Busy
    <2>3. approvals' = approvals \/ approvals' = [approvals EXCEPT ![d] = Append(@, v)]
      BY <1>5 DEF SendApproval
    <2>4. Append(approvals[d], v) \in Seq({"approved", "rejected"}) BY <2>2
    <2> HIDE DEF d, v
    <2>5. approvals' \in [Decision -> Seq({"approved", "rejected"})] 
      <3>1. CASE approvals' = approvals BY <3>1
      <3>2. CASE approvals' = [approvals EXCEPT ![d] = Append(approvals[d], v)]
        BY <2>2, <2>4, <3>2
      <3> QED BY <2>3, <3>1, <3>2
    <2> QED BY <1>5, <2>5 DEF SendApproval
  <1>6. ASSUME NEW c \in Client, Abandon(c) PROVE TypeOK'
    BY <1>6 DEF Abandon
  <1>7. ASSUME NEW d \in Decision, Recover(d) PROVE TypeOK'
    BY <1>7 DEF Recover
  <1>8. ASSUME NEW d \in Decision, Receive(d) PROVE TypeOK'
    <2>1. Head(approvals[d]) \in {"approved", "rejected"} BY <1>8 DEF Receive
    <2>2. Tail(approvals[d]) \in Seq({"approved", "rejected"}) BY <1>8 DEF Receive
    <2>3. approvals' \in [Decision -> Seq({"approved", "rejected"})] BY <1>8, <2>2 DEF Receive
    <2> QED BY <1>8, <2>1, <2>3 DEF Receive
  <1>9. ASSUME NEW d \in Decision, DeadlinePasses(d) PROVE TypeOK'
    BY <1>9 DEF DeadlinePasses
  <1>10. ASSUME NEW d \in Decision, ResolveExpired(d) PROVE TypeOK'
    <2>1. CASE Resolve(d, "expired") /\ thr' = [thr EXCEPT ![d] = "expired"] /\ out' = out
      BY <1>10, <2>1 DEF ResolveExpired, Resolve
    <2>2. CASE Ends(d, "none") /\ verdict' = verdict BY <1>10, <2>2 DEF ResolveExpired, Ends
    <2> QED BY <1>10, <2>1, <2>2 DEF ResolveExpired
  <1>11. ASSUME NEW d \in Decision, AuditExpired(d) PROVE TypeOK'
    <2>1. audits' \in [Decision -> Nat] BY <1>11 DEF AuditExpired
    <2>2. EndsWell(d, "expired") BY <1>11 DEF AuditExpired, EndsWell, Kind
    <2> QED BY <1>11, <2>1, <2>2, EndsType DEF AuditExpired
  <1>12. ASSUME NEW d \in Decision, AuditRejected(d) PROVE TypeOK'
    <2>1. audits' \in [Decision -> Nat] BY <1>12 DEF AuditRejected
    <2>2. EndsWell(d, "rejected") BY <1>12 DEF AuditRejected, EndsWell, Kind
    <2> QED BY <1>12, <2>1, <2>2, EndsType DEF AuditRejected
  <1>13. ASSUME NEW d \in Decision, Execute(d) PROVE TypeOK'
    <2>1. executed' \in [Decision -> Nat] BY <1>13 DEF Execute
    <2>2. out' \in [Decision -> Kind \cup {"none"}] BY <1>13 DEF Execute, Kind
    <2> QED BY <1>13, <2>1, <2>2 DEF Execute
  <1>14. ASSUME NEW d \in Decision, SkipExecute(d) PROVE TypeOK'
    <2>1. EndsWell(d, "clean") BY <1>14 DEF SkipExecute, EndsWell, Kind, Outcome
    <2> QED BY <1>14, <2>1, EndsType DEF SkipExecute
  <1>15. ASSUME NEW d \in Decision, RecordOutcome(d) PROVE TypeOK'
    <2>1. out[d] \in Outcome BY <1>15 DEF RecordOutcome, Ledger, LedgerOf
    <2>2. Append(outcomes[d], out[d]) \in Seq(Outcome) BY <2>1
    <2>3. outcomes' \in [Decision -> Seq(Outcome)] BY <1>15, <2>2 DEF RecordOutcome
    <2> QED BY <1>15, <2>3 DEF RecordOutcome
  <1>16. ASSUME NEW d \in Decision, Retry(d) PROVE TypeOK'
    BY <1>16 DEF Retry
  <1>17. ASSUME NEW d \in Decision, GiveUp(d) PROVE TypeOK'
    BY <1>17 DEF GiveUp
  <1>18. ASSUME NEW d \in Decision, Poison(d) PROVE TypeOK'
    BY <1>18 DEF Poison
  <1>19. ASSUME NEW d \in Decision, Checkpoint(d) PROVE TypeOK'
    BY <1>19 DEF Checkpoint
  <1>20. ASSUME NEW d \in Decision, Notify(d) PROVE TypeOK'
    BY <1>20 DEF Notify
  <1>21. ASSUME AgentAsks PROVE TypeOK'
    BY <1>21 DEF AgentAsks
  <1>22. ASSUME AgentEnds PROVE TypeOK'
    BY <1>22 DEF AgentEnds
  <1>23. ASSUME RegisterApproval PROVE TypeOK'
    BY <1>23 DEF RegisterApproval
  <1>24. ASSUME CheckpointApproval PROVE TypeOK'
    <2>1. body.decision \in Decision BY <1>24 DEF CheckpointApproval
    <2>2. asked' \in Seq(Decision) BY <1>24, <2>1 DEF CheckpointApproval
    <2>3. body' \in [pc : {"off", "idle"}] BY <1>24 DEF CheckpointApproval
    <2> QED BY <1>24, <2>2, <2>3 DEF CheckpointApproval
  <1>25. ASSUME AgentStarts PROVE TypeOK'
    <2>1. asked[Len(asked)] \in Decision BY <1>25, LastAsked DEF AgentStarts, Agreement
    <2> QED BY <1>25, <2>1, StartType DEF AgentStarts
  <1>26. ASSUME AgentHears PROVE TypeOK'
    BY <1>26 DEF AgentHears
  <1>27. ASSUME AgentRecovers PROVE TypeOK'
    BY <1>27 DEF AgentRecovers
  <1>28. ASSUME Halt PROVE TypeOK'
    BY <1>28 DEF Halt
  <1>29. ASSUME Crash PROVE TypeOK'
    BY <1>29 DEF Crash
  <1>30. ASSUME NEW d \in Decision, PassGuard(d) PROVE TypeOK'
    <2>1. d \in Repeatable \/ ~AlreadyDispatched(d) \/ d \notin registry
      BY <1>30 DEF PassGuard
    <2>2. slipped' = slipped \/ (slipped' = slipped \cup {d} /\ d \in Remote)
      BY <1>30 DEF PassGuard
    <2> QED BY <1>30, <2>2 DEF PassGuard
  <1>31. ASSUME NEW d \in Decision, ExecuteUnknown(d) PROVE TypeOK'
    <2>1. out' \in [Decision -> Kind \cup {"none"}] BY <1>31 DEF ExecuteUnknown, Kind, Outcome
    <2> QED BY <1>31, <2>1 DEF ExecuteUnknown
  <1>32. ASSUME NEW d \in Remote, Register(d) PROVE TypeOK'
    BY <1>32 DEF Register
  <1>33. ASSUME NEW d \in Remote, Deregister(d) PROVE TypeOK'
    BY <1>33 DEF Deregister
  <1> HIDE DEF TypeOK
  <1> QED
    BY <1>1, <1>2, <1>3, <1>4, <1>5, <1>6, <1>7, <1>8, <1>9, <1>10, <1>11, <1>12, <1>13,
       <1>14, <1>15, <1>16, <1>17, <1>18, <1>19, <1>20, <1>21, <1>22, <1>23, <1>24, <1>25,
       <1>26, <1>27, <1>28, <1>29, <1>30, <1>31, <1>32, <1>33
       DEF Next, ClientStep, Drive, DriveAgent
-----------------------------------------------------------------------------
(* Who changes what of a decision. *)

\* The steps that are not of a tool-call workflow.
Outside ==
  \/ \E c \in Client : ClientStep(c)
  \/ AgentAsks \/ AgentEnds \/ RegisterApproval \/ DriveAgent
  \/ \E d \in Remote : Register(d) \/ Deregister(d)
  \/ Halt

\* What they may change of d: take the row forward, start the workflow, send to it.
Aside(d) ==
  /\ audits'[d] = audits[d] /\ outcomes'[d] = outcomes[d] /\ executed'[d] = executed[d]
  /\ at'[d] = at[d] /\ envelope'[d] = envelope[d] /\ result'[d] = result[d]
  /\ told'[d] = told[d] /\ out'[d] = out[d] /\ crashes' = crashes
  /\ retries' = retries /\ slipped' = slipped
  /\ \/ wf'[d] = wf[d] /\ thr'[d] = thr[d]
     \/ wf[d] = "none" /\ verdict[d] # "absent" /\ wf'[d] = "pending" /\ thr'[d] = "idle"
  /\ \/ verdict'[d] = verdict[d]
     \/ /\ verdict[d] \in {"absent", "open"}
        /\ verdict'[d] \in {"open", "approved", "rejected"}
  /\ (d \in waiter' <=> d \in waiter) \/ verdict[d] = "absent"

Still(d) ==
  /\ verdict'[d] = verdict[d] /\ (d \in waiter' <=> d \in waiter)
  /\ audits'[d] = audits[d] /\ outcomes'[d] = outcomes[d] /\ executed'[d] = executed[d]
  /\ wf'[d] = wf[d] /\ at'[d] = at[d] /\ envelope'[d] = envelope[d]
  /\ approvals'[d] = approvals[d] /\ result'[d] = result[d] /\ told'[d] = told[d]
  /\ thr'[d] = thr[d] /\ out'[d] = out[d] /\ crashes' = crashes
  /\ (d \in slipped' <=> d \in slipped) /\ retries' \in {retries, retries + 1}

\* Starting changes only a workflow that was not there.
LEMMA StartWrites ==
  ASSUME TypeOK, NEW e \in Decision, StartWorkflow(e), verdict[e] # "absent",
         NEW d \in Decision
  PROVE  \/ wf'[d] = wf[d] /\ thr'[d] = thr[d]
         \/ wf[d] = "none" /\ verdict[d] # "absent" /\ wf'[d] = "pending" /\ thr'[d] = "idle"
<1>1. CASE wf[e] = "none"
  <2>1. wf' = [wf EXCEPT ![e] = "pending"] /\ thr' = [thr EXCEPT ![e] = "idle"]
    BY <1>1 DEF StartWorkflow
  <2>2. CASE d = e BY <1>1, <2>1, <2>2 DEF TypeOK
  <2>3. CASE d # e BY <2>1, <2>3 DEF TypeOK
  <2> QED BY <2>2, <2>3
<1>2. CASE wf[e] # "none" BY <1>2 DEF StartWorkflow
<1> QED BY <1>1, <1>2

\* Steps outside the workflows are aside of every decision.
LEMMA OutsideWrites ==
  ASSUME TypeOK, Agreement, Outside, NEW d \in Decision PROVE Aside(d)
  <1> USE DEF rows, flow, stage, clients, tools, bounds, Aside
  <1>1. ASSUME NEW c \in Client, Compose(c) PROVE Aside(d)
    BY <1>1 DEF Compose
  <1>2. ASSUME NEW c \in Client, Insert(c) PROVE Aside(d)
    BY <1>2 DEF Insert, TypeOK
  <1>3. ASSUME NEW c \in Client, Start(c) PROVE Aside(d)
    <2>1. call[c] \in Busy BY <1>3, BusyCall DEF Start
    <2>2. call[c].decision \in Decision /\ verdict[call[c].decision] # "absent"
      BY <1>3, <2>1 DEF Start, Busy, Agreement, CallAgrees
    <2> QED BY <1>3, <2>2, StartWrites DEF Start
  <1>4. ASSUME NEW c \in Client, NEW e \in Decision, Answer(c, e) PROVE Aside(d)
    BY <1>4 DEF Answer, TypeOK, Resolve
  <1>5. ASSUME NEW c \in Client, SendApproval(c) PROVE Aside(d)
    BY <1>5 DEF SendApproval
  <1>6. ASSUME NEW c \in Client, Abandon(c) PROVE Aside(d)
    BY <1>6 DEF Abandon
  <1>7. ASSUME AgentAsks PROVE Aside(d)
    BY <1>7 DEF AgentAsks
  <1>8. ASSUME AgentEnds PROVE Aside(d)
    BY <1>8 DEF AgentEnds
  <1>9. ASSUME RegisterApproval PROVE Aside(d)
    BY <1>9 DEF RegisterApproval, TypeOK
  <1>10. ASSUME CheckpointApproval PROVE Aside(d)
    BY <1>10 DEF CheckpointApproval
  <1>11. ASSUME AgentStarts PROVE Aside(d)
    <2>1. asked[Len(asked)] \in Decision /\ verdict[asked[Len(asked)]] # "absent"
      BY <1>11, LastAsked DEF AgentStarts, Agreement
    <2> QED BY <1>11, <2>1, StartWrites DEF AgentStarts
  <1>12. ASSUME AgentHears PROVE Aside(d)
    BY <1>12 DEF AgentHears
  <1>13. ASSUME AgentRecovers PROVE Aside(d)
    BY <1>13 DEF AgentRecovers
  <1>14. ASSUME Halt PROVE Aside(d)
    BY <1>14 DEF Halt
  <1>15. ASSUME NEW e \in Remote, Register(e) \/ Deregister(e) PROVE Aside(d)
    BY <1>15 DEF Register, Deregister
  <1> QED
    BY <1>1, <1>2, <1>3, <1>4, <1>5, <1>6, <1>7, <1>8, <1>9, <1>10, <1>11, <1>12, <1>13,
       <1>14, <1>15
       DEF Outside, ClientStep, DriveAgent

\* A tool-call workflow leaves every other decision alone.
LEMMA OwnWrites ==
  ASSUME TypeOK, NEW e \in Decision, Drive(e) \/ Poison(e), NEW d \in Decision, d # e
  PROVE  Still(d)
  <1> USE DEF TypeOK, rows, flow, stage, clients, tools, bounds, Still, Ends, Resolve
  <1>1. CASE Recover(e) BY <1>1 DEF Recover
  <1>2. CASE Receive(e) BY <1>2 DEF Receive
  <1>3. CASE DeadlinePasses(e) BY <1>3 DEF DeadlinePasses
  <1>4. CASE ResolveExpired(e) BY <1>4 DEF ResolveExpired
  <1>5. CASE AuditExpired(e) BY <1>5 DEF AuditExpired
  <1>6. CASE AuditRejected(e) BY <1>6 DEF AuditRejected
  <1>7. CASE Execute(e) BY <1>7 DEF Execute
  <1>8. CASE SkipExecute(e) BY <1>8 DEF SkipExecute
  <1>9. CASE RecordOutcome(e) BY <1>9 DEF RecordOutcome
  <1>10. CASE Retry(e) BY <1>10 DEF Retry
  <1>11. CASE GiveUp(e) BY <1>11 DEF GiveUp
  <1>12. CASE Checkpoint(e) BY <1>12 DEF Checkpoint
  <1>13. CASE Notify(e) BY <1>13 DEF Notify
  <1>14. CASE Poison(e) BY <1>14 DEF Poison
  <1>15. CASE PassGuard(e) BY <1>15 DEF PassGuard
  <1>16. CASE ExecuteUnknown(e) BY <1>16 DEF ExecuteUnknown
  <1> QED
    BY <1>1, <1>2, <1>3, <1>4, <1>5, <1>6, <1>7, <1>8, <1>9, <1>10, <1>11, <1>12, <1>13,
       <1>14, <1>15, <1>16
       DEF Drive
-----------------------------------------------------------------------------
(* The shape of the workflow. *)

\* A step elsewhere, or the start of its workflow, leaves a decision in shape.
LEMMA ShapeAside ==
  ASSUME TypeOK, Agreement, NEW d \in Decision, ShapeOf(d), Aside(d) PROVE ShapeOf(d)'
<1>1. FlowAgrees(d) BY DEF Agreement
<1>2. CASE wf'[d] = wf[d] /\ thr'[d] = thr[d]
  <2>1. CASE verdict[d] = "absent"
    <3>1. wf[d] = "none" BY <1>1, <2>1 DEF FlowAgrees
    <3> QED BY <1>2, <2>1, <3>1 DEF ShapeOf, AlreadyDispatched, Aside
  <2>2. CASE verdict[d] # "absent" BY <1>2, <2>2 DEF ShapeOf, AlreadyDispatched, Aside
  <2> QED BY <2>1, <2>2
<1>3. CASE wf[d] = "none" /\ verdict[d] # "absent" /\ wf'[d] = "pending" /\ thr'[d] = "idle"
  BY <1>3 DEF ShapeOf, AlreadyDispatched, Aside
<1> QED BY <1>2, <1>3 DEF Aside

\* So does a step that touches nothing the shape is about.
LEMMA ShapeStill ==
  ASSUME NEW d \in Decision, ShapeOf(d), Still(d) PROVE ShapeOf(d)'
  BY DEF ShapeOf, AlreadyDispatched, Still

\* A step of a workflow takes it from one position of its shape to the next.
LEMMA ShapeOwn ==
  ASSUME TypeInv, Agreement, NEW d \in Decision, Drive(d) \/ Poison(d) PROVE ShapeOf(d)'
  <1> USE DEF TypeInv, TypeOK, StepShape, ShapeOf, AlreadyDispatched, Standing, rows, flow,
              stage, clients, tools, bounds
  <1>1. CASE Recover(d) BY <1>1 DEF Recover
  <1>2. CASE Receive(d)
    <2>1. Head(approvals[d]) \in {"approved", "rejected"} BY <1>2 DEF Receive
    <2> QED BY <1>2, <2>1 DEF Receive
  <1>3. CASE DeadlinePasses(d) BY <1>3 DEF DeadlinePasses
  <1>4. CASE ResolveExpired(d) BY <1>4 DEF ResolveExpired, Resolve, Ends
  <1>5. CASE AuditExpired(d) BY <1>5 DEF AuditExpired, Ends
  <1>6. CASE AuditRejected(d) BY <1>6 DEF AuditRejected, Ends
  <1>7. CASE Execute(d) BY <1>7 DEF Execute
  <1>8. CASE SkipExecute(d) BY <1>8 DEF SkipExecute, Ends
  <1>9. CASE RecordOutcome(d) BY <1>9 DEF RecordOutcome
  <1>10. CASE Retry(d) BY <1>10 DEF Retry
  <1>11. CASE GiveUp(d) BY <1>11 DEF GiveUp
  <1>12. CASE Checkpoint(d) BY <1>12 DEF Checkpoint
  <1>13. CASE Notify(d) BY <1>13 DEF Notify
  <1>14. CASE Poison(d) BY <1>14 DEF Poison
  <1>15. CASE PassGuard(d) BY <1>15 DEF PassGuard
  <1>16. CASE ExecuteUnknown(d) BY <1>16 DEF ExecuteUnknown
  <1> QED
    BY <1>1, <1>2, <1>3, <1>4, <1>5, <1>6, <1>7, <1>8, <1>9, <1>10, <1>11, <1>12, <1>13,
       <1>14, <1>15, <1>16
       DEF Drive

\* Every step keeps every decision in shape: another's, its own, or a crash.
LEMMA ShapeStep == ASSUME TypeInv, Agreement, Next PROVE StepShape'
<1> SUFFICES ASSUME NEW d \in Decision PROVE ShapeOf(d)' BY DEF StepShape
<1>1. ShapeOf(d) BY DEF TypeInv, StepShape
<1>2. CASE Outside BY <1>1, <1>2, ShapeAside, OutsideWrites DEF TypeInv
<1>3. ASSUME NEW e \in Decision, Drive(e) \/ Poison(e) PROVE ShapeOf(d)'
  <2>1. CASE d = e BY <1>3, <2>1, ShapeOwn
  <2>2. CASE d # e BY <1>1, <1>3, <2>2, ShapeStill, OwnWrites DEF TypeInv
  <2> QED BY <2>1, <2>2
<1>4. CASE Crash
  BY <1>1, <1>4 DEF Crash, TypeInv, TypeOK, ShapeOf, AlreadyDispatched, rows
<1> QED BY <1>2, <1>3, <1>4 DEF Next, Outside

-----------------------------------------------------------------------------
(* The ledger. *)

\* A step elsewhere, or the start of its workflow, keeps a decision's ledger.
LEMMA LedgerAside ==
  ASSUME TypeInv, Agreement, NEW d \in Decision, LedgerOf(d), Aside(d) PROVE LedgerOf(d)'
<1>1. ShapeOf(d) /\ FlowAgrees(d) BY DEF TypeInv, StepShape, Agreement
<1>2. AlreadyDispatched(d)' <=> AlreadyDispatched(d) BY DEF Aside, AlreadyDispatched
<1>3. CASE verdict[d] = "absent"
  <2>1. wf[d] = "none" /\ at[d] = "wait" /\ thr[d] = "off"
    BY <1>1, <1>3 DEF ShapeOf, FlowAgrees, TypeInv, TypeOK
  <2>2. wf'[d] = "none" /\ at'[d] = "wait" /\ thr'[d] = "off" BY <1>3, <2>1 DEF Aside
  <2> QED BY <1>2, <2>2 DEF LedgerOf, Aside
<1>4. CASE verdict[d] # "absent"
  <2>1. d \in waiter' <=> d \in waiter BY <1>4 DEF Aside
  <2>2. ASSUME NEW k \in Kind \cup {"none"}, Sound(d, k) PROVE Sound(d, k)'
    BY <1>2, <1>4, <2>1, <2>2 DEF Sound, Aside, TypeInv, TypeOK
  <2>3. out[d] \in Kind \cup {"none"} /\ result[d] \in Kind \cup {"none"}
    BY DEF TypeInv, TypeOK
  <2>4. CASE wf'[d] = wf[d] /\ thr'[d] = thr[d]
    <3>1. thr'[d] = "ran" => Sound(d, out[d])' BY <2>2, <2>3, <2>4 DEF LedgerOf, Aside
    <3>2. at'[d] = "notify" => Sound(d, result[d])' BY <2>2, <2>3, <2>4 DEF LedgerOf, Aside
    <3> QED BY <1>2, <2>1, <2>4, <3>1, <3>2 DEF LedgerOf, Aside
  <2>5. CASE wf[d] = "none" /\ wf'[d] = "pending" /\ thr'[d] = "idle"
    <3>1. at'[d] = "wait" BY <1>1, <2>5 DEF ShapeOf, AlreadyDispatched, Aside
    <3> QED BY <1>2, <2>5, <3>1 DEF LedgerOf, Aside
  <2> QED BY <2>4, <2>5 DEF Aside
<1> QED BY <1>3, <1>4

\* So does a step that touches neither calls, outcomes nor reports.
LEMMA LedgerStill ==
  ASSUME NEW d \in Decision, LedgerOf(d), Still(d) PROVE LedgerOf(d)'
  BY DEF LedgerOf, Sound, AlreadyDispatched, Still

\* A step of a workflow keeps its books: what it has called, recorded and reports.
LEMMA LedgerOwn ==
  ASSUME TypeInv, Agreement, OneOutcome, NEW d \in Decision, Drive(d) \/ Poison(d)
  PROVE  LedgerOf(d)'
  <1> DEFINE ShapeD == ShapeOf(d)
             LedgerD == LedgerOf(d)
             FlowD == FlowAgrees(d)
  <1>0. ShapeD /\ LedgerD /\ FlowD BY DEF TypeInv, StepShape, Ledger, Agreement
  <1> USE DEF TypeInv, TypeOK, ShapeOf, LedgerOf, FlowAgrees, Sound, AlreadyDispatched,
              Standing, Outcome, Kind, rows, flow, stage, clients, tools, bounds
  <1>1. CASE Recover(d) BY <1>0, <1>1 DEF Recover
  <1>2. CASE Receive(d) BY <1>0, <1>2 DEF Receive
  <1>3. CASE DeadlinePasses(d) BY <1>0, <1>3 DEF DeadlinePasses
  <1>4. CASE ResolveExpired(d) BY <1>0, <1>4 DEF ResolveExpired, Resolve, Ends
  <1>5. CASE AuditExpired(d) BY <1>0, <1>5 DEF AuditExpired, Ends
  <1>6. CASE AuditRejected(d) BY <1>0, <1>6 DEF AuditRejected, Ends
  <1>7. CASE Execute(d) BY <1>0, <1>7 DEF Execute
  <1>8. CASE SkipExecute(d) BY <1>0, <1>8 DEF SkipExecute, Ends
  <1>9. CASE RecordOutcome(d)
    <2>1. outcomes[d] \in Seq(Outcome) /\ out[d] \in Outcome BY <1>0, <1>9 DEF RecordOutcome
    <2>2. outcomes'[d] = Append(outcomes[d], out[d]) BY <1>9 DEF RecordOutcome
    <2>3. outcomes'[d] # <<>> /\ outcomes'[d][Len(outcomes'[d])] = out[d]
      <3> HIDE DEF Outcome, TypeInv, TypeOK
      <3> QED BY <2>1, <2>2, LastOfAppend
    <2>4. (executed'[d] > 0 \/ d \in Remote) /\ at'[d] = "dispatch" /\ out'[d] = out[d]
      BY <1>0, <1>9 DEF RecordOutcome
    <2>5. thr'[d] \in {"failing", "ran"} /\ (thr'[d] = "failing" => d \notin waiter')
      BY <1>9 DEF RecordOutcome
    <2> QED BY <2>1, <2>3, <2>4, <2>5
  <1>10. CASE Retry(d) BY <1>0, <1>10 DEF Retry
  <1>11. CASE GiveUp(d) BY <1>0, <1>11 DEF GiveUp
  <1>12. CASE Checkpoint(d) BY <1>0, <1>12 DEF Checkpoint
  <1>13. CASE Notify(d) BY <1>0, <1>13 DEF Notify
  <1>14. CASE Poison(d) BY <1>0, <1>14 DEF Poison
  <1>15. CASE PassGuard(d)
    <2>1. slipped' = slipped \/ slipped' = slipped \cup {d} BY <1>15 DEF PassGuard
    <2>2. AlreadyDispatched(d) => d \in Repeatable \cup slipped' BY <1>15 DEF PassGuard
    <2>3. d \in slipped' => AlreadyDispatched(d) BY <1>0, <1>15 DEF PassGuard
    <2> QED BY <1>0, <1>15, <2>2, <2>3 DEF PassGuard
  <1>16. CASE ExecuteUnknown(d)
    <2>1. d \in Remote BY <1>16 DEF ExecuteUnknown
    <2> QED BY <1>0, <1>16, <2>1 DEF ExecuteUnknown
  <1> QED
    BY <1>1, <1>2, <1>3, <1>4, <1>5, <1>6, <1>7, <1>8, <1>9, <1>10, <1>11, <1>12, <1>13,
       <1>14, <1>15, <1>16
       DEF Drive

\* Every step keeps the ledger of every decision.
LEMMA LedgerStep ==
  ASSUME TypeInv, Agreement, OneOutcome, Next PROVE Ledger'
<1> SUFFICES ASSUME NEW d \in Decision PROVE LedgerOf(d)' BY DEF Ledger
<1>1. LedgerOf(d) BY DEF TypeInv, Ledger
<1>2. CASE Outside BY <1>1, <1>2, LedgerAside, OutsideWrites DEF TypeInv
<1>3. ASSUME NEW e \in Decision, Drive(e) \/ Poison(e) PROVE LedgerOf(d)'
  <2>1. CASE d = e BY <1>3, <2>1, LedgerOwn
  <2>2. CASE d # e BY <1>1, <1>3, <2>2, LedgerStill, OwnWrites DEF TypeInv
  <2> QED BY <2>1, <2>2
\* What was in memory is gone; the step that is run again counts one crash more.
<1>4. CASE Crash
  <2>1. ShapeOf(d) /\ FlowAgrees(d) BY DEF TypeInv, StepShape, Agreement
  <2>2. /\ UNCHANGED <<verdict, waiter, audits, outcomes, executed, wf, at, envelope, result>>
        /\ thr'[d] = "off" /\ crashes' = crashes + 1
    BY <1>4 DEF Crash, rows
  <2>3. crashes \in Nat /\ executed[d] \in Nat /\ out[d] \in Kind \cup {"none"}
    BY DEF TypeInv, TypeOK
  <2>4. at[d] = "notify" => Sound(d, result[d])'
    BY <1>1, <2>2, <2>3 DEF LedgerOf, Sound, AlreadyDispatched
  <2>5. d \notin Repeatable \cup slipped => executed[d] <= 1 + crashes BY DEF OneOutcome
  <2>6. slipped' = slipped BY <1>4 DEF Crash
  <2> QED BY <1>1, <2>2, <2>3, <2>4, <2>5, <2>6 DEF LedgerOf, AlreadyDispatched
<1> QED BY <1>2, <1>3, <1>4 DEF Next, Outside

\* A step of a workflow that neither calls the tool nor records an outcome.
LEMMA OtherWrites ==
  ASSUME NEW d \in Decision, Drive(d) \/ Poison(d), ~Execute(d), ~RecordOutcome(d)
  PROVE  outcomes' = outcomes /\ executed' = executed /\ crashes' = crashes
  BY DEF Drive, Recover, Receive, DeadlinePasses, ResolveExpired, AuditExpired, AuditRejected,
         PassGuard, SkipExecute, ExecuteUnknown, Retry, GiveUp, Poison, Checkpoint, Notify,
         rows, bounds

\* A guard that lets a call pass leaves slipped, or lets it slip.
LEMMA SlipsOnlyForward ==
  ASSUME TypeInv, Agreement, Next, NEW d \in Decision
  PROVE  (d \in slipped => d \in slipped') /\ retries' \in {retries, retries + 1}
         /\ crashes' \in {crashes, crashes + 1}
<1>1. CASE Outside BY <1>1, OutsideWrites DEF TypeInv, Aside
<1>2. ASSUME NEW e \in Decision, Drive(e) \/ Poison(e)
      PROVE  (d \in slipped => d \in slipped') /\ retries' \in {retries, retries + 1}
             /\ crashes' = crashes
  BY <1>2
     DEF Drive, Recover, Receive, DeadlinePasses, ResolveExpired, AuditExpired, AuditRejected,
         PassGuard, SkipExecute, Execute, ExecuteUnknown, RecordOutcome, Retry, GiveUp, Poison,
         Checkpoint, Notify, tools, bounds
<1>3. CASE Crash BY <1>3 DEF Crash
<1> QED BY <1>1, <1>2, <1>3 DEF Next, Outside

\* While the registry knows its tool, a call has one recorded outcome, and reaches the
\* tool once more than there were crashes.
LEMMA OnceWhileKnown ==
  ASSUME TypeInv, Agreement, OneOutcome, Next, NEW d \in Decision,
         d \notin Repeatable \cup slipped'
  PROVE  Len(outcomes'[d]) <= 1 /\ executed'[d] <= 1 + crashes'
<1>0. d \notin Repeatable \cup slipped /\ crashes' \in {crashes, crashes + 1}
  BY SlipsOnlyForward
<1>1. Len(outcomes[d]) <= 1 /\ executed[d] <= 1 + crashes BY <1>0 DEF OneOutcome
<1>2. crashes \in Nat /\ executed[d] \in Nat /\ outcomes[d] \in Seq(Outcome)
  BY DEF TypeInv, TypeOK
<1>3. ShapeOf(d) /\ LedgerOf(d) BY DEF TypeInv, StepShape, Ledger
<1>4. ASSUME outcomes'[d] = outcomes[d], executed'[d] = executed[d]
      PROVE  Len(outcomes'[d]) <= 1 /\ executed'[d] <= 1 + crashes'
  BY <1>0, <1>1, <1>2, <1>4
<1>5. CASE Outside BY <1>4, <1>5, OutsideWrites DEF TypeInv, Aside
<1>6. CASE Crash BY <1>4, <1>6 DEF Crash, rows
<1>7. ASSUME NEW e \in Decision, Drive(e) \/ Poison(e), d # e
      PROVE  Len(outcomes'[d]) <= 1 /\ executed'[d] <= 1 + crashes'
  BY <1>4, <1>7, OwnWrites DEF TypeInv, Still
<1>8. CASE Execute(d)
  <2>1. executed[d] <= crashes BY <1>0, <1>3, <1>8 DEF Execute, LedgerOf
  <2>2. executed'[d] = executed[d] + 1 /\ outcomes' = outcomes /\ crashes' = crashes
    BY <1>8 DEF Execute, TypeInv, TypeOK, bounds
  <2> QED BY <1>1, <1>2, <2>1, <2>2
<1>9. CASE RecordOutcome(d)
  <2>1. outcomes[d] = <<>> BY <1>0, <1>3, <1>9 DEF RecordOutcome, LedgerOf, AlreadyDispatched
  <2>2. /\ outcomes'[d] = Append(outcomes[d], out[d])
        /\ executed' = executed /\ crashes' = crashes
    BY <1>9 DEF RecordOutcome, TypeInv, TypeOK, bounds
  <2> QED BY <1>1, <1>2, <2>1, <2>2
<1>10. CASE (Drive(d) \/ Poison(d)) /\ ~Execute(d) /\ ~RecordOutcome(d)
  BY <1>4, <1>10, OtherWrites
<1> QED BY <1>5, <1>6, <1>7, <1>8, <1>9, <1>10 DEF Next, Outside
-----------------------------------------------------------------------------
(* The budget. *)

\* The calls and outcomes of d, and the crashes and retries they are set against, as
\* naturals.
LEMMA BudgetType ==
  ASSUME TypeOK, NEW d \in Decision
  PROVE  /\ crashes \in Nat /\ retries \in Nat /\ executed[d] \in Nat
         /\ outcomes[d] \in Seq(Outcome) /\ Len(outcomes[d]) \in Nat
  BY DEF TypeOK

\* Whatever the registry knows, what has been called and recorded was paid for by the
\* first run, a crash or a retry.
Paid(d) ==
  Len(outcomes[d]) <= 1 + crashes + retries /\ executed[d] <= 1 + crashes + retries

\* A step of its workflow leaves a decision within its budget.
LEMMA BudgetOwn ==
  ASSUME TypeInv, TypeOK', NEW d \in Decision, BudgetOf(d), Paid(d), Drive(d) \/ Poison(d)
  PROVE  BudgetOf(d)' /\ Paid(d)'
<1>1. ShapeOf(d) /\ LedgerOf(d) /\ TypeOK BY DEF TypeInv, StepShape, Ledger
<1>2. /\ crashes \in Nat /\ retries \in Nat /\ executed[d] \in Nat
      /\ outcomes[d] \in Seq(Outcome) /\ Len(outcomes[d]) \in Nat
  BY <1>1, BudgetType
<1>3. CASE Execute(d)
  <2>1. executed[d] <= crashes + retries /\ Len(outcomes[d]) <= crashes + retries
    BY <1>1, <1>3 DEF Execute, BudgetOf, ShapeOf
  <2>2. /\ executed'[d] = executed[d] + 1 /\ thr'[d] = "executed"
        /\ outcomes' = outcomes /\ crashes' = crashes /\ retries' = retries
    BY <1>1, <1>3 DEF Execute, TypeOK, bounds
  <2> QED BY <1>2, <2>1, <2>2 DEF BudgetOf, Paid
<1>4. CASE RecordOutcome(d)
  <2>1. Len(outcomes[d]) <= crashes + retries BY <1>4 DEF RecordOutcome, BudgetOf
  <2>2. /\ outcomes'[d] = Append(outcomes[d], out[d]) /\ thr'[d] \in {"failing", "ran"}
        /\ executed' = executed /\ crashes' = crashes /\ retries' = retries
    BY <1>1, <1>4 DEF RecordOutcome, TypeOK, bounds
  <2>3. Len(outcomes'[d]) = Len(outcomes[d]) + 1 BY <1>2, <2>2
  <2> QED BY <1>2, <2>1, <2>2, <2>3 DEF BudgetOf, Paid
<1>5. CASE Retry(d)
  <2>1. retries' = retries + 1 /\ crashes' = crashes /\ thr'[d] = "idle"
    BY <1>1, <1>5 DEF Retry, TypeOK
  <2>2. outcomes' = outcomes /\ executed' = executed BY <1>5 DEF Retry, rows
  <2> QED BY <1>2, <2>1, <2>2 DEF BudgetOf, Paid
<1>6. CASE (Drive(d) \/ Poison(d)) /\ ~Execute(d) /\ ~RecordOutcome(d) /\ ~Retry(d)
  <2>1. outcomes' = outcomes /\ executed' = executed /\ crashes' = crashes
    BY <1>6, OtherWrites
  <2>2. retries' = retries
    BY <1>6
       DEF Drive, Recover, Receive, DeadlinePasses, ResolveExpired, AuditExpired,
           AuditRejected, PassGuard, SkipExecute, ExecuteUnknown, GiveUp, Poison, Checkpoint,
           Notify, bounds
  <2>3. Paid(d)' BY <2>1, <2>2 DEF Paid
  <2>4. ASSUME executed[d] = 0, Len(outcomes[d]) = 0 PROVE BudgetOf(d)'
    BY <1>2, <2>1, <2>2, <2>4 DEF BudgetOf
  <2>5. at[d] \in {"wait", "expire"} => executed[d] = 0 /\ Len(outcomes[d]) = 0
    BY <1>1, <1>2 DEF ShapeOf, AlreadyDispatched
  <2>6. ASSUME ~(at'[d] = "dispatch" /\ wf'[d] = "pending") , thr'[d] # "executed"
        PROVE BudgetOf(d)'
    BY <2>6 DEF BudgetOf
  <2>7. ASSUME thr'[d] \notin {"off", "idle", "guarded", "executed"} PROVE BudgetOf(d)'
    BY <2>7 DEF BudgetOf
  <2>8. ASSUME at'[d] = at[d], wf'[d] = wf[d], thr[d] \in {"off", "idle", "guarded"},
               wf[d] = "pending"
        PROVE  BudgetOf(d)'
    <3>1. CASE at[d] = "dispatch"
      <4>1. executed[d] <= crashes + retries /\ Len(outcomes[d]) <= crashes + retries
        BY <2>8, <3>1 DEF BudgetOf
      <4> QED BY <2>1, <2>2, <4>1 DEF BudgetOf
    <3>2. CASE at[d] # "dispatch"
      <4>1. CASE at[d] \in {"wait", "expire"} BY <2>4, <2>5, <4>1
      <4>2. CASE at[d] = "notify"
        <5>1. thr'[d] # "executed" \/ at'[d] = "notify" BY <2>8, <4>2
        <5> QED BY <1>1, <1>6, <2>6, <2>8, <4>2
              DEF Drive, Recover, Receive, DeadlinePasses, ResolveExpired, AuditExpired,
                  AuditRejected, PassGuard, SkipExecute, ExecuteUnknown, GiveUp, Poison,
                  Checkpoint, Notify, Standing, ShapeOf, TypeOK, Ends
      <4> QED BY <1>1, <3>2, <4>1, <4>2 DEF TypeOK
    <3> QED BY <3>1, <3>2
  <2>9. CASE Recover(d) BY <2>3, <1>1, <2>8, <2>9 DEF Recover
  <2>10. CASE Receive(d) BY <2>3, <2>4, <2>5, <2>10 DEF Receive, Standing
  <2>11. CASE DeadlinePasses(d) BY <2>3, <2>4, <2>5, <2>11 DEF DeadlinePasses, Standing
  <2>12. CASE ResolveExpired(d) BY <2>3, <2>4, <2>5, <2>12 DEF ResolveExpired, Standing
  <2>13. CASE AuditExpired(d) BY <2>3, <1>1, <2>7, <2>13 DEF AuditExpired, Ends, TypeOK
  <2>14. CASE AuditRejected(d) BY <2>3, <1>1, <2>7, <2>14 DEF AuditRejected, Ends, TypeOK
  <2>15. CASE PassGuard(d) BY <2>3, <2>8, <2>15 DEF PassGuard, Standing
  <2>16. CASE SkipExecute(d) BY <2>3, <1>1, <2>7, <2>16 DEF SkipExecute, Ends, TypeOK
  <2>17. CASE ExecuteUnknown(d) BY <2>3, <1>1, <2>8, <2>17 DEF ExecuteUnknown, ShapeOf
  <2>18. CASE GiveUp(d) \/ Poison(d) BY <2>3, <1>1, <2>6, <2>18 DEF GiveUp, Poison, TypeOK
  <2>19. CASE Checkpoint(d) BY <2>3, <1>1, <2>6, <2>19 DEF Checkpoint, TypeOK
  <2>20. CASE Notify(d) BY <2>3, <1>1, <2>6, <2>20 DEF Notify, TypeOK
  <2>21. BudgetOf(d)'
    BY <1>6, <2>9, <2>10, <2>11, <2>12, <2>13, <2>14, <2>15, <2>16, <2>17, <2>18, <2>19, <2>20
       DEF Drive
  <2> QED BY <2>3, <2>21
<1> QED BY <1>3, <1>4, <1>5, <1>6

\* Every step leaves every decision within its budget: a crash and a retry add to it.
LEMMA BudgetStep ==
  ASSUME TypeInv, TypeOK', Agreement, Budget, OneOutcome, Next, NEW d \in Decision
  PROVE  BudgetOf(d)' /\ Paid(d)'
<1>1. BudgetOf(d) /\ Paid(d) /\ ShapeOf(d) /\ TypeOK
  BY DEF Budget, OneOutcome, Paid, TypeInv, StepShape
<1>2. /\ crashes \in Nat /\ retries \in Nat /\ executed[d] \in Nat /\ Len(outcomes[d]) \in Nat
  BY <1>1, BudgetType
<1>3. CASE Outside
  <2>1. Aside(d) BY <1>1, <1>3, OutsideWrites
  <2>2. Paid(d)' BY <1>1, <2>1 DEF Paid, Aside
  <2>3. CASE wf'[d] = wf[d] /\ thr'[d] = thr[d] BY <1>1, <2>1, <2>2, <2>3 DEF BudgetOf, Aside
  <2>4. CASE wf[d] = "none" /\ thr'[d] = "idle"
    <3>1. at'[d] = "wait" BY <1>1, <2>1, <2>4 DEF ShapeOf, Aside
    <3> QED BY <2>2, <2>4, <3>1 DEF BudgetOf
  <2> QED BY <2>1, <2>2, <2>3, <2>4 DEF Aside
<1>4. ASSUME NEW e \in Decision, Drive(e) \/ Poison(e) PROVE BudgetOf(d)' /\ Paid(d)'
  <2>1. CASE d = e BY <1>1, <1>4, <2>1, BudgetOwn
  <2>2. CASE d # e
    <3>1. Still(d) BY <1>1, <1>4, <2>2, OwnWrites
    <3> QED BY <1>1, <1>2, <3>1 DEF BudgetOf, Paid, Still
  <2> QED BY <2>1, <2>2
<1>5. CASE Crash
  <2>1. UNCHANGED <<outcomes, executed, retries>> /\ crashes' = crashes + 1 /\ thr'[d] = "off"
    BY <1>5 DEF Crash, rows
  <2> QED BY <1>1, <1>2, <2>1 DEF BudgetOf, Paid
<1> QED BY <1>3, <1>4, <1>5 DEF Next, Outside

\* Every step keeps the calls and the outcomes within what has been granted.
LEMMA OneOutcomeStep ==
  ASSUME TypeInv, TypeOK', Agreement, Budget, OneOutcome, Next PROVE Budget' /\ OneOutcome'
<1>1. \A d \in Decision : BudgetOf(d)' /\ Paid(d)' BY BudgetStep
<1>2. \A d \in Decision : d \notin Repeatable \cup slipped' =>
        Len(outcomes'[d]) <= 1 /\ executed'[d] <= 1 + crashes'
  BY OnceWhileKnown
<1> QED BY <1>1, <1>2 DEF Budget, OneOutcome, Paid

-----------------------------------------------------------------------------
(* Agreement of what is in flight with the row. *)

\* A row that has been resolved stays as it is.
LEMMA RowsForward ==
  ASSUME TypeInv, Agreement, Next, NEW d \in Decision
  PROVE  /\ verdict[d] \in {"approved", "rejected", "expired"} => verdict'[d] = verdict[d]
         /\ verdict[d] # "absent" => verdict'[d] # "absent"
<1>1. CASE Outside BY <1>1, OutsideWrites DEF TypeInv, Aside
<1>2. ASSUME NEW e \in Decision, Drive(e) \/ Poison(e), verdict' # verdict
      PROVE  Resolve(e, "expired")
  BY <1>2
     DEF Drive, Recover, Receive, DeadlinePasses, ResolveExpired, AuditExpired, AuditRejected,
         PassGuard, Execute, ExecuteUnknown, SkipExecute, RecordOutcome, Retry, GiveUp, Poison,
         Checkpoint, Notify, rows
<1>3. ASSUME NEW e \in Decision, Resolve(e, "expired")
      PROVE  /\ verdict[d] \in {"approved", "rejected", "expired"} => verdict'[d] = verdict[d]
             /\ verdict[d] # "absent" => verdict'[d] # "absent"
  BY <1>3 DEF Resolve, TypeInv, TypeOK
<1>4. CASE Crash BY <1>4 DEF Crash, rows
<1> QED BY <1>1, <1>2, <1>3, <1>4 DEF Next, Outside

\* A caller that goes on, or not, still carries what the row says.
LEMMA CallAgreesStep ==
  ASSUME TypeInv, Agreement, Next, NEW c \in Client PROVE CallAgrees(c)'
<1>1. CallAgrees(c) BY DEF Agreement
<1>2. CASE call'[c] = call[c]
  <2>1. CASE call[c].pc \in {"start", "send"}
    <3>1. call[c].decision \in Decision BY <2>1, BusyCall DEF TypeInv, Busy
    <3> QED BY <1>1, <1>2, <2>1, <3>1, RowsForward DEF CallAgrees
  <2>2. CASE call[c].pc \notin {"start", "send"} BY <1>2, <2>2 DEF CallAgrees
  <2> QED BY <2>1, <2>2
<1>3. CASE call'[c] = Idle BY <1>3 DEF CallAgrees, Idle
<1>4. ASSUME NEW e \in Client, Compose(e) PROVE CallAgrees(c)'
  <2>1. CASE e = c
    <3>1. call'[c].pc = "insert" BY <1>4, <2>1 DEF Compose, TypeInv, TypeOK
    <3> QED BY <3>1 DEF CallAgrees
  <2>2. CASE e # c BY <1>2, <1>4, <2>2 DEF Compose, TypeInv, TypeOK
  <2> QED BY <2>1, <2>2
<1>5. ASSUME NEW e \in Client, Insert(e) PROVE CallAgrees(c)'
  <2>1. CASE e = c
    <3> PICK d \in Decision :
          /\ verdict' = [verdict EXCEPT ![d] = IF call[c].auto THEN "approved" ELSE "open"]
          /\ call' = [call EXCEPT ![c] =
               [pc |-> "start", decision |-> d, approved |-> call[c].auto]]
      BY <1>5, <2>1 DEF Insert
    <3>1. call'[c] = [pc |-> "start", decision |-> d, approved |-> call[c].auto]
      BY DEF TypeInv, TypeOK
    <3>2. verdict'[d] = IF call[c].auto THEN "approved" ELSE "open" BY DEF TypeInv, TypeOK
    <3> QED BY <3>1, <3>2 DEF CallAgrees
  <2>2. CASE e # c BY <1>2, <1>5, <2>2 DEF Insert, TypeInv, TypeOK
  <2> QED BY <2>1, <2>2
<1>6. ASSUME NEW e \in Client, Start(e) PROVE CallAgrees(c)'
  <2>1. CASE e = c /\ call[c].approved
    <3>1. call[c] \in Busy BY <1>6, <2>1, BusyCall DEF Start, TypeInv
    <3>2. call' = [call EXCEPT ![c] = [call[c] EXCEPT !.pc = "send"]]
      BY <1>6, <2>1 DEF Start
    <3>3. call'[c] = [call[c] EXCEPT !.pc = "send"] BY <3>2 DEF TypeInv, TypeOK
    <3>4. /\ call'[c].decision = call[c].decision
          /\ call'[c].approved = call[c].approved /\ call[c].decision \in Decision
      BY <3>1, <3>3 DEF Busy
    <3>5. verdict[call[c].decision] = "approved" /\ verdict' = verdict
      BY <1>1, <1>6, <2>1 DEF Start, CallAgrees, rows
    <3> QED BY <2>1, <3>4, <3>5 DEF CallAgrees
  <2>2. CASE e = c /\ ~call[c].approved
    BY <1>3, <1>6, <2>2 DEF Start, TypeInv, TypeOK
  <2>3. CASE e # c
    <3>1. call'[c] = call[c] BY <1>6, <2>3 DEF Start, TypeInv, TypeOK
    <3> QED BY <1>2, <3>1
  <2> QED BY <2>1, <2>2, <2>3
<1>7. ASSUME NEW e \in Client, NEW d \in Decision, Answer(e, d) PROVE CallAgrees(c)'
  <2>1. CASE e = c
    <3> PICK v \in {"approved", "rejected"} :
          /\ verdict' = [verdict EXCEPT ![d] = v]
          /\ call' = [call EXCEPT ![c] =
               [pc |-> "send", decision |-> d, approved |-> v = "approved"]]
      BY <1>7, <2>1 DEF Answer, Resolve
    <3>1. call'[c] = [pc |-> "send", decision |-> d, approved |-> v = "approved"]
      BY DEF TypeInv, TypeOK
    <3>2. verdict'[d] = v BY DEF TypeInv, TypeOK
    <3>3. call'[c].decision = d /\ call'[c].approved = (v = "approved") BY <3>1
    <3>4. CASE v = "approved" BY <3>2, <3>3, <3>4 DEF CallAgrees
    <3>5. CASE v = "rejected"
      <4>1. call'[c].approved = FALSE BY <3>3, <3>5
      <4> QED BY <3>2, <3>3, <3>5, <4>1 DEF CallAgrees
    <3> QED BY <3>4, <3>5
  <2>2. CASE e # c BY <1>2, <1>7, <2>2 DEF Answer, TypeInv, TypeOK
  <2> QED BY <2>1, <2>2
<1>8. ASSUME NEW e \in Client, SendApproval(e) \/ Abandon(e) PROVE CallAgrees(c)'
  <2>1. call'[c] = call[c] \/ call'[c] = Idle
    BY <1>8 DEF SendApproval, Abandon, TypeInv, TypeOK
  <2> QED BY <1>2, <1>3, <2>1
<1>9. CASE Halt \/ AgentAsks \/ AgentEnds \/ RegisterApproval \/ DriveAgent
  BY <1>2, <1>9
     DEF Halt, AgentAsks, AgentEnds, RegisterApproval, DriveAgent, CheckpointApproval,
         AgentStarts, AgentHears, AgentRecovers, clients
<1>10. ASSUME NEW d \in Decision, Drive(d) \/ Poison(d) PROVE CallAgrees(c)'
  BY <1>2, <1>10
     DEF Drive, Recover, Receive, DeadlinePasses, ResolveExpired, AuditExpired, AuditRejected,
         PassGuard, Execute, ExecuteUnknown, SkipExecute, RecordOutcome, Retry, GiveUp, Poison,
         Checkpoint, Notify, clients
<1>11. CASE Crash BY <1>3, <1>11 DEF Crash
<1>12. ASSUME NEW d \in Remote, Register(d) \/ Deregister(d) PROVE CallAgrees(c)'
  BY <1>2, <1>12 DEF Register, Deregister, clients
<1> QED BY <1>4, <1>5, <1>6, <1>7, <1>8, <1>9, <1>10, <1>11, <1>12 DEF Next, ClientStep

\* A message, an envelope and an effect agree with the row they were made from.
LEMMA FlowAgreesStep ==
  ASSUME TypeInv, Agreement, Next, NEW d \in Decision PROVE FlowAgrees(d)'
<1>1. FlowAgrees(d) /\ ShapeOf(d) BY DEF Agreement, TypeInv, StepShape
<1>2. approvals[d] \in Seq({"approved", "rejected"}) /\ executed[d] \in Nat
  BY DEF TypeInv, TypeOK
<1>3. \A i \in DOMAIN approvals[d] : verdict[d] \in {"approved", "rejected"}
  BY <1>1, <1>2 DEF FlowAgrees
<1>4. envelope[d] # "none" => verdict[d] \in {"approved", "rejected"}
  BY <1>1 DEF FlowAgrees, TypeInv, TypeOK
\* A step that touches neither the mailbox, nor the envelope, nor the tool.
<1>5. ASSUME approvals'[d] = approvals[d], envelope'[d] = envelope[d],
             executed'[d] = executed[d], outcomes'[d] = outcomes[d],
             wf'[d] = "none" \/ wf[d] # "none" \/ verdict[d] # "absent"
      PROVE  FlowAgrees(d)'
  BY <1>1, <1>2, <1>3, <1>4, <1>5, RowsForward DEF FlowAgrees, AlreadyDispatched
<1>6. ASSUME NEW c \in Client, SendApproval(c) PROVE FlowAgrees(d)'
  <2> DEFINE e == call[c].decision
             v == IF call[c].approved THEN "approved" ELSE "rejected"
  <2>1. call[c] \in Busy BY <1>6, BusyCall DEF SendApproval, TypeInv
  <2>2. e \in Decision BY <2>1 DEF Busy
  <2>3. verdict[e] = v BY <1>6, <2>1 DEF SendApproval, Agreement, CallAgrees, Busy
  <2>4. approvals' = approvals \/ approvals' = [approvals EXCEPT ![e] = Append(approvals[e], v)]
    BY <1>6 DEF SendApproval
  <2>5. /\ verdict' = verdict /\ envelope' = envelope /\ executed' = executed /\ wf' = wf
        /\ outcomes' = outcomes
    BY <1>6 DEF SendApproval, rows
  <2> HIDE DEF e, v
  <2>6. CASE approvals'[d] = approvals[d] BY <1>5, <2>5, <2>6
  <2>7. CASE approvals'[d] # approvals[d]
    <3>1. d = e /\ approvals'[d] = Append(approvals[d], v)
      BY <2>4, <2>7 DEF TypeInv, TypeOK
    <3>2. v \in {"approved", "rejected"} BY DEF v
    <3>3. \A i \in DOMAIN approvals'[d] : i \in DOMAIN approvals[d] \/ approvals'[d][i] = v
      BY <1>2, <3>1, <3>2
    <3>4. \A i \in DOMAIN approvals[d] : approvals'[d][i] = approvals[d][i]
      BY <1>2, <3>1, <3>2
    <3> QED BY <1>1, <2>3, <2>5, <3>1, <3>3, <3>4 DEF FlowAgrees, AlreadyDispatched
  <2> QED BY <2>6, <2>7
<1>7. CASE Receive(d)
  <2>1. approvals[d] # <<>> /\ 1 \in DOMAIN approvals[d] /\ Head(approvals[d]) = approvals[d][1]
    BY <1>2, <1>7 DEF Receive
  <2>2. envelope'[d] = verdict[d] BY <1>1, <1>7, <2>1 DEF Receive, FlowAgrees, TypeInv, TypeOK
  <2>3. approvals'[d] = Tail(approvals[d]) BY <1>7 DEF Receive, TypeInv, TypeOK
  <2>4. \A i \in DOMAIN approvals'[d] :
          i + 1 \in DOMAIN approvals[d] /\ approvals'[d][i] = approvals[d][i + 1]
    BY <1>2, <2>1, <2>3
  <2>5. UNCHANGED <<verdict, executed, outcomes, wf>> BY <1>7 DEF Receive, rows
  <2> QED BY <1>1, <2>2, <2>4, <2>5 DEF FlowAgrees, AlreadyDispatched
<1>8. CASE Execute(d) \/ RecordOutcome(d)
  <2>1. verdict[d] = "approved"
    BY <1>1, <1>8 DEF Execute, RecordOutcome, ShapeOf, FlowAgrees
  <2>2. UNCHANGED <<verdict, approvals, envelope, wf>> BY <1>8 DEF Execute, RecordOutcome
  <2> QED BY <1>1, <2>1, <2>2 DEF FlowAgrees
<1>9. CASE (Drive(d) \/ Poison(d)) /\ ~Receive(d) /\ ~Execute(d) /\ ~RecordOutcome(d)
  <2>1. /\ approvals' = approvals /\ envelope' = envelope /\ executed' = executed
        /\ outcomes' = outcomes
        /\ wf[d] # "none" \/ wf' = wf
    BY <1>1, <1>9
       DEF Drive, Recover, DeadlinePasses, ResolveExpired, AuditExpired, AuditRejected,
           PassGuard, SkipExecute, ExecuteUnknown, Retry, GiveUp, Poison, Checkpoint, Notify,
           rows, ShapeOf, Standing
  <2>2. wf'[d] = "none" \/ wf[d] # "none" \/ verdict[d] # "absent"
    BY <2>1 DEF TypeInv, TypeOK
  <2> QED BY <1>5, <2>1, <2>2
<1>10. ASSUME NEW e \in Decision, Drive(e) \/ Poison(e), d # e PROVE FlowAgrees(d)'
  BY <1>5, <1>10, OwnWrites DEF TypeInv, Still
<1>11. CASE Outside /\ approvals'[d] = approvals[d]
  BY <1>5, <1>11, OutsideWrites DEF TypeInv, Aside
<1>12. CASE Outside /\ approvals' # approvals
  <2>1. \E c \in Client : SendApproval(c)
    BY <1>12
       DEF Outside, ClientStep, Compose, Insert, Start, Answer, Abandon, AgentAsks, AgentEnds,
           RegisterApproval, DriveAgent, CheckpointApproval, AgentStarts, AgentHears,
           AgentRecovers, Register, Deregister, Halt, flow
  <2> QED BY <1>6, <2>1
<1>13. CASE Crash BY <1>5, <1>13 DEF Crash, rows
<1> QED BY <1>7, <1>8, <1>9, <1>10, <1>11, <1>12, <1>13 DEF Next, Outside

\* Every step leaves rows, messages, callers and agent in agreement.
LEMMA AgreementStep == ASSUME TypeInv, Agreement, Next PROVE Agreement'
<1>1. \A c \in Client : CallAgrees(c)' BY CallAgreesStep
<1>2. \A d \in Decision : FlowAgrees(d)' BY FlowAgreesStep
<1>3. /\ \A i \in DOMAIN asked : asked[i] \in Decision /\ verdict'[asked[i]] # "absent"
      /\ body.pc = "ran" => body.decision \in Decision /\ verdict'[body.decision] # "absent"
  <2>1. \A i \in DOMAIN asked : asked[i] \in Decision /\ verdict[asked[i]] # "absent"
    BY DEF Agreement, TypeInv, TypeOK
  <2>2. body.pc = "ran" => body.decision \in Decision /\ verdict[body.decision] # "absent"
    BY DEF Agreement, TypeInv, TypeOK
  <2> QED BY <2>1, <2>2, RowsForward
<1> DEFINE Asked == /\ \A i \in DOMAIN asked : verdict[asked[i]] # "absent"
                    /\ agent \in {"start", "await"} => asked # <<>>
                    /\ body.pc = "ran" => verdict[body.decision] # "absent"
<1>4. Asked'
  <2>1. CASE asked' = asked /\ (agent' \in {"start", "await"} => agent' = agent \/ agent = "start")
             /\ (body' = body \/ body'.pc # "ran")
    BY <1>3, <2>1 DEF Agreement
  <2>2. CASE RegisterApproval
    <3> PICK d \in Decision : /\ verdict' = [verdict EXCEPT ![d] = "open"]
                              /\ body' = [pc |-> "ran", decision |-> d]
      BY <2>2 DEF RegisterApproval
    <3>1. verdict'[d] = "open" /\ body'.decision = d BY DEF TypeInv, TypeOK
    <3>2. asked' = asked /\ agent' = "register" BY <2>2 DEF RegisterApproval
    <3> QED BY <1>3, <3>1, <3>2
  <2>3. CASE CheckpointApproval
    <3>1. asked' = Append(asked, body.decision) /\ body'.pc = "idle"
      BY <2>3 DEF CheckpointApproval
    <3>2. asked \in Seq(Decision) /\ body.decision \in Decision
      BY <1>3, <2>3 DEF CheckpointApproval, TypeInv, TypeOK
    <3>3. verdict'[body.decision] # "absent" BY <1>3, <2>3 DEF CheckpointApproval
    <3>4. /\ asked' # <<>>
          /\ \A i \in DOMAIN asked' :
               \/ i \in DOMAIN asked /\ asked'[i] = asked[i]
               \/ asked'[i] = body.decision
      BY <3>1, <3>2
    <3> QED BY <1>3, <3>1, <3>3, <3>4
  <2>4. CASE AgentStarts \/ AgentHears \/ AgentAsks \/ AgentEnds \/ AgentRecovers \/ Halt \/ Crash
    BY <2>1, <2>4
       DEF AgentStarts, AgentHears, AgentAsks, AgentEnds, AgentRecovers, Halt, Crash, stage
  <2>5. ASSUME NEW c \in Client, ClientStep(c) PROVE Asked'
    BY <2>1, <2>5
       DEF ClientStep, Compose, Insert, Start, Answer, SendApproval, Abandon, stage
  <2>6. ASSUME NEW d \in Decision, Drive(d) \/ Poison(d) PROVE Asked'
    BY <2>1, <2>6
       DEF Drive, Recover, Receive, DeadlinePasses, ResolveExpired, AuditExpired, AuditRejected,
           PassGuard, Execute, ExecuteUnknown, SkipExecute, RecordOutcome, Retry, GiveUp, Poison,
           Checkpoint, Notify, stage
  <2>7. ASSUME NEW d \in Remote, Register(d) \/ Deregister(d) PROVE Asked'
    BY <2>1, <2>7 DEF Register, Deregister, stage
  <2> HIDE DEF Asked
  <2> QED BY <2>2, <2>3, <2>4, <2>5, <2>6, <2>7 DEF Next, DriveAgent
<1> QED BY <1>1, <1>2, <1>4 DEF Agreement
-----------------------------------------------------------------------------
(* The theorems. *)

\* Nothing has happened initially.
LEMMA InitInv == ASSUME Init PROVE Inv
<1> USE DEF Init
<1>1. TypeOK
  <2>1. body \in [pc : {"off", "idle"}] OBVIOUS
  <2>2. call \in [Client -> Composing \cup Busy \cup {Idle}] OBVIOUS
  <2>3. outcomes \in [Decision -> Seq(Outcome)] OBVIOUS
  <2>4. /\ approvals \in [Decision -> Seq({"approved", "rejected"})]
        /\ asked \in Seq(Decision)
    OBVIOUS
  <2>5. calls \in 0 .. MaxCalls /\ crashes \in 0 .. MaxCrashes /\ retries \in 0 .. MaxRetries
    OBVIOUS
  <2> QED BY <2>1, <2>2, <2>3, <2>4, <2>5 DEF TypeOK, Kind
<1>2. Agreement BY DEF Agreement, CallAgrees, FlowAgrees, AlreadyDispatched, Idle
<1>3. StepShape BY DEF StepShape, ShapeOf, AlreadyDispatched
<1>4. Ledger BY DEF Ledger, LedgerOf, AlreadyDispatched
<1>5. OneOutcome /\ Budget
  <2> SUFFICES ASSUME NEW d \in Decision
               PROVE  /\ Len(outcomes[d]) <= 1 /\ executed[d] <= 1 + crashes
                      /\ Len(outcomes[d]) <= 1 + crashes + retries
                      /\ executed[d] <= 1 + crashes + retries /\ BudgetOf(d)
    BY DEF OneOutcome, Budget
  <2>1. outcomes[d] = <<>> /\ executed[d] = 0 /\ crashes = 0 /\ retries = 0 OBVIOUS
  <2> HIDE DEF Init
  <2>2. Len(outcomes[d]) = 0 BY <2>1
  <2> QED BY <2>1, <2>2 DEF BudgetOf
<1> QED BY <1>1, <1>2, <1>3, <1>4, <1>5 DEF Inv

\* The parts of the invariant need one another, and every step keeps all of them.
LEMMA NextInv == ASSUME Inv, [Next]_vars PROVE Inv'
<1>1. CASE Next
  <2>1. TypeInv /\ Agreement /\ Budget /\ OneOutcome BY DEF Inv, TypeInv
  <2>2. TypeOK' BY <1>1, <2>1, TypeStep DEF TypeInv
  <2> QED BY <1>1, <2>1, <2>2, AgreementStep, ShapeStep, LedgerStep, OneOutcomeStep DEF Inv
<1>2. CASE UNCHANGED vars
  <2> USE <1>2 DEF vars, rows, flow, stage, clients, tools, bounds, Inv
  <2>1. TypeOK' BY DEF TypeOK
  <2>2. Agreement' BY DEF Agreement, CallAgrees, FlowAgrees, AlreadyDispatched
  <2>3. StepShape' BY DEF StepShape, ShapeOf, AlreadyDispatched
  <2>4. Ledger' BY DEF Ledger, LedgerOf, Sound, AlreadyDispatched
  <2>5. OneOutcome' /\ Budget' BY DEF OneOutcome, Budget, BudgetOf
  <2> QED BY <2>1, <2>2, <2>3, <2>4, <2>5
<1> QED BY <1>1, <1>2

\* The inductive invariant of the tool-call flow.
THEOREM Invariance == Spec => []Inv
<1> QED BY InitInv, NextInv, PTL DEF Spec

\* The variables keep their types.
THEOREM TypeCorrect == Spec => []TypeOK
<1>1. Inv => TypeOK BY DEF Inv
<1> QED BY <1>1, Invariance, PTL

\* A call that is not safe to repeat, and was not run again while the registry lacked its
\* tool, has one recorded outcome at most, whatever is retried or dies, and reaches the
\* tool at most once more than the process has died.  Of any call, every outcome and every
\* run of the tool after the first is paid for by a crash or a retry.
THEOREM OutcomeOnce == Spec => []OneOutcome
<1>1. Inv => OneOutcome BY DEF Inv
<1> QED BY <1>1, Invariance, PTL

\* What a waiting agent is told is what happened to its call.
THEOREM AgentToldTheTruth == Spec => []ToldTheTruth
<1>1. ASSUME Inv PROVE ToldTheTruth
  <2> SUFFICES ASSUME NEW d \in Decision, told[d] # "none"
               PROVE  /\ told[d] \in Outcome => verdict[d] = "approved" /\ AlreadyDispatched(d)
                      /\ told[d] \in {"rejected", "expired"}
                           => verdict[d] = told[d] /\ executed[d] = 0
                      /\ told[d] = "bad" \/ (told[d] = "clean" /\ crashes = 0)
                           => outcomes[d][Len(outcomes[d])] = told[d]
    BY DEF ToldTheTruth, Outcome
  <2>1. ShapeOf(d) /\ LedgerOf(d) /\ FlowAgrees(d) /\ executed[d] \in Nat
    BY <1>1 DEF Inv, StepShape, Ledger, Agreement, TypeOK
  <2>2. told[d] = result[d] /\ d \in waiter /\ at[d] = "notify" BY <2>1 DEF ShapeOf
  <2>3. Sound(d, told[d]) BY <2>1, <2>2 DEF LedgerOf
  <2>4. AlreadyDispatched(d) => verdict[d] = "approved" BY <2>1 DEF LedgerOf, FlowAgrees
  <2>5. told[d] \in {"rejected", "expired"} => executed[d] = 0
    BY <2>1, <2>3 DEF Sound, FlowAgrees
  <2> QED BY <2>2, <2>3, <2>4, <2>5 DEF Sound
<1> QED BY <1>1, Invariance, PTL

\* A call's workflow that ends well leaves an outcome or an audit, or ends in silence
\* only after a late answer or a crash, and then without having called the tool.
THEOREM EveryEndAccounted == Spec => []EndIsAccounted
<1>1. ASSUME Inv PROVE EndIsAccounted
  <2> SUFFICES ASSUME NEW d \in Decision, wf[d] = "done"
               PROVE  IF result[d] = "none"
                      THEN /\ executed[d] = 0
                           /\ verdict[d] \in {"approved", "rejected"} \/ crashes > 0
                      ELSE AlreadyDispatched(d) \/ audits[d] > 0
    BY DEF EndIsAccounted
  <2>1. Sound(d, result[d]) BY <1>1 DEF Inv, StepShape, ShapeOf, Ledger, LedgerOf
  <2>2. result[d] \in Outcome \cup {"rejected", "expired", "none"}
    BY <1>1 DEF Inv, TypeOK, Kind
  <2> QED BY <2>1, <2>2 DEF Sound
<1> QED BY <1>1, Invariance, PTL

\* Each step is one of the abstract decision, or leaves it as it is.
LEMMA DecisionStep == ASSUME Inv, [Next]_vars PROVE [Promise!Next]_(Promise!vars)
<1> DEFINE settled == [d \in Decision |-> outcomes[d] # <<>>]
<1>0. TypeOK BY DEF Inv
<1>1. ASSUME UNCHANGED <<verdict, executed, outcomes, slipped>> PROVE UNCHANGED Promise!vars
  BY <1>1 DEF Promise!vars
<1>2. ASSUME NEW d \in Decision, NEW v, verdict' = [verdict EXCEPT ![d] = v],
             UNCHANGED <<executed, outcomes, slipped>>,
             \/ verdict[d] = "absent" /\ v \in {"open", "approved"}
             \/ verdict[d] = "open" /\ v \in {"approved", "rejected", "expired"}
      PROVE  Promise!Next
  <2>1. Promise!Appear(d) \/ Promise!Decide(d)
    BY <1>2 DEF Promise!Appear, Promise!Decide, Promise!Resolution
  <2> QED BY <2>1 DEF Promise!Next
<1>3. ASSUME NEW c \in Client, Insert(c) PROVE Promise!Next
  BY <1>2, <1>3 DEF Insert, tools
<1>4. ASSUME NEW c \in Client, NEW d \in Decision, Answer(c, d) PROVE Promise!Next
  BY <1>2, <1>4 DEF Answer, Resolve, tools
<1>5. CASE RegisterApproval BY <1>2, <1>5 DEF RegisterApproval, tools
<1>6. ASSUME NEW d \in Decision, ResolveExpired(d)
      PROVE  Promise!Next \/ UNCHANGED Promise!vars
  <2>1. UNCHANGED <<executed, outcomes, slipped>> BY <1>6 DEF ResolveExpired, tools
  <2>2. CASE Resolve(d, "expired") BY <1>2, <2>1, <2>2 DEF Resolve
  <2>3. CASE verdict' = verdict BY <1>1, <2>1, <2>3
  <2> QED BY <1>6, <2>2, <2>3 DEF ResolveExpired
<1>7. ASSUME NEW d \in Decision, Execute(d) PROVE Promise!Next
  <2>1. verdict[d] = "approved"
    BY <1>7 DEF Execute, Inv, Agreement, FlowAgrees, StepShape, ShapeOf
  <2>2. settled[d] => d \in Repeatable \cup slipped
    BY <1>7 DEF Execute, AlreadyDispatched, Inv, Ledger, LedgerOf
  <2>3. Promise!Act(d) BY <1>7, <2>1, <2>2 DEF Execute, Promise!Act, tools
  <2> QED BY <2>3 DEF Promise!Next
<1>8. ASSUME NEW d \in Decision, RecordOutcome(d) PROVE Promise!Next
  <2>1. (executed[d] > 0 \/ d \in Remote) /\ out[d] \in Outcome
    BY <1>8 DEF RecordOutcome, Inv, Ledger, LedgerOf
  <2>2. outcomes' = [outcomes EXCEPT ![d] = Append(@, out[d])] BY <1>8 DEF RecordOutcome
  <2>3. outcomes[d] \in Seq(Outcome) BY <1>0 DEF TypeOK
  <2>4. Append(outcomes[d], out[d]) # <<>> BY <2>1, <2>3, LastOfAppend
  <2>5. settled' = [settled EXCEPT ![d] = TRUE] BY <1>0, <2>2, <2>4 DEF TypeOK
  <2>6. UNCHANGED <<verdict, executed, slipped>> BY <1>8 DEF RecordOutcome, tools
  <2>7. verdict[d] = "approved"
    BY <1>8 DEF RecordOutcome, Inv, Agreement, FlowAgrees, StepShape, ShapeOf
  <2>8. Promise!Settle(d) BY <2>1, <2>5, <2>6, <2>7 DEF Promise!Settle
  <2> QED BY <2>8 DEF Promise!Next
<1>9. ASSUME NEW d \in Decision, PassGuard(d) PROVE Promise!Next \/ UNCHANGED Promise!vars
  <2>1. UNCHANGED <<verdict, executed, outcomes>> BY <1>9 DEF PassGuard, rows
  <2>2. CASE slipped' = slipped BY <1>1, <2>1, <2>2
  <2>3. CASE slipped' # slipped
    <3>1. /\ d \notin Repeatable /\ AlreadyDispatched(d) /\ d \notin registry
          /\ slipped' = slipped \cup {d}
      BY <1>9, <2>3 DEF PassGuard
    <3>2. d \in Remote BY <1>0, <3>1 DEF TypeOK
    <3>3. settled' = settled BY <2>1
    <3>4. Promise!Miss(d) BY <2>1, <3>1, <3>2, <3>3 DEF Promise!Miss, AlreadyDispatched
    <3> QED BY <3>4 DEF Promise!Next
  <2> QED BY <2>2, <2>3
<1>10. ASSUME NEW c \in Client,
              Compose(c) \/ Start(c) \/ SendApproval(c) \/ Abandon(c)
       PROVE  UNCHANGED <<verdict, executed, outcomes, slipped>>
  BY <1>10 DEF Compose, Start, SendApproval, Abandon, rows, tools
<1>11. ASSUME NEW d \in Decision, Drive(d) \/ Poison(d), ~ResolveExpired(d), ~PassGuard(d),
              ~Execute(d), ~RecordOutcome(d)
       PROVE  UNCHANGED <<verdict, executed, outcomes, slipped>>
  BY <1>11
     DEF Drive, Recover, Receive, DeadlinePasses, AuditExpired, AuditRejected, SkipExecute,
         ExecuteUnknown, Retry, GiveUp, Poison, Checkpoint, Notify, rows, tools
<1>12. ASSUME NEW d \in Remote, Register(d) \/ Deregister(d)
       PROVE  UNCHANGED <<verdict, executed, outcomes, slipped>>
  BY <1>12 DEF Register, Deregister, rows
<1>13. CASE AgentAsks \/ AgentEnds \/ DriveAgent \/ Halt \/ Crash \/ UNCHANGED vars
  <2>1. UNCHANGED <<verdict, executed, outcomes, slipped>>
    BY <1>13
       DEF AgentAsks, AgentEnds, DriveAgent, CheckpointApproval, AgentStarts, AgentHears,
           AgentRecovers, Halt, Crash, vars, rows, tools
  <2> QED BY <1>1, <2>1
<1> QED
  BY <1>1, <1>3, <1>4, <1>5, <1>6, <1>7, <1>8, <1>9, <1>10, <1>11, <1>12, <1>13
     DEF Next, ClientStep

\* The flow implements the abstract decision: it is resolved once, the tool acts only on
\* an approval, and not again after an outcome unless that is safe or its tool was missing.
THEOREM Implements == Spec => DecisionsSpec
<1>1. ASSUME Init PROVE Promise!Init BY <1>1 DEF Init, Promise!Init
<1> QED BY <1>1, DecisionStep, Invariance, PTL DEF Spec, DecisionsSpec, Promise!Spec
=============================================================================
