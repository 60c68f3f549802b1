--------------------------- MODULE FeedbackProofs ---------------------------
(***************************************************************************)
(* Proofs about Feedback, for every number of callers, calls and faults.    *)
(* Inv is inductive: StepShape ties the goroutine to the durable position   *)
(* and to the decision, CallShape and Messages say what an answer on its    *)
(* way may claim, Ledger counts records and demotions, and Unfailing says   *)
(* where an answer is as long as nothing has failed.                        *)
(***************************************************************************)
EXTENDS Feedback, TLAPS

USE FeedbackAssumption

Closed == decision \in {"accepted", "dismissed", "expired"}

\* An answer that may be recorded.
Justified(a) ==
  /\ decision \notin {"absent", "open"}
  /\ a.accepted \/ (decision = "dismissed" /\ resolution = a.rating)
  /\ a.note => notes # <<>>

StepShape ==
  /\ thr = "opening" => at = "open"
  /\ thr = "expired" => at = "expire" /\ decision = "expired"
  /\ thr = "recorded" => at = "record"
  /\ thr = "ran" => at \in {"open", "expire", "record"}
  /\ thr # "off" => wf = "pending"
  /\ thr = "ran" /\ at = "open" => decision # "absent"
  /\ thr = "ran" /\ at = "expire" => Closed
  /\ at # "open" => decision # "absent"
  /\ at \in {"record", "end"} => Closed
  /\ decision = "absent" => consulted = {} /\ notes = <<>> /\ \A c \in Client : call[c] = Idle
  /\ decision = "expired" => at \in {"expire", "end"} /\ records = <<>>
  /\ wf = "done" => at = "end"
  /\ wf = "none" => at = "open"

CallFits(c) ==
  /\ call[c].pc = "note" => call[c].answer.note /\ call[c].answer.accepted
  /\ call[c].pc = "resolve" /\ call[c].answer.note => notes # <<>> /\ call[c].answer.accepted
  /\ call[c].pc = "send" => Justified(call[c].answer)

CallShape == \A c \in Client : CallFits(c)

Messages ==
  /\ \A k \in DOMAIN inbox : Justified(inbox[k])
  /\ at = "record" => Justified(envelope)

Ledger ==
  /\ \A k \in DOMAIN records : Justified(records[k])
  /\ at \in {"open", "wait", "expire"} => records = <<>>
  /\ Len(records) <= IF at = "record" /\ thr \in {"idle", "off"} THEN faults ELSE 1 + faults
  /\ demotions + (IF thr = "recorded" THEN 1 ELSE 0) <= Len(records)
  /\ thr = "recorded" \/ demotions > 0 => \E k \in DOMAIN records : records[k].rating \in {1, 2}
  /\ at = "record" /\ thr \in {"recorded", "ran"} => records # <<>>

Unfailing ==
  faults = 0 =>
    /\ decision \in {"accepted", "dismissed"} =>
         \/ inbox # <<>> \/ \E c \in Client : call[c].pc = "send"
         \/ at = "record" \/ records # <<>>
    /\ decision # "expired" \/ thr = "expired" => expiries = 0
    /\ decision = "expired" /\ thr # "expired" => expiries = 1

Inv ==
  /\ TypeOK /\ StepShape /\ CallShape /\ Messages /\ Ledger /\ Unfailing /\ NoteClosesDecision
-----------------------------------------------------------------------------
(* Type correctness. *)

\* A caller that closes the conversation has an answer.
LEMMA ClosingCall ==
  ASSUME TypeOK, NEW c \in Client, call[c].pc \in {"note", "resolve", "send"}
  PROVE  call[c] \in Closing /\ call[c].answer \in Envelope
<1>1. call[c] \in Closing \cup Talking \cup {Idle} BY DEF TypeOK
<1>2. CASE call[c] \in Talking BY <1>2 DEF Talking
<1>3. CASE call[c] = Idle BY <1>3 DEF Idle
<1>4. CASE call[c] \in Closing BY <1>4 DEF Closing
<1> QED BY <1>1, <1>2, <1>3, <1>4

\* A caller that talks has the payload it loaded.
LEMMA TalkingCall ==
  ASSUME TypeOK, NEW c \in Client, call[c].pc \in {"ask", "reply", "store"}
  PROVE  call[c] \in Talking
<1>1. call[c] \in Closing \cup Talking \cup {Idle} BY DEF TypeOK
<1>2. CASE call[c] \in Closing BY <1>2 DEF Closing
<1>3. CASE call[c] = Idle BY <1>3 DEF Idle
<1> QED BY <1>1, <1>2, <1>3

\* The types hold at the start.
LEMMA TypeInit == Init => TypeOK
  BY DEF Init, TypeOK, FeedbackAssumption, Unheard, Envelope, Idle

\* Every step keeps the types.
LEMMA TypeStep == TypeOK /\ [Next]_vars => TypeOK'
<1> SUFFICES ASSUME TypeOK, [Next]_vars PROVE TypeOK' OBVIOUS
<1> USE DEF TypeOK
<1>1. CASE StartFeedbackWorkflow \/ Recover \/ CheckExisting \/ Return
  BY <1>1
     DEF StartFeedbackWorkflow, Recover, CheckExisting, Return, row, talk, effects, loop
<1>2. CASE Open BY <1>2 DEF Open, effects, loop
<1>3. CASE Receive
  <2>1. envelope' \in Envelope /\ inbox' \in Seq(Envelope)
    <3> HIDE DEF TypeOK
    <3>1. inbox \in Seq(Envelope) /\ inbox # <<>> BY <1>3 DEF Receive, TypeOK
    <3> QED BY <1>3, <3>1 DEF Receive
  <2> QED BY <1>3, <2>1 DEF Receive, row, talk, effects
<1>4. CASE Deadline \/ Checkpoint BY <1>4 DEF Deadline, Checkpoint, row, talk, effects
<1>5. CASE ExpireFeedback
  BY <1>5 DEF ExpireFeedback, Resolve, FeedbackAssumption, row, talk, effects, loop
<1>6. CASE RecordExpiry \/ Demote
  <2>1. CASE RecordExpiry BY <2>1 DEF RecordExpiry, row, talk, loop
  <2>2. CASE Demote BY <2>2 DEF Demote, row, talk, loop
  <2> QED BY <1>6, <2>1, <2>2
<1>7. CASE RecordFeedback
  <2>1. records' \in Seq(Envelope)
    <3> HIDE DEF TypeOK
    <3>1. records \in Seq(Envelope) /\ envelope \in Envelope BY DEF TypeOK
    <3> QED BY <1>7, <3>1 DEF RecordFeedback
  <2> QED BY <1>7, <2>1 DEF RecordFeedback, row, talk, loop
<1>8. ASSUME NEW c \in Client, AcceptFeedbackGuidance(c) PROVE TypeOK'
  <2>1. PICK a \in Envelope :
          call' = [call EXCEPT ![c] =
                     [pc |-> IF a.note THEN "note" ELSE "resolve", answer |-> a]]
    BY <1>8 DEF AcceptFeedbackGuidance
  <2>2. [pc |-> IF a.note THEN "note" ELSE "resolve", answer |-> a] \in Closing
    BY DEF Closing
  <2>3. call' \in [Client -> Closing \cup Talking \cup {Idle}] BY <2>1, <2>2
  <2> QED
    BY <1>8, <2>3 DEF AcceptFeedbackGuidance, Load, FeedbackAssumption, row, talk, effects, loop
<1>9. ASSUME NEW c \in Client, DismissFeedback(c) PROVE TypeOK'
  <2>1. PICK r \in Rating :
          call' = [call EXCEPT ![c] =
                     [pc |-> "resolve", answer |-> [Unheard EXCEPT !.rating = r]]]
    BY <1>9 DEF DismissFeedback
  <2>2. [pc |-> "resolve", answer |-> [Unheard EXCEPT !.rating = r]] \in Closing
    BY DEF Closing, Unheard, Envelope
  <2>3. call' \in [Client -> Closing \cup Talking \cup {Idle}] BY <2>1, <2>2
  <2> QED
    BY <1>9, <2>3 DEF DismissFeedback, Load, FeedbackAssumption, row, talk, effects, loop
<1>10. ASSUME NEW c \in Client, SendFeedbackMessage(c) PROVE TypeOK'
  <2>1. [pc |-> "ask", base |-> consulted, found |-> {}] \in Talking BY DEF Talking
  <2>2. call' \in [Client -> Closing \cup Talking \cup {Idle}]
    BY <1>10, <2>1 DEF SendFeedbackMessage
  <2> QED
    BY <1>10, <2>2 DEF SendFeedbackMessage, Load, FeedbackAssumption, row, talk, effects, loop
<1>11. ASSUME NEW c \in Client, call[c] \in Closing,
              \/ \E p \in {"resolve", "send"} : call' = [call EXCEPT ![c].pc = p]
              \/ call' = [call EXCEPT ![c] = Idle]
       PROVE  call' \in [Client -> Closing \cup Talking \cup {Idle}]
  <2>1. \A p \in {"resolve", "send"} : [call[c] EXCEPT !.pc = p] \in Closing
    BY <1>11 DEF Closing
  <2> QED BY <1>11, <2>1
<1>12. ASSUME NEW c \in Client,
              InsertGuidance(c) \/ ResolveFirst(c) \/ ResolveSecond(c) \/ ResolveFeedback(c)
       PROVE  TypeOK'
  <2>1. call[c] \in Closing /\ call[c].answer \in Envelope
    BY <1>12, ClosingCall DEF InsertGuidance, ResolveFirst, ResolveSecond, ResolveFeedback
  <2>2. call' \in [Client -> Closing \cup Talking \cup {Idle}]
    <3>1. \/ \E p \in {"resolve", "send"} : call' = [call EXCEPT ![c].pc = p]
          \/ call' = [call EXCEPT ![c] = Idle]
      BY <1>12 DEF InsertGuidance, ResolveFirst, ResolveSecond, ResolveFeedback
    <3> QED BY <1>11, <2>1, <3>1
  <2>3. CASE InsertGuidance(c)
    BY <2>2, <2>3 DEF InsertGuidance, row, talk, effects, loop
  <2>4. CASE ResolveFirst(c)
    <3>1. call[c].answer.rating \in Rating \cup {0} BY <2>1 DEF Envelope
    <3> QED BY <2>2, <2>4, <3>1 DEF ResolveFirst, Resolve, talk, effects, loop
  <2>5. CASE ResolveSecond(c)
    BY <2>2, <2>5 DEF ResolveSecond, row, talk, effects, loop
  <2>6. CASE ResolveFeedback(c)
    <3>1. inbox' \in Seq(Envelope)
      <4> HIDE DEF TypeOK
      <4>1. inbox \in Seq(Envelope) BY DEF TypeOK
      <4> QED BY <2>1, <2>6, <4>1 DEF ResolveFeedback
    <3> QED BY <2>2, <2>6, <3>1 DEF ResolveFeedback, row, talk, effects, loop
  <2> QED BY <1>12, <2>3, <2>4, <2>5, <2>6
<1>13. ASSUME NEW c \in Client, InsertMessage(c) \/ Reply(c) \/ SetPayload(c) PROVE TypeOK'
  <2>1. call[c] \in Talking BY <1>13, TalkingCall DEF InsertMessage, Reply, SetPayload
  <2>2. CASE InsertMessage(c)
    <3>1. [call[c] EXCEPT !.pc = "reply"] \in Talking BY <2>1 DEF Talking
    <3>2. call' \in [Client -> Closing \cup Talking \cup {Idle}]
      BY <2>2, <3>1 DEF InsertMessage
    <3> QED BY <2>2, <3>2 DEF InsertMessage, row, effects, loop
  <2>3. CASE Reply(c)
    <3>1. PICK found \in SUBSET ContextTool :
            call' = [call EXCEPT ![c] = [@ EXCEPT !.pc = "store", !.found = found]]
      BY <2>3 DEF Reply
    <3>2. [call[c] EXCEPT !.pc = "store", !.found = found] \in Talking BY <2>1 DEF Talking
    <3>3. call' \in [Client -> Closing \cup Talking \cup {Idle}] BY <3>1, <3>2
    <3>4. thread' \in Seq({"agent", "user"}) BY <2>3 DEF Reply
    <3>5. /\ UNCHANGED <<decision, resolution, consulted, notes, records, expiries, demotions>>
          /\ UNCHANGED <<wf, at, envelope, inbox, thr, calls, faults>>
      BY <2>3 DEF Reply, row, effects, loop
    <3> QED BY <3>3, <3>4, <3>5
  <2>4. CASE SetPayload(c)
    <3>1. consulted' \subseteq ContextTool
      BY <2>1, <2>4 DEF SetPayload, Merge, Talking
    <3> QED BY <2>4, <3>1 DEF SetPayload, row, effects, loop
  <2> QED BY <1>13, <2>2, <2>3, <2>4
<1>14. ASSUME NEW n \in DOMAIN notes, DeactivateAgentGuidance(n) PROVE TypeOK'
  <2>1. notes' \in Seq({"active", "dismissed"}) BY <1>14 DEF DeactivateAgentGuidance
  <2> QED BY <1>14, <2>1 DEF DeactivateAgentGuidance, row, talk, effects, loop
<1>15. CASE Crash \/ FailStep \/ \E c \in Client : FailCall(c)
  <2>1. faults' \in 0 .. MaxFaults
    BY <1>15 DEF Crash, FailStep, FailCall, FeedbackAssumption
  <2>2. CASE Crash BY <2>1, <2>2 DEF Crash, row, talk, effects, loop
  <2>3. CASE FailStep BY <2>1, <2>3 DEF FailStep, row, talk, effects
  <2>4. ASSUME NEW c \in Client, FailCall(c) PROVE TypeOK'
    BY <2>1, <2>4 DEF FailCall, row, talk, effects, loop
  <2> QED BY <1>15, <2>2, <2>3, <2>4
<1>16. CASE UNCHANGED vars BY <1>16 DEF vars, row, talk, effects, loop
<1> QED
  BY <1>1, <1>2, <1>3, <1>4, <1>5, <1>6, <1>7, <1>8, <1>9, <1>10, <1>12, <1>13, <1>14, <1>15,
     <1>16 DEF Next, Step, CallStep
-----------------------------------------------------------------------------
(* What cannot be taken back. *)

\* A resolved decision stays as it is, and a conversation with notes keeps some.
LEMMA Lasting ==
  ASSUME TypeOK, [Next]_vars
  PROVE  /\ decision \notin {"absent", "open"} => UNCHANGED <<decision, resolution>>
         /\ notes # <<>> => notes' # <<>>
<1>1. CASE UNCHANGED <<decision, resolution, notes>> BY <1>1
<1>2. CASE Open BY <1>2 DEF Open
<1>3. CASE ExpireFeedback BY <1>3 DEF ExpireFeedback, row
<1>4. ASSUME NEW c \in Client, InsertGuidance(c)
      PROVE  /\ UNCHANGED <<decision, resolution>>
             /\ notes # <<>> => notes' # <<>>
  <2>1. notes' = Append(notes, "active") /\ notes \in Seq({"active", "dismissed"})
    BY <1>4 DEF InsertGuidance, TypeOK
  <2> QED BY <1>4, <2>1 DEF InsertGuidance, row
<1>5. ASSUME NEW c \in Client, ResolveFirst(c)
      PROVE  decision = "open" /\ UNCHANGED notes
  BY <1>5 DEF ResolveFirst
<1>6. ASSUME NEW n \in DOMAIN notes, DeactivateAgentGuidance(n)
      PROVE  /\ UNCHANGED <<decision, resolution>>
             /\ notes # <<>> => notes' # <<>>
  <2>1. notes' = [notes EXCEPT ![n] = "dismissed"] /\ notes \in Seq({"active", "dismissed"})
    BY <1>6 DEF DeactivateAgentGuidance, TypeOK
  <2>2. DOMAIN notes' = DOMAIN notes BY <2>1
  <2> QED BY <1>6, <2>1, <2>2 DEF DeactivateAgentGuidance, row
<1>7. ASSUME \/ StartFeedbackWorkflow \/ Recover \/ CheckExisting \/ Receive \/ Deadline
             \/ RecordExpiry \/ RecordFeedback \/ Demote \/ Checkpoint \/ Return
             \/ FailStep \/ Crash \/ UNCHANGED vars
      PROVE  UNCHANGED <<decision, resolution, notes>>
  BY <1>7
     DEF StartFeedbackWorkflow, Recover, CheckExisting, Receive, Deadline, RecordExpiry,
         RecordFeedback, Demote, Checkpoint, Return, FailStep, Crash, vars, row
<1>8. ASSUME NEW c \in Client,
             \/ AcceptFeedbackGuidance(c) \/ DismissFeedback(c) \/ ResolveSecond(c)
             \/ ResolveFeedback(c) \/ SendFeedbackMessage(c) \/ InsertMessage(c) \/ Reply(c)
             \/ SetPayload(c) \/ FailCall(c)
      PROVE  UNCHANGED <<decision, resolution, notes>>
  BY <1>8
     DEF AcceptFeedbackGuidance, DismissFeedback, ResolveSecond, ResolveFeedback,
         SendFeedbackMessage, InsertMessage, Reply, SetPayload, FailCall, row
<1> QED
  BY <1>1, <1>2, <1>3, <1>4, <1>5, <1>6, <1>7, <1>8 DEF Next, Step, CallStep

\* What may be recorded once may be recorded later.
LEMMA JustifiedStays ==
  ASSUME TypeOK, [Next]_vars, NEW a, Justified(a)
  PROVE  Justified(a)'
  BY Lasting DEF Justified

\* A caller that does nothing fits, whatever the others do.
LEMMA CallFitsStays ==
  ASSUME TypeOK, [Next]_vars, NEW c \in Client, CallFits(c), call'[c] = call[c]
  PROVE  CallFits(c)'
<1>1. Justified(call[c].answer) => Justified(call[c].answer)'
  <2> DEFINE a == call[c].answer
  <2>1. ASSUME Justified(a) PROVE Justified(a)' BY <2>1, Lasting DEF Justified
  <2> QED BY <2>1
<1> QED BY <1>1, Lasting DEF CallFits
-----------------------------------------------------------------------------
(* The parts of the invariant. *)

\* The goroutine fits its position and the decision.
LEMMA StepShapeStep == Inv /\ [Next]_vars => StepShape'
<1> SUFFICES ASSUME Inv, [Next]_vars PROVE StepShape' OBVIOUS
<1>0. /\ TypeOK /\ StepShape
      /\ at \in {"open", "wait", "expire"} => records = <<>>
      /\ decision \in {"absent", "open"} => inbox = <<>>
  <2>1. decision \in {"absent", "open"} => inbox = <<>>
    <3>1. inbox # <<>> => 1 \in DOMAIN inbox BY DEF Inv, TypeOK
    <3> QED BY <3>1 DEF Inv, Messages, Justified
  <2> QED BY <2>1 DEF Inv, Ledger
<1>1. CASE StartFeedbackWorkflow \/ Recover \/ CheckExisting \/ Return
  <2>1. UNCHANGED <<decision, at, records, consulted, notes, call>>
    BY <1>1 DEF StartFeedbackWorkflow, Recover, CheckExisting, Return, row, talk, effects, loop
  <2>2. CASE StartFeedbackWorkflow
    BY <1>0, <2>1, <2>2 DEF StartFeedbackWorkflow, StepShape, Closed
  <2>3. CASE Recover BY <1>0, <2>1, <2>3 DEF Recover, loop, StepShape, Closed
  <2>4. CASE CheckExisting
    BY <1>0, <2>1, <2>4 DEF CheckExisting, Standing, loop, StepShape, Closed
  <2>5. CASE Return BY <1>0, <2>1, <2>5 DEF Return, Standing, StepShape, Closed
  <2> QED BY <1>1, <2>2, <2>3, <2>4, <2>5
<1>2. CASE Open BY <1>0, <1>2 DEF Open, effects, loop, StepShape, Closed
<1>3. CASE Receive \/ Deadline
  <2>1. UNCHANGED <<decision, consulted, notes, records, wf, thr, call>>
    BY <1>3 DEF Receive, Deadline, row, talk, effects
  <2>2. thr = "idle" /\ wf = "pending" /\ at = "wait" BY <1>3 DEF Receive, Deadline, Standing
  <2>3. at' = "record" => Closed BY <1>0, <1>3, <2>2 DEF Receive, Deadline, Closed, TypeOK
  <2>4. at' \in {"record", "expire"} /\ decision # "expired"
    BY <1>0, <1>3, <2>2 DEF Receive, Deadline, StepShape
  <2> QED BY <1>0, <2>1, <2>2, <2>3, <2>4 DEF StepShape, Closed
<1>4. CASE ExpireFeedback
  <2>1. thr = "idle" /\ wf = "pending" /\ at = "expire" BY <1>4 DEF ExpireFeedback, Standing
  <2>2. UNCHANGED <<consulted, notes, records, wf, at, call>>
    BY <1>4 DEF ExpireFeedback, talk, effects, loop
  <2>3. CASE decision = "open"
    BY <1>0, <1>4, <2>1, <2>2, <2>3 DEF ExpireFeedback, Resolve, StepShape, Closed
  <2>4. CASE decision # "open"
    BY <1>0, <1>4, <2>1, <2>2, <2>4 DEF ExpireFeedback, row, StepShape, Closed, TypeOK
  <2> QED BY <2>3, <2>4
<1>5. CASE RecordExpiry \/ Demote
  <2>1. UNCHANGED <<decision, consulted, notes, records, wf, at, call>>
    BY <1>5 DEF RecordExpiry, Demote, row, talk, loop
  <2>2. thr \in {"expired", "recorded"} /\ thr' = "ran" BY <1>5 DEF RecordExpiry, Demote
  <2> QED BY <1>0, <2>1, <2>2 DEF StepShape, Closed
<1>6. CASE RecordFeedback
  <2>1. UNCHANGED <<decision, consulted, notes, wf, at, call>>
    BY <1>6 DEF RecordFeedback, row, talk, loop
  <2>2. at = "record" /\ wf = "pending" /\ thr' \in {"recorded", "ran"}
    BY <1>6 DEF RecordFeedback, Standing
  <2> QED BY <1>0, <2>1, <2>2 DEF StepShape, Closed
<1>7. CASE Checkpoint
  <2>1. UNCHANGED <<decision, consulted, notes, records, wf, call>>
    BY <1>7 DEF Checkpoint, row, talk, effects
  <2> QED BY <1>0, <1>7, <2>1 DEF Checkpoint, StepShape, Closed
<1>8. ASSUME NEW c \in Client,
             AcceptFeedbackGuidance(c) \/ DismissFeedback(c) \/ SendFeedbackMessage(c)
      PROVE  StepShape'
  <2>1. decision = "open" /\ UNCHANGED <<decision, consulted, notes, records, wf, at, thr>>
    BY <1>8
       DEF AcceptFeedbackGuidance, DismissFeedback, SendFeedbackMessage, Load, row, talk,
           effects, loop
  <2> QED BY <1>0, <2>1 DEF StepShape, Closed
<1>9. ASSUME NEW c \in Client,
             \/ InsertGuidance(c) \/ ResolveFirst(c) \/ ResolveSecond(c) \/ ResolveFeedback(c)
             \/ InsertMessage(c) \/ Reply(c) \/ SetPayload(c) \/ FailCall(c)
      PROVE  StepShape'
  <2>1. call[c] # Idle
    BY <1>9
       DEF InsertGuidance, ResolveFirst, ResolveSecond, ResolveFeedback, InsertMessage, Reply,
           SetPayload, FailCall, Idle
  <2>2. decision # "absent" BY <1>0, <2>1 DEF StepShape
  <2>3. UNCHANGED <<records, wf, at, thr>>
    BY <1>9
       DEF InsertGuidance, ResolveFirst, ResolveSecond, ResolveFeedback, InsertMessage, Reply,
           SetPayload, FailCall, effects, loop
  <2>4. \/ UNCHANGED decision
        \/ decision = "open" /\ decision' \in {"accepted", "dismissed"}
    BY <1>9
       DEF InsertGuidance, ResolveFirst, Resolve, ResolveSecond, ResolveFeedback, InsertMessage,
           Reply, SetPayload, FailCall, row
  <2> QED BY <1>0, <2>2, <2>3, <2>4 DEF StepShape, Closed
<1>10. CASE Crash
  <2>1. UNCHANGED <<decision, consulted, notes, records, wf, at>>
    BY <1>10 DEF Crash, row, talk, effects, loop
  <2>2. thr' = "off" /\ \A c \in Client : call'[c] = Idle BY <1>10 DEF Crash
  <2> QED BY <1>0, <2>1, <2>2 DEF StepShape, Closed
<1>11. CASE FailStep
  <2>1. UNCHANGED <<decision, consulted, notes, records, at, call>>
    BY <1>11 DEF FailStep, row, talk, effects
  <2>2. thr' = "off" /\ wf' = "failed" BY <1>11 DEF FailStep
  <2> QED BY <1>0, <2>1, <2>2 DEF StepShape, Closed
<1>12. CASE UNCHANGED <<decision, consulted, notes, records, wf, at, thr, call>>
  BY <1>0, <1>12 DEF StepShape, Closed
<1>13. ASSUME NEW n \in DOMAIN notes, DeactivateAgentGuidance(n) PROVE StepShape'
  <2>1. UNCHANGED <<decision, consulted, records, wf, at, thr, call>>
    BY <1>13 DEF DeactivateAgentGuidance, row, talk, effects, loop
  <2>2. notes # <<>> BY <1>13
  <2> QED BY <1>0, <2>1, <2>2 DEF StepShape, Closed
<1>14. ASSUME UNCHANGED vars
       PROVE  UNCHANGED <<decision, consulted, notes, records, wf, at, thr, call>>
  BY <1>14 DEF vars, row, talk, effects, loop
<1> QED
  BY <1>1, <1>2, <1>3, <1>4, <1>5, <1>6, <1>7, <1>8, <1>9, <1>10, <1>11, <1>12, <1>13, <1>14
     DEF Next, Step, CallStep

\* What a caller sends may be recorded.
LEMMA CallShapeStep == Inv /\ [Next]_vars => CallShape'
<1> SUFFICES ASSUME Inv, [Next]_vars, NEW d \in Client PROVE CallFits(d)' BY DEF CallShape
<1>0. TypeOK /\ CallFits(d) BY DEF Inv, CallShape
<1>1. CASE call'[d] = call[d] BY <1>0, <1>1, CallFitsStays
<1>2. CASE AcceptFeedbackGuidance(d) /\ call'[d] # call[d]
  <2>1. PICK a \in Envelope :
          a.accepted /\ call' = [call EXCEPT ![d] =
                     [pc |-> IF a.note THEN "note" ELSE "resolve", answer |-> a]]
    BY <1>2 DEF AcceptFeedbackGuidance
  <2>2. call'[d] = [pc |-> IF a.note THEN "note" ELSE "resolve", answer |-> a]
    BY <1>0, <2>1 DEF TypeOK
  <2> QED BY <2>1, <2>2 DEF CallFits
<1>3. CASE DismissFeedback(d)
  <2>1. PICK r \in Rating :
          call' = [call EXCEPT ![d] =
                     [pc |-> "resolve", answer |-> [Unheard EXCEPT !.rating = r]]]
    BY <1>3 DEF DismissFeedback
  <2>2. call'[d] = [pc |-> "resolve", answer |-> [Unheard EXCEPT !.rating = r]]
    BY <1>0, <2>1 DEF TypeOK
  <2> QED BY <2>2 DEF CallFits, Unheard
<1>4. CASE InsertGuidance(d)
  <2>1. call[d] \in Closing BY <1>0, <1>4, ClosingCall DEF InsertGuidance
  <2>2. call'[d] = [call[d] EXCEPT !.pc = "resolve"] BY <1>0, <1>4 DEF InsertGuidance, TypeOK
  <2>3. call'[d].pc = "resolve" /\ call'[d].answer = call[d].answer BY <2>1, <2>2 DEF Closing
  <2>4. notes' # <<>>
    <3>1. notes' = Append(notes, "active") /\ notes \in Seq({"active", "dismissed"})
      BY <1>0, <1>4 DEF InsertGuidance, TypeOK
    <3> QED BY <3>1
  <2>5. call[d].pc = "note" BY <1>4 DEF InsertGuidance
  <2> QED BY <1>0, <2>3, <2>4, <2>5 DEF CallFits
<1>5. CASE (ResolveFirst(d) \/ ResolveSecond(d)) /\ call'[d] # Idle
  <2>1. call[d] \in Closing /\ call[d].answer \in Envelope
    BY <1>0, <1>5, ClosingCall DEF ResolveFirst, ResolveSecond
  <2>2. call'[d] = [call[d] EXCEPT !.pc = "send"]
    BY <1>0, <1>5 DEF ResolveFirst, ResolveSecond, TypeOK
  <2>3. call'[d].pc = "send" /\ call'[d].answer = call[d].answer BY <2>1, <2>2 DEF Closing
  <2>4. call[d].pc = "resolve" /\ UNCHANGED notes BY <1>5 DEF ResolveFirst, ResolveSecond
  <2>5. \/ call[d].answer.accepted
        \/ decision' = "dismissed" /\ resolution' = call[d].answer.rating
    <3>1. CASE ResolveFirst(d) BY <3>1 DEF ResolveFirst, Resolve
    <3>2. CASE ResolveSecond(d) BY <1>0, <1>5, <3>2 DEF ResolveSecond, TypeOK
    <3> QED BY <1>5, <3>1, <3>2
  <2>6. decision' \notin {"absent", "open"}
    <3>1. CASE ResolveFirst(d) BY <3>1 DEF ResolveFirst, Resolve
    <3>2. CASE ResolveSecond(d)
      <4>1. call[d] # Idle BY <2>4 DEF Idle
      <4>2. decision # "absent" BY <4>1 DEF Inv, StepShape
      <4> QED BY <3>2, <4>2 DEF ResolveSecond, row
    <3> QED BY <1>5, <3>1, <3>2
  <2> QED BY <1>0, <2>3, <2>4, <2>5, <2>6 DEF CallFits, Justified
<1>6. CASE call'[d] = Idle BY <1>6 DEF CallFits, Idle
<1>7. CASE call'[d].pc \in {"ask", "reply", "store"} BY <1>7 DEF CallFits
<1>8. ASSUME NEW c \in Client, CallStep(c) \/ FailCall(c), c # d PROVE call'[d] = call[d]
  BY <1>0, <1>8
     DEF CallStep, AcceptFeedbackGuidance, DismissFeedback, InsertGuidance, ResolveFirst,
         ResolveSecond, ResolveFeedback, SendFeedbackMessage, InsertMessage, Reply, SetPayload,
         FailCall, TypeOK
<1>9. ASSUME ResolveSecond(d) \/ ResolveFeedback(d) \/ SetPayload(d) \/ FailCall(d) \/ Crash
      PROVE  call'[d] = Idle \/ ResolveSecond(d)
  BY <1>0, <1>9 DEF ResolveFeedback, SetPayload, FailCall, Crash, TypeOK
<1>10. ASSUME SendFeedbackMessage(d) \/ InsertMessage(d) \/ Reply(d)
       PROVE  call'[d].pc \in {"ask", "reply", "store"}
  <2>1. CASE SendFeedbackMessage(d) BY <1>0, <2>1 DEF SendFeedbackMessage, TypeOK
  <2>2. CASE InsertMessage(d) \/ Reply(d)
    <3>1. call[d] \in Talking BY <1>0, <2>2, TalkingCall DEF InsertMessage, Reply
    <3>2. CASE InsertMessage(d)
      <4>1. call'[d] = [call[d] EXCEPT !.pc = "reply"] BY <1>0, <3>2 DEF InsertMessage, TypeOK
      <4> QED BY <3>1, <4>1 DEF Talking
    <3>3. CASE Reply(d)
      <4>1. PICK found \in SUBSET ContextTool :
              call' = [call EXCEPT ![d] = [@ EXCEPT !.pc = "store", !.found = found]]
        BY <3>3 DEF Reply
      <4>2. call'[d] = [call[d] EXCEPT !.pc = "store", !.found = found]
        BY <1>0, <4>1 DEF TypeOK
      <4> QED BY <3>1, <4>2 DEF Talking
    <3> QED BY <2>2, <3>2, <3>3
  <2> QED BY <1>10, <2>1, <2>2
<1>11. ASSUME \/ StartFeedbackWorkflow \/ Step \/ FailStep \/ UNCHANGED vars
              \/ \E n \in DOMAIN notes : DeactivateAgentGuidance(n)
       PROVE  call'[d] = call[d]
  BY <1>11
     DEF StartFeedbackWorkflow, Step, Recover, CheckExisting, Open, Receive, Deadline,
         ExpireFeedback, RecordExpiry, RecordFeedback, Demote, Checkpoint, Return, FailStep,
         DeactivateAgentGuidance, vars
<1> QED
  BY <1>1, <1>2, <1>3, <1>4, <1>5, <1>6, <1>7, <1>8, <1>9, <1>10, <1>11 DEF Next, CallStep

\* So may what is on its way, and what the loop has received.
LEMMA MessagesStep == Inv /\ [Next]_vars => Messages'
<1> SUFFICES ASSUME Inv, [Next]_vars PROVE Messages' OBVIOUS
<1>0. TypeOK /\ Messages BY DEF Inv
<1>1. ASSUME UNCHANGED inbox PROVE \A k \in DOMAIN inbox' : Justified(inbox[k])'
  <2> SUFFICES ASSUME NEW k \in DOMAIN inbox PROVE Justified(inbox[k])' BY <1>1
  <2>1. Justified(inbox[k]) BY <1>0 DEF Messages
  <2> QED BY <1>0, <1>1, <2>1, Lasting DEF Justified
<1>2. ASSUME UNCHANGED <<envelope, at>> PROVE at' = "record" => Justified(envelope)'
  <2> SUFFICES ASSUME at = "record" PROVE Justified(envelope)' BY <1>2
  <2>1. Justified(envelope) BY <1>0 DEF Messages
  <2> QED BY <1>0, <1>2, <2>1, Lasting DEF Justified
<1>3. CASE UNCHANGED <<inbox, envelope, at>> BY <1>1, <1>2, <1>3 DEF Messages
<1>4. CASE Receive
  <2>1. inbox \in Seq(Envelope) /\ inbox # <<>> BY <1>0, <1>4 DEF Receive, TypeOK
  <2>2. Head(inbox) = inbox[1] /\ 1 \in DOMAIN inbox BY <2>1
  <2>3. \A k \in DOMAIN Tail(inbox) : Tail(inbox)[k] = inbox[k + 1] /\ k + 1 \in DOMAIN inbox
    BY <2>1
  <2>4. UNCHANGED <<decision, resolution, notes>> BY <1>4 DEF Receive, row
  <2>5. envelope' = inbox[1] /\ inbox' = Tail(inbox) BY <1>4, <2>2 DEF Receive
  <2>6. Justified(envelope)' BY <1>0, <2>2, <2>4, <2>5 DEF Messages, Justified
  <2>7. ASSUME NEW k \in DOMAIN inbox' PROVE Justified(inbox[k])'
    <3>1. inbox'[k] = inbox[k + 1] /\ Justified(inbox[k + 1])
      BY <1>0, <2>3, <2>5 DEF Messages
    <3> QED BY <2>4, <3>1 DEF Justified
  <2> QED BY <2>6, <2>7 DEF Messages
<1>5. CASE Deadline \/ Checkpoint
  <2>1. UNCHANGED inbox /\ at' # "record" BY <1>5 DEF Deadline, Checkpoint
  <2> QED BY <1>1, <2>1 DEF Messages
<1>6. ASSUME NEW c \in Client, ResolveFeedback(c) PROVE Messages'
  <2>1. inbox' = Append(inbox, call[c].answer) /\ UNCHANGED <<decision, resolution, notes>>
    BY <1>6 DEF ResolveFeedback, row
  <2>2. UNCHANGED <<envelope, at>> BY <1>6 DEF ResolveFeedback, loop
  <2>3. Justified(call[c].answer) BY <1>6 DEF ResolveFeedback, Inv, CallShape, CallFits
  <2>4. call[c].answer \in Envelope BY <1>0, <1>6, ClosingCall DEF ResolveFeedback
  <2>5. inbox \in Seq(Envelope) BY <1>0 DEF TypeOK
  <2>6. ASSUME NEW k \in DOMAIN inbox' PROVE Justified(inbox[k])'
    <3>1. (k \in DOMAIN inbox /\ inbox'[k] = inbox[k]) \/ inbox'[k] = call[c].answer
      BY <2>1, <2>4, <2>5
    <3>2. Justified(inbox'[k]) BY <1>0, <2>3, <3>1 DEF Messages
    <3> QED BY <2>1, <3>2 DEF Justified
  <2> QED BY <1>2, <2>2, <2>6 DEF Messages
<1>7. ASSUME \/ StartFeedbackWorkflow \/ Recover \/ CheckExisting \/ Open \/ ExpireFeedback
             \/ RecordExpiry \/ RecordFeedback \/ Demote \/ Return \/ FailStep \/ Crash
             \/ UNCHANGED vars
             \/ \E n \in DOMAIN notes : DeactivateAgentGuidance(n)
      PROVE  UNCHANGED <<inbox, envelope, at>>
  BY <1>7
     DEF StartFeedbackWorkflow, Recover, CheckExisting, Open, ExpireFeedback, RecordExpiry,
         RecordFeedback, Demote, Return, FailStep, Crash, DeactivateAgentGuidance, vars, loop
<1>8. ASSUME NEW c \in Client,
             \/ AcceptFeedbackGuidance(c) \/ DismissFeedback(c) \/ InsertGuidance(c)
             \/ ResolveFirst(c) \/ ResolveSecond(c) \/ SendFeedbackMessage(c)
             \/ InsertMessage(c) \/ Reply(c) \/ SetPayload(c) \/ FailCall(c)
      PROVE  UNCHANGED <<inbox, envelope, at>>
  BY <1>8
     DEF AcceptFeedbackGuidance, DismissFeedback, InsertGuidance, ResolveFirst, ResolveSecond,
         SendFeedbackMessage, InsertMessage, Reply, SetPayload, FailCall, loop
<1> QED
  BY <1>3, <1>4, <1>5, <1>6, <1>7, <1>8 DEF Next, Step, CallStep

\* Records that stand are still justified.
LEMMA RecordsStay ==
  ASSUME TypeOK, [Next]_vars, UNCHANGED records, \A k \in DOMAIN records : Justified(records[k])
  PROVE  \A k \in DOMAIN records' : Justified(records[k])'
<1> SUFFICES ASSUME NEW k \in DOMAIN records PROVE Justified(records[k])' OBVIOUS
<1>1. Justified(records[k]) OBVIOUS
<1> QED BY <1>1, Lasting DEF Justified

\* Records and demotions are counted.
LEMMA LedgerStep == Inv /\ [Next]_vars => Ledger'
<1> SUFFICES ASSUME Inv, [Next]_vars PROVE Ledger' OBVIOUS
<1>0. TypeOK /\ Ledger /\ StepShape /\ Messages BY DEF Inv
<1>a. /\ records \in Seq(Envelope) /\ Len(records) \in Nat
      /\ demotions \in Nat /\ faults \in Nat
  BY <1>0 DEF TypeOK
<1>b. UNCHANGED records => \A k \in DOMAIN records' : Justified(records[k])'
  BY <1>0, RecordsStay DEF Ledger
<1> USE DEF Ledger
<1>1. CASE UNCHANGED <<records, demotions, faults, at, thr>> BY <1>0, <1>1, <1>b
<1>2. CASE RecordFeedback
  <2>1. /\ records' = Append(records, envelope)
        /\ thr' = IF Negative(envelope.rating) THEN "recorded" ELSE "ran"
        /\ UNCHANGED <<decision, resolution, notes, demotions, faults, at>>
    BY <1>2 DEF RecordFeedback, row, loop
  <2>2. at = "record" /\ thr = "idle" BY <1>2 DEF RecordFeedback, Standing
  <2>3. envelope \in Envelope /\ envelope.rating \in Nat
    <3>1. envelope \in Envelope BY <1>0 DEF TypeOK
    <3>2. envelope.rating \in Rating \cup {0} BY <3>1 DEF Envelope
    <3>3. \A r \in Rating : r \in Nat BY DEF FeedbackAssumption
    <3>4. PICK r \in Rating \cup {0} : r = envelope.rating BY <3>2
    <3>5. r \in Nat BY <3>3
    <3> QED BY <3>1, <3>4, <3>5
  <2>4. /\ Len(records') = Len(records) + 1 /\ records' # <<>>
        /\ \A k \in DOMAIN records : k \in DOMAIN records' /\ records'[k] = records[k]
        /\ \A k \in DOMAIN records' : k \in DOMAIN records \/ records'[k] = envelope
        /\ Len(records') \in DOMAIN records' /\ records'[Len(records')] = envelope
    BY <1>a, <2>1, <2>3
  <2>5. ASSUME NEW k \in DOMAIN records' PROVE Justified(records[k])'
    <3>1. Justified(records'[k]) BY <1>0, <2>2, <2>4 DEF Messages
    <3> QED BY <2>1, <3>1 DEF Justified
  <2>6. thr' = "recorded" => records'[Len(records')].rating \in {1, 2}
    BY <2>1, <2>3, <2>4 DEF Negative
  <2>7. thr' = "recorded" \/ demotions' > 0
          => \E k \in DOMAIN records' : records'[k].rating \in {1, 2}
    <3>1. CASE thr' = "recorded" BY <2>4, <2>6, <3>1
    <3>2. CASE demotions > 0
      <4>1. PICK k \in DOMAIN records : records[k].rating \in {1, 2} BY <1>0, <3>2
      <4> QED BY <2>4, <4>1
    <3> QED BY <2>1, <3>1, <3>2
  <2>8. Len(records) <= faults /\ demotions <= Len(records) BY <1>0, <1>a, <2>2
  <2>9. /\ at' = "record" /\ thr' \notin {"idle", "off"}
        /\ Len(records') <= 1 + faults'
        /\ demotions' + 1 <= Len(records')
    BY <1>a, <2>1, <2>2, <2>4, <2>8
  <2> QED BY <1>a, <2>1, <2>4, <2>5, <2>7, <2>9
<1>3. CASE Demote
  <2>1. /\ thr = "recorded" /\ thr' = "ran" /\ demotions' = demotions + 1
        /\ UNCHANGED <<records, faults, at>>
    BY <1>3 DEF Demote, loop
  <2>2. at = "record" BY <1>0, <2>1 DEF StepShape
  <2> QED BY <1>0, <1>a, <1>b, <2>1, <2>2
<1>4. ASSUME UNCHANGED <<records, demotions, at>>,
             thr' \notin {"recorded"}, at \in {"open", "expire", "wait"}, faults' \in Nat,
             faults' >= faults
      PROVE  Ledger'
  BY <1>0, <1>a, <1>b, <1>4
<1>5. ASSUME StartFeedbackWorkflow \/ CheckExisting \/ Open \/ ExpireFeedback \/ RecordExpiry
      PROVE  Ledger'
  <2>1. UNCHANGED <<records, demotions, at, faults>> /\ thr' # "recorded"
    BY <1>5
       DEF StartFeedbackWorkflow, CheckExisting, Open, ExpireFeedback, RecordExpiry, effects, loop
  <2>2. at \in {"open", "expire"}
    BY <1>0, <1>5
       DEF StartFeedbackWorkflow, CheckExisting, Open, ExpireFeedback, RecordExpiry, Standing,
           StepShape
  <2> QED BY <1>4, <1>a, <2>1, <2>2
<1>6. CASE Recover
  <2>1. thr = "off" /\ thr' = "idle" /\ UNCHANGED <<records, demotions, faults, at>>
    BY <1>6 DEF Recover, effects, loop
  <2> QED BY <1>0, <1>a, <1>b, <2>1
<1>7. CASE Receive \/ Deadline
  <2>1. /\ thr = "idle" /\ at = "wait" /\ at' \in {"record", "expire"}
        /\ UNCHANGED <<records, demotions, faults, thr>>
    BY <1>7 DEF Receive, Deadline, Standing, effects
  <2>2. records = <<>> /\ demotions = 0 BY <1>0, <1>a, <2>1
  <2> QED BY <1>0, <1>a, <1>b, <2>1, <2>2
<1>8. CASE Checkpoint
  <2>1. thr = "ran" /\ thr' = "idle" /\ UNCHANGED <<records, demotions, faults>>
    BY <1>8 DEF Checkpoint, effects
  <2>2. CASE at = "open"
    <3>1. at' = "wait" BY <1>8, <2>2 DEF Checkpoint
    <3> QED BY <1>0, <1>a, <1>b, <2>1, <2>2, <3>1
  <2>3. CASE at # "open"
    <3>1. at' = "end" BY <1>8, <2>3 DEF Checkpoint
    <3> QED BY <1>0, <1>a, <1>b, <2>1, <2>3, <3>1
  <2> QED BY <2>2, <2>3
<1>9. CASE Return
  <2>1. /\ thr = "idle" /\ thr' = "off" /\ UNCHANGED <<records, demotions, faults, at>>
    BY <1>9 DEF Return, Standing, effects
  <2> QED BY <1>0, <1>a, <1>b, <2>1
<1>10. CASE Crash \/ FailStep
  <2>1. /\ thr' = "off" /\ faults' = faults + 1 /\ UNCHANGED <<records, demotions, at>>
    BY <1>10 DEF Crash, FailStep, effects, loop
  <2> QED BY <1>0, <1>a, <1>b, <2>1
<1>11. ASSUME NEW c \in Client, FailCall(c) PROVE Ledger'
  <2>1. faults' = faults + 1 /\ UNCHANGED <<records, demotions, at, thr>>
    BY <1>11 DEF FailCall, effects, loop
  <2> QED BY <1>0, <1>a, <1>b, <2>1
<1>12. ASSUME NEW c \in Client, CallStep(c)
       PROVE  UNCHANGED <<records, demotions, faults, at, thr>>
  BY <1>12
     DEF CallStep, AcceptFeedbackGuidance, DismissFeedback, InsertGuidance, ResolveFirst,
         ResolveSecond, ResolveFeedback, SendFeedbackMessage, InsertMessage, Reply, SetPayload,
         effects, loop
<1>13. ASSUME UNCHANGED vars \/ \E n \in DOMAIN notes : DeactivateAgentGuidance(n)
       PROVE  UNCHANGED <<records, demotions, faults, at, thr>>
  BY <1>13 DEF DeactivateAgentGuidance, vars, effects, loop
<1> QED
  BY <1>1, <1>2, <1>3, <1>5, <1>6, <1>7, <1>8, <1>9, <1>10, <1>11, <1>12, <1>13 DEF Next, Step

\* As long as nothing fails, an answer is on its way or counted.
LEMMA UnfailingStep == Inv /\ [Next]_vars => Unfailing'
<1> SUFFICES ASSUME Inv, [Next]_vars, faults' = 0
             PROVE  /\ decision' \in {"accepted", "dismissed"} =>
                         \/ inbox' # <<>> \/ \E c \in Client : call'[c].pc = "send"
                         \/ at' = "record" \/ records' # <<>>
                    /\ decision' # "expired" \/ thr' = "expired" => expiries' = 0
                    /\ decision' = "expired" /\ thr' # "expired" => expiries' = 1
  BY DEF Unfailing
<1>0. /\ TypeOK /\ StepShape /\ Ledger /\ faults \in Nat
      /\ decision \in {"accepted", "dismissed"} => Unfailing
  BY DEF Inv, TypeOK
<1>1. faults = 0 /\ ~Crash /\ ~FailStep /\ \A c \in Client : ~FailCall(c)
  <2>1. Crash \/ FailStep \/ (\E c \in Client : FailCall(c)) => faults' = faults + 1
    BY DEF Crash, FailStep, FailCall
  <2>2. ~(Crash \/ FailStep \/ \E c \in Client : FailCall(c)) => faults' = faults
    BY DEF Next, Step, CallStep, StartFeedbackWorkflow, Recover, CheckExisting, Open, Receive,
           Deadline, ExpireFeedback, RecordExpiry, RecordFeedback, Demote, Checkpoint, Return,
           AcceptFeedbackGuidance, DismissFeedback, InsertGuidance, ResolveFirst, ResolveSecond,
           ResolveFeedback, SendFeedbackMessage, InsertMessage, Reply, SetPayload,
           DeactivateAgentGuidance, vars
  <2> QED BY <1>0, <2>1, <2>2
<1>2. /\ decision \in {"accepted", "dismissed"} =>
           \/ inbox # <<>> \/ \E c \in Client : call[c].pc = "send"
           \/ at = "record" \/ records # <<>>
      /\ decision # "expired" \/ thr = "expired" => expiries = 0
      /\ decision = "expired" /\ thr # "expired" => expiries = 1
  BY <1>1 DEF Inv, Unfailing
<1>3. CASE UNCHANGED <<decision, inbox, call, at, records, expiries, thr>> BY <1>2, <1>3
<1>4. ASSUME \/ StartFeedbackWorkflow \/ Recover \/ CheckExisting \/ Open \/ Return \/ Deadline
             \/ Demote
      PROVE  /\ UNCHANGED <<inbox, call, records, expiries>>
             /\ decision' \in {decision, "open"} /\ thr # "expired" /\ thr' # "expired"
             /\ at = "record" => at' = "record"
             /\ decision' = "open" => decision # "expired"
  <2>1. UNCHANGED <<inbox, call, records, expiries>>
    BY <1>4
       DEF StartFeedbackWorkflow, Recover, CheckExisting, Open, Return, Deadline, Demote, effects
  <2>2. thr # "expired" /\ thr' # "expired"
    BY <1>0, <1>4
       DEF StartFeedbackWorkflow, Recover, CheckExisting, Open, Return, Deadline, Demote,
           Standing, StepShape
  <2>3. \/ UNCHANGED decision
        \/ decision = "absent" /\ decision' = "open"
    BY <1>4
       DEF StartFeedbackWorkflow, Recover, CheckExisting, Open, Return, Deadline, Demote, row
  <2>4. at = "record" => at' = "record"
    BY <1>4
       DEF StartFeedbackWorkflow, Recover, CheckExisting, Open, Return, Deadline, Demote,
           Standing, loop
  <2> QED BY <2>1, <2>2, <2>3, <2>4
<1>5. CASE \/ StartFeedbackWorkflow \/ Recover \/ CheckExisting \/ Open \/ Return \/ Deadline
           \/ Demote
  BY <1>2, <1>4, <1>5
<1>6. CASE Receive
  <2>1. /\ UNCHANGED <<decision, expiries, thr>> /\ at' = "record"
    BY <1>6 DEF Receive, row, effects
  <2> QED BY <1>2, <2>1
<1>7. CASE ExpireFeedback
  <2>1. UNCHANGED <<inbox, call, records, expiries, at>> /\ thr = "idle"
    BY <1>7 DEF ExpireFeedback, Standing, effects, loop
  <2>2. CASE decision = "open"
    BY <1>2, <1>7, <2>1, <2>2 DEF ExpireFeedback, Resolve
  <2>3. CASE decision # "open"
    BY <1>2, <1>7, <2>1, <2>3 DEF ExpireFeedback, row
  <2> QED BY <2>2, <2>3
<1>8. CASE RecordExpiry
  <2>1. /\ UNCHANGED decision /\ thr = "expired" /\ thr' = "ran"
        /\ expiries' = expiries + 1
    BY <1>8 DEF RecordExpiry, row
  <2>2. decision = "expired" BY <1>0, <2>1 DEF StepShape
  <2> QED BY <1>2, <2>1, <2>2
<1>9. CASE RecordFeedback
  <2>1. /\ UNCHANGED <<decision, expiries>> /\ thr = "idle" /\ thr' # "expired"
        /\ at = "record" /\ UNCHANGED at
    BY <1>9 DEF RecordFeedback, Standing, row, loop
  <2> QED BY <1>2, <2>1
<1>10. CASE Checkpoint
  <2>1. /\ UNCHANGED <<decision, inbox, call, records, expiries>>
        /\ thr = "ran" /\ thr' = "idle"
    BY <1>10 DEF Checkpoint, row, effects
  <2>2. at = "record" => records # <<>> BY <1>0, <2>1 DEF Ledger
  <2> QED BY <1>2, <2>1, <2>2
<1>11. ASSUME NEW c \in Client, ResolveFirst(c)
       PROVE  /\ UNCHANGED <<expiries, thr>> /\ call'[c].pc = "send"
              /\ decision = "open" /\ decision' # "expired"
  <2>1. call[c] \in Closing BY <1>0, <1>11, ClosingCall DEF ResolveFirst
  <2>2. call'[c] = [call[c] EXCEPT !.pc = "send"] BY <1>0, <1>11 DEF ResolveFirst, TypeOK
  <2>3. call'[c].pc = "send" BY <2>1, <2>2 DEF Closing
  <2> QED BY <1>11, <2>3 DEF ResolveFirst, Resolve, effects
<1>12. ASSUME NEW c \in Client, ResolveFeedback(c)
       PROVE  UNCHANGED <<decision, expiries, thr>> /\ inbox' # <<>>
  <2>1. inbox' = Append(inbox, call[c].answer) /\ inbox \in Seq(Envelope)
    BY <1>0, <1>12 DEF ResolveFeedback, TypeOK
  <2>2. call[c].answer \in Envelope BY <1>0, <1>12, ClosingCall DEF ResolveFeedback
  <2> QED BY <1>12, <2>1, <2>2 DEF ResolveFeedback, row, effects
<1>13. ASSUME NEW c \in Client,
              \/ AcceptFeedbackGuidance(c) \/ DismissFeedback(c) \/ InsertGuidance(c)
              \/ ResolveSecond(c) \/ SendFeedbackMessage(c)
              \/ InsertMessage(c) \/ Reply(c) \/ SetPayload(c)
       PROVE  /\ UNCHANGED <<decision, inbox, at, records, expiries, thr>>
              /\ call[c].pc # "send" /\ \A d \in Client \ {c} : call'[d] = call[d]
  BY <1>0, <1>13
     DEF AcceptFeedbackGuidance, DismissFeedback, Load, InsertGuidance, ResolveSecond,
         SendFeedbackMessage, InsertMessage, Reply, SetPayload, row, effects, loop, Idle, TypeOK
<1>14. ASSUME UNCHANGED vars \/ \E n \in DOMAIN notes : DeactivateAgentGuidance(n)
       PROVE  UNCHANGED <<decision, inbox, call, at, records, expiries, thr>>
  BY <1>14 DEF DeactivateAgentGuidance, vars, row, effects, loop
<1>15. CASE \E c \in Client : CallStep(c)
  <2>1. PICK c \in Client : CallStep(c) BY <1>15
  <2>2. CASE ResolveFirst(c) BY <1>2, <1>11, <2>2
  <2>3. CASE ResolveFeedback(c) BY <1>2, <1>12, <2>3
  <2>4. CASE ~ResolveFirst(c) /\ ~ResolveFeedback(c)
    <3>1. /\ UNCHANGED <<decision, inbox, at, records, expiries, thr>>
          /\ call[c].pc # "send" /\ \A d \in Client \ {c} : call'[d] = call[d]
      BY <1>13, <2>1, <2>4 DEF CallStep
    <3> QED BY <1>2, <3>1
  <2> QED BY <2>2, <2>3, <2>4
<1> QED
  BY <1>1, <1>3, <1>5, <1>6, <1>7, <1>8, <1>9, <1>10, <1>14, <1>15 DEF Next, Step

\* A note in an open conversation keeps its acceptance.
LEMMA NoteStep == Inv /\ [Next]_vars => NoteClosesDecision'
<1> SUFFICES ASSUME Inv, [Next]_vars, notes' # <<>>, decision' = "open", ~(faults' > 0)
             PROVE  \E c \in Client : call'[c].pc = "resolve" /\ call'[c].answer.note
  BY DEF NoteClosesDecision
<1>0. TypeOK /\ CallShape /\ faults \in Nat BY DEF Inv, TypeOK
<1>1. faults = 0 /\ ~Crash /\ \A c \in Client : ~FailCall(c)
  <2>1. Crash \/ FailStep \/ (\E c \in Client : FailCall(c)) => faults' = faults + 1
    BY DEF Crash, FailStep, FailCall
  <2>2. ~(Crash \/ FailStep \/ \E c \in Client : FailCall(c)) => faults' = faults
    BY DEF Next, Step, CallStep, StartFeedbackWorkflow, Recover, CheckExisting, Open, Receive,
           Deadline, ExpireFeedback, RecordExpiry, RecordFeedback, Demote, Checkpoint, Return,
           AcceptFeedbackGuidance, DismissFeedback, InsertGuidance, ResolveFirst, ResolveSecond,
           ResolveFeedback, SendFeedbackMessage, InsertMessage, Reply, SetPayload,
           DeactivateAgentGuidance, vars
  <2> QED BY <1>0, <2>1, <2>2
<1>2. notes # <<>> /\ decision = "open" =>
        \E c \in Client : call[c].pc = "resolve" /\ call[c].answer.note
  BY <1>1 DEF Inv, NoteClosesDecision
<1>3. CASE UNCHANGED <<decision, notes, call>> BY <1>2, <1>3
<1>4. CASE Open
  <2>1. decision = "absent" /\ UNCHANGED notes BY <1>4 DEF Open
  <2> QED BY <2>1 DEF Inv, StepShape
<1>5. CASE ExpireFeedback
  <2>1. UNCHANGED <<notes, call>> /\ (decision' = "open" => UNCHANGED decision)
    BY <1>5 DEF ExpireFeedback, Resolve, row
  <2> QED BY <1>2, <2>1
<1>6. ASSUME NEW c \in Client, InsertGuidance(c)
      PROVE  call'[c].pc = "resolve" /\ call'[c].answer.note
  <2>1. call[c] \in Closing BY <1>0, <1>6, ClosingCall DEF InsertGuidance
  <2>2. call'[c] = [call[c] EXCEPT !.pc = "resolve"] BY <1>0, <1>6 DEF InsertGuidance, TypeOK
  <2>3. call[c].answer.note BY <1>0, <1>6 DEF InsertGuidance, CallShape, CallFits
  <2>4. call'[c].pc = "resolve" /\ call'[c].answer = call[c].answer BY <2>1, <2>2 DEF Closing
  <2> QED BY <2>3, <2>4
<1>7. ASSUME NEW c \in Client, ResolveFirst(c) PROVE decision' # "open"
  BY <1>7 DEF ResolveFirst, Resolve
<1>8. ASSUME NEW c \in Client, ResolveSecond(c) PROVE UNCHANGED decision /\ decision # "open"
  BY <1>8 DEF ResolveSecond, row
<1>9. ASSUME NEW c \in Client,
             \/ AcceptFeedbackGuidance(c) \/ DismissFeedback(c) \/ ResolveFeedback(c)
             \/ SendFeedbackMessage(c) \/ InsertMessage(c) \/ Reply(c) \/ SetPayload(c)
      PROVE  /\ UNCHANGED <<decision, notes>> /\ call[c].pc # "resolve"
             /\ \A d \in Client \ {c} : call'[d] = call[d]
  BY <1>0, <1>9
     DEF AcceptFeedbackGuidance, DismissFeedback, Load, ResolveFeedback, SendFeedbackMessage,
         InsertMessage, Reply, SetPayload, row, Idle, TypeOK
<1>10. CASE \E c \in Client : CallStep(c)
  <2>1. PICK c \in Client : CallStep(c) BY <1>10
  <2>2. CASE InsertGuidance(c) BY <1>6, <2>2
  <2>3. CASE ResolveFirst(c) \/ ResolveSecond(c) BY <1>7, <1>8, <2>3
  <2>4. CASE ~InsertGuidance(c) /\ ~ResolveFirst(c) /\ ~ResolveSecond(c)
    <3>1. /\ UNCHANGED <<decision, notes>> /\ call[c].pc # "resolve"
          /\ \A d \in Client \ {c} : call'[d] = call[d]
      BY <1>9, <2>1, <2>4 DEF CallStep
    <3> QED BY <1>2, <3>1
  <2> QED BY <2>2, <2>3, <2>4
<1>11. ASSUME NEW n \in DOMAIN notes, DeactivateAgentGuidance(n)
       PROVE  UNCHANGED <<decision, call>> /\ notes # <<>>
  BY <1>11 DEF DeactivateAgentGuidance, row
<1>12. ASSUME \/ StartFeedbackWorkflow \/ Recover \/ CheckExisting \/ Receive \/ Deadline
              \/ RecordExpiry \/ RecordFeedback \/ Demote \/ Checkpoint \/ Return \/ FailStep
              \/ UNCHANGED vars
       PROVE  UNCHANGED <<decision, notes, call>>
  BY <1>12
     DEF StartFeedbackWorkflow, Recover, CheckExisting, Receive, Deadline, RecordExpiry,
         RecordFeedback, Demote, Checkpoint, Return, FailStep, vars, row
<1> QED
  BY <1>1, <1>2, <1>3, <1>4, <1>5, <1>10, <1>11, <1>12 DEF Next, Step
-----------------------------------------------------------------------------
\* The invariant holds for ever.
THEOREM Invariance == Spec => []Inv
<1>1. Init => Inv
  <2> SUFFICES ASSUME Init PROVE Inv OBVIOUS
  <2>1. TypeOK BY TypeInit
  <2>2. StepShape BY DEF Init, StepShape, Closed
  <2>3. CallShape BY DEF Init, CallShape, CallFits, Idle
  <2>4. Messages BY DEF Init, Messages
  <2>5. Ledger BY <2>1 DEF Init, Ledger
  <2>6. Unfailing BY DEF Init, Unfailing
  <2>7. NoteClosesDecision BY DEF Init, NoteClosesDecision
  <2> QED BY <2>1, <2>2, <2>3, <2>4, <2>5, <2>6, <2>7 DEF Inv
<1>2. Inv /\ [Next]_vars => Inv'
  <2> SUFFICES ASSUME Inv, [Next]_vars PROVE Inv' OBVIOUS
  <2>1. TypeOK' BY TypeStep DEF Inv
  <2> QED
    BY <2>1, StepShapeStep, CallShapeStep, MessagesStep, LedgerStep, UnfailingStep, NoteStep
       DEF Inv
<1> QED BY <1>1, <1>2, PTL DEF Spec

\* Types, for every value of the constants.
THEOREM TypeCorrect == Spec => []TypeOK
<1>1. Inv => TypeOK BY DEF Inv
<1> QED BY <1>1, Invariance, PTL

\* What the loop records and demotes follows from the owner's answers, with any number of
\* callers and crashes.
THEOREM RecordsAgree == Spec => []AnswerAgrees
<1>1. Inv => AnswerAgrees
  <2> SUFFICES ASSUME Inv PROVE AnswerAgrees OBVIOUS
  <2>0. TypeOK /\ Ledger /\ StepShape BY DEF Inv
  <2>1. Len(records) \in Nat /\ demotions \in Nat /\ faults \in Nat
    <3>1. faults \in 0 .. MaxFaults /\ MaxFaults \in Nat BY <2>0 DEF TypeOK, FeedbackAssumption
    <3>2. records \in Seq(Envelope) /\ demotions \in Nat BY <2>0 DEF TypeOK
    <3> QED BY <3>1, <3>2
  <2>2. ASSUME NEW k \in DOMAIN records
        PROVE  /\ decision \notin {"open", "expired"}
               /\ records[k].accepted \/ (decision = "dismissed" /\ resolution = records[k].rating)
               /\ records[k].note => notes # <<>>
    <3>1. Justified(records[k]) BY <2>0 DEF Ledger
    <3>2. records # <<>> BY <2>2
    <3>3. decision # "expired" BY <2>0, <3>2 DEF StepShape
    <3> QED BY <3>1, <3>3 DEF Justified
  <2>3. Len(records) <= 1 + faults /\ demotions <= Len(records) BY <2>0, <2>1 DEF Ledger
  <2>4. demotions > 0 => \E k \in DOMAIN records : records[k].rating \in {1, 2}
    BY <2>0 DEF Ledger
  <2> QED BY <2>2, <2>3, <2>4 DEF AnswerAgrees
<1> QED BY <1>1, Invariance, PTL

\* A loop without a record has expired, come too late for an answer, or met a failure.
THEOREM OnlyTheLateGoUnrecorded == Spec => []UnrecordedIsLate
<1>1. Inv => UnrecordedIsLate
  <2> SUFFICES ASSUME Inv, wf = "done", records = <<>>, ~(faults > 0)
               PROVE  \/ decision = "expired" /\ expiries = 1
                      \/ decision \in {"accepted", "dismissed"}
                           /\ (inbox # <<>> \/ \E c \in Client : call[c].pc = "send")
    BY DEF UnrecordedIsLate
  <2>1. faults = 0 BY DEF Inv, TypeOK
  <2>2. at = "end" /\ Closed /\ thr # "expired" BY DEF Inv, StepShape
  <2> QED BY <2>1, <2>2 DEF Inv, Unfailing, Closed
<1> QED BY <1>1, Invariance, PTL

\* An active note in an open conversation is an acceptance on its way, or one that was cut.
THEOREM NotesCloseDecisions == Spec => []NoteClosesDecision
<1>1. Inv => NoteClosesDecision BY DEF Inv
<1> QED BY <1>1, Invariance, PTL

\* Neither an answer nor a note is left over without a reason.
THEOREM NothingIsLeftOver == Spec => []LeftoversAreExplained
BY OnlyTheLateGoUnrecorded, NotesCloseDecisions, PTL DEF LeftoversAreExplained

\* Only a write from a payload loaded earlier loses what was consulted.
THEOREM ConsultedIsLostOnlyByOverlap == Spec => ConsultedAccumulates
<1>1. ASSUME Inv, [Next]_vars
      PROVE  \/ consulted \subseteq consulted'
             \/ \E c \in Client : call[c].pc = "store" /\ call[c].base # consulted
  <2>1. CASE UNCHANGED consulted BY <2>1
  <2>2. CASE Open
    <3>1. consulted = {} BY <1>1, <2>2 DEF Open, Inv, StepShape
    <3> QED BY <3>1
  <2>3. ASSUME NEW c \in Client, SetPayload(c)
        PROVE  \/ consulted \subseteq consulted'
               \/ call[c].pc = "store" /\ call[c].base # consulted
    BY <2>3 DEF SetPayload, Merge
  <2>4. ASSUME \/ StartFeedbackWorkflow \/ Recover \/ CheckExisting \/ Receive \/ Deadline
               \/ ExpireFeedback \/ RecordExpiry \/ RecordFeedback \/ Demote \/ Checkpoint
               \/ Return \/ FailStep \/ Crash \/ UNCHANGED vars
               \/ \E n \in DOMAIN notes : DeactivateAgentGuidance(n)
        PROVE  UNCHANGED consulted
    BY <2>4
       DEF StartFeedbackWorkflow, Recover, CheckExisting, Receive, Deadline, ExpireFeedback,
           RecordExpiry, RecordFeedback, Demote, Checkpoint, Return, FailStep, Crash,
           DeactivateAgentGuidance, vars, talk
  <2>5. ASSUME NEW c \in Client, CallStep(c) \/ FailCall(c), ~SetPayload(c)
        PROVE  UNCHANGED consulted
    BY <2>5
       DEF CallStep, AcceptFeedbackGuidance, DismissFeedback, InsertGuidance, ResolveFirst,
           ResolveSecond, ResolveFeedback, SendFeedbackMessage, InsertMessage, Reply, FailCall,
           talk
  <2> QED BY <1>1, <2>1, <2>2, <2>3, <2>4, <2>5 DEF Next, Step
<1>2. Inv /\ [Next]_vars =>
        [consulted \subseteq consulted'
           \/ \E c \in Client : call[c].pc = "store" /\ call[c].base # consulted]_vars
  BY <1>1
<1> QED BY <1>2, Invariance, PTL DEF Spec, ConsultedAccumulates
=============================================================================
