------------------------------ MODULE Feedback ------------------------------
(***************************************************************************)
(* What the owner says of a finished task.                                 *)
(*                                                                         *)
(*   internal/feedback/workflow.go  one durable loop: open, wait, record   *)
(*   graph/feedback_helpers.go      the conversation, and how it is closed *)
(*                                                                         *)
(* One loop of one task: loops share nothing but the tools they demote     *)
(* (Calibration).  As in Toolflow, a DBOS step is its body, one action per *)
(* transaction in it, and then Checkpoint; a crash in between runs the     *)
(* body again.  A caller is a sequence of statements.                      *)
(***************************************************************************)
EXTENDS Naturals, Sequences

CONSTANTS Client,       \* concurrent callers
          ContextTool,  \* what the converser may consult
          Rating,       \* ratings given; 0 for none
          MaxCalls,     \* bound: calls ever made
          MaxFaults     \* bound: crashes and failed statements

ASSUME FeedbackAssumption == Rating \subseteq 0 .. 5 /\ MaxCalls \in Nat /\ MaxFaults \in Nat

VARIABLES
  decision,   \* the feedback_request: absent, open, or resolved how
  resolution, \* the rating its resolution holds
  thread,     \* feedback_messages: the roles, oldest first
  consulted,  \* context_consulted of its payload
  notes,      \* agent_guidance rows of the decision: their status
  records,    \* feedback_submitted audits: what they say
  expiries,   \* decision_expired audits
  demotions,  \* DemoteForFeedback transactions committed
  wf, at,     \* status of the workflow, its durable position
  envelope,   \* what it has received
  inbox,      \* undelivered messages on its topic
  thr,        \* volatile: its goroutine
  call,       \* volatile: what each client is doing
  calls, faults

row == <<decision, resolution>>
talk == <<thread, consulted>>
effects == <<records, expiries, demotions>>
loop == <<wf, at, envelope>>
vars == <<row, talk, notes, effects, loop, inbox, thr, call, calls, faults>>

Idle == [pc |-> "idle"]
Unheard == [accepted |-> FALSE, rating |-> 0, note |-> FALSE]
Envelope == [accepted : BOOLEAN, rating : Rating \cup {0}, note : BOOLEAN]
Closing == [pc : {"note", "resolve", "send"}, answer : Envelope]
Talking == [pc : {"ask", "reply", "store"}, base : SUBSET ContextTool, found : SUBSET ContextTool]

TypeOK ==
  /\ decision \in {"absent", "open", "accepted", "dismissed", "expired"}
  /\ resolution \in Rating \cup {0}
  /\ thread \in Seq({"agent", "user"}) /\ consulted \subseteq ContextTool
  /\ notes \in Seq({"active", "dismissed"})
  /\ records \in Seq(Envelope) /\ expiries \in Nat /\ demotions \in Nat
  /\ wf \in {"none", "pending", "done", "failed"}
  /\ at \in {"open", "wait", "expire", "record", "end"}
  /\ envelope \in Envelope /\ inbox \in Seq(Envelope)
  /\ thr \in {"off", "idle", "opening", "expired", "recorded", "ran"}
  /\ call \in [Client -> Closing \cup Talking \cup {Idle}]
  /\ calls \in 0 .. MaxCalls /\ faults \in 0 .. MaxFaults

Init ==
  /\ decision = "absent" /\ resolution = 0
  /\ thread = <<>> /\ consulted = {} /\ notes = <<>>
  /\ records = <<>> /\ expiries = 0 /\ demotions = 0
  /\ wf = "none" /\ at = "open" /\ envelope = Unheard /\ inbox = <<>> /\ thr = "off"
  /\ call = [c \in Client |-> Idle]
  /\ calls = 0 /\ faults = 0
-----------------------------------------------------------------------------
(* Helpers. *)

\* ResolvePendingDecision: the first write wins.
Resolve(verdict, rating) == decision' = verdict /\ resolution' = rating

\* NegativeRatingThreshold; 0 is no rating.
Negative(rating) == 0 < rating /\ rating <= 2

\* The goroutine is at the beginning of the step or wait p.
Standing(p) == wf = "pending" /\ thr = "idle" /\ at = p

\* Mutant: the payload takes what this turn consulted, and no more.
LatestOnly(base, found) == found

\* mergeStrings
Merge(base, found) == base \cup found
-----------------------------------------------------------------------------
(* The workflow.  The chain of the task starts it, once per id. *)

StartFeedbackWorkflow ==
  /\ wf = "none"
  /\ wf' = "pending" /\ thr' = "idle"
  /\ UNCHANGED <<row, talk, notes, effects, at, envelope, inbox, call, calls, faults>>

\* Also when the process boots.
Recover ==
  /\ wf = "pending" /\ thr = "off"
  /\ thr' = "idle"
  /\ UNCHANGED <<row, talk, notes, effects, loop, inbox, call, calls, faults>>

\* runOpenStep: an open decision is left as it is; else the converser composes.
CheckExisting ==
  /\ Standing("open")
  /\ thr' = IF decision = "absent" THEN "opening" ELSE "ran"
  /\ UNCHANGED <<row, talk, notes, effects, loop, inbox, call, calls, faults>>

\* The decision, its opening message and the audits, in one transaction.
Open ==
  /\ thr = "opening"
  /\ decision = "absent"
  /\ \E found \in SUBSET ContextTool : consulted' = found
  /\ decision' = "open" /\ thread' = <<"agent">> /\ thr' = "ran"
  /\ UNCHANGED <<resolution, notes, effects, loop, inbox, call, calls, faults>>

Receive ==
  /\ Standing("wait") /\ inbox # <<>>
  /\ envelope' = Head(inbox) /\ inbox' = Tail(inbox)
  /\ at' = "record"
  /\ UNCHANGED <<row, talk, notes, effects, wf, thr, call, calls, faults>>

\* WaitForResultOrExpire: the deadline passes with nothing to receive.
Deadline ==
  /\ Standing("wait") /\ inbox = <<>>
  /\ at' = "expire"
  /\ UNCHANGED <<row, talk, notes, effects, wf, envelope, inbox, thr, call, calls, faults>>

\* Mutant: the expiry is recorded, and the decision left to the inbox.
ExpireNothing ==
  /\ Standing("expire")
  /\ thr' = IF decision = "open" THEN "expired" ELSE "ran"
  /\ UNCHANGED <<row, talk, notes, effects, loop, inbox, call, calls, faults>>

\* expireFeedback: a decision resolved meanwhile is skipped, without a record.
ExpireFeedback ==
  /\ Standing("expire")
  /\ IF decision = "open" THEN Resolve("expired", 0) /\ thr' = "expired"
     ELSE thr' = "ran" /\ UNCHANGED row
  /\ UNCHANGED <<talk, notes, effects, loop, inbox, call, calls, faults>>

RecordExpiry ==
  /\ thr = "expired"
  /\ expiries' = expiries + 1 /\ thr' = "ran"
  /\ UNCHANGED <<row, talk, notes, records, demotions, loop, inbox, call, calls, faults>>

\* recordFeedback: the audit, and the demotion in a transaction of its own.
RecordFeedback ==
  /\ Standing("record")
  /\ records' = Append(records, envelope)
  /\ thr' = IF Negative(envelope.rating) THEN "recorded" ELSE "ran"
  /\ UNCHANGED <<row, talk, notes, expiries, demotions, loop, inbox, call, calls, faults>>

Demote ==
  /\ thr = "recorded"
  /\ demotions' = demotions + 1 /\ thr' = "ran"
  /\ UNCHANGED <<row, talk, notes, records, expiries, loop, inbox, call, calls, faults>>

Checkpoint ==
  /\ thr = "ran"
  /\ at' = IF at = "open" THEN "wait" ELSE "end"
  /\ thr' = "idle"
  /\ UNCHANGED <<row, talk, notes, effects, wf, envelope, inbox, call, calls, faults>>

Return ==
  /\ Standing("end")
  /\ wf' = "done" /\ thr' = "off"
  /\ UNCHANGED <<row, talk, notes, effects, at, envelope, inbox, call, calls, faults>>
-----------------------------------------------------------------------------
(* The owner closes the conversation.  Each call first loads the decision, *)
(* which must be open.                                                     *)

Load(c) == call[c] = Idle /\ calls < MaxCalls /\ decision = "open" /\ calls' = calls + 1

AcceptFeedbackGuidance(c) ==
  /\ Load(c)
  /\ \E a \in Envelope :
       /\ a.accepted
       /\ call' = [call EXCEPT ![c] = [pc |-> IF a.note THEN "note" ELSE "resolve", answer |-> a]]
  /\ UNCHANGED <<row, talk, notes, effects, loop, inbox, thr, faults>>

DismissFeedback(c) ==
  /\ Load(c)
  /\ \E r \in Rating :
       call' = [call EXCEPT ![c] = [pc |-> "resolve", answer |-> [Unheard EXCEPT !.rating = r]]]
  /\ UNCHANGED <<row, talk, notes, effects, loop, inbox, thr, faults>>

\* Mutant: the note is all an acceptance writes.
InsertAndSend(c) ==
  /\ call[c].pc = "note"
  /\ notes' = Append(notes, "active")
  /\ call' = [call EXCEPT ![c].pc = "send"]
  /\ UNCHANGED <<row, talk, effects, loop, inbox, thr, calls, faults>>

\* The guidance is active before it is known who closes the conversation.
InsertGuidance(c) ==
  /\ call[c].pc = "note"
  /\ notes' = Append(notes, "active")
  /\ call' = [call EXCEPT ![c].pc = "resolve"]
  /\ UNCHANGED <<row, talk, effects, loop, inbox, thr, calls, faults>>

ResolveFirst(c) ==
  /\ call[c].pc = "resolve" /\ decision = "open"
  /\ Resolve(IF call[c].answer.accepted THEN "accepted" ELSE "dismissed", call[c].answer.rating)
  /\ call' = [call EXCEPT ![c].pc = "send"]
  /\ UNCHANGED <<talk, notes, effects, loop, inbox, thr, calls, faults>>

\* Mutant: a dismissal that came second sends its answer too.
SendAnyway(c) ==
  /\ call[c].pc = "resolve" /\ decision # "open"
  /\ call' = [call EXCEPT ![c].pc = "send"]
  /\ UNCHANGED <<row, talk, notes, effects, loop, inbox, thr, calls, faults>>

\* An acceptance goes on, a dismissal returns the decision as it is.
ResolveSecond(c) ==
  /\ call[c].pc = "resolve" /\ decision # "open"
  /\ call' = IF call[c].answer.accepted THEN [call EXCEPT ![c].pc = "send"]
             ELSE [call EXCEPT ![c] = Idle]
  /\ UNCHANGED <<row, talk, notes, effects, loop, inbox, thr, calls, faults>>

ResolveFeedback(c) ==
  /\ call[c].pc = "send"
  /\ inbox' = Append(inbox, call[c].answer)
  /\ call' = [call EXCEPT ![c] = Idle]
  /\ UNCHANGED <<row, talk, notes, effects, loop, thr, calls, faults>>

DeactivateAgentGuidance(n) ==
  /\ n \in DOMAIN notes /\ notes[n] = "active"
  /\ notes' = [notes EXCEPT ![n] = "dismissed"]
  /\ UNCHANGED <<row, talk, effects, loop, inbox, thr, call, calls, faults>>
-----------------------------------------------------------------------------
(* The owner talks: the payload is read first and written back at the end. *)

SendFeedbackMessage(c) ==
  /\ Load(c)
  /\ call' = [call EXCEPT ![c] = [pc |-> "ask", base |-> consulted, found |-> {}]]
  /\ UNCHANGED <<row, talk, notes, effects, loop, inbox, thr, faults>>

InsertMessage(c) ==
  /\ call[c].pc = "ask"
  /\ thread' = Append(thread, "user")
  /\ call' = [call EXCEPT ![c].pc = "reply"]
  /\ UNCHANGED <<row, consulted, notes, effects, loop, inbox, thr, calls, faults>>

\* The converser answers to the thread; its answer is stored.
Reply(c) ==
  /\ call[c].pc = "reply"
  /\ thread' = Append(thread, "agent")
  /\ \E found \in SUBSET ContextTool :
       call' = [call EXCEPT ![c].pc = "store", ![c].found = found]
  /\ UNCHANGED <<row, consulted, notes, effects, loop, inbox, thr, calls, faults>>

\* SetFeedbackDecisionPayload: only while the decision is open.
SetPayload(c) ==
  /\ call[c].pc = "store"
  /\ consulted' = IF decision = "open" THEN Merge(call[c].base, call[c].found) ELSE consulted
  /\ call' = [call EXCEPT ![c] = Idle]
  /\ UNCHANGED <<row, thread, notes, effects, loop, inbox, thr, calls, faults>>
-----------------------------------------------------------------------------
(* What goes wrong. *)

Crash ==
  /\ faults < MaxFaults
  /\ faults' = faults + 1
  /\ thr' = "off"
  /\ call' = [c \in Client |-> Idle]
  /\ UNCHANGED <<row, talk, notes, effects, loop, inbox, calls>>

\* A statement of a step fails: the step has no retries, and the workflow ends in error.
FailStep ==
  /\ thr \in {"opening", "expired", "recorded"}
       \/ Standing("open") \/ Standing("expire") \/ Standing("record")
  /\ faults < MaxFaults
  /\ faults' = faults + 1
  /\ wf' = "failed" /\ thr' = "off"
  /\ UNCHANGED <<row, talk, notes, effects, at, envelope, inbox, call, calls>>

FailCall(c) ==
  /\ call[c] # Idle /\ faults < MaxFaults
  /\ faults' = faults + 1
  /\ call' = [call EXCEPT ![c] = Idle]
  /\ UNCHANGED <<row, talk, notes, effects, loop, inbox, thr, calls>>

Step ==
  \/ Recover \/ CheckExisting \/ Open \/ Receive \/ Deadline \/ ExpireFeedback \/ RecordExpiry
  \/ RecordFeedback \/ Demote \/ Checkpoint \/ Return

CallStep(c) ==
  \/ AcceptFeedbackGuidance(c) \/ DismissFeedback(c) \/ InsertGuidance(c) \/ ResolveFirst(c)
  \/ ResolveSecond(c) \/ ResolveFeedback(c)
  \/ SendFeedbackMessage(c) \/ InsertMessage(c) \/ Reply(c) \/ SetPayload(c)

Next ==
  \/ StartFeedbackWorkflow \/ Step \/ FailStep \/ Crash
  \/ \E c \in Client : CallStep(c) \/ FailCall(c)
  \/ \E n \in DOMAIN notes : DeactivateAgentGuidance(n)

Spec == Init /\ [][Next]_vars

\* Recovery, the deadline and the steps go on; nobody has to answer.
FairSpec == Spec /\ WF_vars(Step)
-----------------------------------------------------------------------------
(* Properties. *)

\* What the loop concludes follows from the answers.  A dismissal is recorded only if it
\* closed the conversation; an acceptance may be recorded over whatever did.  A survey that
\* expired says nothing.  Tools are demoted when an answer of 1 or 2 was recorded, once for
\* each record: only a crash repeats both.
AnswerAgrees ==
  /\ \A k \in DOMAIN records :
       /\ decision \notin {"open", "expired"}
       /\ records[k].accepted \/ (decision = "dismissed" /\ resolution = records[k].rating)
       /\ records[k].note => notes # <<>>
  /\ Len(records) <= 1 + faults /\ demotions <= Len(records)
  /\ demotions > 0 => \E k \in DOMAIN records : records[k].rating \in {1, 2}

\* A loop that ends without a record has expired with its own audit, or the deadline beat an
\* answer to the topic, which is unread for good; otherwise something failed.
UnrecordedIsLate ==
  wf = "done" /\ records = <<>> =>
    \/ faults > 0
    \/ decision = "expired" /\ expiries = 1
    \/ decision \in {"accepted", "dismissed"}
         /\ (inbox # <<>> \/ \E c \in Client : call[c].pc = "send")

\* An active note in an open conversation belongs to an acceptance on its way, unless
\* that acceptance was cut: the owner then sees the conversation open, and may accept again.
NoteClosesDecision ==
  notes # <<>> /\ decision = "open" =>
    faults > 0 \/ \E c \in Client : call[c].pc = "resolve" /\ call[c].answer.note

\* Nothing of an answer is lost or left over unless its loop ended first or a fault cut it.
LeftoversAreExplained == UnrecordedIsLate /\ NoteClosesDecision

\* What was consulted accumulates; it is lost only by a turn that had loaded the payload
\* before the latest write.
ConsultedAccumulates ==
  [][consulted \subseteq consulted'
       \/ \E c \in Client : call[c].pc = "store" /\ call[c].base # consulted]_vars

\* A loop that was started ends, and leaves no survey open, unless its workflow failed.
LoopEnds == wf = "pending" ~> wf = "failed" \/ (wf = "done" /\ decision \notin {"absent", "open"})
=============================================================================
