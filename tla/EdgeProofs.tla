----------------------------- MODULE EdgeProofs -----------------------------
(***************************************************************************)
(* Proofs about the components at the edges of the system: the agent's     *)
(* segment (Runner), the feed and its scrolls (Inbox), the polls that turn  *)
(* items into tasks (Intake) and the push of a change (Realtime).          *)
(*                                                                         *)
(* One module extends all four, so what is theirs bears their name: the     *)
(* specifications are RunnerSpec, InboxSpec, IntakeSpec and RealtimeSpec,   *)
(* and what they count as faults is counted apart.  Nothing relates two.    *)
(*                                                                         *)
(* RunInv: what has been counted in a conversation adds up at every point   *)
(* of a segment, and the trail has the rows that the point calls for.       *)
(* BoxInv: a page holds what is between two cursors, on one clock.          *)
(* TakeInv: what each poll has in hand, and where each delivery is.         *)
(* LiveInv: where the news of a change is that the client has not seen.     *)
(***************************************************************************)
EXTENDS Runner, Inbox, Intake, Realtime, FiniteSetTheorems, SequenceTheorems,
        WellFoundedInduction, TLAPS
-----------------------------------------------------------------------------
(* Runner.                                                                 *)

\* A conversation in a turn that is `spent`, with `open` calls that have no observation,
\* `put` of them before the gate's counter but not told: what has been counted adds up.
Balanced(t, spent, open, put) ==
  /\ t.turns = t.iter + t.told + spent /\ t.iter + spent <= MaxIter
  /\ t.calls = t.seen + t.told + t.cut + open
  /\ t.told + put <= t.gates /\ t.gates <= Budget

\* Wherever the segment is.
Speech ==
  /\ body.pc = "chat" => Balanced(body.talk, 0, 0, 0)
  /\ body.pc = "calls" => Balanced(body.talk, 1, Len(body.todo), 0)
  /\ body.pc = "dispatch" => Balanced(body.talk, 1, Len(body.todo) + 1, 1)
  /\ body.pc = "paused" => Balanced(body.talk, 1, 1, 1)
  /\ body.pc \in {"chat", "calls", "dispatch", "paused"} => body.talk.told = asked

\* What a segment begins with is the conversation of the last one, which has ended in a
\* call that was put to the owner; or nothing has been said.
Resumes ==
  /\ body.pc \notin {"begin", "off"} => at = "segment"
  /\ at = "done" => body.pc = "off"
  /\ at = "await" => asked > 0
  /\ saved = Silence \/ Balanced(saved, 1, 1, 1)
  /\ at # "done" => (saved = Silence <=> at = "segment" /\ asked = 0)
  /\ saved.told <= asked
  /\ at = "register" => saved.told = asked
  /\ at \in {"segment", "await"} /\ asked > 0 => saved.told + 1 = asked

\* What a conversation t has cost, beyond the segments that a crash has cut off.
Spends(t, n) ==
  executed + n <= t.gates + Budget * crashes /\ chats <= t.turns + MaxIter * crashes

Spent ==
  /\ body.pc \in {"begin", "off"} /\ at # "done" => Spends(saved, 0)
  /\ body.pc \in {"chat", "calls", "paused"} => Spends(body.talk, 0)
  /\ body.pc = "dispatch" => Spends(body.talk, 1)
  /\ executed <= Budget + Budget * crashes /\ chats <= MaxIter + MaxIter * crashes + asked

\* The row that opens a run is written by its first segment, and an end has its row.
Opened ==
  trail.started <= crashes +
    (IF at = "segment" /\ asked = 0 /\ body.pc \in {"begin", "off"} THEN 0 ELSE 1)

Closed ==
  /\ result = "none" <=> at # "done"
  /\ body.pc = "finish" => body.end \in {"answer", "agent_handoff"}
  /\ body.pc \in {"finish", "ended"} /\ body.end = "agent_handoff" => trail.handoff + unwritten > 0
  /\ body.pc = "ended" =>
       /\ body.end \in {"answer", "agent_handoff"} => trail.finished + unwritten > 0
       /\ body.end = "budget_exhausted" => trail.budget + unwritten > 0
       /\ body.end = "max_iterations" => trail.iterations + unwritten > 0

RunInv ==
  RunnerTypeOK /\ Speech /\ Resumes /\ Spent /\ Opened /\ Closed /\ TrailTellsTheEnd
-----------------------------------------------------------------------------
\* A conversation is made of counters.
LEMMA TalkFields ==
  ASSUME NEW t \in Talk
  PROVE  /\ t.iter \in Nat /\ t.gates \in Nat /\ t.nudges \in 0 .. 2 /\ t.turns \in Nat
         /\ t.calls \in Nat /\ t.seen \in Nat /\ t.told \in Nat /\ t.cut \in Nat
  BY DEF Talk, MaxNudges

\* The body by the point it is at.
LEMMA BodyShape ==
  ASSUME RunnerTypeOK
  PROVE  /\ body.pc \in {"off", "begin", "chat", "calls", "dispatch", "finish", "ended",
                         "paused"}
         /\ body.pc = "off" <=> body = NoSegment
         /\ body.pc \in {"chat", "calls", "dispatch", "paused"} => body.talk \in Talk
         /\ body.pc \in {"calls", "dispatch"} => body.todo \in Seq(Call)
         /\ body.pc \in {"finish", "ended"} => body.end \in Reason
<1>1. body \in {NoSegment, [pc |-> "begin"]} \cup Speaking \cup Listening
        \cup Dispatching \cup Closing \cup Pausing
  BY DEF RunnerTypeOK
<1>2. CASE body \in {NoSegment, [pc |-> "begin"]} BY <1>2 DEF NoSegment
<1>3. CASE body \in Speaking BY <1>3 DEF Speaking, NoSegment
<1>4. CASE body \in Listening BY <1>4 DEF Listening, NoSegment
<1>5. CASE body \in Dispatching BY <1>5 DEF Dispatching, NoSegment
<1>6. CASE body \in Closing BY <1>6 DEF Closing, NoSegment
<1>7. CASE body \in Pausing BY <1>7 DEF Pausing, NoSegment
<1> QED BY <1>1, <1>2, <1>3, <1>4, <1>5, <1>6, <1>7

\* What has been counted of a run is a natural number.
LEMMA RunTypes ==
  ASSUME RunnerTypeOK
  PROVE  /\ at \in {"segment", "register", "await", "done"} /\ saved \in Talk
         /\ asked \in Nat /\ executed \in Nat /\ chats \in Nat
         /\ result \in Reason \cup {"none", "error"}
         /\ unwritten \in Nat /\ crashes \in Nat /\ unwritten <= MaxLosses /\ crashes <= MaxLosses
         /\ MaxLosses \in Nat /\ Budget \in Nat /\ MaxIter \in Nat /\ MaxReply \in Nat
         /\ Budget * crashes \in Nat /\ MaxIter * crashes \in Nat
         /\ Budget * (crashes + 1) = Budget * crashes + Budget
         /\ MaxIter * (crashes + 1) = MaxIter * crashes + MaxIter
         /\ trail \in [TrailKind -> Nat]
         /\ trail.started \in Nat /\ trail.finished \in Nat /\ trail.handoff \in Nat
         /\ trail.budget \in Nat /\ trail.iterations \in Nat
<1>1. /\ at \in {"segment", "register", "await", "done"} /\ saved \in Talk
      /\ asked \in Nat /\ executed \in Nat /\ chats \in Nat
      /\ result \in Reason \cup {"none", "error"}
      /\ unwritten \in Nat /\ crashes \in Nat /\ unwritten <= MaxLosses /\ crashes <= MaxLosses
      /\ MaxLosses \in Nat /\ Budget \in Nat /\ MaxIter \in Nat /\ MaxReply \in Nat
  BY RunnerBounds DEF RunnerBounds, RunnerTypeOK
<1>2. trail \in [TrailKind -> Nat] BY DEF RunnerTypeOK
<1>3. /\ trail.started \in Nat /\ trail.finished \in Nat /\ trail.handoff \in Nat
      /\ trail.budget \in Nat /\ trail.iterations \in Nat
  BY <1>2 DEF TrailKind
<1>4. /\ Budget * crashes \in Nat /\ Budget * (crashes + 1) = Budget * crashes + Budget
  BY <1>1
<1>5. /\ MaxIter * crashes \in Nat /\ MaxIter * (crashes + 1) = MaxIter * crashes + MaxIter
  BY <1>1
<1> QED BY <1>1, <1>2, <1>3, <1>4, <1>5

\* An audit writes its row or loses it.
LEMMA Audited ==
  ASSUME RunnerTypeOK, NEW k \in TrailKind, Audit(k), crashes' = crashes
  PROVE  /\ trail' \in [TrailKind -> Nat]
         /\ unwritten' \in 0 .. MaxLosses /\ unwritten' >= unwritten
         /\ \A j \in TrailKind : trail'[j] \in Nat /\ trail'[j] >= trail[j]
         /\ \A j \in TrailKind : j # k => trail'[j] = trail[j]
         /\ trail'[k] <= trail[k] + 1 /\ trail'[k] + unwritten' > 0
<1>1. trail \in [TrailKind -> Nat] /\ unwritten \in 0 .. MaxLosses /\ crashes \in Nat
        /\ MaxLosses \in Nat
  BY RunnerBounds DEF RunnerTypeOK, RunnerBounds
<1>2. CASE trail' = [trail EXCEPT ![k] = @ + 1] /\ unwritten' = unwritten BY <1>1, <1>2
<1>3. CASE unwritten + crashes < MaxLosses /\ unwritten' = unwritten + 1 /\ trail' = trail
  BY <1>1, <1>3
<1> QED BY <1>2, <1>3 DEF Audit

\* As long as a segment talks, what it has begun with stays.
LEMMA Continues ==
  ASSUME Resumes, at = "segment", body'.pc \notin {"begin", "off"},
         UNCHANGED <<at, saved, asked, result>>
  PROVE  Resumes'
  BY DEF Resumes, Silence, Balanced

\* As long as it talks and writes no audit, the trail stays true.
LEMMA TrailStays ==
  ASSUME RunInv, at = "segment", body.pc \in {"chat", "calls", "dispatch"},
         body'.pc \in {"chat", "calls", "dispatch", "paused"},
         UNCHANGED <<at, saved, asked, result, trail, unwritten, crashes>>
  PROVE  Opened' /\ Closed' /\ (TrailTellsTheEnd)'
<1>1. Opened' BY DEF RunInv, Opened
<1>2. Closed' BY DEF RunInv, Closed
<1>3. (TrailTellsTheEnd)' BY DEF RunInv, TrailTellsTheEnd
<1> QED BY <1>1, <1>2, <1>3

\* The model has taken a turn: it fails, or says what is no call, or calls.
LEMMA RunChats ==
  ASSUME RunInv, ChatFails \/ Nudge \/ Answer \/ Reply
  PROVE  RunInv'
<1> DEFINE t == body.talk
<1>1. RunnerTypeOK BY DEF RunInv
<1>2. /\ body.pc = "chat" /\ t.iter < MaxIter /\ chats' = chats + 1
      /\ UNCHANGED <<at, saved, asked, result, trail, unwritten, crashes, executed>>
  BY DEF ChatFails, Nudge, Answer, Reply, HasTurn, durable
<1>3. t \in Talk BY <1>1, <1>2, BodyShape
<1>4. /\ t.iter \in Nat /\ t.gates \in Nat /\ t.nudges \in 0 .. 2 /\ t.turns \in Nat
      /\ t.calls \in Nat /\ t.seen \in Nat /\ t.told \in Nat /\ t.cut \in Nat
  BY <1>3, TalkFields
<1>5. Balanced(t, 0, 0, 0) /\ t.told = asked /\ Spends(t, 0) /\ at = "segment"
  BY <1>2 DEF RunInv, Speech, Spent, Resumes
<1>6. /\ MaxIter \in Nat /\ Budget \in Nat /\ asked \in Nat /\ chats \in Nat
      /\ executed \in Nat /\ Budget * crashes \in Nat /\ MaxIter * crashes \in Nat
  BY <1>1, RunTypes
<1>7. CASE body'.pc \in {"finish", "ended"} /\ body'.end \in {"gateway_error", "answer"}
             /\ body' \in Closing /\ (body'.end = "answer" <=> body'.pc = "finish")
  <2>1. (RunnerTypeOK)' BY <1>1, <1>2, <1>6, <1>7 DEF RunnerTypeOK
  <2>2. Speech' BY <1>7 DEF Speech
  <2>3. Resumes' BY <1>2, <1>5, <1>7, Continues DEF RunInv
  <2>4. Spent' BY <1>2, <1>4, <1>5, <1>6, <1>7 DEF Spent, Spends, Balanced
  <2>5. Opened' BY <1>2, <1>7 DEF RunInv, Opened
  <2>6. Closed' BY <1>2, <1>7 DEF RunInv, Closed
  <2>7. (TrailTellsTheEnd)' BY <1>1, <1>2, <1>7, RunTypes DEF RunInv, TrailTellsTheEnd
  <2> QED BY <2>1, <2>2, <2>3, <2>4, <2>5, <2>6, <2>7 DEF RunInv
<1>8. CASE Nudge
  <2>1. body' = [pc |-> "chat", talk |->
                  [t EXCEPT !.nudges = @ + 1, !.turns = @ + 1, !.iter = @ + 1]]
          /\ t.nudges < 2
    BY <1>8 DEF Nudge, MaxNudges
  <2>2. body'.pc = "chat" /\ body'.talk = [t EXCEPT !.nudges = @ + 1, !.turns = @ + 1,
                                                   !.iter = @ + 1]
    BY <2>1
  <2>3. /\ body'.talk.iter = t.iter + 1 /\ body'.talk.turns = t.turns + 1
        /\ body'.talk.gates = t.gates /\ body'.talk.calls = t.calls
        /\ body'.talk.seen = t.seen /\ body'.talk.told = t.told /\ body'.talk.cut = t.cut
    BY <1>3, <2>2 DEF Talk
  <2>4. body'.talk \in Talk
    <3>1. body'.talk = [iter |-> t.iter + 1, gates |-> t.gates, nudges |-> t.nudges + 1,
                        turns |-> t.turns + 1, calls |-> t.calls, seen |-> t.seen,
                        told |-> t.told, cut |-> t.cut]
      BY <1>3, <2>2 DEF Talk
    <3>2. t.nudges + 1 \in 0 .. 2 BY <1>4, <2>1
    <3> HIDE DEF t
    <3> QED BY <1>4, <3>1, <3>2 DEF Talk, MaxNudges
  <2>5. body' \in Speaking BY <2>1, <2>2, <2>4 DEF Speaking
  <2>6. (RunnerTypeOK)' BY <1>1, <1>2, <1>6, <2>5 DEF RunnerTypeOK
  <2>7. Speech' BY <1>2, <1>4, <1>5, <1>6, <2>2, <2>3 DEF Speech, Balanced
  <2>8. Resumes' BY <1>2, <1>5, <2>2, Continues DEF RunInv
  <2>9. Spent' BY <1>2, <1>4, <1>5, <1>6, <2>2, <2>3 DEF Spent, Spends, Balanced
  <2>10. Opened' /\ Closed' /\ (TrailTellsTheEnd)' BY <1>2, <1>5, <2>2, TrailStays
  <2> QED BY <2>6, <2>7, <2>8, <2>9, <2>10 DEF RunInv
<1>9. CASE Reply
  <2>1. PICK r \in Replies :
          body' = [pc |-> "calls", todo |-> r,
                   talk |-> [t EXCEPT !.turns = @ + 1, !.calls = @ + Len(r)]]
    BY <1>9 DEF Reply
  <2>2. r \in Seq(Call) /\ Len(r) \in Nat
    <3>1. PICK n \in 1 .. MaxReply : r \in [1 .. n -> Call] BY DEF Replies
    <3>2. n \in Nat BY <1>1, RunTypes
    <3> QED BY <3>1, <3>2
  <2>3. /\ body'.pc = "calls" /\ body'.todo = r
        /\ body'.talk = [t EXCEPT !.turns = @ + 1, !.calls = @ + Len(r)]
    BY <2>1
  <2>4. PICK n \in Nat : n = Len(r) BY <2>2
  <2>5. /\ body'.talk.iter = t.iter /\ body'.talk.turns = t.turns + 1
        /\ body'.talk.gates = t.gates /\ body'.talk.calls = t.calls + n
        /\ body'.talk.seen = t.seen /\ body'.talk.told = t.told /\ body'.talk.cut = t.cut
    BY <1>3, <2>3, <2>4 DEF Talk
  <2>6. body'.pc = "calls" /\ Len(body'.todo) = n BY <2>3, <2>4
  <2>7. body'.talk \in Talk
    <3>1. body'.talk = [iter |-> t.iter, gates |-> t.gates, nudges |-> t.nudges,
                        turns |-> t.turns + 1, calls |-> t.calls + n,
                        seen |-> t.seen, told |-> t.told, cut |-> t.cut]
      BY <1>3, <2>3, <2>4 DEF Talk
    <3> HIDE DEF t
    <3> QED BY <1>4, <2>4, <3>1 DEF Talk, MaxNudges
  <2>8. body' \in Listening BY <2>1, <2>2, <2>3, <2>7 DEF Listening
  <2>9. (RunnerTypeOK)' BY <1>1, <1>2, <1>6, <2>8 DEF RunnerTypeOK
  <2> HIDE DEF t
  <2>10. Speech'
    <3>1. /\ t.turns = t.iter + t.told /\ t.iter <= MaxIter
          /\ t.calls = t.seen + t.told + t.cut
          /\ t.told <= t.gates /\ t.gates <= Budget
      BY <1>4, <1>5 DEF Balanced
    <3>2. /\ body'.talk.turns = body'.talk.iter + body'.talk.told + 1
          /\ body'.talk.iter + 1 <= MaxIter
      BY <1>2, <1>4, <2>5, <1>6, <3>1
    <3>3. body'.talk.calls = body'.talk.seen + body'.talk.told + body'.talk.cut + n
      BY <1>4, <2>4, <2>5, <3>1
    <3>4. body'.talk.told + 0 <= body'.talk.gates /\ body'.talk.gates <= Budget
      BY <1>4, <2>5, <3>1
    <3> QED BY <1>2, <1>5, <2>5, <2>6, <3>2, <3>3, <3>4 DEF Speech, Balanced
  <2>11. Resumes' BY <1>2, <1>5, <2>6, Continues DEF RunInv
  <2>12. Spent'
    <3>1. /\ t.turns = t.iter + t.told /\ t.gates <= Budget
          /\ executed <= t.gates + Budget * crashes /\ chats <= t.turns + MaxIter * crashes
      BY <1>4, <1>5, <1>6 DEF Balanced, Spends
    <3>2. Spends(body.talk, 0)'
      BY <1>2, <1>4, <1>6, <2>5, <3>1 DEF Spends
    <3>3. (executed <= Budget + Budget * crashes)' BY <1>2, <1>4, <1>6, <3>1
    <3>4. (chats <= MaxIter + MaxIter * crashes + asked)' BY <1>2, <1>4, <1>5, <1>6, <3>1
    <3> QED BY <2>6, <3>2, <3>3, <3>4 DEF Spent
  <2>13. Opened' /\ Closed' /\ (TrailTellsTheEnd)' BY <1>2, <1>5, <2>6, TrailStays
  <2> QED BY <2>9, <2>10, <2>11, <2>12, <2>13 DEF RunInv
<1>10. CASE ChatFails \/ Answer
  <2>1. \/ body' = [pc |-> "ended", end |-> "gateway_error"]
        \/ body' = [pc |-> "finish", end |-> "answer"]
    BY <1>10 DEF ChatFails, Answer
  <2>2. body' \in Closing BY <2>1 DEF Closing, Reason
  <2> QED BY <1>7, <2>1, <2>2
<1> QED BY <1>8, <1>9, <1>10

\* A segment goes on: what is left to show is about its conversation and the costs.
LEMMA RunGoesOn ==
  ASSUME RunInv, at = "segment", body.pc \in {"chat", "calls", "dispatch"},
         body' \in Speaking \cup Listening \cup Dispatching \cup Pausing,
         UNCHANGED <<at, saved, asked, result, trail, unwritten, crashes>>,
         chats' \in Nat, executed' \in Nat, Speech', Spent'
  PROVE  RunInv'
<1>1. (RunnerTypeOK)' BY DEF RunInv, RunnerTypeOK
<1>2. body'.pc \in {"chat", "calls", "dispatch", "paused"}
  BY DEF Speaking, Listening, Dispatching, Pausing
<1>3. Resumes' BY <1>2, Continues DEF RunInv
<1>4. Opened' /\ Closed' /\ (TrailTellsTheEnd)' BY <1>2, TrailStays
<1> QED BY <1>1, <1>3, <1>4 DEF RunInv

\* What is left of a reply after its first call.
LEMMA CallsLeft ==
  ASSUME NEW S, NEW s \in Seq(S), s # <<>>
  PROVE  \E n \in Nat : Len(s) = n + 1 /\ Len(Tail(s)) = n /\ Tail(s) \in Seq(S)
<1>1. Len(s) \in Nat \ {0} BY EmptySeq, Z3
<1>2. Len(Tail(s)) = Len(s) - 1 /\ Tail(s) \in Seq(S) BY HeadTailProperties, Zenon
<1>3. Len(s) - 1 \in Nat /\ Len(s) = (Len(s) - 1) + 1 BY <1>1
<1> QED BY <1>2, <1>3, Zenon

\* The model has been told of one call more.
LEMMA ObservedIs ==
  ASSUME NEW t \in Talk
  PROVE  Observed(t) =
           [iter |-> t.iter, gates |-> t.gates, nudges |-> t.nudges, turns |-> t.turns,
            calls |-> t.calls, seen |-> t.seen + 1, told |-> t.told, cut |-> t.cut]
  BY DEF Observed, Talk

\* The reply is over.
LEMMA RunNextTurn ==
  ASSUME RunInv, NextTurn
  PROVE  RunInv'
<1> DEFINE t == body.talk
<1>1. RunnerTypeOK BY DEF RunInv
<1>2. /\ body.pc = "calls" /\ Len(body.todo) = 0
      /\ body' = [pc |-> "chat", talk |-> [t EXCEPT !.iter = @ + 1]]
      /\ UNCHANGED <<at, saved, asked, result, trail, unwritten, crashes, chats, executed>>
  BY DEF NextTurn, durable, external
<1>3. t \in Talk BY <1>1, <1>2, BodyShape
<1>4. /\ t.iter \in Nat /\ t.gates \in Nat /\ t.nudges \in 0 .. 2 /\ t.turns \in Nat
      /\ t.calls \in Nat /\ t.seen \in Nat /\ t.told \in Nat /\ t.cut \in Nat
  BY <1>3, TalkFields
<1>5. Balanced(t, 1, 0, 0) /\ t.told = asked /\ Spends(t, 0) /\ at = "segment"
  BY <1>2 DEF RunInv, Speech, Spent, Resumes
<1>6. /\ MaxIter \in Nat /\ Budget \in Nat /\ asked \in Nat /\ chats \in Nat
      /\ executed \in Nat /\ Budget * crashes \in Nat /\ MaxIter * crashes \in Nat
  BY <1>1, RunTypes
<1>7. body'.pc = "chat" /\ body'.talk = [t EXCEPT !.iter = @ + 1] BY <1>2
<1>8. /\ body'.talk.iter = t.iter + 1 /\ body'.talk.turns = t.turns
      /\ body'.talk.gates = t.gates /\ body'.talk.calls = t.calls
      /\ body'.talk.seen = t.seen /\ body'.talk.told = t.told /\ body'.talk.cut = t.cut
  BY <1>3, <1>7 DEF Talk
<1>9. body' \in Speaking
  <2>1. body'.talk \in Talk BY <1>3, <1>4, <1>7 DEF Talk
  <2> QED BY <1>2, <1>7, <2>1 DEF Speaking
<1> HIDE DEF t
<1>10. Speech'
  <2>1. /\ t.turns = t.iter + t.told + 1 /\ t.iter + 1 <= MaxIter
        /\ t.calls = t.seen + t.told + t.cut + 0
        /\ t.told <= t.gates /\ t.gates <= Budget
    BY <1>4, <1>5 DEF Balanced
  <2>2. (Balanced(body.talk, 0, 0, 0))' BY <1>4, <1>8, <2>1 DEF Balanced
  <2>3. (body.pc = "chat" /\ body.talk.told = asked)' BY <1>2, <1>5, <1>7, <1>8
  <2> QED BY <2>2, <2>3 DEF Speech
<1>11. Spent'
  <2>1. Spends(body.talk, 0)' BY <1>2, <1>5, <1>8 DEF Spends
  <2> QED BY <1>2, <1>7, <2>1 DEF RunInv, Spent
<1> QED BY <1>2, <1>5, <1>6, <1>9, <1>10, <1>11, RunGoesOn

\* A call is refused: by the allowlist, before the gate counts it, or by the gate.
LEMMA RunRefuses ==
  ASSUME RunInv, RefuseCall \/ Denied
  PROVE  RunInv'
<1> DEFINE t == body.talk
<1>1. RunnerTypeOK BY DEF RunInv
<1>2. PICK b \in 0 .. 1 :
        /\ body.pc = "calls" /\ body.todo # <<>> /\ (b = 1 => body.talk.gates < Budget)
        /\ body' = [pc |-> "calls", todo |-> Tail(body.todo),
                    talk |-> IF b = 0 THEN Observed(t)
                             ELSE [Observed(t) EXCEPT !.gates = @ + 1]]
        /\ UNCHANGED <<at, saved, asked, result, trail, unwritten, crashes, chats, executed>>
  <2>1. CASE RefuseCall
    <3>1. WITNESS 0 \in 0 .. 1
    <3> QED BY <2>1 DEF RefuseCall, Has, durable, external
  <2>2. CASE Denied
    <3>1. WITNESS 1 \in 0 .. 1
    <3> QED BY <2>2 DEF Denied, WithinBudget, Has, durable, external
  <2> QED BY <2>1, <2>2
<1>3. t \in Talk /\ body.todo \in Seq(Call) BY <1>1, <1>2, BodyShape
<1>4. /\ t.iter \in Nat /\ t.gates \in Nat /\ t.nudges \in 0 .. 2 /\ t.turns \in Nat
      /\ t.calls \in Nat /\ t.seen \in Nat /\ t.told \in Nat /\ t.cut \in Nat
  BY <1>3, TalkFields
<1>5. Balanced(t, 1, Len(body.todo), 0) /\ t.told = asked /\ Spends(t, 0) /\ at = "segment"
  BY <1>2 DEF RunInv, Speech, Spent, Resumes
<1>6. /\ MaxIter \in Nat /\ Budget \in Nat /\ asked \in Nat /\ chats \in Nat
      /\ executed \in Nat /\ Budget * crashes \in Nat /\ MaxIter * crashes \in Nat
  BY <1>1, RunTypes
<1>7. PICK n \in Nat : Len(body.todo) = n + 1 /\ Len(Tail(body.todo)) = n
                         /\ Tail(body.todo) \in Seq(Call)
  BY <1>2, <1>3, CallsLeft, Zenon
<1>8. body'.pc = "calls" /\ body'.todo = Tail(body.todo) /\ Len(body'.todo) = n
  BY <1>2, <1>7
<1>9. body'.talk = [iter |-> t.iter, gates |-> t.gates + b, nudges |-> t.nudges,
                    turns |-> t.turns, calls |-> t.calls, seen |-> t.seen + 1,
                    told |-> t.told, cut |-> t.cut]
  <2>1. body'.talk = IF b = 0 THEN Observed(t)
                     ELSE [Observed(t) EXCEPT !.gates = @ + 1]
    BY <1>2
  <2>2. Observed(t) =
          [iter |-> t.iter, gates |-> t.gates, nudges |-> t.nudges, turns |-> t.turns,
           calls |-> t.calls, seen |-> t.seen + 1, told |-> t.told, cut |-> t.cut]
    BY <1>3, ObservedIs
  <2> HIDE DEF t
  <2>3. CASE b = 0 BY <1>4, <2>1, <2>2, <2>3
  <2>4. CASE b = 1 BY <1>4, <2>1, <2>2, <2>4
  <2> QED BY <2>3, <2>4
<1>10. /\ body'.talk.iter = t.iter /\ body'.talk.turns = t.turns
       /\ body'.talk.gates = t.gates + b /\ body'.talk.calls = t.calls
       /\ body'.talk.seen = t.seen + 1 /\ body'.talk.told = t.told /\ body'.talk.cut = t.cut
  BY <1>9
<1>11. b = 1 => t.gates < Budget BY <1>2
<1>12. UNCHANGED <<at, saved, asked, result, trail, unwritten, crashes, chats, executed>> BY <1>2
<1>13. body' \in Listening
  <2>1. body' = [pc |-> "calls", todo |-> Tail(body.todo), talk |-> body'.talk] BY <1>2
  <2>2. body'.talk \in Talk
    <3> HIDE DEF t
    <3>1. PICK g \in Nat : g = t.gates + b BY <1>4
    <3>2. PICK s \in Nat : s = t.seen + 1 BY <1>4
    <3>3. body'.talk = [iter |-> t.iter, gates |-> g, nudges |-> t.nudges,
                        turns |-> t.turns, calls |-> t.calls, seen |-> s,
                        told |-> t.told, cut |-> t.cut]
      BY <1>9, <3>1, <3>2, Zenon
    <3> QED BY ONLY <1>4, <3>3, g \in Nat, s \in Nat DEF Talk, MaxNudges
  <2> QED BY ONLY <1>7, <2>1, <2>2 DEF Listening
<1> HIDE DEF t
<1>14. Speech'
  <2>1. /\ t.turns = t.iter + t.told + 1 /\ t.iter + 1 <= MaxIter
        /\ t.calls = t.seen + t.told + t.cut + (n + 1)
        /\ t.told <= t.gates /\ t.gates <= Budget
    BY <1>4, <1>5, <1>7 DEF Balanced
  <2>2. /\ body'.talk.turns = body'.talk.iter + body'.talk.told + 1
        /\ body'.talk.iter + 1 <= MaxIter
    BY <1>10, <2>1
  <2>3. body'.talk.calls = body'.talk.seen + body'.talk.told + body'.talk.cut + n
    <3>1. t.calls = (t.seen + 1) + t.told + t.cut + n BY ONLY <1>4, <2>1, n \in Nat
    <3> QED BY ONLY <1>10, <3>1
  <2>4. body'.talk.told + 0 <= body'.talk.gates /\ body'.talk.gates <= Budget
    BY <1>4, <1>6, <1>10, <1>11, <2>1
  <2>5. (Balanced(body.talk, 1, Len(body.todo), 0))'
    BY <1>8, <2>2, <2>3, <2>4 DEF Balanced
  <2>6. (body.talk.told = asked)' BY <1>5, <1>10, <1>12
  <2> QED BY <1>8, <2>5, <2>6 DEF Speech
<1>15. Spent'
  <2>1. executed <= t.gates + Budget * crashes /\ chats <= t.turns + MaxIter * crashes
    BY <1>4, <1>5, <1>6 DEF Spends
  <2>2. Spends(body.talk, 0)' BY <1>4, <1>6, <1>10, <1>12, <2>1 DEF Spends
  <2> QED BY <1>8, <1>12, <2>2 DEF RunInv, Spent
<1> QED BY <1>2, <1>5, <1>6, <1>12, <1>13, <1>14, <1>15, RunGoesOn

\* The gate approves a call.
LEMMA RunApproved ==
  ASSUME RunInv, Approved
  PROVE  RunInv'
<1> DEFINE t == body.talk
<1>1. RunnerTypeOK BY DEF RunInv
<1>2. /\ body.pc = "calls" /\ body.todo # <<>> /\ t.gates < Budget
      /\ body' = [pc |-> "dispatch", todo |-> Tail(body.todo),
                  talk |-> [t EXCEPT !.gates = @ + 1]]
  BY DEF Approved, WithinBudget, Has
<1>3. UNCHANGED <<at, saved, asked, result, trail, unwritten, crashes, chats, executed>>
  BY DEF Approved, durable, external
<1>4. t \in Talk /\ body.todo \in Seq(Call) BY <1>1, <1>2, BodyShape
<1>5. /\ t.iter \in Nat /\ t.gates \in Nat /\ t.nudges \in 0 .. 2 /\ t.turns \in Nat
      /\ t.calls \in Nat /\ t.seen \in Nat /\ t.told \in Nat /\ t.cut \in Nat
  BY <1>4, TalkFields
<1>6. Balanced(t, 1, Len(body.todo), 0) /\ t.told = asked /\ Spends(t, 0) /\ at = "segment"
  BY <1>2 DEF RunInv, Speech, Spent, Resumes
<1>7. /\ MaxIter \in Nat /\ Budget \in Nat /\ asked \in Nat /\ chats \in Nat
      /\ executed \in Nat /\ Budget * crashes \in Nat /\ MaxIter * crashes \in Nat
  BY <1>1, RunTypes
<1>8. PICK n \in Nat : Len(body.todo) = n + 1 /\ Len(Tail(body.todo)) = n
                         /\ Tail(body.todo) \in Seq(Call)
  BY <1>2, <1>4, CallsLeft, Zenon
<1>9. body'.pc = "dispatch" /\ body'.todo = Tail(body.todo) /\ Len(body'.todo) = n
  BY <1>2, <1>8
<1>10. body'.talk = [t EXCEPT !.gates = @ + 1] BY <1>2
<1>11. /\ body'.talk.iter = t.iter /\ body'.talk.turns = t.turns
       /\ body'.talk.gates = t.gates + 1 /\ body'.talk.calls = t.calls
       /\ body'.talk.seen = t.seen /\ body'.talk.told = t.told /\ body'.talk.cut = t.cut
  BY <1>4, <1>10 DEF Talk
<1>12. body' \in Dispatching
  <2>1. body' = [pc |-> "dispatch", todo |-> Tail(body.todo), talk |-> body'.talk]
    BY <1>2, <1>10
  <2>2. body'.talk \in Talk
    <3>1. PICK g \in Nat : g = t.gates + 1 BY <1>5
    <3>2. body'.talk = [t EXCEPT !.gates = g] BY <1>10, <3>1
    <3> QED BY <1>4, <3>2 DEF Talk
  <2> QED BY ONLY <1>8, <2>1, <2>2 DEF Dispatching
<1>13. t.gates < Budget BY <1>2
<1> HIDE DEF t
<1>14. Speech'
  <2>1. /\ t.turns = t.iter + t.told + 1 /\ t.iter + 1 <= MaxIter
        /\ t.calls = t.seen + t.told + t.cut + (n + 1)
        /\ t.told <= t.gates /\ t.gates <= Budget
    BY <1>5, <1>6, <1>8 DEF Balanced
  <2>2. /\ body'.talk.turns = body'.talk.iter + body'.talk.told + 1
        /\ body'.talk.iter + 1 <= MaxIter
    BY <1>11, <2>1
  <2>3. body'.talk.calls = body'.talk.seen + body'.talk.told + body'.talk.cut + (n + 1)
    BY <1>5, <1>11, <2>1
  <2>4. body'.talk.told + 1 <= body'.talk.gates /\ body'.talk.gates <= Budget
    BY <1>5, <1>7, <1>11, <1>13, <2>1
  <2>5. (Balanced(body.talk, 1, Len(body.todo) + 1, 1))'
    BY <1>9, <2>2, <2>3, <2>4 DEF Balanced
  <2>6. (body.talk.told = asked)' BY <1>3, <1>6, <1>11
  <2> QED BY <1>9, <2>5, <2>6 DEF Speech
<1>15. Spent'
  <2>1. executed <= t.gates + Budget * crashes /\ chats <= t.turns + MaxIter * crashes
    BY <1>5, <1>6, <1>7 DEF Spends
  <2>2. Spends(body.talk, 1)' BY <1>3, <1>5, <1>7, <1>11, <2>1 DEF Spends
  <2> QED BY <1>3, <1>9, <2>2 DEF RunInv, Spent
<1> QED BY <1>2, <1>3, <1>6, <1>7, <1>12, <1>14, <1>15, RunGoesOn

\* The tool is called.
LEMMA RunDispatches ==
  ASSUME RunInv, DispatchCall
  PROVE  RunInv'
<1> DEFINE t == body.talk
<1>1. RunnerTypeOK BY DEF RunInv
<1>2. /\ body.pc = "dispatch" /\ executed' = executed + 1
      /\ body' = [pc |-> "calls", todo |-> body.todo, talk |-> Observed(t)]
  BY DEF DispatchCall
<1>3. UNCHANGED <<at, saved, asked, result, trail, unwritten, crashes, chats>>
  BY DEF DispatchCall, durable
<1>4. t \in Talk /\ body.todo \in Seq(Call) BY <1>1, <1>2, BodyShape
<1>5. /\ t.iter \in Nat /\ t.gates \in Nat /\ t.nudges \in 0 .. 2 /\ t.turns \in Nat
      /\ t.calls \in Nat /\ t.seen \in Nat /\ t.told \in Nat /\ t.cut \in Nat
  BY <1>4, TalkFields
<1>6. /\ t.turns = t.iter + t.told + 1 /\ t.iter + 1 <= MaxIter
      /\ t.calls = t.seen + t.told + t.cut + (Len(body.todo) + 1)
      /\ t.told + 1 <= t.gates /\ t.gates <= Budget
      /\ t.told = asked /\ Spends(t, 1) /\ at = "segment"
  BY <1>2 DEF RunInv, Speech, Spent, Resumes, Balanced
<1>7. /\ MaxIter \in Nat /\ Budget \in Nat /\ asked \in Nat /\ chats \in Nat
      /\ executed \in Nat /\ Budget * crashes \in Nat /\ MaxIter * crashes \in Nat
  BY <1>1, RunTypes
<1>8. PICK n \in Nat : n = Len(body.todo) BY <1>4
<1>9. body'.pc = "calls" /\ Len(body'.todo) = n BY <1>2, <1>8
<1>10. body'.talk = [iter |-> t.iter, gates |-> t.gates, nudges |-> t.nudges,
                     turns |-> t.turns, calls |-> t.calls, seen |-> t.seen + 1,
                     told |-> t.told, cut |-> t.cut]
  BY <1>2, <1>4, ObservedIs
<1>11. /\ body'.talk.iter = t.iter /\ body'.talk.turns = t.turns
       /\ body'.talk.gates = t.gates /\ body'.talk.calls = t.calls
       /\ body'.talk.seen = t.seen + 1 /\ body'.talk.told = t.told /\ body'.talk.cut = t.cut
  BY <1>10
<1>12. body' \in Listening
  <2>1. body' = [pc |-> "calls", todo |-> body.todo, talk |-> body'.talk] BY <1>2, <1>10
  <2>2. body.todo \in Seq(Call) BY <1>4
  <2>3. body'.talk \in Talk
    <3> HIDE DEF t
    <3>1. PICK s \in Nat : s = t.seen + 1 BY <1>5
    <3>2. body'.talk = [iter |-> t.iter, gates |-> t.gates, nudges |-> t.nudges,
                        turns |-> t.turns, calls |-> t.calls, seen |-> s,
                        told |-> t.told, cut |-> t.cut]
      BY <1>10, <3>1, Zenon
    <3> QED BY ONLY <1>5, <3>2, s \in Nat DEF Talk, MaxNudges
  <2> QED BY ONLY <2>1, <2>2, <2>3 DEF Listening
<1> HIDE DEF t
<1>13. Speech'
  <2>1. /\ t.turns = t.iter + t.told + 1 /\ t.iter + 1 <= MaxIter
        /\ t.calls = t.seen + t.told + t.cut + (n + 1)
        /\ t.told + 1 <= t.gates /\ t.gates <= Budget
    BY <1>6, <1>8
  <2>2. /\ body'.talk.turns = body'.talk.iter + body'.talk.told + 1
        /\ body'.talk.iter + 1 <= MaxIter
    BY <1>11, <2>1
  <2>3. body'.talk.calls = body'.talk.seen + body'.talk.told + body'.talk.cut + n
    BY <1>5, <1>11, <2>1
  <2>4. body'.talk.told + 0 <= body'.talk.gates /\ body'.talk.gates <= Budget
    BY <1>5, <1>7, <1>11, <2>1
  <2>5. (Balanced(body.talk, 1, Len(body.todo), 0))'
    BY <1>9, <2>2, <2>3, <2>4 DEF Balanced
  <2>6. (body.talk.told = asked)' BY <1>3, <1>6, <1>11
  <2> QED BY <1>9, <2>5, <2>6 DEF Speech
<1>14. Spent'
  <2>1. executed + 1 <= t.gates + Budget * crashes /\ chats <= t.turns + MaxIter * crashes
    BY <1>6 DEF Spends
  <2>2. Spends(body.talk, 0)' BY <1>2, <1>3, <1>5, <1>7, <1>11, <2>1 DEF Spends
  <2>3. executed' = executed + 1 /\ t.gates <= Budget BY <1>2, <1>6
  <2>4. executed' <= Budget + Budget * crashes BY <1>5, <1>7, <2>1, <2>3
  <2> QED BY <1>3, <1>9, <2>2, <2>4 DEF RunInv, Spent
<1> QED BY <1>2, <1>3, <1>6, <1>7, <1>12, <1>13, <1>14, RunGoesOn

\* The gate wants a decision.
LEMMA RunPauses ==
  ASSUME RunInv, Pause
  PROVE  RunInv'
<1> DEFINE t == body.talk
<1>1. RunnerTypeOK BY DEF RunInv
<1>2. /\ body.pc = "calls" /\ body.todo # <<>> /\ t.gates < Budget
      /\ body' = [pc |-> "paused",
                  talk |-> [t EXCEPT !.gates = @ + 1, !.cut = @ + Len(body.todo) - 1]]
  BY DEF Pause, WithinBudget, Has
<1>3. UNCHANGED <<at, saved, asked, result, trail, unwritten, crashes, chats, executed>>
  BY DEF Pause, durable, external
<1>4. t \in Talk /\ body.todo \in Seq(Call) BY <1>1, <1>2, BodyShape
<1>5. /\ t.iter \in Nat /\ t.gates \in Nat /\ t.nudges \in 0 .. 2 /\ t.turns \in Nat
      /\ t.calls \in Nat /\ t.seen \in Nat /\ t.told \in Nat /\ t.cut \in Nat
  BY <1>4, TalkFields
<1>6. Balanced(t, 1, Len(body.todo), 0) /\ t.told = asked /\ Spends(t, 0) /\ at = "segment"
  BY <1>2 DEF RunInv, Speech, Spent, Resumes
<1>7. /\ MaxIter \in Nat /\ Budget \in Nat /\ asked \in Nat /\ chats \in Nat
      /\ executed \in Nat /\ Budget * crashes \in Nat /\ MaxIter * crashes \in Nat
  BY <1>1, RunTypes
<1>8. PICK n \in Nat : Len(body.todo) = n + 1 BY <1>2, <1>4, CallsLeft, Zenon
<1>9. body'.pc = "paused" BY <1>2
<1>10. body'.talk = [t EXCEPT !.gates = @ + 1, !.cut = @ + Len(body.todo) - 1] BY <1>2
<1>11. t.cut + Len(body.todo) - 1 = t.cut + n BY <1>5, <1>8
<1>12. body'.talk = [t EXCEPT !.gates = t.gates + 1, !.cut = t.cut + n]
  BY <1>10, <1>11
<1>13. /\ body'.talk.iter = t.iter /\ body'.talk.turns = t.turns
       /\ body'.talk.gates = t.gates + 1 /\ body'.talk.calls = t.calls
       /\ body'.talk.seen = t.seen /\ body'.talk.told = t.told /\ body'.talk.cut = t.cut + n
  BY <1>4, <1>12 DEF Talk
<1>14. body' \in Pausing
  <2>1. body' = [pc |-> "paused", talk |-> body'.talk] BY <1>2, <1>10
  <2>2. PICK g \in Nat : g = t.gates + 1 BY <1>5
  <2>3. PICK c \in Nat : c = t.cut + n BY <1>5
  <2>4. body'.talk = [t EXCEPT !.gates = g, !.cut = c] BY <1>12, <2>2, <2>3
  <2>5. body'.talk \in Talk BY <1>4, <2>4 DEF Talk
  <2> QED BY ONLY <2>1, <2>5 DEF Pausing
<1>15. t.gates < Budget BY <1>2
<1> HIDE DEF t
<1>16. Speech'
  <2>1. /\ t.turns = t.iter + t.told + 1 /\ t.iter + 1 <= MaxIter
        /\ t.calls = t.seen + t.told + t.cut + (n + 1)
        /\ t.told <= t.gates /\ t.gates <= Budget
    BY <1>5, <1>6, <1>8 DEF Balanced
  <2>2. /\ body'.talk.turns = body'.talk.iter + body'.talk.told + 1
        /\ body'.talk.iter + 1 <= MaxIter
    BY <1>13, <2>1
  <2>3. body'.talk.calls = body'.talk.seen + body'.talk.told + body'.talk.cut + 1
    BY <1>5, <1>13, <2>1
  <2>4. body'.talk.told + 1 <= body'.talk.gates /\ body'.talk.gates <= Budget
    BY <1>5, <1>7, <1>13, <1>15, <2>1
  <2>5. (Balanced(body.talk, 1, 1, 1))' BY <2>2, <2>3, <2>4 DEF Balanced
  <2>6. (body.talk.told = asked)' BY <1>3, <1>6, <1>13
  <2> QED BY <1>9, <2>5, <2>6 DEF Speech
<1>17. Spent'
  <2>1. executed <= t.gates + Budget * crashes /\ chats <= t.turns + MaxIter * crashes
    BY <1>5, <1>6, <1>7 DEF Spends
  <2>2. Spends(body.talk, 0)' BY <1>3, <1>5, <1>7, <1>13, <2>1 DEF Spends
  <2> QED BY <1>3, <1>9, <2>2 DEF RunInv, Spent
<1> QED BY <1>2, <1>3, <1>6, <1>7, <1>14, <1>16, <1>17, RunGoesOn

\* A segment comes to its end: what is left to show is what its audit says.
LEMMA RunCloses ==
  ASSUME RunInv, at = "segment",
         body.pc \in {"chat", "calls", "finish"},
         body' \in Closing, UNCHANGED <<at, saved, asked, result, crashes, chats, executed>>,
         NEW k \in TrailKind \ {"started"}, Audit(k),
         body'.pc = "finish" => body'.end \in {"answer", "agent_handoff"} /\ k = "handoff",
         body'.end = "agent_handoff" => k = "handoff" \/ trail.handoff + unwritten > 0,
         body'.pc = "ended" =>
           /\ body'.end \in {"answer", "agent_handoff"} => k = "finished"
           /\ body'.end = "budget_exhausted" => k = "budget"
           /\ body'.end = "max_iterations" => k = "iterations"
  PROVE  RunInv'
<1>1. RunnerTypeOK BY DEF RunInv
<1>2. /\ trail' \in [TrailKind -> Nat] /\ unwritten' \in 0 .. MaxLosses /\ unwritten' >= unwritten
      /\ \A j \in TrailKind : trail'[j] \in Nat /\ trail'[j] >= trail[j]
      /\ \A j \in TrailKind : j # k => trail'[j] = trail[j]
      /\ trail'[k] <= trail[k] + 1 /\ trail'[k] + unwritten' > 0
  BY <1>1, Audited
<1>3. {"started", "finished", "handoff", "budget", "iterations"} = TrailKind BY DEF TrailKind
<1>4. /\ unwritten \in Nat /\ crashes \in Nat /\ unwritten' \in Nat
      /\ trail.started \in Nat /\ trail.finished \in Nat /\ trail.handoff \in Nat
      /\ trail.budget \in Nat /\ trail.iterations \in Nat
  BY <1>1, <1>2, RunTypes
<1>5. body'.pc \in {"finish", "ended"} BY DEF Closing
<1>6. (RunnerTypeOK)' BY <1>1, <1>2 DEF RunnerTypeOK
<1>7. Speech' BY <1>5 DEF Speech
<1>8. Resumes' BY <1>5, Continues DEF RunInv
<1>9. Spent' BY <1>5 DEF RunInv, Spent
<1>10. Opened' BY <1>2, <1>3, <1>5 DEF RunInv, Opened
<1>11. Closed'
  <2>1. result = "none" /\ at # "done" BY DEF RunInv, Closed
  <2>2. trail'.handoff \in Nat /\ trail'.handoff >= trail.handoff BY <1>2, <1>3
  <2>3. body'.end = "agent_handoff" => trail'.handoff + unwritten' > 0
    <3>1. CASE k = "handoff" BY <1>2, <3>1
    <3>2. CASE trail.handoff + unwritten > 0 BY <1>2, <1>4, <2>2, <3>2
    <3> QED BY <3>1, <3>2
  <2>4. body'.pc = "ended" =>
          /\ body'.end \in {"answer", "agent_handoff"} => trail'.finished + unwritten' > 0
          /\ body'.end = "budget_exhausted" => trail'.budget + unwritten' > 0
          /\ body'.end = "max_iterations" => trail'.iterations + unwritten' > 0
    BY <1>2
  <2>5. body'.pc = "finish" => body'.end \in {"answer", "agent_handoff"} OBVIOUS
  <2> QED BY <2>1, <2>3, <2>4, <2>5 DEF Closed
<1>12. (TrailTellsTheEnd)'
  <2>1. result = "none" BY DEF RunInv, Closed
  <2>2. /\ trail.started <= 1 + crashes
        /\ trail.finished + trail.budget + trail.iterations <= crashes
    BY <1>4, <2>1 DEF RunInv, TrailTellsTheEnd
  <2>3. trail'.started = trail.started BY <1>2, <1>3
  <2>4. /\ trail'.finished \in Nat /\ trail'.budget \in Nat /\ trail'.iterations \in Nat
        /\ body'.pc = "ended" => trail'.finished + trail'.budget + trail'.iterations
                                   <= crashes + 1
        /\ body'.pc = "finish" => trail'.finished + trail'.budget + trail'.iterations
                                    <= crashes
    <3>1. /\ trail'.finished \in Nat /\ trail'.budget \in Nat /\ trail'.iterations \in Nat
      BY <1>2, <1>3
    <3>2. CASE k = "finished"
      <4>1. trail'.finished <= trail.finished + 1 /\ trail'.budget = trail.budget
              /\ trail'.iterations = trail.iterations
        BY <1>2, <1>3, <3>2
      <4> QED BY <1>4, <2>2, <3>1, <3>2, <4>1
    <3>3. CASE k = "budget"
      <4>1. trail'.finished = trail.finished /\ trail'.budget <= trail.budget + 1
              /\ trail'.iterations = trail.iterations
        BY <1>2, <1>3, <3>3
      <4> QED BY <1>4, <2>2, <3>1, <3>3, <4>1
    <3>4. CASE k = "iterations"
      <4>1. trail'.finished = trail.finished /\ trail'.budget = trail.budget
              /\ trail'.iterations <= trail.iterations + 1
        BY <1>2, <1>3, <3>4
      <4> QED BY <1>4, <2>2, <3>1, <3>4, <4>1
    <3>5. CASE k = "handoff"
      <4>1. trail'.finished = trail.finished /\ trail'.budget = trail.budget
              /\ trail'.iterations = trail.iterations
        BY <1>2, <1>3, <3>5
      <4> QED BY <1>4, <2>2, <3>1, <3>5, <4>1
    <3> QED BY <3>2, <3>3, <3>4, <3>5 DEF TrailKind
  <2> QED BY <1>4, <1>5, <2>1, <2>2, <2>3, <2>4 DEF TrailTellsTheEnd
<1> QED BY <1>6, <1>7, <1>8, <1>9, <1>10, <1>11, <1>12 DEF RunInv

\* The handoff, the budget, the iterations and the answer end it.
LEMMA RunEnds ==
  ASSUME RunInv, HandOff \/ Exhaust \/ RunOut \/ Finish
  PROVE  RunInv'
<1>1. RunnerTypeOK BY DEF RunInv
<1>2. at = "segment"
  <2>1. body.pc \in {"calls", "chat", "finish"}
    BY DEF HandOff, Exhaust, RunOut, Finish, Has
  <2> QED BY <2>1 DEF RunInv, Resumes
<1>3. UNCHANGED <<at, saved, asked, result, crashes, chats, executed>>
  BY DEF HandOff, Exhaust, RunOut, Finish, durable, external
<1>4. CASE HandOff
  <2>1. body.pc = "calls" /\ Audit("handoff")
          /\ body' = [pc |-> "finish", end |-> "agent_handoff"]
    BY <1>4 DEF HandOff, Has
  <2>2. body' \in Closing /\ body'.pc = "finish" /\ body'.end = "agent_handoff"
    BY <2>1 DEF Closing, Reason
  <2>3. "handoff" \in TrailKind \ {"started"} BY DEF TrailKind
  <2> QED BY <1>2, <1>3, <2>1, <2>2, <2>3, RunCloses
<1>5. CASE Exhaust
  <2>1. body.pc = "calls" /\ Audit("budget")
          /\ body' = [pc |-> "ended", end |-> "budget_exhausted"]
    BY <1>5 DEF Exhaust, Has
  <2>2. body' \in Closing /\ body'.pc = "ended" /\ body'.end = "budget_exhausted"
    BY <2>1 DEF Closing, Reason
  <2>3. "budget" \in TrailKind \ {"started"} BY DEF TrailKind
  <2> QED BY <1>2, <1>3, <2>1, <2>2, <2>3, RunCloses
<1>6. CASE RunOut
  <2>1. body.pc = "chat" /\ Audit("iterations")
          /\ body' = [pc |-> "ended", end |-> "max_iterations"]
    BY <1>6 DEF RunOut
  <2>2. body' \in Closing /\ body'.pc = "ended" /\ body'.end = "max_iterations"
    BY <2>1 DEF Closing, Reason
  <2>3. "iterations" \in TrailKind \ {"started"} BY DEF TrailKind
  <2> QED BY <1>2, <1>3, <2>1, <2>2, <2>3, RunCloses
<1>7. CASE Finish
  <2>1. body.pc = "finish" /\ Audit("finished")
          /\ body' = [pc |-> "ended", end |-> body.end]
    BY <1>7 DEF Finish
  <2>2. body.end \in {"answer", "agent_handoff"}
          /\ (body.end = "agent_handoff" => trail.handoff + unwritten > 0)
    BY <2>1 DEF RunInv, Closed
  <2>3. body' \in Closing /\ body'.pc = "ended" /\ body'.end = body.end
    BY <2>1, <2>2 DEF Closing, Reason
  <2>4. "finished" \in TrailKind \ {"started"} BY DEF TrailKind
  <2> QED BY <1>2, <1>3, <2>1, <2>2, <2>3, <2>4, RunCloses
<1> QED BY <1>4, <1>5, <1>6, <1>7

\* A segment begins.
LEMMA RunBegins ==
  ASSUME RunInv, Begin
  PROVE  RunInv'
<1>1. RunnerTypeOK BY DEF RunInv
<1>2. /\ at = "segment" /\ body.pc = "begin"
      /\ UNCHANGED <<at, saved, asked, result, crashes, chats, executed>>
  BY DEF Begin, durable, external
<1>3. /\ saved \in Talk /\ asked \in Nat /\ unwritten \in Nat /\ crashes \in Nat
      /\ Budget \in Nat /\ MaxIter \in Nat /\ chats \in Nat /\ executed \in Nat
      /\ Budget * crashes \in Nat /\ MaxIter * crashes \in Nat
      /\ trail.started \in Nat /\ trail.finished \in Nat /\ trail.handoff \in Nat
      /\ trail.budget \in Nat /\ trail.iterations \in Nat
  BY <1>1, RunTypes
<1>4. /\ saved.iter \in Nat /\ saved.gates \in Nat /\ saved.nudges \in 0 .. 2
      /\ saved.turns \in Nat /\ saved.calls \in Nat /\ saved.seen \in Nat
      /\ saved.told \in Nat /\ saved.cut \in Nat
  BY <1>3, TalkFields
<1>5. Spends(saved, 0) /\ result = "none"
  BY <1>2 DEF RunInv, Spent, Closed
<1>6. /\ saved = Silence \/ Balanced(saved, 1, 1, 1)
      /\ saved = Silence => asked = 0
      /\ asked > 0 => saved.told + 1 = asked
  BY <1>2 DEF RunInv, Resumes
<1>7. CASE asked = 0
  <2>1. Audit("started") /\ body' = [pc |-> "chat", talk |-> saved]
    BY <1>7 DEF Begin
  <2>2. body'.pc = "chat" /\ body'.talk = saved BY <2>1
  <2>3. saved = Silence BY <1>2, <1>7 DEF RunInv, Resumes
  <2>4. "started" \in TrailKind BY DEF TrailKind
  <2>5. /\ trail' \in [TrailKind -> Nat] /\ unwritten' \in 0 .. MaxLosses /\ unwritten' >= unwritten
        /\ \A j \in TrailKind : trail'[j] \in Nat /\ trail'[j] >= trail[j]
        /\ \A j \in TrailKind : j # "started" => trail'[j] = trail[j]
        /\ trail'.started <= trail.started + 1
    BY <1>1, <1>2, <2>1, <2>4, Audited
  <2>6. /\ trail'.finished = trail.finished /\ trail'.budget = trail.budget
        /\ trail'.iterations = trail.iterations /\ trail'.started \in Nat
    BY <2>5 DEF TrailKind
  <2>7. (RunnerTypeOK)'
    <3>1. body' \in Speaking BY <1>3, <2>1, <2>2 DEF Speaking
    <3> QED BY <1>1, <1>2, <2>5, <3>1 DEF RunnerTypeOK
  <2>8. Speech' BY <1>2, <1>3, <1>7, <2>2, <2>3 DEF Speech, Balanced, Silence
  <2>9. Resumes' BY <1>2, <2>2, Continues DEF RunInv
  <2>10. Spent' BY <1>2, <1>5, <2>2 DEF RunInv, Spent, Spends
  <2>11. Opened' BY <1>2, <1>3, <1>7, <2>2, <2>5, <2>6 DEF RunInv, Opened
  <2>12. Closed' BY <1>2, <2>2 DEF RunInv, Closed
  <2>13. (TrailTellsTheEnd)'
    <3>1. trail.started <= crashes BY <1>2, <1>3, <1>7 DEF RunInv, Opened
    <3>2. trail.finished + trail.budget + trail.iterations <= crashes
      BY <1>2, <1>3, <1>5 DEF RunInv, TrailTellsTheEnd
    <3> QED BY <1>2, <1>3, <1>5, <2>2, <2>5, <2>6, <3>1, <3>2 DEF TrailTellsTheEnd
  <2> QED BY <2>7, <2>8, <2>9, <2>10, <2>11, <2>12, <2>13 DEF RunInv
<1>8. CASE asked # 0
  <2>1. /\ UNCHANGED <<trail, unwritten>>
        /\ body' = [pc |-> "chat", talk |-> [saved EXCEPT !.told = @ + 1]]
    BY <1>8 DEF Begin, NoAudit
  <2>2. body'.pc = "chat" /\ body'.talk = [saved EXCEPT !.told = @ + 1] BY <2>1
  <2>3. /\ body'.talk.iter = saved.iter /\ body'.talk.turns = saved.turns
        /\ body'.talk.gates = saved.gates /\ body'.talk.calls = saved.calls
        /\ body'.talk.seen = saved.seen /\ body'.talk.told = saved.told + 1
        /\ body'.talk.cut = saved.cut
    BY <1>3, <2>2 DEF Talk
  <2>4. /\ saved.turns = saved.iter + saved.told + 1 /\ saved.iter + 1 <= MaxIter
        /\ saved.calls = saved.seen + saved.told + saved.cut + 1
        /\ saved.told + 1 <= saved.gates /\ saved.gates <= Budget
        /\ saved.told + 1 = asked
    BY <1>3, <1>6, <1>8 DEF Balanced
  <2>5. (RunnerTypeOK)'
    <3>1. PICK n \in Nat : n = saved.told + 1 BY <1>4
    <3>2. body'.talk = [saved EXCEPT !.told = n] BY <2>2, <3>1
    <3>3. body'.talk \in Talk BY <1>3, <3>2 DEF Talk
    <3>4. body' \in Speaking BY <2>1, <2>2, <3>3 DEF Speaking
    <3> QED BY <1>1, <1>2, <2>1, <3>4 DEF RunnerTypeOK
  <2>6. Speech'
    <3>1. body'.talk.turns = body'.talk.iter + body'.talk.told + 0
            /\ body'.talk.iter + 0 <= MaxIter
      BY <1>3, <1>4, <2>3, <2>4
    <3>2. body'.talk.calls = body'.talk.seen + body'.talk.told + body'.talk.cut + 0
      BY <1>4, <2>3, <2>4
    <3>3. body'.talk.told + 0 <= body'.talk.gates /\ body'.talk.gates <= Budget
      BY <1>4, <2>3, <2>4
    <3>4. (Balanced(body.talk, 0, 0, 0))' BY <3>1, <3>2, <3>3 DEF Balanced
    <3>5. (body.talk.told = asked)' BY <1>2, <2>3, <2>4
    <3> QED BY <2>2, <3>4, <3>5 DEF Speech
  <2>7. Resumes' BY <1>2, <2>2, Continues DEF RunInv
  <2>8. Spent'
    <3>1. Spends(body.talk, 0)' BY <1>2, <1>5, <2>3 DEF Spends
    <3> QED BY <1>2, <2>2, <3>1 DEF RunInv, Spent
  <2>9. Opened' BY <1>2, <1>3, <1>8, <2>1, <2>2 DEF RunInv, Opened
  <2>10. Closed' BY <1>2, <2>1, <2>2 DEF RunInv, Closed
  <2>11. (TrailTellsTheEnd)' BY <1>2, <1>5, <2>1, <2>2 DEF RunInv, TrailTellsTheEnd
  <2> QED BY <2>5, <2>6, <2>7, <2>8, <2>9, <2>10, <2>11 DEF RunInv
<1> QED BY <1>7, <1>8

\* A conversation that is put aside has asked for all it has been told, and one more.
LEMMA RunCheckpoints ==
  ASSUME RunInv, Checkpoint
  PROVE  RunInv'
<1>1. RunnerTypeOK BY DEF RunInv
<1>2. UNCHANGED <<asked, trail, unwritten, crashes, chats, executed>>
  BY DEF Checkpoint, external
<1>3. /\ asked \in Nat /\ unwritten \in Nat /\ crashes \in Nat /\ saved \in Talk
      /\ trail.started \in Nat /\ trail.finished \in Nat /\ trail.handoff \in Nat
      /\ trail.budget \in Nat /\ trail.iterations \in Nat
  BY <1>1, RunTypes
<1>4. CASE body.pc = "ended"
  <2>1. /\ result' = body.end /\ at' = "done" /\ body' = NoSegment /\ saved' = saved
        /\ at = "segment"
    BY <1>4 DEF RunInv, Resumes, Checkpoint
  <2>2. body.end \in Reason BY <1>1, <1>4, BodyShape
  <2>3. body'.pc = "off" BY <2>1 DEF NoSegment
  <2>4. (RunnerTypeOK)' BY <1>1, <1>2, <2>1, <2>2 DEF RunnerTypeOK
  <2>5. Speech' BY <2>3 DEF Speech
  <2>6. Resumes' BY <1>2, <2>1, <2>3 DEF RunInv, Resumes, Balanced, Silence
  <2>7. Spent' BY <1>2, <2>1, <2>3 DEF RunInv, Spent
  <2>8. Opened' BY <1>2, <1>3, <1>4, <2>1, <2>3 DEF RunInv, Opened
  <2>9. Closed' BY <2>1, <2>2, <2>3 DEF Closed, Reason
  <2>10. (TrailTellsTheEnd)'
    <3>1. /\ body.end \in {"answer", "agent_handoff"} => trail.finished + unwritten > 0
          /\ body.end = "agent_handoff" => trail.handoff + unwritten > 0
          /\ body.end = "budget_exhausted" => trail.budget + unwritten > 0
          /\ body.end = "max_iterations" => trail.iterations + unwritten > 0
          /\ result = "none"
      BY <1>4, <2>1 DEF RunInv, Closed
    <3>2. trail.finished + trail.budget + trail.iterations <= crashes + 1
            /\ trail.started <= 1 + crashes
      BY <1>4 DEF RunInv, TrailTellsTheEnd
    <3>3. result' \notin {"none", "error"} BY <2>1, <2>2 DEF Reason
    <3> QED BY <1>2, <1>3, <2>1, <3>1, <3>2, <3>3 DEF TrailTellsTheEnd
  <2> QED BY <2>4, <2>5, <2>6, <2>7, <2>8, <2>9, <2>10 DEF RunInv
<1>5. CASE body.pc = "paused"
  <2>1. /\ saved' = body.talk /\ at' = "register" /\ body' = [pc |-> "begin"]
        /\ result' = result /\ at = "segment"
    BY <1>5 DEF RunInv, Resumes, Checkpoint
  <2>2. body.talk \in Talk BY <1>1, <1>5, BodyShape
  <2>3. Balanced(body.talk, 1, 1, 1) /\ body.talk.told = asked /\ Spends(body.talk, 0)
    BY <1>5 DEF RunInv, Speech, Spent
  <2>4. body'.pc = "begin" BY <2>1
  <2>5. (RunnerTypeOK)' BY <1>1, <1>2, <2>1, <2>2 DEF RunnerTypeOK
  <2>6. Speech' BY <2>4 DEF Speech
  <2>7. Balanced(saved', 1, 1, 1) BY <2>1, <2>3
  <2>8. saved'.turns # 0
    <3>1. saved' \in Talk BY <2>1, <2>2
    <3>2. saved'.iter \in Nat /\ saved'.told \in Nat BY <3>1, TalkFields
    <3>3. saved'.turns = saved'.iter + saved'.told + 1 BY <2>7 DEF Balanced
    <3> QED BY <3>2, <3>3
  <2>9. saved' # Silence BY <2>8 DEF Silence
  <2>10. Resumes' BY <1>2, <1>3, <2>1, <2>3, <2>4, <2>7, <2>9 DEF Resumes, Balanced
  <2>11. Spent' BY <1>2, <2>1, <2>3, <2>4 DEF RunInv, Spent, Spends
  <2>12. Opened' BY <1>2, <1>3, <1>5, <2>1, <2>4 DEF RunInv, Opened
  <2>13. Closed' BY <1>2, <2>1, <2>4 DEF RunInv, Closed
  <2>14. (TrailTellsTheEnd)'
    BY <1>2, <1>5, <2>1, <2>4 DEF RunInv, Closed, TrailTellsTheEnd
  <2> QED BY <2>5, <2>6, <2>10, <2>11, <2>12, <2>13, <2>14 DEF RunInv
<1> QED BY <1>4, <1>5 DEF Checkpoint

\* The workflow registers an approval, hears of it, or fails; or begins again.
LEMMA RunWorkflow ==
  ASSUME RunInv, Register \/ Hear \/ Fail \/ RunAgain
  PROVE  RunInv'
<1>1. RunnerTypeOK BY DEF RunInv
<1>2. /\ at # "done" /\ body.pc \in {"begin", "off"}
      /\ UNCHANGED <<saved, trail, unwritten, crashes, chats, executed>>
  BY DEF Register, Hear, Fail, RunAgain, durable, external, NoSegment
<1>3. /\ asked \in Nat /\ unwritten \in Nat /\ crashes \in Nat /\ saved \in Talk
      /\ trail.started \in Nat /\ chats \in Nat /\ MaxIter \in Nat
      /\ MaxIter * crashes \in Nat /\ saved.told \in Nat
  BY <1>1, RunTypes, TalkFields
<1>4. result = "none" /\ Spends(saved, 0) BY <1>2 DEF RunInv, Closed, Spent
<1>5. CASE Register
  <2>1. /\ at = "register" /\ asked' = asked + 1 /\ at' = "await" /\ result' = result
        /\ body' = body /\ body.pc = "begin"
    BY <1>5 DEF Register
  <2>2. (RunnerTypeOK)' BY <1>1, <1>2, <1>3, <2>1 DEF RunnerTypeOK
  <2>3. Speech' BY <2>1 DEF Speech
  <2>4. Resumes'
    <3>1. Balanced(saved, 1, 1, 1) /\ saved # Silence /\ saved.told = asked
      BY <2>1 DEF RunInv, Resumes
    <3>2. Balanced(saved, 1, 1, 1)' BY <1>2, <3>1 DEF Balanced
    <3>3. saved' # Silence /\ saved'.told = asked BY <1>2, <3>1
    <3> QED BY <1>3, <2>1, <3>2, <3>3 DEF Resumes, Silence
  <2>5. Spent'
    <3>1. chats' <= MaxIter + MaxIter * crashes + asked'
      BY <1>2, <1>3, <2>1 DEF RunInv, Spent
    <3> QED BY <1>2, <1>4, <2>1, <3>1 DEF RunInv, Spent, Spends
  <2>6. Opened' BY <1>2, <1>3, <2>1 DEF RunInv, Opened
  <2>7. Closed' BY <1>2, <2>1 DEF RunInv, Closed
  <2>8. (TrailTellsTheEnd)' BY <1>2, <2>1 DEF RunInv, TrailTellsTheEnd
  <2> QED BY <2>2, <2>3, <2>4, <2>5, <2>6, <2>7, <2>8 DEF RunInv
<1>6. CASE Hear
  <2>1. /\ at = "await" /\ at' = "segment" /\ asked' = asked /\ result' = result
        /\ body' = body /\ body.pc = "begin"
    BY <1>6 DEF Hear
  <2>2. (RunnerTypeOK)' BY <1>1, <1>2, <2>1 DEF RunnerTypeOK
  <2>3. Speech' BY <2>1 DEF Speech
  <2>4. Resumes'
    <3>1. /\ Balanced(saved, 1, 1, 1) /\ saved # Silence /\ asked > 0
          /\ saved.told <= asked /\ saved.told + 1 = asked
      BY <2>1 DEF RunInv, Resumes
    <3>2. Balanced(saved, 1, 1, 1)' BY <1>2, <3>1 DEF Balanced
    <3> QED BY <1>2, <2>1, <3>1, <3>2 DEF Resumes, Silence
  <2>5. Spent' BY <1>2, <1>4, <2>1 DEF RunInv, Spent, Spends
  <2>6. Opened' BY <1>2, <1>3, <2>1 DEF RunInv, Opened, Resumes
  <2>7. Closed' BY <1>2, <2>1 DEF RunInv, Closed
  <2>8. (TrailTellsTheEnd)' BY <1>2, <2>1 DEF RunInv, TrailTellsTheEnd
  <2> QED BY <2>2, <2>3, <2>4, <2>5, <2>6, <2>7, <2>8 DEF RunInv
<1>7. CASE Fail
  <2>1. /\ at' = "done" /\ result' = "error" /\ body' = NoSegment /\ asked' = asked
        /\ body'.pc = "off"
    BY <1>7 DEF Fail, NoSegment
  <2>2. (RunnerTypeOK)' BY <1>1, <1>2, <2>1 DEF RunnerTypeOK
  <2>3. Speech' BY <2>1 DEF Speech
  <2>4. Resumes' BY <1>2, <2>1 DEF RunInv, Resumes, Balanced, Silence
  <2>5. Spent' BY <1>2, <2>1 DEF RunInv, Spent
  <2>6. Opened' BY <1>2, <1>3, <2>1 DEF RunInv, Opened
  <2>7. Closed' BY <2>1 DEF Closed
  <2>8. (TrailTellsTheEnd)'
    BY <1>2, <1>4, <2>1 DEF RunInv, TrailTellsTheEnd
  <2> QED BY <2>2, <2>3, <2>4, <2>5, <2>6, <2>7, <2>8 DEF RunInv
<1>8. CASE RunAgain
  <2>1. /\ body.pc = "off" /\ body' = [pc |-> "begin"] /\ body'.pc = "begin"
        /\ UNCHANGED <<at, asked, result>>
    BY <1>8 DEF RunAgain, NoSegment, durable
  <2>2. (RunnerTypeOK)' BY <1>1, <1>2, <2>1 DEF RunnerTypeOK
  <2>3. Speech' BY <2>1 DEF Speech
  <2>4. Resumes' BY <1>2, <2>1 DEF RunInv, Resumes, Balanced, Silence
  <2>5. Spent' BY <1>2, <1>4, <2>1 DEF RunInv, Spent, Spends
  <2>6. Opened' BY <1>2, <2>1 DEF RunInv, Opened
  <2>7. Closed' BY <1>2, <2>1 DEF RunInv, Closed
  <2>8. (TrailTellsTheEnd)' BY <1>2, <2>1 DEF RunInv, TrailTellsTheEnd
  <2> QED BY <2>2, <2>3, <2>4, <2>5, <2>6, <2>7, <2>8 DEF RunInv
<1> QED BY <1>5, <1>6, <1>7, <1>8

\* The process dies: what the segment has cost is paid for by the crash.
LEMMA RunCrashes ==
  ASSUME RunInv, CrashSegment
  PROVE  RunInv'
<1>1. RunnerTypeOK BY DEF RunInv
<1>2. /\ at # "done" /\ body.pc # "off" /\ crashes' = crashes + 1 /\ body' = NoSegment
      /\ unwritten + crashes < MaxLosses
      /\ UNCHANGED <<at, saved, asked, result, trail, unwritten, chats, executed>>
  BY <1>1, BodyShape DEF CrashSegment, durable, external
<1>3. /\ asked \in Nat /\ unwritten \in Nat /\ crashes \in Nat /\ saved \in Talk
      /\ MaxLosses \in Nat /\ Budget \in Nat /\ MaxIter \in Nat
      /\ chats \in Nat /\ executed \in Nat
      /\ Budget * crashes \in Nat /\ MaxIter * crashes \in Nat
      /\ Budget * (crashes + 1) = Budget * crashes + Budget
      /\ MaxIter * (crashes + 1) = MaxIter * crashes + MaxIter
      /\ trail.started \in Nat /\ trail.finished \in Nat /\ trail.handoff \in Nat
      /\ trail.budget \in Nat /\ trail.iterations \in Nat
  BY <1>1, RunTypes
<1>4. /\ saved.iter \in Nat /\ saved.gates \in Nat /\ saved.told \in Nat
      /\ saved.turns \in Nat
  BY <1>3, TalkFields
<1>5. body'.pc = "off" BY <1>2 DEF NoSegment
<1>6. result = "none" BY <1>2 DEF RunInv, Closed
<1>7. (RunnerTypeOK)'
  <2>1. crashes' \in 0 .. MaxLosses BY <1>2, <1>3
  <2> QED BY <1>1, <1>2, <2>1 DEF RunnerTypeOK
<1>8. Speech' BY <1>5 DEF Speech
<1>9. Resumes' BY <1>2, <1>5 DEF RunInv, Resumes, Balanced, Silence
<1>10. Spent'
  <2>1. /\ executed <= Budget + Budget * crashes
        /\ chats <= MaxIter + MaxIter * crashes + asked
    BY DEF RunInv, Spent
  <2>2. saved.turns >= asked
    <3>1. CASE saved = Silence BY <1>2, <1>4, <3>1 DEF RunInv, Resumes
    <3>2. CASE Balanced(saved, 1, 1, 1)
      <4>1. saved.turns = saved.iter + saved.told + 1 BY <3>2 DEF Balanced
      <4>2. CASE at = "register"
        <5>1. saved.told = asked BY <4>2 DEF RunInv, Resumes
        <5> QED BY <1>3, <1>4, <4>1, <5>1
      <4>3. CASE at \in {"segment", "await"} /\ asked > 0
        <5>1. saved.told + 1 = asked BY <4>3 DEF RunInv, Resumes
        <5> QED BY <1>3, <1>4, <4>1, <5>1
      <4>4. CASE asked = 0 BY <1>4, <4>4
      <4>5. at \in {"segment", "register", "await"} BY <1>1, <1>2, RunTypes
      <4>6. asked > 0 \/ asked = 0 BY <1>3
      <4> QED BY <4>2, <4>3, <4>4, <4>5, <4>6
    <3> QED BY <3>1, <3>2 DEF RunInv, Resumes
  <2>3. Budget * crashes' = Budget * crashes + Budget
          /\ MaxIter * crashes' = MaxIter * crashes + MaxIter
    BY <1>2, <1>3
  <2>4. executed' <= saved'.gates + Budget * crashes'
    BY <1>2, <1>3, <1>4, <2>1, <2>3
  <2>5. chats' <= saved'.turns + MaxIter * crashes'
    BY <1>2, <1>3, <1>4, <2>1, <2>2, <2>3
  <2>6. executed' + 0 <= saved'.gates + Budget * crashes' BY <1>2, <1>3, <2>4
  <2>7. Spends(saved, 0)' BY <2>5, <2>6 DEF Spends
  <2>8. executed' <= Budget + Budget * crashes' BY <1>2, <1>3, <2>1, <2>3
  <2>9. chats' <= MaxIter + MaxIter * crashes' + asked' BY <1>2, <1>3, <2>1, <2>3
  <2> QED BY <1>5, <2>7, <2>8, <2>9 DEF Spent
<1>11. Opened' BY <1>2, <1>3, <1>5 DEF RunInv, Opened
<1>12. Closed' BY <1>2, <1>5 DEF RunInv, Closed
<1>13. (TrailTellsTheEnd)'
  <2>1. /\ trail.started <= 1 + crashes
        /\ trail.finished + trail.budget + trail.iterations <= crashes + 1
    BY <1>3, <1>6 DEF RunInv, TrailTellsTheEnd
  <2> QED BY <1>2, <1>3, <1>5, <1>6, <2>1 DEF TrailTellsTheEnd
<1> QED BY <1>7, <1>8, <1>9, <1>10, <1>11, <1>12, <1>13 DEF RunInv

\* Nothing has been said at the start.
LEMMA RunStarts ==
  ASSUME RunnerInit
  PROVE  RunInv
<1>1. /\ at = "segment" /\ saved = Silence /\ asked = 0 /\ result = "none"
      /\ body = [pc |-> "begin"] /\ body.pc = "begin"
      /\ trail = [k \in TrailKind |-> 0] /\ unwritten = 0 /\ crashes = 0 /\ chats = 0
      /\ executed = 0
  BY DEF RunnerInit
<1>2. MaxLosses \in Nat /\ Budget \in Nat /\ MaxIter \in Nat
  BY RunnerBounds DEF RunnerBounds
<1>3. /\ trail.started = 0 /\ trail.finished = 0 /\ trail.handoff = 0
      /\ trail.budget = 0 /\ trail.iterations = 0
  BY <1>1 DEF TrailKind
<1>4. saved \in Talk /\ saved.gates = 0 /\ saved.told = 0 /\ saved.turns = 0
  BY <1>1 DEF Silence, Talk, MaxNudges
<1>5. RunnerTypeOK BY <1>1, <1>2, <1>4 DEF RunnerTypeOK
<1>6. Speech BY <1>1 DEF Speech
<1>7. Resumes BY <1>1, <1>4 DEF Resumes
<1>8. Budget * 0 = 0 /\ MaxIter * 0 = 0 BY <1>2
<1>9. Spent BY <1>1, <1>2, <1>4, <1>8 DEF Spent, Spends
<1>10. Opened /\ Closed BY <1>1, <1>3 DEF Opened, Closed
<1>11. TrailTellsTheEnd BY <1>1, <1>3 DEF TrailTellsTheEnd
<1> QED BY <1>5, <1>6, <1>7, <1>9, <1>10, <1>11 DEF RunInv

\* A step keeps the invariant.
LEMMA RunStep ==
  ASSUME RunInv, [RunnerNext]_(runnerVars)
  PROVE  RunInv'
<1>1. CASE Loop
  <2>1. CASE ChatFails \/ Nudge \/ Answer \/ Reply BY <2>1, RunChats
  <2>2. CASE Begin BY <2>2, RunBegins
  <2>3. CASE NextTurn BY <2>3, RunNextTurn
  <2>4. CASE RefuseCall \/ Denied BY <2>4, RunRefuses
  <2>5. CASE Approved BY <2>5, RunApproved
  <2>6. CASE DispatchCall BY <2>6, RunDispatches
  <2>7. CASE Pause BY <2>7, RunPauses
  <2>8. CASE HandOff \/ Exhaust \/ RunOut \/ Finish BY <2>8, RunEnds
  <2> QED BY <1>1, <2>1, <2>2, <2>3, <2>4, <2>5, <2>6, <2>7, <2>8 DEF Loop
<1>2. CASE Checkpoint BY <1>2, RunCheckpoints
<1>3. CASE Register \/ Hear \/ Fail \/ RunAgain BY <1>3, RunWorkflow
<1>4. CASE CrashSegment BY <1>4, RunCrashes
<1>5. CASE UNCHANGED runnerVars
  <2>1. UNCHANGED <<at, saved, asked, result, body, trail, unwritten, crashes, chats, executed>>
    BY <1>5 DEF runnerVars
  <2>2. (RunnerTypeOK)' BY <2>1 DEF RunInv, RunnerTypeOK
  <2>3. Speech' BY <2>1 DEF RunInv, Speech, Balanced
  <2>4. Resumes' BY <2>1 DEF RunInv, Resumes, Balanced, Silence
  <2>5. Spent' BY <2>1 DEF RunInv, Spent, Spends
  <2>6. Opened' /\ Closed' BY <2>1 DEF RunInv, Opened, Closed
  <2>7. (TrailTellsTheEnd)' BY <2>1 DEF RunInv, TrailTellsTheEnd
  <2> QED BY <2>2, <2>3, <2>4, <2>5, <2>6, <2>7 DEF RunInv
<1> QED BY <1>1, <1>2, <1>3, <1>4, <1>5 DEF RunnerNext, Step

\* The invariant holds in every run.
LEMMA RunInvariant == RunnerSpec => []RunInv
<1>1. RunnerInit => RunInv BY RunStarts
<1>2. RunInv /\ [RunnerNext]_(runnerVars) => RunInv' BY RunStep
<1> QED BY <1>1, <1>2, PTL DEF RunnerSpec

\* The run's state is well-typed: at most two nudges, no negative count.
THEOREM RunnerTypes == RunnerSpec => []RunnerTypeOK
<1>1. RunInv => RunnerTypeOK BY DEF RunInv
<1> QED BY <1>1, RunInvariant, PTL

\* The budget and the bound on turns hold for every run, however often it is cut off by an
\* approval or a crash (runner.go:336-342 and 440-449).
THEOREM RunnerBounded == RunnerSpec => []Bounded
<1>1. RunInv => Bounded
  <2> SUFFICES ASSUME RunInv PROVE Bounded OBVIOUS
  <2>1. RunnerTypeOK BY DEF RunInv
  <2>2. /\ asked \in Nat /\ crashes \in Nat /\ saved \in Talk
        /\ Budget \in Nat /\ MaxIter \in Nat
        /\ Budget * (crashes + 1) = Budget * crashes + Budget
        /\ MaxIter * (crashes + 1) = MaxIter * crashes + MaxIter
    BY <2>1, RunTypes
  <2>3. saved.iter \in Nat /\ saved.told \in Nat BY <2>2, TalkFields
  <2>4. saved.gates <= Budget /\ saved.turns <= MaxIter + saved.told
    <3>1. CASE saved = Silence BY <2>2, <3>1 DEF Silence
    <3>2. CASE Balanced(saved, 1, 1, 1)
      <4>1. /\ saved.turns = saved.iter + saved.told + 1 /\ saved.iter + 1 <= MaxIter
            /\ saved.gates <= Budget
        BY <3>2 DEF Balanced
      <4> QED BY <2>2, <2>3, <4>1
    <3> QED BY <3>1, <3>2 DEF RunInv, Resumes
  <2>5. 1 + crashes = crashes + 1 BY <2>2
  <2>6. /\ Budget * (1 + crashes) = Budget + Budget * crashes
        /\ MaxIter * (1 + crashes) = MaxIter + MaxIter * crashes
    BY <2>2, <2>5
  <2> QED BY <2>4, <2>6 DEF RunInv, Spent, Bounded
<1> QED BY <1>1, RunInvariant, PTL

\* The model is told of every call it makes, or the call was put to the owner or dropped
\* behind one; and the trail tells how the run has ended (runner.go:401-559).
THEOREM RunnerAccounts == RunnerSpec => []RunIsAccounted
<1>1. RunInv => RunIsAccounted
  <2> SUFFICES ASSUME RunInv PROVE RunIsAccounted OBVIOUS
  <2>1. EveryCallHeard
    <3> SUFFICES ASSUME body.pc = "chat"
                 PROVE  /\ body.talk.calls = body.talk.seen + body.talk.told + body.talk.cut
                        /\ body.talk.told = asked
      BY DEF EveryCallHeard
    <3>1. body.talk \in Talk BY BodyShape DEF RunInv
    <3>2. body.talk.seen \in Nat /\ body.talk.told \in Nat /\ body.talk.cut \in Nat
      BY <3>1, TalkFields
    <3>3. body.talk.calls = body.talk.seen + body.talk.told + body.talk.cut + 0
            /\ body.talk.told = asked
      BY DEF RunInv, Speech, Balanced
    <3> QED BY <3>2, <3>3
  <2> QED BY <2>1 DEF RunInv, RunIsAccounted
<1> QED BY <1>1, RunInvariant, PTL

\* Whatever the segments do, the run is a stage as the chain takes it: one approval after
\* the other, within the budget, and one result (workflow.go:93-167).
THEOREM RunnerIsAStage == RunnerSpec => Abstract!Spec
<1>1. RunnerInit => Abstract!Init
  BY DEF RunnerInit, Abstract!Init
<1>2. RunInv /\ [RunnerNext]_(runnerVars)
        => [Abstract!Next]_<<asked, at = "await", result>>
  <2> SUFFICES ASSUME RunInv, [RunnerNext]_(runnerVars)
               PROVE  [Abstract!Next]_<<asked, at = "await", result>>
    OBVIOUS
  <2>1. RunnerTypeOK BY DEF RunInv
  <2>2. CASE Loop \/ RunAgain \/ CrashSegment \/ UNCHANGED runnerVars
    <3>1. UNCHANGED <<at, asked, result>>
      BY <2>2 DEF Loop, Begin, ChatFails, Nudge, Answer, Reply,
        NextTurn, HandOff, RefuseCall, Exhaust, Denied, Approved,
        DispatchCall, Pause, RunOut, Finish, RunAgain, CrashSegment,
        durable, runnerVars
    <3> QED BY <3>1
  <2>3. CASE Checkpoint
    <3>1. asked' = asked /\ at = "segment" /\ result = "none"
      <4>1. body.pc \in {"ended", "paused"} /\ asked' = asked BY <2>3 DEF Checkpoint
      <4> QED BY <4>1 DEF RunInv, Resumes, Closed
    <3>2. CASE body.pc = "ended"
      <4>1. result' = body.end /\ at' = "done" BY <2>3, <3>2 DEF Checkpoint
      <4>2. body.end \in Reason BY <2>1, <3>2, BodyShape
      <4> QED BY <3>1, <4>1, <4>2 DEF Abstract!Next, Abstract!End
    <3>3. CASE body.pc = "paused"
      <4>1. result' = result /\ at' = "register" BY <2>3, <3>3 DEF Checkpoint
      <4> QED BY <3>1, <4>1
    <3> QED BY <2>3, <3>2, <3>3 DEF Checkpoint
  <2>4. CASE Register
    <3>1. /\ at = "register" /\ at' = "await" /\ asked' = asked + 1 /\ result' = result
      BY <2>4 DEF Register
    <3>2. result = "none" /\ Balanced(saved, 1, 1, 1) /\ saved.told = asked
      BY <3>1 DEF RunInv, Closed, Resumes
    <3>3. asked \in Nat /\ Budget \in Nat /\ saved \in Talk BY <2>1, RunTypes
    <3>4. saved.gates \in Nat BY <3>3, TalkFields
    <3>5. asked < Budget
      <4>1. saved.told + 1 <= saved.gates /\ saved.gates <= Budget BY <3>2 DEF Balanced
      <4> QED BY <3>2, <3>3, <3>4, <4>1
    <3> QED BY <3>1, <3>2, <3>5 DEF Abstract!Next, Abstract!Ask
  <2>5. CASE Hear
    <3>1. at = "await" /\ at' = "segment" /\ asked' = asked /\ result' = result
      BY <2>5 DEF Hear
    <3> QED BY <3>1 DEF Abstract!Next, Abstract!Answered
  <2>6. CASE Fail
    <3>1. at # "done" /\ at' = "done" /\ result' = "error" /\ asked' = asked
      BY <2>6 DEF Fail
    <3>2. result = "none" BY <3>1 DEF RunInv, Closed
    <3> QED BY <3>1, <3>2 DEF Abstract!Next, Abstract!End
  <2> QED BY <2>2, <2>3, <2>4, <2>5, <2>6 DEF RunnerNext, Step
<1> QED BY <1>1, <1>2, RunInvariant, PTL DEF RunnerSpec, Abstract!Spec
-----------------------------------------------------------------------------
(* Inbox.                                                                  *)

\* m is in a list, and at one place at most.
Lists(e, m) == \E i \in DOMAIN e : e[i] = m
Once(e, m) == \A i, j \in DOMAIN e : e[i] = m /\ e[j] = m => i = j

\* Only a row that is there is projected, or about to be.
Rowed ==
  /\ \A m \in Message : projected[m] # "none" => source[m] # "none"
  /\ \A p \in sweep : source[p[1]] # "none"

\* What has not changed since a scroll began is listed.
Stands == \A n \in 1 .. MaxScrolls : \A m \in firm[n] : Listed(m)

\* The list e of scroll n, which has come to c, is whole.
Shown(e, c, n) ==
  n # 0 => \A m \in firm[n] :
    /\ Once(e, m) /\ (Lists(e, m) => Passed(m, c))
    /\ m \notin swiped /\ Passed(m, c) => Lists(e, m)

\* A cursor moves on, on one clock.
Further(c, d) ==
  d = End \/ (d.now = c.now /\ (d.score < c.score \/ (d.score = c.score /\ d.id < c.id)))

\* A page p of scroll n holds what is between c and its own cursor.
Follows(p, c, n) ==
  /\ p.scroll = n /\ Further(c, p.next)
  /\ n # 0 => \A m \in firm[n] :
       /\ Once(p.entries, m)
       /\ Lists(p.entries, m) <=> ~Passed(m, c) /\ Passed(m, p.next)

\* The feed, the first page and the further ones.
Fed == feed.scroll <= scrolls /\ Shown(feed.entries, feed.next, feed.scroll)

Built ==
  build.pc = "served" =>
    /\ build.page.scroll <= scrolls
    /\ Shown(build.page.entries, build.page.next, build.page.scroll)

Paged ==
  \A r \in more :
    /\ r.base.scroll <= scrolls /\ r.base.next # End
    /\ Shown(r.base.entries, r.base.next, r.base.scroll)
    /\ r.answer.pc = "served" => Follows(r.answer.page, r.base.next, r.base.scroll)

\* A row that was swiped away with no page under way is in no list, and no page is asked
\* for before the server knows.
Away ==
  \A m \in swiped \ raced :
    /\ ~Lists(feed.entries, m)
    /\ build.pc = "served" => ~Lists(build.page.entries, m)
    /\ \A r \in more :
         /\ ~Lists(r.base.entries, m)
         /\ r.answer.pc = "served" => ~Lists(r.answer.page.entries, m)
    /\ m \in hidden \/ (m \in swiping /\ build.pc = "off" /\ more = {})

BoxInv == InboxTypeOK /\ Rowed /\ Stands /\ Fed /\ Built /\ Paged /\ Away
-----------------------------------------------------------------------------
\* A numbering of a finite set of positions reaches each of them, and none twice.
LEMMA OrdersCover ==
  ASSUME NEW S \in SUBSET Nat, IsFiniteSet(S), NEW f \in Orders(S)
  PROVE  /\ Cardinality(S) \in Nat /\ f \in [1 .. Cardinality(S) -> S]
         /\ \A i, j \in 1 .. Cardinality(S) : f[i] = f[j] => i = j
         /\ \A s \in S : \E i \in 1 .. Cardinality(S) : f[i] = s
<1> DEFINE n == Cardinality(S)
<1>1. n \in Nat BY FS_CardinalityType
<1>2. f \in [1 .. n -> S] /\ \A i, j \in 1 .. n : i < j => f[i] < f[j] BY DEF Orders
<1>3. \A i, j \in 1 .. n : f[i] = f[j] => i = j
  <2> HIDE DEF n
  <2> SUFFICES ASSUME NEW i \in 1 .. n, NEW j \in 1 .. n, f[i] = f[j], i # j
               PROVE  FALSE
    OBVIOUS
  <2>1. f[i] \in S /\ f[j] \in S BY ONLY <1>2, i \in 1 .. n, j \in 1 .. n
  <2>2. f[i] \in Nat /\ f[j] \in Nat BY <2>1
  <2>3. i \in Int /\ j \in Int BY <1>1
  <2>4. i < j \/ j < i BY <2>3
  <2>5. i < j => f[i] < f[j] BY <1>2
  <2>6. j < i => f[j] < f[i] BY <1>2
  <2> QED BY ONLY <2>2, <2>4, <2>5, <2>6, f[i] = f[j]
<1>4. f \in Injection(1 .. n, S) BY <1>2, <1>3 DEF Injection, IsInjective
<1>5. IsFiniteSet(1 .. n) /\ Cardinality(1 .. n) = n
  <2>1. IsFiniteSet(1 .. n) /\ Cardinality(1 .. n) = IF 1 > n THEN 0 ELSE n - 1 + 1
    BY <1>1, FS_Interval
  <2> QED BY <1>1, <2>1
<1>6. f \in Surjection(1 .. n, S) BY <1>4, <1>5, FS_Injection
<1>7. \A s \in S : \E i \in 1 .. n : f[i] = s BY <1>6 DEF Surjection
<1> QED BY <1>1, <1>2, <1>3, <1>7

\* A cursor is neither the beginning nor the end.
LEMMA BoxCursor ==
  ASSUME NEW c \in Cursor
  PROVE  c # Start /\ c # End /\ Clock(c) = c.now
<1>1. "now" \in DOMAIN c BY DEF Cursor
<1>2. "now" \notin DOMAIN Start /\ "now" \notin DOMAIN End BY DEF Start, End
<1>3. c # Start /\ c # End BY <1>1, <1>2
<1> QED BY <1>3 DEF Clock

\* The score of a row is a number.
LEMMA BoxScore ==
  ASSUME InboxTypeOK, NEW m \in Message, NEW t \in Nat
  PROVE  Score(m, t) \in Nat
<1>1. weight[m] \in 0 .. 1 /\ created[m] \in 0 .. MaxNow /\ Due[m] \in Nat
  BY RowAssumption DEF InboxTypeOK, RowAssumption
<1>2. 2 * weight[m] \in Nat BY <1>1
<1> QED BY <1>1, <1>2 DEF Score

\* A page holds listed rows that are below its cursor, best first and none twice, as many
\* as it takes, and leaves out what is below its own cursor only.
LEMMA BoxPage ==
  ASSUME InboxTypeOK, NEW c \in Cursor \cup {Start},
         NEW s \in 0 .. MaxScrolls, NEW p \in PagesAfter(c, s)
  PROVE  /\ p \in Page /\ p.scroll = s /\ Clock(c) \in Nat
         /\ \A i \in DOMAIN p.entries :
              /\ p.entries[i] \in Message
              /\ Listed(p.entries[i]) /\ Below(p.entries[i], c)
         /\ \A i, j \in DOMAIN p.entries :
              i < j => Above(p.entries[i], p.entries[j], Clock(c))
         /\ \A m \in Message : Listed(m) /\ Below(m, c) /\ ~Lists(p.entries, m) =>
              /\ PageLimit \in DOMAIN p.entries
              /\ Above(p.entries[PageLimit], m, Clock(c))
         /\ \/ Len(p.entries) < PageLimit /\ p.next = End
            \/ /\ DOMAIN p.entries = 1 .. PageLimit /\ PageLimit \in DOMAIN p.entries
               /\ p.next \in Cursor /\ p.next.now = Clock(c)
               /\ p.next.score = Score(p.entries[PageLimit], Clock(c))
               /\ p.next.id = p.entries[PageLimit]
<1> DEFINE t == Clock(c)
           found == {m \in Message : Listed(m) /\ Below(m, c)}
           Best(e) == /\ \A i, j \in DOMAIN e : i < j => Above(e[i], e[j], t)
                      /\ \A m \in found :
                           \/ \E i \in DOMAIN e : e[i] = m
                           \/ Len(e) = PageLimit /\ Above(e[PageLimit], m, t)
           Next(e) == IF Len(e) < PageLimit THEN End
                      ELSE [now |-> t, score |-> Score(e[PageLimit], t),
                            id |-> e[PageLimit]]
<1>1. PageLimit \in Nat \ {0} /\ MaxScrolls \in Nat
  BY InboxBounds DEF InboxBounds
<1>2. t \in Nat
  <2>1. now \in Nat BY DEF InboxTypeOK
  <2>2. c \in Cursor => t = c.now /\ c.now \in Nat BY BoxCursor DEF Cursor
  <2> QED BY <2>1, <2>2 DEF Clock
<1>3. PICK n \in 0 .. PageLimit : \E e \in [1 .. n -> found] :
        Best(e) /\ p = [entries |-> e, scroll |-> s, next |-> Next(e)]
  BY DEF PagesAfter
<1>4. PICK e \in [1 .. n -> found] :
        Best(e) /\ p = [entries |-> e, scroll |-> s, next |-> Next(e)]
  BY <1>3
<1>5. n \in Nat /\ n <= PageLimit BY <1>1
<1>6. DOMAIN e = 1 .. n /\ e \in Seq(Message) /\ Len(e) = n
  <2>1. e \in [1 .. n -> Message] OBVIOUS
  <2> QED BY <1>5, <2>1
<1>7. p.entries = e /\ p.scroll = s /\ p.next = Next(e) BY <1>4
<1>8. \A i \in DOMAIN e : e[i] \in Message /\ Listed(e[i]) /\ Below(e[i], c)
  <2>1. \A i \in DOMAIN e : e[i] \in found BY <1>6
  <2> QED BY <2>1
<1>9. n = PageLimit => PageLimit \in DOMAIN e BY <1>1, <1>6
<1>10. \/ n < PageLimit /\ Next(e) = End
       \/ /\ n = PageLimit /\ Next(e) \in Cursor /\ Next(e).now = t
          /\ Next(e).score = Score(e[PageLimit], t) /\ Next(e).id = e[PageLimit]
  <2>1. CASE n < PageLimit BY <2>1, <1>6
  <2>2. CASE n = PageLimit
    <3>1. e[PageLimit] \in Message BY <1>8, <1>9, <2>2
    <3>2. Score(e[PageLimit], t) \in Nat BY <1>2, <3>1, BoxScore
    <3>3. Next(e) = [now |-> t, score |-> Score(e[PageLimit], t), id |-> e[PageLimit]]
      BY <1>1, <1>6, <2>2
    <3> QED BY <1>2, <2>2, <3>1, <3>2, <3>3 DEF Cursor
  <2> QED BY <1>1, <1>5, <2>1, <2>2
<1>11. p \in Page
  <2>1. Next(e) \in Cursor \cup {End} BY <1>10
  <2> HIDE DEF Next
  <2> QED BY <1>4, <1>6, <2>1 DEF Page
<1>12. \A m \in Message : Listed(m) /\ Below(m, c) /\ ~Lists(e, m) =>
         PageLimit \in DOMAIN e /\ Above(e[PageLimit], m, t)
  <2> SUFFICES ASSUME NEW m \in Message, Listed(m), Below(m, c), ~Lists(e, m)
               PROVE  PageLimit \in DOMAIN e /\ Above(e[PageLimit], m, t)
    OBVIOUS
  <2>1. m \in found OBVIOUS
  <2>2. Len(e) = PageLimit /\ Above(e[PageLimit], m, t) BY <1>4, <2>1 DEF Lists
  <2> QED BY <1>6, <1>9, <2>2
<1>13. \A i, j \in DOMAIN e : i < j => Above(e[i], e[j], t) BY <1>4
<1> HIDE DEF t, Best, Next, found
<1> QED BY <1>2, <1>6, <1>7, <1>8, <1>9, <1>10, <1>11, <1>12, <1>13 DEF t

\* A row that changes leaves what has stayed.
LEMMA BoxLoosens ==
  ASSUME InboxTypeOK, NEW m \in Message, Loosen(m)
  PROVE  /\ firm' \in [1 .. MaxScrolls -> SUBSET Message]
         /\ \A n \in 1 .. MaxScrolls : firm'[n] = firm[n] \ {m}
<1>1. firm \in [1 .. MaxScrolls -> SUBSET Message] BY DEF InboxTypeOK
<1>2. firm' = [n \in 1 .. MaxScrolls |-> firm[n] \ {m}] BY <1>1 DEF Loosen
<1>3. \A n \in 1 .. MaxScrolls : firm[n] \ {m} \in SUBSET Message BY <1>1
<1> QED BY ONLY <1>2, <1>3

\* The types are kept.
LEMMA BoxTypes ==
  ASSUME InboxTypeOK, [InboxNext]_inboxVars,
         \A r \in more : r.base.next # End
  PROVE  InboxTypeOK'
<1> USE DEF rows, table, phone, ghosts, bounds
<1>1. CASE UNCHANGED inboxVars BY <1>1 DEF InboxTypeOK, inboxVars
<1>2. ASSUME NEW m \in Message, RowStep(m)
      PROVE  InboxTypeOK'
  <2>2. Loosen(m) => firm' \in [1 .. MaxScrolls -> SUBSET Message] BY BoxLoosens
  <2>1. MaxFaults \in Nat /\ MaxChanges \in Nat BY InboxBounds DEF InboxBounds
  <2>9. changes \in Nat /\ faults \in Nat /\ faults <= MaxFaults BY <2>1 DEF InboxTypeOK
  <2>3. changes + 1 \in Nat /\ faults + 1 \in Nat BY <2>9
  <2>10. Changes => changes' \in 0 .. MaxChanges BY <2>1, <2>3, <2>9 DEF Changes
  <2>11. ASSUME NEW s \in Status, Projects(m, s)
         PROVE  projected' \in [Message -> Status] /\ faults' \in 0 .. MaxFaults
    <3>1. projected \in [Message -> Status] /\ faults \in 0 .. MaxFaults
      BY DEF InboxTypeOK
    <3>2. CASE projected' = [projected EXCEPT ![m] = s] /\ UNCHANGED faults
      BY ONLY <3>1, <3>2, s \in Status
    <3>3. CASE faults < MaxFaults /\ faults' = faults + 1 /\ UNCHANGED projected
      <4>1. faults' \in 0 .. MaxFaults BY ONLY <2>1, <2>3, <2>9, <3>3
      <4> QED BY <3>1, <3>3, <4>1
    <3> QED BY <2>11, <3>2, <3>3 DEF Projects
  <2>4. CASE Insert(m)
    <3>1. projected' \in [Message -> Status] /\ faults' \in 0 .. MaxFaults
      BY <2>4, <2>11 DEF Insert, Status
    <3>2. source' \in [Message -> Status] BY <2>4 DEF Insert, InboxTypeOK, Status
    <3>3. created' \in [Message -> 0 .. MaxNow] BY <2>4 DEF Insert, InboxTypeOK
    <3>4. weight' \in [Message -> 0 .. 1] BY <2>4 DEF Insert, InboxTypeOK
    <3> QED BY <2>4, <2>10, <3>1, <3>2, <3>3, <3>4 DEF InboxTypeOK, Insert
  <2>5. CASE CloseRow(m)
    <3>1. PICK s \in Status : Projects(m, s)
      BY <2>5 DEF CloseRow, Status
    <3>2. projected' \in [Message -> Status] /\ faults' \in 0 .. MaxFaults
      BY <3>1, <2>11
    <3>3. source' \in [Message -> Status] BY <2>5 DEF CloseRow, InboxTypeOK, Status
    <3> QED BY <2>2, <2>5, <2>10, <3>2, <3>3 DEF InboxTypeOK, CloseRow
  <2>6. CASE EndTask(m)
    BY <2>2, <2>6, <2>10 DEF InboxTypeOK, EndTask
  <2>7. CASE Reprioritise(m)
    <3>1. 1 - weight[m] \in 0 .. 1 BY DEF InboxTypeOK
    <3> QED BY <2>2, <2>7, <2>10, <3>1 DEF InboxTypeOK, Reprioritise
  <2> QED BY <1>2, <2>4, <2>5, <2>6, <2>7 DEF RowStep
<1>3. ASSUME NEW m \in Message, Swipe(m)
      PROVE  InboxTypeOK'
  <2> DEFINE S == {i \in DOMAIN feed.entries : feed.entries[i] # m}
  <2>1. PICK f \in Orders(S) :
          feed' = [feed EXCEPT !.entries = [k \in DOMAIN f |-> feed.entries[f[k]]]]
    BY <1>3 DEF Swipe
  <2>2. feed \in Feed /\ feed.entries \in Seq(Message) BY DEF InboxTypeOK, Feed
  <2>3. S \subseteq 1 .. Len(feed.entries) /\ Len(feed.entries) \in Nat BY <2>2
  <2>4. IsFiniteSet(S)
    <3>1. IsFiniteSet(1 .. Len(feed.entries)) BY <2>3, FS_Interval
    <3> QED BY <2>3, <3>1, FS_Subset
  <2>5. S \in SUBSET Nat BY <2>3
  <2>6. Cardinality(S) \in Nat /\ f \in [1 .. Cardinality(S) -> S]
    <3> HIDE DEF S
    <3> QED BY <2>4, <2>5, OrdersCover, Zenon
  <2>7. [k \in DOMAIN f |-> feed.entries[f[k]]] \in Seq(Message)
    <3>1. \A k \in DOMAIN f : f[k] \in DOMAIN feed.entries BY <2>6
    <3>2. \A k \in DOMAIN f : feed.entries[f[k]] \in Message BY <2>2, <3>1
    <3>3. DOMAIN f = 1 .. Cardinality(S) BY <2>6
    <3> HIDE DEF S
    <3> QED BY <2>6, <3>2, <3>3
  <2>8. feed' \in Feed BY ONLY <2>1, <2>2, <2>7 DEF Feed
  <2>9. raced' \subseteq Message /\ swiped' \subseteq Message /\ swiping' \subseteq Message
    BY <1>3 DEF Swipe, InboxTypeOK
  <2> QED BY <1>3, <2>8, <2>9 DEF Swipe, InboxTypeOK
<1>4. ASSUME NEW m \in Message, Dismiss(m) \/ DismissFails(m)
      PROVE  InboxTypeOK'
  <2>2. Loosen(m) => firm' \in [1 .. MaxScrolls -> SUBSET Message] BY BoxLoosens
  <2>3. faults + 1 \in Nat /\ MaxFaults \in Nat
    BY InboxBounds DEF InboxTypeOK, InboxBounds
  <2> QED BY <1>4, <2>2, <2>3 DEF InboxTypeOK, Dismiss, DismissFails
<1>5. CASE Tick \/ Reconcile
  <2>1. now + 1 \in Nat /\ MaxNow \in Nat
    BY InboxBounds DEF InboxTypeOK, InboxBounds
  <2> QED BY <1>5, <2>1 DEF InboxTypeOK, Tick, Reconcile, Missing
<1>6. CASE Repair
  <2>1. \A m \in Message : /\ projected'[m] \in Status
                            /\ projected' = [k \in Message |-> projected'[k]]
    <3> SUFFICES ASSUME NEW m \in Message
                 PROVE  /\ projected'[m] \in Status
                        /\ projected' = [k \in Message |-> projected'[k]]
      OBVIOUS
    <3>1. projected' = [k \in Message |->
            IF projected[k] = "none" /\ (\E s \in Status : <<k, s>> \in sweep)
            THEN CHOOSE s \in Status : <<k, s>> \in sweep ELSE projected[k]]
      BY <1>6 DEF Repair
    <3>2. (\E s \in Status : <<m, s>> \in sweep)
            => (CHOOSE s \in Status : <<m, s>> \in sweep) \in Status
      OBVIOUS
    <3>3. projected[m] \in Status BY DEF InboxTypeOK
    <3> QED BY <3>1, <3>2, <3>3
  <2>2. projected' \in [Message -> Status]
    <3>1. projected' = [k \in Message |->
            IF projected[k] = "none" /\ (\E s \in Status : <<k, s>> \in sweep)
            THEN CHOOSE s \in Status : <<k, s>> \in sweep ELSE projected[k]]
      BY <1>6 DEF Repair
    <3> QED BY <2>1, <3>1
  <2> QED BY <1>6, <2>2 DEF InboxTypeOK, Repair
<1>7. CASE Refresh
  <2>1. asks + 1 \in Nat /\ MaxAsks \in Nat
    BY InboxBounds DEF InboxTypeOK, InboxBounds
  <2> QED BY <1>7, <2>1 DEF InboxTypeOK, Refresh, Ask
<1>8. CASE ServeFirst
  <2>1. scrolls' = scrolls + 1 /\ scrolls' \in 0 .. MaxScrolls
    BY <1>8, InboxBounds DEF ServeFirst, InboxTypeOK, InboxBounds
  <2>2. PICK page \in PagesAfter(Start, scrolls') :
          build' = [pc |-> "served", page |-> page]
    BY <1>8 DEF ServeFirst
  <2>3. page \in Page BY <2>1, <2>2, BoxPage
  <2>4. build' \in Served BY <2>2, <2>3 DEF Served
  <2>5. firm' \in [1 .. MaxScrolls -> SUBSET Message]
    <3>1. firm' = [firm EXCEPT ![scrolls'] = {m \in Message : Listed(m)}]
      BY <1>8 DEF ServeFirst
    <3> QED BY <3>1 DEF InboxTypeOK
  <2> QED BY <1>8, <2>1, <2>4, <2>5 DEF ServeFirst, InboxTypeOK
<1>9. CASE ShowFirst
  <2>1. build \in Served
    BY <1>9 DEF ShowFirst, InboxTypeOK, Asked, Off
  <2>2. build.page \in Page BY <2>1 DEF Served
  <2>3. feed' \in Feed BY <1>9, <2>2 DEF ShowFirst, Page, Feed
  <2> QED BY <1>9, <2>3 DEF ShowFirst, InboxTypeOK
<1>10. CASE FirstFails
  <2>1. faults + 1 \in Nat /\ MaxFaults \in Nat
    BY InboxBounds DEF InboxTypeOK, InboxBounds
  <2> QED BY <1>10, <2>1 DEF InboxTypeOK, FirstFails
<1>11. CASE LoadMore
  <2>1. asks + 1 \in Nat /\ MaxAsks \in Nat
    BY InboxBounds DEF InboxTypeOK, InboxBounds
  <2>2. feed' \in Feed /\ feed \in Feed
    BY <1>11 DEF LoadMore, InboxTypeOK, Feed
  <2> QED BY <1>11, <2>1, <2>2 DEF InboxTypeOK, LoadMore, Ask
<1>12. ASSUME NEW r \in more, ServeMore(r)
       PROVE  InboxTypeOK'
  <2>1. r.base \in Feed BY DEF InboxTypeOK
  <2>2. PICK page \in PagesAfter(r.base.next, r.base.scroll) :
          more' = (more \ {r}) \cup
            {[base |-> r.base, answer |-> [pc |-> "served", page |-> page]]}
    BY <1>12 DEF ServeMore
  <2>3. page \in Page BY <2>1, <2>2, BoxPage DEF Feed
  <2>4. [base |-> r.base, answer |-> [pc |-> "served", page |-> page]]
          \in [base : Feed, answer : Served \cup {Asked}]
    BY <2>1, <2>3 DEF Served
  <2>5. more' \subseteq [base : Feed, answer : Served \cup {Asked}]
    BY <2>2, <2>4 DEF InboxTypeOK
  <2> QED BY <1>12, <2>5 DEF ServeMore, InboxTypeOK
<1>13. ASSUME NEW r \in more, ShowMore(r)
       PROVE  InboxTypeOK'
  <2>1. r.base \in Feed /\ r.answer \in Served BY <1>13 DEF InboxTypeOK, ShowMore
  <2>2. r.answer.page \in Page BY <2>1 DEF Served
  <2>3. r.base.entries \o r.answer.page.entries \in Seq(Message)
    BY <2>1, <2>2 DEF Feed, Page
  <2>4. feed' \in Feed BY <1>13, <2>2, <2>3 DEF ShowMore, Page, Feed
  <2> QED BY <1>13, <2>4 DEF ShowMore, InboxTypeOK
<1>14. ASSUME NEW r \in more, MoreFails(r)
       PROVE  InboxTypeOK'
  <2>1. faults + 1 \in Nat /\ MaxFaults \in Nat
    BY InboxBounds DEF InboxTypeOK, InboxBounds
  <2>2. r.base \in Feed BY DEF InboxTypeOK
  <2> QED BY <1>14, <2>1, <2>2 DEF InboxTypeOK, MoreFails
<1> QED BY <1>1, <1>2, <1>3, <1>4, <1>5, <1>6, <1>7, <1>8, <1>9, <1>10, <1>11, <1>12, <1>13,
           <1>14 DEF InboxNext

\* What a scroll has begun with and a step leaves is listed and scored as before.
Steady ==
  /\ swiped \subseteq swiped'
  /\ \A n \in 1 .. scrolls :
       /\ firm'[n] \subseteq firm[n]
       /\ \A m \in firm'[n] : weight'[m] = weight[m] /\ created'[m] = created[m]

\* Only rows that are there are projected, what has not changed is listed, and its score
\* stays.
LEMMA BoxRows ==
  ASSUME InboxTypeOK, Rowed, Stands, [InboxNext]_inboxVars
  PROVE  Rowed' /\ Stands' /\ Steady
<1> USE DEF rows, table, phone, ghosts, bounds
<1>0. /\ scrolls <= MaxScrolls /\ scrolls \in Nat /\ MaxScrolls \in Nat
      /\ \A n \in 1 .. scrolls : n \in 1 .. MaxScrolls
  BY InboxBounds DEF InboxTypeOK, InboxBounds
<1>1. ASSUME UNCHANGED <<rows, projected, hidden, firm>>, swiped \subseteq swiped'
      PROVE  Stands' /\ Steady
  <2>1. \A m \in Message : Listed(m)' = Listed(m) BY <1>1 DEF Listed
  <2>2. \A n \in 1 .. MaxScrolls : firm[n] \subseteq Message BY DEF InboxTypeOK
  <2>3. Stands' BY <1>1, <2>1, <2>2 DEF Stands
  <2> QED BY <1>1, <2>3 DEF Steady
<1>2. ASSUME UNCHANGED <<source, projected, sweep>>
      PROVE  Rowed'
  BY <1>2 DEF Rowed
<1>3. ASSUME NEW k \in Message,
             \A n \in 1 .. MaxScrolls : firm'[n] \subseteq firm[n] /\ k \notin firm'[n],
             \A m \in Message : m # k =>
               /\ source'[m] = source[m] /\ ended'[m] = ended[m] /\ weight'[m] = weight[m]
               /\ created'[m] = created[m] /\ projected'[m] = projected[m]
               /\ m \in hidden' <=> m \in hidden,
             UNCHANGED <<swiped, scrolls>>
      PROVE  Stands' /\ Steady
  <2>1. ASSUME NEW n \in 1 .. MaxScrolls, NEW m \in firm'[n]
        PROVE  /\ m \in Message /\ weight'[m] = weight[m] /\ created'[m] = created[m]
               /\ Listed(m)'
    <3>1. m \in firm[n] /\ m # k /\ m \in Message BY <1>3 DEF InboxTypeOK
    <3>2. Listed(m) BY <3>1 DEF Stands
    <3>3. /\ source'[m] = source[m] /\ ended'[m] = ended[m] /\ weight'[m] = weight[m]
          /\ created'[m] = created[m] /\ projected'[m] = projected[m]
          /\ m \in hidden' <=> m \in hidden
      BY <1>3, <3>1
    <3> QED BY <3>1, <3>2, <3>3 DEF Listed
  <2>2. Stands' BY <2>1 DEF Stands
  <2> QED BY <1>0, <1>3, <2>1, <2>2 DEF Steady
<1>4. CASE UNCHANGED inboxVars BY <1>1, <1>2, <1>4 DEF inboxVars
<1>5. ASSUME NEW k \in Message, RowStep(k)
      PROVE  Rowed' /\ Stands' /\ Steady
  <2>1. ASSUME NEW s \in Status, Projects(k, s), source'[k] # "none",
               \A m \in Message : m # k => source'[m] = source[m], UNCHANGED sweep
        PROVE  /\ \A m \in Message : m # k => projected'[m] = projected[m]
               /\ Rowed'
    <3>1. \A m \in Message : m # k => projected'[m] = projected[m]
      BY <2>1 DEF Projects, InboxTypeOK
    <3>2. \A p \in sweep : p[1] \in Message BY DEF InboxTypeOK
    <3> QED BY <2>1, <3>1, <3>2 DEF Rowed
  <2>2. CASE Insert(k)
    <3>1. source[k] = "none" /\ source' = [source EXCEPT ![k] = "open"] /\ Projects(k, "open")
          /\ created' = [created EXCEPT ![k] = now] /\ UNCHANGED <<ended, hidden, sweep, firm>>
          /\ UNCHANGED <<swiped, scrolls>>
      BY <2>2 DEF Insert
    <3>2. PICK w \in 0 .. 1 : weight' = [weight EXCEPT ![k] = w] BY <2>2 DEF Insert
    <3>3. \A n \in 1 .. MaxScrolls : k \notin firm[n]
      BY <3>1 DEF Stands, Rowed, Listed
    <3>4. source'[k] = "open" /\ \A m \in Message : m # k => source'[m] = source[m]
      BY <3>1 DEF InboxTypeOK
    <3>5. (\A m \in Message : m # k => projected'[m] = projected[m]) /\ Rowed'
      BY <2>1, <3>1, <3>4 DEF Status
    <3>6. \A m \in Message : m # k => weight'[m] = weight[m] /\ created'[m] = created[m]
      BY <3>1, <3>2 DEF InboxTypeOK
    <3> QED BY <1>3, <3>1, <3>3, <3>4, <3>5, <3>6
  <2>3. CASE CloseRow(k)
    <3>1. source' = [source EXCEPT ![k] = "closed"] /\ Loosen(k)
          /\ UNCHANGED <<ended, weight, created, hidden, sweep, swiped, scrolls>>
      BY <2>3 DEF CloseRow
    <3>2. source'[k] = "closed" /\ \A m \in Message : m # k => source'[m] = source[m]
      BY <3>1 DEF InboxTypeOK
    <3>3. PICK s \in Status : Projects(k, s) BY <2>3 DEF CloseRow, Status
    <3>4. (\A m \in Message : m # k => projected'[m] = projected[m]) /\ Rowed'
      BY <2>1, <3>1, <3>2, <3>3
    <3>5. \A n \in 1 .. MaxScrolls : firm'[n] \subseteq firm[n] /\ k \notin firm'[n]
      BY <3>1, BoxLoosens
    <3> QED BY <1>3, <3>1, <3>2, <3>4, <3>5
  <2>4. CASE EndTask(k)
    <3>1. ended' = [ended EXCEPT ![k] = TRUE] /\ Loosen(k)
          /\ UNCHANGED <<source, weight, created, projected, hidden, sweep, swiped, scrolls>>
      BY <2>4 DEF EndTask
    <3>2. \A m \in Message : m # k => ended'[m] = ended[m] BY <3>1 DEF InboxTypeOK
    <3>3. \A n \in 1 .. MaxScrolls : firm'[n] \subseteq firm[n] /\ k \notin firm'[n]
      BY <3>1, BoxLoosens
    <3> QED BY <1>2, <1>3, <3>1, <3>2, <3>3
  <2>5. CASE Reprioritise(k)
    <3>1. weight' = [weight EXCEPT ![k] = 1 - @] /\ Loosen(k)
          /\ UNCHANGED <<source, ended, created, projected, hidden, sweep, swiped, scrolls>>
      BY <2>5 DEF Reprioritise
    <3>2. \A m \in Message : m # k => weight'[m] = weight[m] BY <3>1 DEF InboxTypeOK
    <3>3. \A n \in 1 .. MaxScrolls : firm'[n] \subseteq firm[n] /\ k \notin firm'[n]
      BY <3>1, BoxLoosens
    <3> QED BY <1>2, <1>3, <3>1, <3>2, <3>3
  <2> QED BY <1>5, <2>2, <2>3, <2>4, <2>5 DEF RowStep
<1>6. ASSUME NEW k \in Message, Dismiss(k)
      PROVE  Rowed' /\ Stands' /\ Steady
  <2>1. /\ hidden' = hidden \cup {k} /\ Loosen(k)
        /\ UNCHANGED <<source, ended, weight, created, projected, sweep, swiped, scrolls>>
    BY <1>6 DEF Dismiss
  <2>2. \A n \in 1 .. MaxScrolls : firm'[n] \subseteq firm[n] /\ k \notin firm'[n]
    BY <2>1, BoxLoosens
  <2> QED BY <1>2, <1>3, <2>1, <2>2
<1>7. CASE Repair
  <2>1. projected' = [m \in Message |->
          IF projected[m] = "none" /\ (\E s \in Status : <<m, s>> \in sweep)
          THEN CHOOSE s \in Status : <<m, s>> \in sweep ELSE projected[m]]
    BY <1>7 DEF Repair
  <2>2. sweep' = {} /\ UNCHANGED <<source, ended, weight, created, hidden, firm, swiped, scrolls>>
    BY <1>7 DEF Repair
  <2>3. \A m \in Message : projected[m] # "none" => projected'[m] = projected[m] BY <2>1
  <2>4. \A m \in Message : projected'[m] # "none" => source[m] # "none"
    <3> SUFFICES ASSUME NEW m \in Message, projected'[m] # "none"
                 PROVE  source[m] # "none"
      OBVIOUS
    <3>1. CASE projected[m] # "none" BY <3>1 DEF Rowed
    <3>2. CASE \E s \in Status : <<m, s>> \in sweep BY <3>2 DEF Rowed
    <3> QED BY <2>1, <3>1, <3>2
  <2>5. Rowed' BY <2>2, <2>4 DEF Rowed
  <2>6. \A m \in Message : Listed(m) => Listed(m)'
    BY <2>2, <2>3 DEF Listed
  <2>7. \A n \in 1 .. MaxScrolls : firm[n] \subseteq Message BY DEF InboxTypeOK
  <2>8. Stands' BY <2>2, <2>6, <2>7 DEF Stands
  <2> QED BY <2>2, <2>5, <2>8 DEF Steady
<1>8. CASE Reconcile
  <2>1. \A p \in Missing : source[p[1]] # "none" BY DEF Missing
  <2>2. Rowed' BY <1>8, <2>1 DEF Rowed, Reconcile
  <2> QED BY <1>1, <1>8, <2>2 DEF Reconcile
<1>9. CASE ServeFirst
  <2>1. /\ scrolls' = scrolls + 1 /\ scrolls' \in 1 .. MaxScrolls
        /\ firm' = [firm EXCEPT ![scrolls'] = {m \in Message : Listed(m)}]
        /\ UNCHANGED <<rows, table, swiped>>
    BY <1>0, <1>9 DEF ServeFirst
  <2>2. \A n \in 1 .. MaxScrolls :
          firm'[n] = IF n = scrolls' THEN {m \in Message : Listed(m)} ELSE firm[n]
    BY <2>1 DEF InboxTypeOK
  <2>3. \A m \in Message : Listed(m)' = Listed(m) BY <2>1 DEF Listed
  <2>4. \A n \in 1 .. MaxScrolls : firm[n] \subseteq Message BY DEF InboxTypeOK
  <2>5. Stands' BY <2>2, <2>3, <2>4 DEF Stands
  <2>6. \A n \in 1 .. scrolls : n \in 1 .. MaxScrolls /\ n # scrolls' BY <1>0, <2>1
  <2> QED BY <1>2, <2>1, <2>2, <2>5, <2>6 DEF Steady
<1>10. ASSUME NEW k \in Message, Swipe(k) \/ DismissFails(k)
       PROVE  Rowed' /\ Stands' /\ Steady
  BY <1>1, <1>2, <1>10 DEF Swipe, DismissFails
<1>11. CASE Tick \/ Refresh \/ ShowFirst \/ FirstFails \/ LoadMore
  BY <1>1, <1>2, <1>11
     DEF Tick, Refresh, ShowFirst, FirstFails, LoadMore, Ask
<1>12. ASSUME NEW r \in more, ServeMore(r) \/ ShowMore(r) \/ MoreFails(r)
       PROVE  Rowed' /\ Stands' /\ Steady
  BY <1>1, <1>2, <1>12 DEF ServeMore, ShowMore, MoreFails
<1> QED BY <1>4, <1>5, <1>6, <1>7, <1>8, <1>9, <1>10, <1>11, <1>12 DEF InboxNext

\* What a scroll has shown it still shows.
LEMMA BoxShown ==
  ASSUME Steady, NEW e, NEW c, NEW n \in 0 .. scrolls, Shown(e, c, n)
  PROVE  Shown(e, c, n)'
<1>1. CASE n = 0 BY <1>1 DEF Shown
<1>2. CASE n # 0
  <2>1. n \in 1 .. scrolls BY <1>2
  <2>2. firm'[n] \subseteq firm[n] BY <2>1 DEF Steady
  <2>3. ASSUME NEW m \in firm'[n]
        PROVE  Passed(m, c)' <=> Passed(m, c)
    <3>1. weight'[m] = weight[m] /\ created'[m] = created[m] BY <2>1 DEF Steady
    <3> QED BY <3>1 DEF Passed, Score
  <2>4. swiped \subseteq swiped' BY DEF Steady
  <2> QED BY <1>2, <2>2, <2>3, <2>4 DEF Shown
<1> QED BY <1>1, <1>2

\* What a page has followed it still follows.
LEMMA BoxFollows ==
  ASSUME Steady, NEW p, NEW c, NEW n \in 0 .. scrolls, Follows(p, c, n)
  PROVE  Follows(p, c, n)'
<1>1. CASE n = 0 BY <1>1 DEF Follows, Further
<1>2. CASE n # 0
  <2>1. n \in 1 .. scrolls BY <1>2
  <2>2. firm'[n] \subseteq firm[n] BY <2>1 DEF Steady
  <2>3. ASSUME NEW m \in firm'[n], NEW d
        PROVE  Passed(m, d)' <=> Passed(m, d)
    <3>1. weight'[m] = weight[m] /\ created'[m] = created[m] BY <2>1 DEF Steady
    <3> QED BY <3>1 DEF Passed, Score
  <2> QED BY <1>2, <2>2, <2>3 DEF Follows, Further
<1> QED BY <1>1, <1>2

\* A page holds each listed row between its two cursors, once, and nothing that is hidden.
LEMMA BoxPageIsWhole ==
  ASSUME InboxTypeOK, NEW c \in Cursor \cup {Start},
         NEW s \in 0 .. MaxScrolls, NEW p \in PagesAfter(c, s)
  PROVE  /\ \A m \in Message : Listed(m) =>
              /\ Once(p.entries, m)
              /\ Lists(p.entries, m) <=> Below(m, c) /\ Passed(m, p.next)
         /\ \A m \in hidden : ~Lists(p.entries, m)
<1> DEFINE t == Clock(c)
           e == p.entries
<1>1. /\ t \in Nat
      /\ \A i \in DOMAIN e : e[i] \in Message /\ Listed(e[i]) /\ Below(e[i], c)
      /\ \A i, j \in DOMAIN e : i < j => Above(e[i], e[j], t)
      /\ \A m \in Message : Listed(m) /\ Below(m, c) /\ ~Lists(e, m) =>
           PageLimit \in DOMAIN e /\ Above(e[PageLimit], m, t)
      /\ \/ Len(e) < PageLimit /\ p.next = End
         \/ /\ DOMAIN e = 1 .. PageLimit /\ PageLimit \in DOMAIN e
            /\ p.next \in Cursor /\ p.next.now = t
            /\ p.next.score = Score(e[PageLimit], t) /\ p.next.id = e[PageLimit]
  <2>1. t \in Nat BY BoxPage
  <2>2. \A i \in DOMAIN e : e[i] \in Message /\ Listed(e[i]) /\ Below(e[i], c)
    BY BoxPage
  <2>3. \A i, j \in DOMAIN e : i < j => Above(e[i], e[j], t) BY BoxPage
  <2>4. \A m \in Message : Listed(m) /\ Below(m, c) /\ ~Lists(e, m) =>
          PageLimit \in DOMAIN e /\ Above(e[PageLimit], m, t)
    BY BoxPage
  <2>5. \/ Len(e) < PageLimit /\ p.next = End
        \/ /\ DOMAIN e = 1 .. PageLimit /\ PageLimit \in DOMAIN e
           /\ p.next \in Cursor /\ p.next.now = t
           /\ p.next.score = Score(e[PageLimit], t) /\ p.next.id = e[PageLimit]
    BY BoxPage
  <2> HIDE DEF t, e
  <2> QED BY ONLY <2>1, <2>2, <2>3, <2>4, <2>5
<1>2. e \in Seq(Message) /\ PageLimit \in Nat \ {0}
  BY BoxPage, InboxBounds DEF Page, InboxBounds
<1>3. DOMAIN e \subseteq Nat /\ Message \subseteq Nat
  BY <1>2, MessageAssumption DEF MessageAssumption
<1> HIDE DEF t, e
<1>4. \A m \in Message : Score(m, t) \in Nat BY <1>1, BoxScore
<1>5. \A m \in Message : ~Above(m, m, t) BY <1>3, <1>4 DEF Above
<1>6. ASSUME NEW m \in Message
      PROVE  Once(e, m)
  <2> SUFFICES ASSUME NEW i \in DOMAIN e, NEW j \in DOMAIN e, e[i] = m, e[j] = m, i # j
               PROVE  FALSE
    BY DEF Once
  <2>1. i < j \/ j < i BY <1>3
  <2>2. Above(m, m, t) BY <1>1, <2>1
  <2> QED BY <1>5, <2>2
<1>7. ASSUME NEW m \in Message, Lists(e, m)
      PROVE  Below(m, c) /\ Passed(m, p.next)
  <2>1. PICK i \in DOMAIN e : e[i] = m BY <1>7 DEF Lists
  <2>2. Below(m, c) BY <1>1, <2>1
  <2>3. CASE p.next = End BY <2>2, <2>3 DEF Passed
  <2>4. CASE /\ DOMAIN e = 1 .. PageLimit /\ PageLimit \in DOMAIN e
             /\ p.next \in Cursor /\ p.next.now = t
             /\ p.next.score = Score(e[PageLimit], t) /\ p.next.id = e[PageLimit]
    <3>1. i = PageLimit \/ i < PageLimit BY <1>2, <2>4
    <3>2. m = e[PageLimit] \/ Above(m, e[PageLimit], t) BY <1>1, <2>1, <2>4, <3>1
    <3>3. e[PageLimit] \in Message BY <1>1, <2>4
    <3>4. m \in Nat /\ e[PageLimit] \in Nat /\ Score(m, t) \in Nat
          /\ Score(e[PageLimit], t) \in Nat
      BY <1>3, <1>4, <3>3
    <3>5. ~(Score(m, t) < Score(e[PageLimit], t)
            \/ (Score(m, t) = Score(e[PageLimit], t) /\ m < e[PageLimit]))
      BY <3>2, <3>4 DEF Above
    <3> QED BY <2>2, <2>4, <3>5 DEF Passed
  <2> QED BY <1>1, <2>3, <2>4
<1>8. ASSUME NEW m \in Message, Listed(m), Below(m, c), Passed(m, p.next)
      PROVE  Lists(e, m)
  <2> SUFFICES ASSUME ~Lists(e, m) PROVE FALSE
    OBVIOUS
  <2>1. PageLimit \in DOMAIN e /\ Above(e[PageLimit], m, t) BY <1>1, <1>8
  <2>2. /\ p.next \in Cursor /\ p.next.now = t
        /\ p.next.score = Score(e[PageLimit], t) /\ p.next.id = e[PageLimit]
    <3>1. ~(Len(e) < PageLimit) BY <1>2, <2>1
    <3> QED BY <1>1, <3>1
  <2>3. p.next # End BY <2>2, BoxCursor
  <2>4. e[PageLimit] \in Message BY <1>1, <2>1
  <2>5. m \in Nat /\ e[PageLimit] \in Nat /\ Score(m, t) \in Nat
        /\ Score(e[PageLimit], t) \in Nat
    BY <1>3, <1>4, <2>4
  <2>6. ~(Score(m, t) < Score(e[PageLimit], t)
          \/ (Score(m, t) = Score(e[PageLimit], t) /\ m < e[PageLimit]))
    BY <1>8, <2>2, <2>3 DEF Passed
  <2> QED BY <2>1, <2>5, <2>6 DEF Above
<1>9. \A m \in hidden : ~Lists(e, m) BY <1>1 DEF Lists, Listed
<1> QED BY <1>6, <1>7, <1>8, <1>9 DEF e

\* A further page follows its cursor.
LEMMA BoxPageFollows ==
  ASSUME InboxTypeOK, Stands, NEW c \in Cursor,
         NEW s \in 0 .. MaxScrolls, NEW p \in PagesAfter(c, s)
  PROVE  Follows(p, c, s)
<1>1. c # Start /\ c # End /\ Clock(c) = c.now BY BoxCursor
<1>2. /\ p.scroll = s
      /\ \A i \in DOMAIN p.entries : Below(p.entries[i], c)
      /\ \/ p.next = End
         \/ /\ PageLimit \in DOMAIN p.entries /\ p.next.now = c.now
            /\ p.next.score = Score(p.entries[PageLimit], c.now)
            /\ p.next.id = p.entries[PageLimit]
  BY <1>1, BoxPage
<1>3. Further(c, p.next) BY <1>1, <1>2 DEF Further, Below
<1>4. ASSUME s # 0, NEW m \in firm[s]
      PROVE  /\ Once(p.entries, m)
             /\ Lists(p.entries, m) <=> ~Passed(m, c) /\ Passed(m, p.next)
  <2>1. s \in 1 .. MaxScrolls BY <1>4, InboxBounds DEF InboxBounds
  <2>2. m \in Message /\ Listed(m) BY <2>1, <1>4 DEF InboxTypeOK, Stands
  <2>3. Below(m, c) <=> ~Passed(m, c) BY <1>1 DEF Below, Passed
  <2> QED BY <2>2, <2>3, BoxPageIsWhole
<1> QED BY <1>2, <1>3, <1>4 DEF Follows

\* What two lists hold their concatenation holds.
LEMMA BoxJoin ==
  ASSUME NEW e \in Seq(Message), NEW g \in Seq(Message), NEW m
  PROVE  /\ Lists(e \o g, m) <=> Lists(e, m) \/ Lists(g, m)
         /\ Once(e, m) /\ Once(g, m) /\ ~(Lists(e, m) /\ Lists(g, m)) => Once(e \o g, m)
<1> DEFINE h == e \o g
           a == Len(e)
           b == Len(g)
<1>1. /\ Len(h) = a + b /\ h \in Seq(Message)
      /\ \A i \in 1 .. Len(h) : h[i] = IF i <= a THEN e[i] ELSE g[i - a]
  BY ConcatProperties, Zenon
<1>2. /\ DOMAIN e = 1 .. a /\ DOMAIN g = 1 .. b /\ DOMAIN h = 1 .. a + b
      /\ a \in Nat /\ b \in Nat
  BY <1>1
<1> HIDE DEF h, a, b
<1>3. \A i \in DOMAIN e : i \in DOMAIN h /\ h[i] = e[i] BY <1>1, <1>2
<1>4. \A i \in DOMAIN g : i + a \in DOMAIN h /\ h[i + a] = g[i]
  <2> SUFFICES ASSUME NEW i \in DOMAIN g PROVE i + a \in DOMAIN h /\ h[i + a] = g[i]
    OBVIOUS
  <2>1. i \in Nat /\ i >= 1 /\ i <= b BY <1>2
  <2>2. i + a \in 1 .. a + b /\ ~(i + a <= a) /\ (i + a) - a = i BY <1>2, <2>1
  <2> QED BY <1>1, <1>2, <2>2
<1>5. \A i \in DOMAIN h : \/ i \in DOMAIN e /\ h[i] = e[i]
                          \/ i - a \in DOMAIN g /\ h[i] = g[i - a]
  <2> SUFFICES ASSUME NEW i \in DOMAIN h
               PROVE  \/ i \in DOMAIN e /\ h[i] = e[i]
                      \/ i - a \in DOMAIN g /\ h[i] = g[i - a]
    OBVIOUS
  <2>1. i \in Nat /\ i >= 1 /\ i <= a + b BY <1>2
  <2>2. h[i] = IF i <= a THEN e[i] ELSE g[i - a] BY <1>1, <1>2
  <2>3. i <= a => i \in 1 .. a BY <1>2, <2>1
  <2>4. ~(i <= a) => i - a \in 1 .. b BY <1>2, <2>1
  <2> QED BY <1>2, <2>2, <2>3, <2>4
<1>6. Lists(h, m) <=> Lists(e, m) \/ Lists(g, m) BY ONLY <1>3, <1>4, <1>5 DEF Lists
<1>7. ASSUME Once(e, m), Once(g, m), ~(Lists(e, m) /\ Lists(g, m))
      PROVE  Once(h, m)
  <2> SUFFICES ASSUME NEW i \in DOMAIN h, NEW j \in DOMAIN h, h[i] = m, h[j] = m
               PROVE  i = j
    BY DEF Once
  <2>1. CASE i \in DOMAIN e /\ h[i] = e[i] /\ j \in DOMAIN e /\ h[j] = e[j]
    BY <1>7, <2>1 DEF Once
  <2>2. CASE i - a \in DOMAIN g /\ h[i] = g[i - a] /\ j - a \in DOMAIN g /\ h[j] = g[j - a]
    <3>1. i - a = j - a BY <1>7, <2>2 DEF Once
    <3>2. i \in Nat /\ j \in Nat BY <1>2
    <3> QED BY <1>2, <3>1, <3>2
  <2>3. CASE Lists(e, m) /\ Lists(g, m) BY <1>7, <2>3
  <2> QED BY <1>5, <2>1, <2>2, <2>3 DEF Lists
<1> QED BY <1>6, <1>7 DEF h

\* The places of a list e where something else than m is; and g, what e has at f.
Others(S, e, m) == S = {i \in DOMAIN e : e[i] # m}
PickedBy(g, e, f) == g = [k \in DOMAIN f |-> e[f[k]]]

\* What is taken off a list is no longer in it, and the others are.
LEMMA BoxDrop ==
  ASSUME NEW e \in Seq(Message), NEW m, NEW S, Others(S, e, m),
         NEW f \in Orders(S), NEW g, PickedBy(g, e, f)
  PROVE  \A x : /\ Lists(g, x) <=> Lists(e, x) /\ x # m
                /\ Once(e, x) => Once(g, x)
<1> SUFFICES ASSUME NEW x
             PROVE  /\ Lists(g, x) <=> Lists(e, x) /\ x # m
                    /\ Once(e, x) => Once(g, x)
  OBVIOUS
<1>0. S = {i \in DOMAIN e : e[i] # m} /\ g = [k \in DOMAIN f |-> e[f[k]]]
  BY DEF Others, PickedBy
<1>1. S \subseteq 1 .. Len(e) /\ Len(e) \in Nat BY <1>0
<1>2. IsFiniteSet(S)
  <2>1. IsFiniteSet(1 .. Len(e)) BY <1>1, FS_Interval
  <2> QED BY <1>1, <2>1, FS_Subset
<1>3. S \in SUBSET Nat BY <1>1
<1>4. PICK n \in Nat : /\ f \in [1 .. n -> S]
                       /\ \A i, j \in 1 .. n : f[i] = f[j] => i = j
                       /\ \A s \in S : \E i \in 1 .. n : f[i] = s
  <2>1. f \in Orders(S) OBVIOUS
  <2> QED BY ONLY <1>2, <1>3, <2>1, OrdersCover, Zenon
<1>5. DOMAIN f = 1 .. n /\ DOMAIN g = 1 .. n /\ \A k \in 1 .. n : f[k] \in S /\ g[k] = e[f[k]]
  BY <1>0, <1>4
<1>6. \A k \in 1 .. n : f[k] \in DOMAIN e /\ g[k] = e[f[k]] /\ g[k] # m BY <1>0, <1>5
<1>7. \A i \in DOMAIN e : e[i] # m => \E k \in 1 .. n : f[k] = i BY <1>0, <1>4
<1>8. Lists(g, x) <=> Lists(e, x) /\ x # m
  <2>1. DOMAIN g = 1 .. n BY <1>5
  <2>2. Lists(g, x) => Lists(e, x) /\ x # m BY <2>1, <1>6 DEF Lists
  <2>3. ASSUME Lists(e, x), x # m
        PROVE  Lists(g, x)
    <3>1. PICK i \in DOMAIN e : e[i] = x BY <2>3 DEF Lists
    <3>2. PICK k \in 1 .. n : f[k] = i BY <1>7, <2>3, <3>1
    <3>3. g[k] = x BY <1>6, <3>1, <3>2
    <3> QED BY <2>1, <3>3 DEF Lists
  <2> QED BY <2>2, <2>3
<1>9. Once(e, x) => Once(g, x)
  <2> SUFFICES ASSUME Once(e, x), NEW i \in 1 .. n, NEW j \in 1 .. n, g[i] = x, g[j] = x
               PROVE  i = j
    BY <1>5 DEF Once
  <2>1. f[i] = f[j] BY <1>6 DEF Once
  <2> QED BY <1>4, <2>1
<1> QED BY <1>8, <1>9

\* A list and the page that follows it make a list that is whole.
LEMMA BoxExtends ==
  ASSUME InboxTypeOK, NEW n \in 0 .. MaxScrolls, NEW e \in Seq(Message),
         NEW c \in Cursor, NEW p \in Page, Shown(e, c, n), Follows(p, c, n)
  PROVE  Shown(e \o p.entries, p.next, n)
<1> DEFINE g == p.entries
           d == p.next
<1>1. g \in Seq(Message) /\ d \in Cursor \cup {End} BY DEF Page
<1>2. \A x : /\ Lists(e \o g, x) <=> Lists(e, x) \/ Lists(g, x)
             /\ Once(e, x) /\ Once(g, x) /\ ~(Lists(e, x) /\ Lists(g, x)) => Once(e \o g, x)
  BY <1>1, BoxJoin
<1>3. c # End /\ Further(c, d) BY BoxCursor DEF Follows
<1> HIDE DEF d
<1>4. ASSUME NEW m \in Message, Passed(m, c)
      PROVE  Passed(m, d)
  <2>1. CASE d = End BY <2>1 DEF Passed
  <2>2. CASE d # End
    <3>1. d \in Cursor BY <1>1, <2>2
    <3>2. /\ c.now \in Nat /\ c.score \in Nat /\ c.id \in Message /\ d.now \in Nat
          /\ d.score \in Nat /\ d.id \in Message /\ Message \subseteq Nat
      BY <3>1, MessageAssumption DEF Cursor, MessageAssumption
    <3>3. Score(m, c.now) \in Nat BY <3>2, BoxScore
    <3>4. ~(Score(m, c.now) < c.score \/ (Score(m, c.now) = c.score /\ m < c.id))
      BY <1>3, <1>4 DEF Passed
    <3>5. d.now = c.now /\ (d.score < c.score \/ (d.score = c.score /\ d.id < c.id))
      BY <1>3, <2>2 DEF Further
    <3>6. m \in Nat /\ c.id \in Nat /\ d.id \in Nat BY <3>2
    <3>7. ~(Score(m, c.now) < d.score \/ (Score(m, c.now) = d.score /\ m < d.id))
      BY ONLY <3>2, <3>3, <3>4, <3>5, <3>6
    <3> QED BY <3>5, <3>7 DEF Passed
  <2> QED BY <2>1, <2>2
<1>5. ASSUME n # 0, NEW m \in firm[n]
      PROVE  /\ Once(e \o g, m) /\ (Lists(e \o g, m) => Passed(m, d))
             /\ m \notin swiped /\ Passed(m, d) => Lists(e \o g, m)
  <2>1. m \in Message
    <3>1. n \in 1 .. MaxScrolls BY <1>5, InboxBounds DEF InboxBounds
    <3> QED BY <1>5, <3>1 DEF InboxTypeOK
  <2>2. /\ Once(e, m) /\ (Lists(e, m) => Passed(m, c))
        /\ m \notin swiped /\ Passed(m, c) => Lists(e, m)
    BY <1>5 DEF Shown
  <2>3. Once(g, m) /\ (Lists(g, m) <=> ~Passed(m, c) /\ Passed(m, d))
    BY <1>5 DEF Follows, d
  <2> QED BY <1>2, <1>4, <2>1, <2>2, <2>3
<1> QED BY <1>5 DEF Shown, d

\* The list of the phone, and the first page that is served, are as whole as before.
LEMMA BoxFeeds ==
  ASSUME BoxInv, Steady, InboxNext
  PROVE  Fed' /\ Built'
<1> USE DEF rows, table, phone, ghosts, bounds
<1>1. /\ scrolls \in Nat /\ MaxScrolls \in Nat /\ scrolls <= MaxScrolls
      /\ feed \in Feed /\ feed.scroll \in 0 .. scrolls
  BY InboxBounds DEF BoxInv, Fed, InboxTypeOK, Feed, InboxBounds
<1>2. ASSUME UNCHANGED feed, scrolls' \in Nat, scrolls <= scrolls'
      PROVE  Fed'
  BY <1>1, <1>2, BoxShown DEF BoxInv, Fed
<1>3. ASSUME build.pc = "served"
      PROVE  /\ build \in Served /\ build.page \in Page
             /\ build.page.scroll \in 0 .. scrolls
  <2>1. build \in Served BY <1>3 DEF BoxInv, InboxTypeOK, Asked, Off
  <2>2. build.page \in Page BY <2>1 DEF Served
  <2>3. build.page.scroll <= scrolls /\ build.page.scroll \in Nat
    BY <1>3, <2>2 DEF BoxInv, Built, Page
  <2> QED BY <1>1, <2>1, <2>2, <2>3
<1>4. ASSUME UNCHANGED build, scrolls' \in Nat, scrolls <= scrolls'
      PROVE  Built'
  BY <1>1, <1>3, <1>4, BoxShown DEF BoxInv, Built
<1>5. ASSUME build' \in {Asked, Off}
      PROVE  Built'
  BY <1>5 DEF Built, Asked, Off
<1>6. ASSUME UNCHANGED <<feed, build, scrolls>>
      PROVE  Fed' /\ Built'
  BY <1>1, <1>2, <1>4, <1>6
<1>7. ASSUME NEW m \in Message, RowStep(m) \/ Dismiss(m) \/ DismissFails(m)
      PROVE  Fed' /\ Built'
  BY <1>6, <1>7 DEF RowStep, Insert, CloseRow, EndTask, Reprioritise,
     Dismiss, DismissFails
<1>8. CASE Tick \/ Reconcile \/ Repair
  BY <1>6, <1>8 DEF Tick, Reconcile, Repair
<1>9. ASSUME NEW m \in Message, Swipe(m)
      PROVE  Fed' /\ Built'
  <2>1. PICK S : S = {i \in DOMAIN feed.entries : feed.entries[i] # m} OBVIOUS
  <2>2. PICK f \in Orders(S) :
          feed' = [feed EXCEPT !.entries = [k \in DOMAIN f |-> feed.entries[f[k]]]]
    BY <1>9, <2>1 DEF Swipe
  <2>3. PICK g : g = [k \in DOMAIN f |-> feed.entries[f[k]]] OBVIOUS
  <2>4. feed'.entries = g /\ feed'.next = feed.next /\ feed'.scroll = feed.scroll
    BY ONLY <1>1, <2>2, <2>3 DEF Feed
  <2>11. feed.entries \in Seq(Message) BY <1>1 DEF Feed
  <2>12. Others(S, feed.entries, m) /\ PickedBy(g, feed.entries, f)
    BY <2>1, <2>3 DEF Others, PickedBy
  <2>14. \A x : /\ Lists(g, x) <=> Lists(feed.entries, x) /\ x # m
                /\ Once(feed.entries, x) => Once(g, x)
    BY <2>11, <2>12, BoxDrop
  <2>5. PICK F : F = feed OBVIOUS
  <2>6. Shown(F.entries, F.next, F.scroll)'
    BY <1>1, <2>5, BoxShown DEF BoxInv, Fed
  <2>7. swiped' = swiped \cup {m} /\ UNCHANGED scrolls BY <1>9 DEF Swipe
  <2>8. Shown(feed.entries, feed.next, feed.scroll)' BY ONLY <2>4, <2>14, <2>5, <2>6, <2>7 DEF Shown
  <2>9. Fed' BY <1>1, <2>4, <2>7, <2>8 DEF Fed
  <2>10. Built' BY <1>1, <1>4, <1>9, <2>7 DEF Swipe
  <2> QED BY <2>9, <2>10
<1>10. CASE Refresh \/ FirstFails
  BY <1>1, <1>2, <1>5, <1>10 DEF Refresh, FirstFails
<1>11. CASE ServeFirst
  <2>1. /\ scrolls' = scrolls + 1 /\ scrolls' \in 1 .. MaxScrolls
        /\ firm' = [firm EXCEPT ![scrolls'] = {m \in Message : Listed(m)}]
        /\ UNCHANGED <<rows, table, feed>>
    BY <1>1, <1>11 DEF ServeFirst
  <2>2. PICK page \in PagesAfter(Start, scrolls') :
          build' = [pc |-> "served", page |-> page]
    BY <1>11 DEF ServeFirst
  <2>3. page.scroll = scrolls' BY <2>1, <2>2, BoxPage DEF BoxInv
  <2>4. firm'[scrolls'] = {m \in Message : Listed(m)}
    BY <2>1 DEF BoxInv, InboxTypeOK
  <2>5. ASSUME NEW m \in firm'[scrolls']
        PROVE  /\ Once(page.entries, m)
               /\ Lists(page.entries, m) <=> Passed(m, page.next)
    <3>1. m \in Message /\ Listed(m) BY <2>4
    <3>2. Below(m, Start) BY DEF Below
    <3> QED BY <2>1, <2>2, <3>1, <3>2, BoxPageIsWhole DEF BoxInv
  <2>6. \A m, c : Passed(m, c)' <=> Passed(m, c)
    BY <2>1 DEF Passed, Score
  <2>7. Shown(page.entries, page.next, page.scroll)' BY <2>3, <2>5, <2>6 DEF Shown
  <2>8. Built' BY <2>1, <2>2, <2>3, <2>7 DEF Built
  <2>9. Fed' BY <1>1, <1>2, <2>1
  <2> QED BY <2>8, <2>9
<1>12. CASE ShowFirst
  <2>1. /\ feed' = [entries |-> build.page.entries, next |-> build.page.next,
                    scroll |-> build.page.scroll, loading |-> FALSE]
        /\ build.pc = "served" /\ build' = Off /\ UNCHANGED scrolls
    BY <1>12 DEF ShowFirst
  <2>2. PICK P : P = build.page OBVIOUS
  <2>3. Shown(P.entries, P.next, P.scroll)'
    BY <1>3, <2>1, <2>2, BoxShown DEF BoxInv, Built
  <2>4. P.scroll <= scrolls BY <1>1, <1>3, <2>1, <2>2
  <2>5. Fed' BY <2>1, <2>2, <2>3, <2>4 DEF Fed
  <2> QED BY <1>5, <2>1, <2>5
<1>13. CASE LoadMore
  <2>1. feed' = [feed EXCEPT !.loading = TRUE] /\ UNCHANGED <<build, scrolls>>
    BY <1>13 DEF LoadMore
  <2>2. feed'.entries = feed.entries /\ feed'.next = feed.next /\ feed'.scroll = feed.scroll
    BY <1>1, <2>1 DEF Feed
  <2>3. PICK F : F = feed OBVIOUS
  <2>4. Shown(F.entries, F.next, F.scroll)' BY <1>1, <2>3, BoxShown DEF BoxInv, Fed
  <2>5. Fed' BY <1>1, <2>1, <2>2, <2>3, <2>4 DEF Fed
  <2> QED BY <1>1, <1>4, <2>1, <2>5
<1>14. ASSUME NEW r \in more, ServeMore(r)
       PROVE  Fed' /\ Built'
  BY <1>6, <1>14 DEF ServeMore
<1>15. ASSUME NEW r \in more
       PROVE  /\ r.base \in Feed /\ r.base.scroll \in 0 .. scrolls
              /\ r.base.next \in Cursor
              /\ Shown(r.base.entries, r.base.next, r.base.scroll)'
  <2>1. r.base \in Feed BY DEF BoxInv, InboxTypeOK
  <2>2. r.base.scroll \in 0 .. scrolls BY <1>1, <2>1 DEF BoxInv, Paged, Feed
  <2>3. r.base.next \in Cursor BY <2>1 DEF BoxInv, Paged, Feed
  <2>4. Shown(r.base.entries, r.base.next, r.base.scroll) BY DEF BoxInv, Paged
  <2> QED BY <2>1, <2>2, <2>3, <2>4, BoxShown
<1>16. ASSUME NEW r \in more, ShowMore(r)
       PROVE  Fed' /\ Built'
  <2> DEFINE e == r.base.entries
             g == r.answer.page.entries
             c == r.base.next
             d == r.answer.page.next
             n == r.base.scroll
  <2>1. /\ feed' = [entries |-> e \o g, next |-> d, scroll |-> r.answer.page.scroll,
                    loading |-> FALSE]
        /\ r.answer # Asked /\ UNCHANGED <<build, scrolls, swiped>>
    BY <1>16 DEF ShowMore
  <2>2. r.answer \in Served BY <2>1 DEF BoxInv, InboxTypeOK
  <2>3. r.answer.page \in Page /\ r.answer.pc = "served" BY <2>2 DEF Served
  <2>4. Follows(r.answer.page, c, n) BY <2>3 DEF BoxInv, Paged
  <2>5. /\ e \in Seq(Message) /\ g \in Seq(Message) /\ d \in Cursor \cup {End}
        /\ r.answer.page.scroll = n
    BY <1>15, <2>3, <2>4 DEF Feed, Page, Follows
  <2>6. Shown(e, c, n) /\ n \in 0 .. MaxScrolls BY <1>1, <1>15 DEF BoxInv, Paged
  <2> HIDE DEF e, c, n
  <2>7. Shown(e \o g, d, n)
    <3>1. c \in Cursor BY <1>15 DEF c
    <3> QED BY <2>3, <2>4, <2>5, <2>6, <3>1, BoxExtends DEF BoxInv
  <2> HIDE DEF g, d
  <2>8. n \in 0 .. scrolls BY <1>15 DEF n
  <2>9. Shown(e \o g, d, n)' BY <2>7, <2>8, BoxShown
  <2>10. /\ feed'.entries = e \o g /\ feed'.next = d /\ feed'.scroll = n
    BY <2>1, <2>5
  <2>11. scrolls' = scrolls /\ n <= scrolls BY <1>1, <2>1, <2>8
  <2>12. Fed' BY <2>9, <2>10, <2>11 DEF Fed
  <2> QED BY <1>1, <1>4, <2>1, <2>12
<1>17. ASSUME NEW r \in more, MoreFails(r)
       PROVE  Fed' /\ Built'
  <2>1. feed' = r.base /\ UNCHANGED <<build, scrolls>> BY <1>17 DEF MoreFails
  <2>2. r.base.scroll <= scrolls BY <1>1, <1>15
  <2>3. Fed' BY <1>15, <2>1, <2>2 DEF Fed
  <2> QED BY <1>1, <1>4, <2>1, <2>3
<1> QED BY <1>7, <1>8, <1>9, <1>10, <1>11, <1>12, <1>13, <1>14, <1>16, <1>17 DEF InboxNext

\* The further pages follow the lists they were asked for with.
LEMMA BoxPages ==
  ASSUME BoxInv, Stands', Steady, InboxNext
  PROVE  Paged'
<1> USE DEF rows, table, phone, ghosts, bounds
<1>1. /\ scrolls \in Nat /\ MaxScrolls \in Nat /\ scrolls <= MaxScrolls
      /\ feed \in Feed /\ feed.scroll \in 0 .. scrolls
  BY InboxBounds DEF BoxInv, Fed, InboxTypeOK, Feed, InboxBounds
<1>2. ASSUME NEW r \in more, scrolls' \in Nat, scrolls <= scrolls'
      PROVE  /\ r.base.scroll <= scrolls' /\ r.base.next # End
             /\ r.base.next \in Cursor /\ r.base.scroll \in 0 .. scrolls
             /\ Shown(r.base.entries, r.base.next, r.base.scroll)'
             /\ r.answer.pc = "served" =>
                  Follows(r.answer.page, r.base.next, r.base.scroll)'
  <2>1. r.base \in Feed BY DEF BoxInv, InboxTypeOK
  <2>2. /\ r.base.scroll \in 0 .. scrolls /\ r.base.scroll <= scrolls
        /\ r.base.next # End /\ r.base.next \in Cursor
    BY <1>1, <2>1 DEF BoxInv, Paged, Feed
  <2>3. Shown(r.base.entries, r.base.next, r.base.scroll) BY DEF BoxInv, Paged
  <2>4. Shown(r.base.entries, r.base.next, r.base.scroll)' BY <2>2, <2>3, BoxShown
  <2>5. ASSUME r.answer.pc = "served"
        PROVE  Follows(r.answer.page, r.base.next, r.base.scroll)'
    <3>1. Follows(r.answer.page, r.base.next, r.base.scroll) BY <2>5 DEF BoxInv, Paged
    <3> QED BY <2>2, <3>1, BoxFollows
  <2>6. r.base.scroll <= scrolls' BY <1>1, <1>2, <2>2
  <2> QED BY <2>2, <2>4, <2>5, <2>6
<1>3. ASSUME more' \subseteq more, scrolls' \in Nat, scrolls <= scrolls'
      PROVE  Paged'
  BY <1>2, <1>3 DEF Paged
<1>4. ASSUME NEW r \in more, ServeMore(r)
      PROVE  Paged'
  <2>1. PICK page \in PagesAfter(r.base.next, r.base.scroll) :
          more' = (more \ {r}) \cup
            {[base |-> r.base, answer |-> [pc |-> "served", page |-> page]]}
    BY <1>4 DEF ServeMore
  <2>2. scrolls' = scrolls BY <1>4 DEF ServeMore
  <2>3. r.base.next \in Cursor /\ r.base.scroll \in 0 .. scrolls BY <1>1, <1>2, <2>2
  <2>4. r.base.scroll \in 0 .. MaxScrolls BY <1>1, <2>3
  <2>5. Follows(page, r.base.next, r.base.scroll)
    BY <2>1, <2>3, <2>4, BoxPageFollows DEF BoxInv
  <2>6. Follows(page, r.base.next, r.base.scroll)' BY <2>3, <2>5, BoxFollows
  <2>7. PICK q : q = [base |-> r.base, answer |-> [pc |-> "served", page |-> page]] OBVIOUS
  <2>8. q.base = r.base /\ q.answer.page = page BY <2>7
  <2>9. /\ q.base.scroll <= scrolls' /\ q.base.next # End
        /\ Shown(q.base.entries, q.base.next, q.base.scroll)'
        /\ Follows(q.answer.page, q.base.next, q.base.scroll)'
    BY <1>1, <1>2, <2>2, <2>6, <2>8
  <2>10. \A s \in more' : s = q \/ s \in more BY <2>1, <2>7
  <2> QED BY <1>1, <1>2, <2>2, <2>9, <2>10 DEF Paged
<1>5. CASE LoadMore
  <2>1. /\ more' = more \cup {[base |-> feed, answer |-> Asked]} /\ feed.next # End
        /\ scrolls' = scrolls
    BY <1>5 DEF LoadMore
  <2>2. PICK q : q = [base |-> feed, answer |-> Asked] OBVIOUS
  <2>3. q.base = feed /\ q.answer.pc # "served" BY <2>2 DEF Asked
  <2>4. Shown(q.base.entries, q.base.next, q.base.scroll)'
    BY <1>1, <2>3, BoxShown DEF BoxInv, Fed
  <2>5. q.base.scroll <= scrolls' /\ q.base.next # End BY <1>1, <2>1, <2>3
  <2>6. \A s \in more' : s = q \/ s \in more BY <2>1, <2>2
  <2> QED BY <1>1, <1>2, <2>1, <2>3, <2>4, <2>5, <2>6 DEF Paged
<1>6. ASSUME NEW m \in Message, RowStep(m) \/ Dismiss(m) \/ DismissFails(m)
      PROVE  Paged'
  BY <1>1, <1>3, <1>6 DEF RowStep, Insert, CloseRow, EndTask, Reprioritise,
     Dismiss, DismissFails
<1>7. ASSUME NEW m \in Message, Swipe(m)
      PROVE  Paged'
  BY <1>1, <1>3, <1>7 DEF Swipe
<1>8. CASE Tick \/ Reconcile \/ Repair \/ Refresh \/ ShowFirst
           \/ FirstFails
  BY <1>1, <1>3, <1>8
     DEF Tick, Reconcile, Repair, Refresh, ShowFirst, FirstFails
<1>9. CASE ServeFirst
  <2>1. scrolls' = scrolls + 1 /\ more' = more BY <1>9 DEF ServeFirst
  <2> QED BY <1>1, <1>3, <2>1
<1>10. ASSUME NEW r \in more, ShowMore(r) \/ MoreFails(r)
       PROVE  Paged'
  <2>1. more' \subseteq more /\ scrolls' = scrolls
    BY <1>10 DEF ShowMore, MoreFails
  <2> QED BY <1>1, <1>3, <2>1
<1> QED BY <1>4, <1>5, <1>6, <1>7, <1>8, <1>9, <1>10 DEF InboxNext

\* What was swiped away with no page under way stays away.
LEMMA BoxAway ==
  ASSUME BoxInv, InboxNext
  PROVE  Away'
<1> USE DEF rows, table, phone, ghosts, bounds
<1>0. Away /\ InboxTypeOK BY DEF BoxInv
<1>1. ASSUME UNCHANGED <<feed, build, more, swiped>>, raced \subseteq raced',
             hidden \subseteq hidden',
             \A m \in swiping : m \in swiping' \/ m \in hidden' \/ m \in raced'
      PROVE  Away'
  BY <1>0, <1>1 DEF Away
<1>2. ASSUME NEW m \in Message, RowStep(m) \/ Dismiss(m) \/ DismissFails(m)
      PROVE  Away'
  <2>1. UNCHANGED <<feed, build, more, swiped>>
    BY <1>2 DEF RowStep, Insert, CloseRow, EndTask, Reprioritise,
       Dismiss, DismissFails
  <2>2. /\ raced \subseteq raced' /\ hidden \subseteq hidden'
        /\ \A k \in swiping : k \in swiping' \/ k \in hidden' \/ k \in raced'
    BY <1>2 DEF RowStep, Insert, CloseRow, EndTask, Reprioritise,
       Dismiss, DismissFails
  <2> QED BY <1>1, <2>1, <2>2
<1>3. CASE Tick \/ Reconcile \/ Repair
  BY <1>1, <1>3 DEF Tick, Reconcile, Repair
<1>4. ASSUME NEW m \in Message, Swipe(m)
      PROVE  Away'
  <2>1. PICK S : S = {i \in DOMAIN feed.entries : feed.entries[i] # m} OBVIOUS
  <2>2. PICK f \in Orders(S) :
          feed' = [feed EXCEPT !.entries = [k \in DOMAIN f |-> feed.entries[f[k]]]]
    BY <1>4, <2>1 DEF Swipe
  <2>3. PICK g : g = [k \in DOMAIN f |-> feed.entries[f[k]]] OBVIOUS
  <2>4. feed \in Feed BY <1>0 DEF InboxTypeOK
  <2>5. feed'.entries = g BY ONLY <2>2, <2>3, <2>4 DEF Feed
  <2>6. feed.entries \in Seq(Message) BY <2>4 DEF Feed
  <2>7. Others(S, feed.entries, m) /\ PickedBy(g, feed.entries, f)
    BY <2>1, <2>3 DEF Others, PickedBy
  <2>8. \A x : /\ Lists(g, x) <=> Lists(feed.entries, x) /\ x # m
               /\ Once(feed.entries, x) => Once(g, x)
    BY <2>6, <2>7, BoxDrop
  <2>9. /\ swiping' = swiping \cup {m} /\ swiped' = swiped \cup {m}
        /\ UNCHANGED <<build, more, hidden>>
        /\ raced' = IF build = Off /\ more = {} THEN raced ELSE raced \cup {m}
    BY <1>4 DEF Swipe
  <2>10. ASSUME NEW k \in swiped' \ raced'
         PROVE  /\ ~Lists(feed'.entries, k)
                /\ build.pc = "served" => ~Lists(build.page.entries, k)
                /\ \A r \in more :
                     /\ ~Lists(r.base.entries, k)
                     /\ r.answer.pc = "served" => ~Lists(r.answer.page.entries, k)
                /\ k \in hidden' \/ (k \in swiping' /\ build.pc = "off" /\ more = {})
    <3>1. CASE k = m
      <4>1. build = Off /\ more = {} BY <2>9, <2>10, <3>1
      <4>2. build.pc = "off" BY <4>1 DEF Off
      <4> QED BY <2>5, <2>8, <2>9, <3>1, <4>1, <4>2
    <3>2. CASE k # m
      <4>1. k \in swiped \ raced BY <2>9, <2>10, <3>2
      <4> QED BY <1>0, <2>5, <2>8, <2>9, <4>1 DEF Away
    <3> QED BY <3>1, <3>2
  <2> QED BY ONLY <2>9, <2>10 DEF Away
<1>5. CASE Refresh
  <2>1. /\ build' = Asked /\ raced' = raced \cup swiping
        /\ UNCHANGED <<feed, more, swiping, swiped, hidden>>
    BY <1>5 DEF Refresh, Ask
  <2> QED BY <1>0, <2>1 DEF Away, Asked
<1>6. CASE ServeFirst
  <2>1. scrolls' \in 0 .. MaxScrolls
    BY <1>0, <1>6, InboxBounds DEF ServeFirst, InboxTypeOK, InboxBounds
  <2>2. PICK page \in PagesAfter(Start, scrolls') :
          build' = [pc |-> "served", page |-> page]
    BY <1>6 DEF ServeFirst
  <2>3. \A m \in hidden : ~Lists(page.entries, m)
    BY <1>0, <2>1, <2>2, BoxPageIsWhole
  <2>4. build.pc = "asked" /\ UNCHANGED <<feed, more, swiping, swiped, raced, hidden>>
    BY <1>6 DEF ServeFirst, Asked
  <2>5. build'.page = page BY <2>2
  <2> QED BY <1>0, <2>3, <2>4, <2>5 DEF Away
<1>7. CASE ShowFirst
  <2>1. /\ build.pc = "served" /\ build'.pc = "off" /\ feed'.entries = build.page.entries
        /\ UNCHANGED <<more, swiping, swiped, raced, hidden>>
    BY <1>7 DEF ShowFirst, Off
  <2> QED BY <1>0, <2>1 DEF Away
<1>8. CASE FirstFails
  <2>1. build.pc = "asked" /\ build'.pc = "off"
        /\ UNCHANGED <<feed, more, swiping, swiped, raced, hidden>>
    BY <1>8 DEF FirstFails, Asked, Off
  <2> QED BY <1>0, <2>1 DEF Away
<1>9. CASE LoadMore
  <2>1. /\ more' = more \cup {[base |-> feed, answer |-> Asked]}
        /\ feed' = [feed EXCEPT !.loading = TRUE] /\ raced' = raced \cup swiping
        /\ UNCHANGED <<build, swiping, swiped, hidden>>
    BY <1>9 DEF LoadMore, Ask
  <2>2. feed'.entries = feed.entries BY <1>0, <2>1 DEF InboxTypeOK, Feed
  <2>3. PICK q : q = [base |-> feed, answer |-> Asked] OBVIOUS
  <2>4. q.base = feed /\ q.answer.pc # "served" BY <2>3 DEF Asked
  <2>5. \A s \in more' : s = q \/ s \in more BY <2>1, <2>3
  <2>6. \A k \in swiped' \ raced' : k \in swiped \ raced /\ k \in hidden' BY <1>0, <2>1 DEF Away
  <2> QED BY <1>0, <2>1, <2>2, <2>4, <2>5, <2>6 DEF Away
<1>10. ASSUME NEW r \in more, ServeMore(r)
       PROVE  Away'
  <2>1. PICK page \in PagesAfter(r.base.next, r.base.scroll) :
          more' = (more \ {r}) \cup
            {[base |-> r.base, answer |-> [pc |-> "served", page |-> page]]}
    BY <1>10 DEF ServeMore
  <2>2. r.base.next \in Cursor /\ r.base.scroll \in 0 .. MaxScrolls
    <3>1. r.base \in Feed BY <1>0 DEF InboxTypeOK
    <3>2. r.base.next # End BY DEF BoxInv, Paged
    <3> QED BY <3>1, <3>2 DEF Feed
  <2>3. \A m \in hidden : ~Lists(page.entries, m) BY <1>0, <2>1, <2>2, BoxPageIsWhole
  <2>4. UNCHANGED <<feed, build, swiping, swiped, raced, hidden>> BY <1>10 DEF ServeMore
  <2>5. PICK q : q = [base |-> r.base, answer |-> [pc |-> "served", page |-> page]] OBVIOUS
  <2>6. q.base = r.base /\ q.answer.page = page BY <2>5
  <2>7. \A s \in more' : s = q \/ s \in more BY <2>1, <2>5
  <2>8. more # {} OBVIOUS
  <2> QED BY <1>0, <2>3, <2>4, <2>6, <2>7, <2>8 DEF Away
<1>11. ASSUME NEW r \in more, ShowMore(r)
       PROVE  Away'
  <2>1. /\ feed'.entries = r.base.entries \o r.answer.page.entries /\ more' \subseteq more
        /\ r.answer # Asked /\ UNCHANGED <<build, swiping, swiped, raced, hidden>>
    BY <1>11 DEF ShowMore
  <2>2. r.base \in Feed /\ r.answer \in Served BY <1>0, <2>1 DEF InboxTypeOK
  <2>3. r.answer.pc = "served" /\ r.answer.page \in Page BY <2>2 DEF Served
  <2>4. r.base.entries \in Seq(Message) /\ r.answer.page.entries \in Seq(Message)
    BY <2>2, <2>3 DEF Feed, Page
  <2>5. \A x : Lists(r.base.entries \o r.answer.page.entries, x)
                 => Lists(r.base.entries, x) \/ Lists(r.answer.page.entries, x)
    BY <2>4, BoxJoin
  <2>6. more # {} OBVIOUS
  <2> QED BY <1>0, <2>1, <2>3, <2>5, <2>6 DEF Away
<1>12. ASSUME NEW r \in more, MoreFails(r)
       PROVE  Away'
  <2>1. feed' = r.base /\ more' \subseteq more
        /\ UNCHANGED <<build, swiping, swiped, raced, hidden>>
    BY <1>12 DEF MoreFails
  <2>2. more # {} OBVIOUS
  <2> QED BY <1>0, <2>1, <2>2 DEF Away
<1> QED BY <1>2, <1>3, <1>4, <1>5, <1>6, <1>7, <1>8, <1>9, <1>10, <1>11, <1>12 DEF InboxNext

\* A row is shown as often as it is in the list.
LEMMA BoxTimes ==
  ASSUME NEW m
  PROVE  /\ ~Lists(feed.entries, m) => Times(m) = 0
         /\ Lists(feed.entries, m) /\ Once(feed.entries, m) => Times(m) = 1
<1> DEFINE S == {i \in DOMAIN feed.entries : feed.entries[i] = m}
<1>1. Times(m) = Cardinality(S) BY DEF Times
<1>2. ASSUME ~Lists(feed.entries, m)
      PROVE  Cardinality(S) = 0
  <2>1. S = {} BY <1>2 DEF Lists
  <2> QED BY <2>1, FS_EmptySet, Zenon
<1>3. ASSUME Lists(feed.entries, m), Once(feed.entries, m)
      PROVE  Cardinality(S) = 1
  <2>1. PICK i \in DOMAIN feed.entries : feed.entries[i] = m BY <1>3 DEF Lists
  <2>2. S = {i} BY <1>3, <2>1 DEF Once
  <2> QED BY <2>2, FS_Singleton, Zenon
<1> QED BY <1>1, <1>2, <1>3

\* The invariant holds at the start and each step keeps it.
LEMMA BoxInvariant ==
  InboxSpec => []BoxInv
<1>1. InboxInit => BoxInv
  <2> SUFFICES ASSUME InboxInit PROVE BoxInv
    OBVIOUS
  <2>1. /\ MaxScrolls \in Nat /\ MaxNow \in Nat /\ MaxAsks \in Nat /\ MaxChanges \in Nat
        /\ MaxFaults \in Nat
    BY InboxBounds DEF InboxBounds
  <2>2. feed \in Feed /\ feed.entries = <<>> /\ feed.scroll = 0
    BY <2>1 DEF InboxInit, Feed
  <2>3. InboxTypeOK
    BY <2>1, <2>2 DEF InboxInit, InboxTypeOK, Status
  <2>4. Rowed /\ Stands BY DEF InboxInit, Rowed, Stands
  <2>5. Fed BY <2>1, <2>2 DEF InboxInit, Fed, Shown
  <2>6. Built /\ Paged /\ Away BY DEF InboxInit, Built, Paged, Away, Asked
  <2> QED BY <2>3, <2>4, <2>5, <2>6 DEF BoxInv
<1>2. BoxInv /\ [InboxNext]_inboxVars => BoxInv'
  <2> SUFFICES ASSUME BoxInv, [InboxNext]_inboxVars PROVE BoxInv'
    OBVIOUS
  <2>1. InboxTypeOK' BY BoxTypes DEF BoxInv, Paged
  <2>2. Rowed' /\ Stands' /\ Steady BY BoxRows DEF BoxInv
  <2>3. CASE InboxNext
    <3>1. Fed' /\ Built' BY <2>2, <2>3, BoxFeeds
    <3>2. Paged' BY <2>2, <2>3, BoxPages
    <3>3. Away' BY <2>3, BoxAway
    <3> QED BY <2>1, <2>2, <3>1, <3>2, <3>3 DEF BoxInv
  <2>4. CASE UNCHANGED inboxVars
    BY <2>1, <2>2, <2>4 DEF BoxInv, Fed, Built, Paged, Away, Shown, Follows, inboxVars,
       rows, table, phone, ghosts, bounds, Passed, Score
  <2> QED BY <2>3, <2>4
<1> QED BY <1>1, <1>2, PTL DEF InboxSpec

\* The types of the inbox: whatever the rows, the trigger, the sweep and the phone do.
THEOREM InboxTypes ==
  InboxSpec => []InboxTypeOK
<1>1. BoxInv => InboxTypeOK BY DEF BoxInv
<1> QED BY <1>1, BoxInvariant, PTL

\* For any rows, page size and number of pages, a scroll shows every row that has stayed as
\* it was since the first page exactly once as far as it has come: inbox.go's cursor, and
\* the phone's list that survives rebuilds, failures and swipes.
THEOREM InboxScrolls ==
  InboxSpec => []ScrollIsWhole
<1>1. BoxInv => ScrollIsWhole
  <2> SUFFICES ASSUME BoxInv, feed.scroll # 0, NEW m \in firm[feed.scroll]
               PROVE  /\ Times(m) <= 1
                      /\ m \notin swiped => (Times(m) = 1 <=> Passed(m, feed.next))
    BY DEF ScrollIsWhole
  <2>1. /\ Once(feed.entries, m) /\ (Lists(feed.entries, m) => Passed(m, feed.next))
        /\ m \notin swiped /\ Passed(m, feed.next) => Lists(feed.entries, m)
    BY DEF BoxInv, Fed, Shown
  <2>2. \/ Times(m) = 0 /\ ~Lists(feed.entries, m)
        \/ Times(m) = 1 /\ Lists(feed.entries, m)
    BY <2>1, BoxTimes
  <2>3. Times(m) <= 1 /\ (Times(m) = 1 <=> Lists(feed.entries, m)) BY <2>2
  <2> QED BY <2>1, <2>3
<1> QED BY <1>1, BoxInvariant, PTL

\* What the owner has swiped away with no page under way, and the server has been told of,
\* is not shown again: removeEntry, loadMore's own list, and DismissInboxMessage.
THEOREM InboxKeepsAway ==
  InboxSpec => []SwipedStaysAway
<1>1. BoxInv => SwipedStaysAway
  <2> SUFFICES ASSUME BoxInv, NEW m \in swiped \ raced PROVE Times(m) = 0
    BY DEF SwipedStaysAway
  <2>1. ~Lists(feed.entries, m) BY DEF BoxInv, Away
  <2> QED BY <2>1, BoxTimes
<1> QED BY <1>1, BoxInvariant, PTL
\* A set of numbers has a least one.
LEMMA LeastNat ==
  ASSUME NEW S \in SUBSET Nat, S # {}
  PROVE  \E x \in S : \A y \in S : x <= y
<1>1. IsWellFoundedOn(OpToRel(<, Nat), Nat) BY NatLessThanWellFounded, Zenon
<1>2. PICK x \in S : \A y \in S : ~ (<<y, x>> \in OpToRel(<, Nat)) BY <1>1, WFMin, Zenon
<1>3. \A y \in S : ~(y < x) BY <1>2 DEF OpToRel
<1> QED BY <1>3

-----------------------------------------------------------------------------
(* Intake.                                                                 *)

Judging == {"cap", "refuse", "refused"}
Making == {"attach", "start", "record"}
Disposing == {"check", "mark", "create"} \cup Judging \cup Making

\* What a poll p whose run is r holds: signals that are there, one in hand while it is at
\* one; no task of its own for it until it makes one, and then that one.
HandsAt(p, r) ==
  /\ r.list \subseteq DOMAIN signals
  /\ r.pc \in Judging \cup Making \cup {"mark", "create"} => r.list # {}
  /\ r.pc \in Judging \cup {"create"} =>
       \A t \in DOMAIN tasks : tasks[t].signal = Oldest(r.list) => tasks[t].by # p
  /\ r.pc \in Judging => Disposition[signals[Oldest(r.list)].item] = "llm_judge"
  /\ r.pc = "mark" => MadeFrom(Oldest(r.list)) # {}
  /\ r.pc \in Making =>
       /\ r.task \in DOMAIN tasks
       /\ tasks[r.task].signal = Oldest(r.list) /\ tasks[r.task].by = p

Hands(p) == HandsAt(p, run[p])

AllHands == \A p \in Poll : run[p].pc # "stopped" => Hands(p)

\* A poll at rest runs nothing.
Resting == \A p \in Poll : stage[p] = "rest" => run[p].pc = "stopped"

\* An accepted task that is not driven is in the hands of the poll that is to drive it.
Driven ==
  \A t \in DOMAIN tasks :
    tasks[t].state = "accepted" /\ tasks[t].chain # "running" =>
      failures > 0 \/ \E p \in Poll : run[p].pc \in {"attach", "start"} /\ run[p].task = t

\* The queue is the end of what was accepted.
QueueIsTail ==
  /\ Len(queue) <= Len(accepted)
  /\ \A k \in DOMAIN queue : queue[k] = accepted[Len(accepted) - Len(queue) + k]

\* The n-th delivery is in p's batch, behind deliveries that were accepted right before it.
Held(p, n) ==
  /\ run[p].pc = "emit"
  /\ \E d \in 0 .. n - 1 :
       /\ n - d \in DOMAIN run[p].batch
       /\ \A k \in 1 .. n - d : run[p].batch[k] = accepted[d + k]

\* It is malformed, or behind one that is.
Behind(n) == \E m \in 1 .. n : accepted[m] \in Malformed

Kept(n) ==
  \/ Behind(n) \/ n > Len(accepted) - Len(queue)
  \/ \E p \in Poll : Held(p, n)
  \/ \E c \in Connector : SignalOf(c, accepted[n]) # {}

AllKept == failures = 0 => \A n \in DOMAIN accepted : Kept(n)

TakeInv ==
  /\ IntakeTypeOK /\ OneTaskPerPoll /\ OnlyJudgedIsDropped
  /\ AllHands /\ Resting /\ Driven /\ QueueIsTail /\ AllKept
-----------------------------------------------------------------------------
\* A poll runs, or it is stopped.
LEMMA TakeRuns ==
  ASSUME IntakeTypeOK, NEW p \in Poll
  PROVE  /\ run[p] = Stopped => run[p].pc = "stopped"
         /\ run[p].pc # "stopped" => run[p] \in Running
         /\ run[p] # Stopped => run[p] \in Running
         /\ run[p] \in Running => run[p].pc # "stopped" /\ run[p] # Stopped
<1>1. run[p] \in Running \cup {Stopped} BY DEF IntakeTypeOK
<1>2. Stopped.pc = "stopped" BY DEF Stopped
<1>3. run[p] \in Running => run[p].pc # "stopped" BY DEF Running
<1> QED BY <1>1, <1>2, <1>3

\* A poll that has signals left has one in hand.
LEMMA TakeAt ==
  ASSUME IntakeTypeOK, NEW p \in Poll, run[p] \in Running, run[p].list # {}
  PROVE  At(p) \in run[p].list
<1>1. run[p].list \subseteq Nat BY DEF Running
<1>2. \E s \in run[p].list : \A u \in run[p].list : s <= u BY <1>1, LeastNat
<1> QED BY <1>2 DEF At, Oldest

\* What a step that puts r in the place of p's run leaves of the types.
LEMMA TakeRunTyped ==
  ASSUME IntakeTypeOK, NEW p \in Poll, NEW r \in Running \cup {Stopped},
         run' = [run EXCEPT ![p] = r]
  PROVE  /\ run' \in [Poll -> Running \cup {Stopped}]
         /\ run'[p] = r /\ \A q \in Poll : q # p => run'[q] = run[q]
BY DEF IntakeTypeOK

\* The signals with a mark on s.
Marked(s, b) == [signals EXCEPT ![s] = [signals[s] EXCEPT !.processed = TRUE, !.refused = b]]

\* Marking a signal leaves whose it is and what it is about.
LEMMA TakeMark ==
  ASSUME IntakeTypeOK, NEW s \in DOMAIN signals, NEW b \in BOOLEAN, NEW g, g = Marked(s, b)
  PROVE  /\ g \in Seq(Signal) /\ DOMAIN g = DOMAIN signals
         /\ g[s].connector = signals[s].connector /\ g[s].item = signals[s].item
         /\ g[s].refused = b
         /\ \A u \in DOMAIN signals : u # s => g[u] = signals[u]
<1>0. signals \in Seq(Signal) BY DEF IntakeTypeOK
<1>1. PICK n \in Nat : signals \in [1 .. n -> Signal]
  <2>1. Len(signals) \in Nat /\ signals \in [1 .. Len(signals) -> Signal] BY ONLY <1>0
  <2> QED BY <2>1
<1>2. DOMAIN signals = 1 .. n /\ signals[s] \in Signal BY <1>1
<1>3. [signals[s] EXCEPT !.processed = TRUE, !.refused = b] \in Signal
  BY <1>2 DEF Signal
<1>4. g \in [1 .. n -> Signal]
  BY ONLY <1>1, <1>2, <1>3, s \in DOMAIN signals, g = Marked(s, b) DEF Marked
<1>5. g[s] = [signals[s] EXCEPT !.processed = TRUE, !.refused = b] BY <1>1 DEF Marked
<1>6. /\ g[s].connector = signals[s].connector /\ g[s].item = signals[s].item
      /\ g[s].refused = b
  BY <1>2, <1>5 DEF Signal
<1>7. \A u \in DOMAIN signals : u # s => g[u] = signals[u] BY DEF Marked
<1>8. g \in Seq(Signal) BY <1>1, <1>4
<1> QED BY <1>2, <1>4, <1>6, <1>7, <1>8

\* The tasks with the chain of t at c.
Chained(t, c) == [tasks EXCEPT ![t].chain = c]

\* A task that comes to another place of its chain is the same task.
LEMMA TakeChain ==
  ASSUME IntakeTypeOK, NEW t \in DOMAIN tasks, NEW c \in {"none", "row", "running"}, NEW g,
         g = Chained(t, c)
  PROVE  /\ g \in Seq(MadeTask) /\ DOMAIN g = DOMAIN tasks
         /\ g[t].signal = tasks[t].signal /\ g[t].by = tasks[t].by
         /\ g[t].state = tasks[t].state /\ g[t].chain = c
         /\ \A u \in DOMAIN tasks : u # t => g[u] = tasks[u]
<1>0. tasks \in Seq(MadeTask) BY DEF IntakeTypeOK
<1>1. PICK n \in Nat : tasks \in [1 .. n -> MadeTask]
  <2>1. Len(tasks) \in Nat /\ tasks \in [1 .. Len(tasks) -> MadeTask] BY ONLY <1>0
  <2> QED BY <2>1
<1>2. DOMAIN tasks = 1 .. n /\ tasks[t] \in MadeTask BY <1>1
<1>3. [tasks[t] EXCEPT !.chain = c] \in MadeTask BY <1>2 DEF MadeTask
<1>4. g = [tasks EXCEPT ![t] = [tasks[t] EXCEPT !.chain = c]] BY DEF Chained
<1>5. g \in [1 .. n -> MadeTask] BY ONLY <1>1, <1>2, <1>3, <1>4, t \in DOMAIN tasks
<1>6. g[t] = [tasks[t] EXCEPT !.chain = c] BY <1>1, <1>4
<1>7. /\ g[t].signal = tasks[t].signal /\ g[t].by = tasks[t].by
      /\ g[t].state = tasks[t].state /\ g[t].chain = c
  BY <1>2, <1>6 DEF MadeTask
<1>8. \A u \in DOMAIN tasks : u # t => g[u] = tasks[u] BY <1>4
<1>9. g \in Seq(MadeTask) BY <1>1, <1>5
<1> QED BY <1>2, <1>5, <1>7, <1>8, <1>9

\* The tables only grow: what there is of a signal and of a task stays, but for marks.
Grows ==
  /\ \A s \in DOMAIN signals :
       /\ s \in DOMAIN signals' /\ signals'[s].connector = signals[s].connector
       /\ signals'[s].item = signals[s].item /\ (signals[s].refused => signals'[s].refused)
  /\ \A t \in DOMAIN tasks :
       /\ t \in DOMAIN tasks' /\ tasks'[t].signal = tasks[t].signal
       /\ tasks'[t].by = tasks[t].by /\ tasks'[t].state = tasks[t].state

\* A step of p leaves the other polls, and the tasks of others.
Only(p) ==
  /\ \A q \in Poll : q # p => run'[q] = run[q]
  /\ \A t \in DOMAIN tasks' : t \in DOMAIN tasks \/ tasks'[t].by = p
  /\ \A t \in DOMAIN tasks : tasks'[t] = tasks[t] \/ t = run[p].task

\* What holds of a poll still holds when another one takes a step.
LEMMA TakeOthers ==
  ASSUME NEW p \in Poll, NEW q \in Poll, q # p, Grows, Only(p), Hands(q),
         IntakeTypeOK, run[q].pc # "stopped"
  PROVE  Hands(q)'
<1>1. run'[q] = run[q] BY DEF Only
<1>2. PICK r : r = run[q] OBVIOUS
<1>3. HandsAt(q, r) BY <1>2 DEF Hands
<1>4. r.list # {} => Oldest(r.list) \in DOMAIN signals
  BY <1>2, <1>3, TakeRuns, TakeAt DEF HandsAt, At
<1>5. \A s \in DOMAIN signals : s \in DOMAIN signals' /\ signals'[s].item = signals[s].item
  BY DEF Grows
<1>6. \A t \in DOMAIN tasks :
        t \in DOMAIN tasks' /\ tasks'[t].signal = tasks[t].signal /\ tasks'[t].by = tasks[t].by
  BY DEF Grows
<1>7. \A t \in DOMAIN tasks' : t \in DOMAIN tasks \/ tasks'[t].by # q BY DEF Only
<1>8. \A s : MadeFrom(s) # {} => MadeFrom(s)' # {} BY <1>6 DEF MadeFrom
<1>9. HandsAt(q, r)'
  BY <1>3, <1>4, <1>5, <1>6, <1>7, <1>8 DEF HandsAt, Judging, Making
<1> QED BY <1>1, <1>2, <1>9 DEF Hands

\* What a step of p that writes no table comes to, with r for the new run.
ReadsTo(p, r) ==
  /\ UNCHANGED <<signals, tasks, type, listing, accepted, enabled, scheduled, owner, switches>>
  /\ \/ failures' = failures + 1 /\ failures < MaxFailures /\ r = Stopped /\ queue' = queue
     \/ /\ failures' = failures
        /\ run[p].pc \in Disposing /\ run[p].list # {} =>
             r.pc \in Disposing /\ r.list = run[p].list
        /\ run[p].pc \notin {"attach", "start"}
        /\ run[p].pc = "emit" => run[p].batch = <<>>
        /\ \/ queue' = queue
           \/ queue' = <<>> /\ run[p].pc = "fetch" /\ r.pc = "emit" /\ r.batch = queue

Reads(p) ==
  \/ StartPoll(p) \/ RecoverPoll(p) \/ LoadConfig(p) \/ Fetch(p)
  \/ FetchDone(p) \/ Load(p) \/ Check(p) \/ DisposeDone(p)
  \/ ForcedTask(p) \/ RichEvent(p) \/ CapJudge(p) \/ LlmJudge(p)
  \/ FailPoll(p)

\* A poll that starts or goes on to a step holds nothing yet.
LEMMA TakeAtStep ==
  ASSUME NEW p, NEW pc \in {"config", "fetch", "load"}
  PROVE  /\ AtStep(pc) \in Running /\ HandsAt(p, AtStep(pc))
         /\ AtStep(pc).pc = pc /\ AtStep(pc).batch = <<>>
<1>1. Cap \in Nat \ {0} BY DialAssumption DEF DialAssumption
<1> QED BY <1>1 DEF AtStep, Running, HandsAt, Judging, Making

\* A step that writes no table, with its types and what the poll then holds.
LEMMA TakeReads ==
  ASSUME IntakeTypeOK, NEW p \in Poll, Reads(p), Resting,
         run[p].pc # "stopped" => Hands(p)
  PROVE  /\ stage' \in [Poll -> {"rest", "config", "fetch", "dispose"}]
         /\ \A q \in Poll : q # p => stage'[q] = stage[q]
         /\ stage'[p] = "rest" => run'[p] = Stopped
         /\ \E r \in Running \cup {Stopped} :
              /\ run' = [run EXCEPT ![p] = r] /\ ReadsTo(p, r)
              /\ r.pc # "stopped" => HandsAt(p, r)
<1> USE DEF sources, tables
<1>1. /\ run \in [Poll -> Running \cup {Stopped}]
      /\ stage \in [Poll -> {"rest", "config", "fetch", "dispose"}]
      /\ listing \in Seq(Item) /\ queue \in Seq(Item)
  BY DEF IntakeTypeOK
<1>2. Stopped.pc = "stopped" /\ "stopped" \notin Disposing
  BY DEF Stopped, Disposing, Judging, Making
<1>3. ASSUME NEW r \in Running \cup {Stopped}, run' = [run EXCEPT ![p] = r],
             ReadsTo(p, r), r.pc # "stopped" => HandsAt(p, r),
             \/ stage' = stage /\ run[p].pc # "stopped"
             \/ stage' = stage /\ stage[p] # "rest"
             \/ \E x \in {"config", "fetch", "dispose"} : stage' = [stage EXCEPT ![p] = x]
             \/ stage' = [stage EXCEPT ![p] = "rest"] /\ r = Stopped
      PROVE  /\ stage' \in [Poll -> {"rest", "config", "fetch", "dispose"}]
             /\ \A q \in Poll : q # p => stage'[q] = stage[q]
             /\ stage'[p] = "rest" => run'[p] = Stopped
             /\ \E s \in Running \cup {Stopped} :
                  /\ run' = [run EXCEPT ![p] = s] /\ ReadsTo(p, s)
                  /\ s.pc # "stopped" => HandsAt(p, s)
  <2>1. run'[p] = r BY <1>1, <1>3
  <2>2. stage[p] = "rest" => run[p].pc = "stopped" BY DEF Resting
  <2> QED BY <1>1, <1>3, <2>1, <2>2
<1>4. CASE StartPoll(p)
  <2>1. run' = [run EXCEPT ![p] = AtStep("config")] /\ run[p].pc = "stopped"
        /\ stage' = [stage EXCEPT ![p] = "config"]
    BY <1>4 DEF StartPoll, Resting
  <2>2. ReadsTo(p, AtStep("config")) BY <1>2, <1>4, <2>1 DEF ReadsTo, StartPoll
  <2> QED BY <1>3, <2>1, <2>2, TakeAtStep
<1>5. CASE RecoverPoll(p)
  <2>1. PICK c \in {"config", "fetch", "load"} : run' = [run EXCEPT ![p] = AtStep(c)]
    BY <1>1, <1>5 DEF RecoverPoll
  <2>2. run[p].pc = "stopped" /\ stage' = stage /\ stage[p] # "rest"
    BY <1>2, <1>5 DEF RecoverPoll
  <2>3. ReadsTo(p, AtStep(c)) BY <1>2, <1>5, <2>2 DEF ReadsTo, RecoverPoll
  <2> QED BY <1>3, <2>1, <2>2, <2>3, TakeAtStep
<1>6. CASE LoadConfig(p)
  <2>1. \/ /\ stage' = [stage EXCEPT ![p] = "fetch"]
           /\ run' = [run EXCEPT ![p] = AtStep("fetch")]
        \/ stage' = [stage EXCEPT ![p] = "rest"] /\ run' = [run EXCEPT ![p] = Stopped]
    BY <1>6 DEF LoadConfig
  <2>2. run[p].pc = "config" /\ "config" \notin Disposing
    BY <1>6 DEF LoadConfig, Disposing, Judging, Making
  <2>3. ReadsTo(p, AtStep("fetch")) /\ ReadsTo(p, Stopped)
    BY <1>6, <2>2 DEF ReadsTo, LoadConfig
  <2> QED BY <1>2, <1>3, <2>1, <2>3, TakeAtStep
<1>7. CASE Fetch(p)
  <2>1. run[p] \in Running BY <1>7, TakeRuns DEF Fetch
  <2>2. PICK b \in {queue, listing} :
          /\ run' = [run EXCEPT ![p].pc = "emit", ![p].batch = b]
          /\ queue' = queue \/ (queue' = <<>> /\ b = queue)
    BY <1>7 DEF Fetch
  <2>3. PICK r : r = [run[p] EXCEPT !.pc = "emit", !.batch = b] OBVIOUS
  <2>4. run' = [run EXCEPT ![p] = r] BY ONLY <1>1, <2>2, <2>3
  <2>5. r \in Running /\ r.pc = "emit" /\ r.batch = b /\ r.list = run[p].list
    BY <1>1, <2>1, <2>3 DEF Running
  <2>6. run[p].pc = "fetch" /\ "fetch" \notin Disposing
    BY <1>7 DEF Fetch, Disposing, Judging, Making
  <2>7. ReadsTo(p, r) BY <1>7, <2>2, <2>5, <2>6 DEF ReadsTo, Fetch
  <2>8. HandsAt(p, r) BY <2>5, <2>6 DEF Hands, HandsAt, Judging, Making
  <2>9. stage' = stage BY <1>7 DEF Fetch
  <2> QED BY <1>3, <2>4, <2>5, <2>6, <2>7, <2>8, <2>9
<1>8. CASE FetchDone(p)
  <2>1. run' = [run EXCEPT ![p] = AtStep("load")] /\ run[p].pc = "emit"
        /\ stage' = [stage EXCEPT ![p] = "dispose"] /\ "emit" \notin Disposing
    BY <1>8 DEF FetchDone, Disposing, Judging, Making
  <2>2. ReadsTo(p, AtStep("load")) BY <1>8, <2>1 DEF ReadsTo, FetchDone
  <2> QED BY <1>3, <2>1, <2>2, TakeAtStep
<1>9. CASE Load(p)
  <2>1. run[p] \in Running BY <1>9, TakeRuns DEF Load
  <2>2. run' = [run EXCEPT ![p].pc = "check", ![p].list = Unprocessed(Of[p])]
    BY <1>9 DEF Load
  <2>3. PICK r : r = [run[p] EXCEPT !.pc = "check", !.list = Unprocessed(Of[p])] OBVIOUS
  <2>4. run' = [run EXCEPT ![p] = r] BY ONLY <1>1, <2>2, <2>3
  <2>5. Unprocessed(Of[p]) \subseteq DOMAIN signals BY DEF Unprocessed
  <2>6. DOMAIN signals \subseteq Nat \ {0} BY DEF IntakeTypeOK
  <2>7. r \in Running /\ r.pc = "check" /\ r.list \subseteq DOMAIN signals
    BY <2>1, <2>3, <2>5, <2>6 DEF Running
  <2>8. run[p].pc = "load" /\ "load" \notin Disposing
    BY <1>9 DEF Load, Disposing, Judging, Making
  <2>9. ReadsTo(p, r) BY <1>9, <2>7, <2>8 DEF ReadsTo, Load
  <2>10. HandsAt(p, r) BY <2>7 DEF HandsAt, Judging, Making
  <2>11. stage' = stage BY <1>9 DEF Load
  <2> QED BY <1>3, <2>4, <2>7, <2>8, <2>9, <2>10, <2>11
<1>10. CASE DisposeDone(p)
  <2>1. run' = [run EXCEPT ![p] = Stopped] /\ run[p].pc = "check" /\ run[p].list = {}
        /\ stage' = [stage EXCEPT ![p] = "rest"]
    BY <1>10 DEF DisposeDone
  <2>2. ReadsTo(p, Stopped) BY <1>10, <2>1 DEF ReadsTo, DisposeDone
  <2> QED BY <1>2, <1>3, <2>1, <2>2
<1>11. CASE FailPoll(p)
  <2>1. run' = [run EXCEPT ![p] = Stopped] /\ stage' = [stage EXCEPT ![p] = "rest"]
    BY <1>11 DEF FailPoll
  <2>2. ReadsTo(p, Stopped) BY <1>11 DEF ReadsTo, FailPoll
  <2> QED BY <1>2, <1>3, <2>1, <2>2
<1>12. ASSUME run[p].pc = "check", run[p].list # {},
              NEW c \in {"mark", "create", "cap", "refuse"},
              NEW s \in {"accepted", "proposed"}, NEW n \in 0 .. Cap,
              run' = [run EXCEPT ![p] = [run[p] EXCEPT !.pc = c, !.state = s, !.taken = n]],
              c = "mark" => MadeFrom(At(p)) # {},
              c # "mark" => MadeFrom(At(p)) = {},
              c \in Judging => Disposition[signals[At(p)].item] = "llm_judge",
              UNCHANGED <<stage, signals, tasks, type, listing, queue, accepted, enabled,
                          scheduled, owner, switches, failures>>
       PROVE  /\ stage' \in [Poll -> {"rest", "config", "fetch", "dispose"}]
              /\ \A q \in Poll : q # p => stage'[q] = stage[q]
              /\ stage'[p] = "rest" => run'[p] = Stopped
              /\ \E r \in Running \cup {Stopped} :
                   /\ run' = [run EXCEPT ![p] = r] /\ ReadsTo(p, r)
                   /\ r.pc # "stopped" => HandsAt(p, r)
  <2>1. run[p] \in Running BY <1>12, TakeRuns
  <2>2. PICK r : r = [run[p] EXCEPT !.pc = c, !.state = s, !.taken = n] OBVIOUS
  <2>3. r \in Running /\ r.pc = c /\ r.list = run[p].list /\ r.pc \in Disposing
    BY ONLY <2>1, <2>2, c \in {"mark", "create", "cap", "refuse"}, n \in 0 .. Cap,
       s \in {"accepted", "proposed"} DEF Running, Disposing, Judging
  <2>4. run' = [run EXCEPT ![p] = r] BY <1>12, <2>2
  <2>5. ReadsTo(p, r)
    <3>1. run[p].pc \notin {"attach", "start", "emit"} BY <1>12
    <3> QED BY <1>12, <2>3, <3>1 DEF ReadsTo
  <2>6. HandsAt(p, r)
    <3>1. r.list \subseteq DOMAIN signals /\ r.list # {} BY <1>12, <2>3 DEF Hands, HandsAt
    <3>2. Oldest(r.list) = At(p) BY <2>3 DEF At
    <3>3. r.pc \notin Making BY <2>3 DEF Making
    <3>4. r.pc \in Judging \cup {"create"} => r.pc # "mark" BY DEF Judging
    <3> QED BY <1>12, <2>3, <3>1, <3>2, <3>3, <3>4 DEF HandsAt, MadeFrom
  <2>7. run[p].pc # "stopped" BY <1>12
  <2> QED BY <1>3, <1>12, <2>3, <2>4, <2>5, <2>6, <2>7
<1>13. ASSUME run[p].pc = "check"
       PROVE  /\ run[p] \in Running /\ run[p].state \in {"accepted", "proposed"}
              /\ run[p].taken \in 0 .. Cap
  BY <1>13, TakeRuns DEF Running
<1>14. CASE Check(p)
  <2>1. run' = [run EXCEPT ![p] = [run[p] EXCEPT !.pc = "mark", !.state = run[p].state,
                                                !.taken = run[p].taken]]
    <3>1. run' = [run EXCEPT ![p].pc = "mark"] /\ run[p].pc = "check" BY <1>14 DEF Check
    <3> QED BY <1>1, <1>13, <3>1 DEF Running
  <2> QED BY <1>12, <1>13, <1>14, <2>1 DEF Check, Judging
<1>15. ASSUME NEW s \in {"accepted", "proposed"}, run' = Make(p, s), run[p].pc = "check"
       PROVE  run' = [run EXCEPT ![p] = [run[p] EXCEPT !.pc = "create", !.state = s,
                                                      !.taken = run[p].taken]]
  BY <1>1, <1>13, <1>15 DEF Running, Make
<1>16. CASE ForcedTask(p) \/ RichEvent(p)
  <2>1. PICK s \in {"accepted", "proposed"} : run' = Make(p, s)
    BY <1>16 DEF ForcedTask, RichEvent
  <2>2. run[p].pc = "check" /\ run[p].list # {} /\ MadeFrom(At(p)) = {}
    BY <1>16 DEF ForcedTask, RichEvent, IsNew
  <2>3. UNCHANGED <<stage, signals, tasks, type, listing, queue, accepted, enabled,
                    scheduled, owner, switches, failures>>
    BY <1>16 DEF ForcedTask, RichEvent
  <2> QED BY <1>12, <1>13, <1>15, <2>1, <2>2, <2>3 DEF Judging
<1>17. CASE CapJudge(p)
  <2>1. /\ run[p].pc = "check" /\ run[p].list # {} /\ MadeFrom(At(p)) = {}
        /\ Disposition[signals[At(p)].item] = "llm_judge"
        /\ run' = [run EXCEPT ![p].pc = "cap"]
        /\ UNCHANGED <<stage, signals, tasks, type, listing, queue, accepted, enabled,
                       scheduled, owner, switches, failures>>
    BY <1>17 DEF CapJudge, IsNew
  <2>2. run' = [run EXCEPT ![p] = [run[p] EXCEPT !.pc = "cap", !.state = run[p].state,
                                                !.taken = run[p].taken]]
    BY <1>1, <1>13, <2>1 DEF Running
  <2> QED BY <1>12, <1>13, <2>1, <2>2
<1>18. CASE LlmJudge(p)
  <2>1. /\ run[p].pc = "check" /\ run[p].list # {} /\ MadeFrom(At(p)) = {}
        /\ Disposition[signals[At(p)].item] = "llm_judge" /\ run[p].taken < Cap
        /\ UNCHANGED <<stage, signals, tasks, type, listing, queue, accepted, enabled,
                       scheduled, owner, switches, failures>>
    BY <1>18 DEF LlmJudge, IsNew
  <2>2. PICK n : n = run[p].taken + 1 OBVIOUS
  <2>3. n \in 0 .. Cap
    <3>1. Cap \in Nat BY DialAssumption DEF DialAssumption
    <3> QED BY <1>13, <2>1, <2>2, <3>1
  <2>4. CASE run' = [Make(p, "proposed") EXCEPT ![p].taken = run[p].taken + 1]
    <3>1. run' = [run EXCEPT ![p] = [run[p] EXCEPT !.pc = "create", !.state = "proposed",
                                                  !.taken = n]]
      BY <1>1, <1>13, <2>1, <2>2, <2>4 DEF Running, Make
    <3> QED BY <1>12, <2>1, <2>3, <3>1 DEF Judging
  <2>5. CASE run' = [run EXCEPT ![p].pc = "refuse", ![p].taken = run[p].taken + 1]
    <3>1. run' = [run EXCEPT ![p] = [run[p] EXCEPT !.pc = "refuse", !.state = run[p].state,
                                                  !.taken = n]]
      BY <1>1, <1>13, <2>1, <2>2, <2>5 DEF Running
    <3> QED BY <1>12, <1>13, <2>1, <2>3, <3>1
  <2> QED BY <1>18, <2>4, <2>5 DEF LlmJudge
<1> QED BY <1>4, <1>5, <1>6, <1>7, <1>8, <1>9, <1>10, <1>11, <1>14, <1>16, <1>17, <1>18
        DEF Reads

Marks(p) ==
  \/ MarkFound(p) \/ RecordCap(p) \/ RefuseSignal(p) \/ RecordRefusal(p)
  \/ RecordDisposition(p)

\* What a mark comes to: the signal in hand is still judged, or it has been dealt with.
MarksTo(p, r, b) ==
  /\ signals' = Marked(At(p), b)
  /\ signals[At(p)].refused => b
  /\ \/ run[p].pc \in Judging /\ r.pc \in {"create", "refused"} /\ r.list = run[p].list
     \/ /\ r.pc = "check" /\ r.list = run[p].list \ {At(p)}
        /\ MadeFrom(At(p)) # {} \/ (b /\ run[p].pc \in Judging)

\* A mark is set on a signal that is in hand.
LEMMA TakeMarks ==
  ASSUME IntakeTypeOK, NEW p \in Poll, Marks(p), Hands(p)
  PROVE  /\ UNCHANGED <<tasks, stage, type, listing, queue, accepted, enabled, scheduled, owner,
                        switches, failures>>
         /\ run[p].pc \in Judging \cup {"mark", "record"} /\ run[p].list # {}
         /\ At(p) \in DOMAIN signals /\ At(p) \in run[p].list
         /\ \E r \in Running, b \in BOOLEAN :
              run' = [run EXCEPT ![p] = r] /\ MarksTo(p, r, b)
<1> USE DEF sources, tables
<1>1. UNCHANGED <<tasks, stage, type, listing, queue, accepted, enabled, scheduled, owner,
                  switches, failures>>
  BY DEF Marks, MarkFound, RecordCap, RefuseSignal, RecordRefusal,
     RecordDisposition
<1>2. run[p].pc \in Judging \cup {"mark", "record"}
  BY DEF Judging, Marks, MarkFound, RecordCap, RefuseSignal, RecordRefusal,
     RecordDisposition
<1>3. run[p].list # {} /\ run[p].list \subseteq DOMAIN signals
  BY <1>2 DEF Hands, HandsAt, Judging, Making
<1>4. run[p] \in Running BY <1>2, TakeRuns DEF Judging
<1>5. At(p) \in run[p].list /\ At(p) \in DOMAIN signals BY <1>3, <1>4, TakeAt
<1>6. run \in [Poll -> Running \cup {Stopped}] BY DEF IntakeTypeOK
<1>7. PICK s : s = At(p) OBVIOUS
<1>8. signals[s] \in Signal
  <2>1. signals \in Seq(Signal) BY DEF IntakeTypeOK
  <2>2. s \in 1 .. Len(signals) BY <1>5, <1>7, <2>1
  <2> QED BY <2>1, <2>2
<1>9. [signals EXCEPT ![s].processed = TRUE] = Marked(s, signals[s].refused)
  <2>1. [signals[s] EXCEPT !.processed = TRUE, !.refused = signals[s].refused] =
          [signals[s] EXCEPT !.processed = TRUE]
    BY <1>8 DEF Signal
  <2> QED BY <2>1 DEF Marked
<1>10. signals[s].refused \in BOOLEAN BY <1>8 DEF Signal
<1>11. CASE RecordCap(p) \/ RefuseSignal(p)
  <2>1. signals' = [signals EXCEPT ![s].processed = TRUE] /\ run[p].pc \in Judging
    BY <1>7, <1>11 DEF RecordCap, RefuseSignal, MarkProcessed, Judging
  <2>2. PICK r \in Running :
          /\ run' = [run EXCEPT ![p] = r]
          /\ r.pc \in {"create", "refused"} /\ r.list = run[p].list
    <3>1. CASE RecordCap(p)
      <4>1. run' = [run EXCEPT ![p].pc = "create", ![p].state = "proposed"]
        BY <3>1 DEF RecordCap, Make
      <4>2. PICK r : r = [run[p] EXCEPT !.pc = "create", !.state = "proposed"] OBVIOUS
      <4>3. run' = [run EXCEPT ![p] = r] BY ONLY <1>6, <4>1, <4>2
      <4>4. r \in Running /\ r.pc = "create" /\ r.list = run[p].list
        BY ONLY <1>4, <4>2 DEF Running
      <4> QED BY <4>3, <4>4
    <3>2. CASE RefuseSignal(p)
      <4>1. run' = [run EXCEPT ![p].pc = "refused"] BY <3>2 DEF RefuseSignal
      <4>2. PICK r : r = [run[p] EXCEPT !.pc = "refused"] OBVIOUS
      <4>3. run' = [run EXCEPT ![p] = r] BY ONLY <1>6, <4>1, <4>2
      <4>4. r \in Running /\ r.pc = "refused" /\ r.list = run[p].list
        BY ONLY <1>4, <4>2 DEF Running
      <4> QED BY <4>3, <4>4
    <3> QED BY <1>11, <3>1, <3>2
  <2>3. MarksTo(p, r, signals[s].refused) BY <1>7, <1>9, <2>1, <2>2 DEF MarksTo
  <2> QED BY <1>1, <1>2, <1>3, <1>5, <1>10, <2>2, <2>3
<1>12. CASE MarkFound(p) \/ RecordDisposition(p) \/ RecordRefusal(p)
  <2>1. run' = [run EXCEPT ![p].pc = "check", ![p].list = run[p].list \ {s}, ![p].task = 0]
    BY <1>7, <1>12
       DEF MarkFound, RecordDisposition, RecordRefusal, NextSignal
  <2>2. PICK r : r = [run[p] EXCEPT !.pc = "check", !.list = run[p].list \ {s}, !.task = 0]
    OBVIOUS
  <2>3. run' = [run EXCEPT ![p] = r] BY ONLY <1>6, <2>1, <2>2
  <2>4. r \in Running /\ r.pc = "check" /\ r.list = run[p].list \ {s}
    BY ONLY <1>4, <2>2 DEF Running
  <2>5. CASE RecordRefusal(p)
    <3>1. signals' = [signals EXCEPT ![s].processed = TRUE, ![s].refused = TRUE]
          /\ run[p].pc \in Judging
      BY <1>7, <2>5 DEF RecordRefusal, Judging
    <3>2. signals' = Marked(s, TRUE) BY ONLY <3>1 DEF Marked
    <3>3. MarksTo(p, r, TRUE) BY <1>7, <2>4, <3>1, <3>2 DEF MarksTo
    <3> QED BY <1>1, <1>2, <1>3, <1>5, <2>3, <2>4, <3>3
  <2>6. CASE MarkFound(p) \/ RecordDisposition(p)
    <3>1. signals' = [signals EXCEPT ![s].processed = TRUE] /\ run[p].pc \in {"mark", "record"}
      BY <1>7, <2>6 DEF MarkFound, RecordDisposition, MarkProcessed
    <3>2. MadeFrom(s) # {}
      BY <1>7, <3>1 DEF Hands, HandsAt, Making, MadeFrom, At
    <3>3. MarksTo(p, r, signals[s].refused) BY <1>7, <1>9, <2>4, <3>1, <3>2 DEF MarksTo
    <3> QED BY <1>1, <1>2, <1>3, <1>5, <1>10, <2>3, <2>4, <3>3
  <2> QED BY <1>12, <2>5, <2>6
<1> QED BY <1>11, <1>12 DEF Marks

\* What a step of p keeps of the types, the tables and what the poll holds.
PollKeeps(p) ==
  /\ IntakeTypeOK' /\ Grows /\ Only(p) /\ Resting'
  /\ (run[p].pc # "stopped" => Hands(p))'

\* A step that writes no table keeps them.
LEMMA TakeReadsKeeps ==
  ASSUME IntakeTypeOK, NEW p \in Poll, Reads(p), Resting,
         run[p].pc # "stopped" => Hands(p)
  PROVE  PollKeeps(p)
<1>1. PICK r \in Running \cup {Stopped} :
        /\ run' = [run EXCEPT ![p] = r] /\ ReadsTo(p, r)
        /\ r.pc # "stopped" => HandsAt(p, r)
  BY TakeReads
<1>2. /\ stage' \in [Poll -> {"rest", "config", "fetch", "dispose"}]
      /\ \A q \in Poll : q # p => stage'[q] = stage[q]
      /\ stage'[p] = "rest" => run'[p] = Stopped
  BY TakeReads
<1>3. /\ run' \in [Poll -> Running \cup {Stopped}]
      /\ run'[p] = r /\ \A q \in Poll : q # p => run'[q] = run[q]
  BY <1>1, TakeRunTyped
<1>4. UNCHANGED <<signals, tasks, type, listing, accepted, enabled, scheduled, owner, switches>>
  BY <1>1 DEF ReadsTo
<1>5. queue' \in Seq(Item) /\ failures' \in Nat
  <2>1. queue \in Seq(Item) /\ failures \in Nat BY DEF IntakeTypeOK
  <2>2. (queue' = queue \/ queue' = <<>>) /\ (failures' = failures \/ failures' = failures + 1)
    BY <1>1 DEF ReadsTo
  <2>5. <<>> \in Seq(Item) OBVIOUS
  <2>3. queue' \in Seq(Item) BY ONLY <2>1, <2>2, <2>5, Zenon
  <2>4. failures' \in Nat BY ONLY <2>1, <2>2
  <2> QED BY <2>3, <2>4
<1>6. IntakeTypeOK' BY <1>2, <1>3, <1>4, <1>5 DEF IntakeTypeOK
<1>7. Grows /\ Only(p) BY <1>3, <1>4 DEF Grows, Only
<1>8. Resting' BY <1>2, <1>3 DEF Resting, Stopped
<1>9. (run[p].pc # "stopped" => Hands(p))'
  BY <1>1, <1>3, <1>4 DEF Hands, HandsAt, MadeFrom
<1> QED BY <1>6, <1>7, <1>8, <1>9 DEF PollKeeps

\* A mark keeps them.
LEMMA TakeMarksKeeps ==
  ASSUME IntakeTypeOK, NEW p \in Poll, Marks(p), Resting, Hands(p)
  PROVE  PollKeeps(p)
<1>1. /\ UNCHANGED <<tasks, stage, type, listing, queue, accepted, enabled, scheduled, owner,
                     switches, failures>>
      /\ run[p].pc \in Judging \cup {"mark", "record"} /\ run[p].list # {}
      /\ At(p) \in DOMAIN signals
  BY TakeMarks
<1>2. PICK r \in Running, b \in BOOLEAN :
        run' = [run EXCEPT ![p] = r] /\ MarksTo(p, r, b)
  BY TakeMarks
<1>3. /\ run' \in [Poll -> Running \cup {Stopped}]
      /\ run'[p] = r /\ \A q \in Poll : q # p => run'[q] = run[q]
  BY <1>2, TakeRunTyped
<1>4. PICK s : s = At(p) OBVIOUS
<1>5. PICK g : g = Marked(s, b) OBVIOUS
<1>6. signals' = g BY <1>2, <1>4, <1>5 DEF MarksTo
<1>7. /\ g \in Seq(Signal) /\ DOMAIN g = DOMAIN signals
      /\ g[s].connector = signals[s].connector /\ g[s].item = signals[s].item
      /\ g[s].refused = b /\ \A u \in DOMAIN signals : u # s => g[u] = signals[u]
  BY <1>1, <1>4, <1>5, TakeMark
<1>8. IntakeTypeOK' BY <1>1, <1>3, <1>6, <1>7 DEF IntakeTypeOK
<1>9. signals[s].refused => b BY <1>2, <1>4 DEF MarksTo
<1>10. Grows
  <2>1. ASSUME NEW u \in DOMAIN signals
        PROVE  /\ u \in DOMAIN signals' /\ signals'[u].connector = signals[u].connector
               /\ signals'[u].item = signals[u].item /\ (signals[u].refused => signals'[u].refused)
    BY <1>6, <1>7, <1>9
  <2> QED BY <1>1, <2>1 DEF Grows
<1>11. Only(p) BY <1>1, <1>3 DEF Only
<1>12. run[p].pc # "stopped" BY <1>1 DEF Judging
<1>13. r.pc # "stopped" BY TakeRuns DEF Running
<1>14. Resting' BY <1>1, <1>3, <1>12 DEF Resting
<1>15. (run[p].pc # "stopped" => Hands(p))'
  <2>1. HandsAt(p, run[p]) /\ run[p].list \subseteq DOMAIN signals BY DEF Hands, HandsAt
  <2>2. CASE r.pc = "check" /\ r.list = run[p].list \ {At(p)}
    BY <1>3, <1>6, <1>7, <2>1, <2>2 DEF Hands, HandsAt, Judging, Making
  <2>3. CASE run[p].pc \in Judging /\ r.pc \in {"create", "refused"} /\ r.list = run[p].list
    <3>1. Oldest(r.list) = s BY <1>4, <2>3 DEF At
    <3>2. \A t \in DOMAIN tasks : tasks[t].signal = s => tasks[t].by # p
      BY <2>1, <2>3, <3>1 DEF HandsAt
    <3>3. Disposition[signals[s].item] = "llm_judge" BY <2>1, <2>3, <3>1 DEF HandsAt
    <3>4. HandsAt(p, r)'
      BY <1>1, <1>6, <1>7, <2>1, <2>3, <3>1, <3>2, <3>3 DEF HandsAt, Judging, Making
    <3> QED BY <1>3, <3>4 DEF Hands
  <2> QED BY <1>2, <2>2, <2>3 DEF MarksTo
<1> QED BY <1>8, <1>10, <1>11, <1>14, <1>15 DEF PollKeeps

\* An item of a batch keeps them.
LEMMA TakeEmitKeeps ==
  ASSUME IntakeTypeOK, NEW p \in Poll, EmitBatch(p), Resting, Hands(p)
  PROVE  /\ PollKeeps(p)
         /\ UNCHANGED <<tasks, queue, accepted, failures>>
         /\ run[p].pc = "emit" /\ run[p].batch \in Seq(Item) /\ run[p].batch # <<>>
         /\ \/ Head(run[p].batch) \in Malformed /\ UNCHANGED signals
            \/ /\ run'[p].pc = "emit" /\ run'[p].batch = Tail(run[p].batch)
               /\ \A i : i = Head(run[p].batch) => SignalOf(Of[p], i)' # {}
         /\ \A s \in DOMAIN signals' :
              (s \in DOMAIN signals /\ signals'[s] = signals[s]) \/ ~signals'[s].processed
<1> USE DEF sources, tables
<1>1. /\ run[p].pc = "emit" /\ run[p].batch # <<>>
      /\ UNCHANGED <<tasks, queue, accepted, failures, type, listing, enabled, scheduled, owner,
                     switches>>
  BY DEF EmitBatch
<1>2. run[p] \in Running /\ run[p].batch \in Seq(Item) BY <1>1, TakeRuns DEF Running
<1>3. PICK i : i = Head(run[p].batch) OBVIOUS
<1>4. i \in Item /\ Tail(run[p].batch) \in Seq(Item) BY <1>1, <1>2, <1>3
<1>5. /\ run \in [Poll -> Running \cup {Stopped}] /\ signals \in Seq(Signal)
      /\ stage \in [Poll -> {"rest", "config", "fetch", "dispose"}]
  BY DEF IntakeTypeOK
<1>6. CASE i \in Malformed
  <2>1. /\ stage' = [stage EXCEPT ![p] = "rest"] /\ run' = [run EXCEPT ![p] = Stopped]
        /\ UNCHANGED signals
    BY <1>3, <1>6 DEF EmitBatch
  <2>2. IntakeTypeOK' BY <1>1, <1>5, <2>1 DEF IntakeTypeOK
  <2>3. Grows /\ Only(p) /\ Resting'
    BY <1>1, <1>5, <2>1 DEF Grows, Only, Resting, Stopped
  <2>4. run'[p].pc = "stopped" BY <1>5, <2>1 DEF Stopped
  <2>5. PollKeeps(p) BY <2>2, <2>3, <2>4 DEF PollKeeps
  <2> QED BY <1>1, <1>2, <1>3, <1>6, <2>1, <2>5
<1>7. CASE i \notin Malformed
  <2>1. /\ Ingest(p, i) /\ run' = [run EXCEPT ![p].batch = Tail(run[p].batch)]
        /\ stage' = stage
    BY <1>3, <1>7 DEF EmitBatch
  <2>2. PICK r : r = [run[p] EXCEPT !.batch = Tail(run[p].batch)] OBVIOUS
  <2>3. run' = [run EXCEPT ![p] = r] BY ONLY <1>5, <2>1, <2>2
  <2>4. r \in Running /\ r.pc = "emit" /\ r.batch = Tail(run[p].batch)
        /\ r.list = run[p].list
    BY <1>1, <1>2, <1>4, <2>2 DEF Running
  <2>5. /\ run' \in [Poll -> Running \cup {Stopped}]
        /\ run'[p] = r /\ \A q \in Poll : q # p => run'[q] = run[q]
    BY <2>3, <2>4, TakeRunTyped
  <2>6. Of[p] \in Connector BY SourceAssumption DEF SourceAssumption
  <2>7. /\ signals' \in Seq(Signal)
        /\ \A s \in DOMAIN signals : s \in DOMAIN signals' /\ signals'[s] = signals[s]
        /\ \A s \in DOMAIN signals' : s \in DOMAIN signals \/ ~signals'[s].processed
        /\ SignalOf(Of[p], i)' # {}
    <3>1. CASE SignalOf(Of[p], i) # {}
      <4>1. signals' = signals BY <2>1, <3>1 DEF Ingest
      <4> QED BY <1>5, <3>1, <4>1 DEF SignalOf
    <3>2. CASE SignalOf(Of[p], i) = {}
      <4>1. PICK x : x = [connector |-> Of[p], item |-> i, processed |-> FALSE,
                          refused |-> FALSE]
        OBVIOUS
      <4>2. signals' = Append(signals, x) BY <2>1, <3>2, <4>1 DEF Ingest
      <4>3. x \in Signal /\ x.connector = Of[p] /\ x.item = i /\ ~x.processed
        BY <1>4, <2>6, <4>1 DEF Signal
      <4>4. /\ signals' \in Seq(Signal) /\ Len(signals') = Len(signals) + 1
            /\ \A k \in 1 .. Len(signals) : signals'[k] = signals[k]
            /\ signals'[Len(signals) + 1] = x
        BY ONLY <1>5, <4>2, <4>3
      <4>5. PICK n \in Nat : n = Len(signals) BY <1>5
      <4>6. DOMAIN signals = 1 .. n /\ DOMAIN signals' = 1 .. n + 1 BY <1>5, <4>4, <4>5
      <4>7. \A k \in 1 .. n + 1 : k \in 1 .. n \/ k = n + 1 BY <4>5
      <4>8. n + 1 \in SignalOf(Of[p], i)'
        BY <4>3, <4>4, <4>5, <4>6 DEF SignalOf
      <4> QED BY <4>3, <4>4, <4>5, <4>6, <4>7, <4>8
    <3> QED BY <3>1, <3>2
  <2>8. IntakeTypeOK' BY <1>1, <1>5, <2>1, <2>5, <2>7 DEF IntakeTypeOK
  <2>9. Grows /\ Only(p) BY <1>1, <2>5, <2>7 DEF Grows, Only
  <2>10. Resting' BY <1>1, <2>1, <2>5 DEF Resting
  <2>11. (run[p].pc # "stopped" => Hands(p))'
    <3>1. r.list \subseteq DOMAIN signals' BY <2>4, <2>7 DEF Hands, HandsAt
    <3> QED BY <2>4, <2>5, <3>1 DEF Hands, HandsAt, Judging, Making
  <2>12. PollKeeps(p) BY <2>8, <2>9, <2>10, <2>11 DEF PollKeeps
  <2>13. \A s \in DOMAIN signals' :
           (s \in DOMAIN signals /\ signals'[s] = signals[s]) \/ ~signals'[s].processed
    BY <2>7
  <2>14. \A x : x = Head(run[p].batch) => SignalOf(Of[p], x)' # {} BY <1>3, <2>7
  <2> QED BY <1>1, <1>2, <2>4, <2>5, <2>12, <2>13, <2>14
<1> QED BY <1>6, <1>7

\* A task is made: it is the poll's own, of the signal in hand.
LEMMA TakeCreateKeeps ==
  ASSUME IntakeTypeOK, NEW p \in Poll, CreateTaskFromSignal(p), Resting,
         Hands(p)
  PROVE  /\ PollKeeps(p)
         /\ UNCHANGED <<signals, queue, accepted, failures>> /\ run[p].pc = "create"
         /\ run'[p].pc \in {"attach", "record"} /\ run'[p].list = run[p].list
         /\ \A t \in DOMAIN tasks : tasks'[t] = tasks[t]
         /\ \A t \in DOMAIN tasks' : t \in DOMAIN tasks \/
              /\ tasks'[t].signal = At(p) /\ tasks'[t].by = p /\ t = run'[p].task
              /\ tasks'[t].state = "accepted" => run'[p].pc = "attach"
<1> USE DEF sources, tables
<1>1. /\ run[p].pc = "create"
      /\ UNCHANGED <<signals, stage, type, listing, queue, accepted, enabled, scheduled, owner,
                     switches, failures>>
  BY DEF CreateTaskFromSignal
<1>2. run[p] \in Running /\ run[p].list # {} /\ run[p].list \subseteq DOMAIN signals
  BY <1>1, TakeRuns DEF Hands, HandsAt
<1>3. /\ run \in [Poll -> Running \cup {Stopped}] /\ tasks \in Seq(MadeTask)
      /\ DOMAIN signals \subseteq Nat \ {0}
  BY DEF IntakeTypeOK
<1>4. PICK s : s = At(p) OBVIOUS
<1>5. s \in Nat \ {0} BY <1>2, <1>3, <1>4, TakeAt
<1>6. PICK x : x = [signal |-> s, state |-> run[p].state, chain |-> "none", by |-> p] OBVIOUS
<1>7. x \in MadeTask /\ x.signal = s /\ x.by = p /\ x.state = run[p].state
  BY <1>2, <1>5, <1>6 DEF MadeTask, Running
<1>8. tasks' = Append(tasks, x) BY <1>4, <1>6 DEF CreateTaskFromSignal
<1>9. PICK n \in Nat : n = Len(tasks) BY <1>3
<1>10. /\ tasks' \in Seq(MadeTask) /\ DOMAIN tasks = 1 .. n /\ DOMAIN tasks' = 1 .. n + 1
       /\ \A t \in DOMAIN tasks : tasks'[t] = tasks[t]
       /\ tasks'[n + 1] = x
  BY ONLY <1>3, <1>7, <1>8, <1>9
<1>11. \A t \in DOMAIN tasks' : t \in DOMAIN tasks \/ t = n + 1 BY <1>9, <1>10
<1>12. \A t \in DOMAIN tasks : t \in DOMAIN tasks' BY <1>9, <1>10
<1>13. PICK c \in {"attach", "record"} :
         /\ run' = [run EXCEPT ![p].task = n + 1, ![p].pc = c]
         /\ run[p].state = "accepted" => c = "attach"
  BY <1>9 DEF CreateTaskFromSignal
<1>14. PICK r : r = [run[p] EXCEPT !.task = n + 1, !.pc = c] OBVIOUS
<1>15. run' = [run EXCEPT ![p] = r] BY ONLY <1>3, <1>13, <1>14
<1>16. r \in Running /\ r.pc = c /\ r.list = run[p].list /\ r.task = n + 1
  <2>1. PICK k \in Nat : k = n + 1 BY <1>9
  <2>2. r = [run[p] EXCEPT !.task = k, !.pc = c] BY ONLY <1>14, <2>1
  <2>3. run[p] \in Running BY <1>2
  <2>4. r \in Running /\ r.pc = c /\ r.list = run[p].list /\ r.task = k
    BY ONLY <2>1, <2>2, <2>3, c \in {"attach", "record"} DEF Running
  <2> QED BY ONLY <2>1, <2>4
<1>17. /\ run' \in [Poll -> Running \cup {Stopped}]
       /\ run'[p] = r /\ \A q \in Poll : q # p => run'[q] = run[q]
  BY <1>15, <1>16, TakeRunTyped
<1>18. IntakeTypeOK' BY <1>1, <1>10, <1>17 DEF IntakeTypeOK
<1>19. Grows BY <1>1, <1>10, <1>12 DEF Grows
<1>20. Only(p) BY <1>7, <1>10, <1>11, <1>17 DEF Only
<1>21. Resting' BY <1>1, <1>17 DEF Resting
<1>22. (run[p].pc # "stopped" => Hands(p))'
  <2>1. Oldest(r.list) = s BY <1>4, <1>16 DEF At
  <2>2. n + 1 \in DOMAIN tasks' BY <1>9, <1>10
  <2>3. HandsAt(p, r)'
    BY <1>1, <1>2, <1>7, <1>10, <1>16, <2>1, <2>2 DEF HandsAt, Judging, Making
  <2> QED BY <1>17, <2>3 DEF Hands
<1>23. PollKeeps(p) BY <1>18, <1>19, <1>20, <1>21, <1>22 DEF PollKeeps
<1>24. \A t \in DOMAIN tasks' : t \in DOMAIN tasks \/
         /\ tasks'[t].signal = s /\ tasks'[t].by = p /\ t = r.task
         /\ tasks'[t].state = "accepted" => r.pc = "attach"
  BY <1>7, <1>10, <1>11, <1>13, <1>16
<1> QED BY <1>1, <1>4, <1>10, <1>16, <1>17, <1>23, <1>24

\* The chain of the task: its row, then its workflow.
LEMMA TakeChainKeeps ==
  ASSUME IntakeTypeOK, NEW p \in Poll, Resting, Hands(p),
         InsertChainWorkflow(p) \/ StartChainWorkflow(p)
  PROVE  /\ PollKeeps(p)
         /\ UNCHANGED <<signals, queue, accepted, failures>>
         /\ run'[p].list = run[p].list /\ run'[p].task = run[p].task
         /\ DOMAIN tasks' = DOMAIN tasks /\ run[p].task \in DOMAIN tasks
         /\ \A t \in DOMAIN tasks : t # run[p].task => tasks'[t] = tasks[t]
         /\ \/ run[p].pc = "attach" /\ run'[p].pc = "start"
            \/ /\ run[p].pc = "start" /\ run'[p].pc = "record"
               /\ tasks'[run[p].task].chain = "running"
<1> USE DEF sources, tables
<1>1. UNCHANGED <<signals, stage, type, listing, queue, accepted, enabled, scheduled, owner,
                  switches, failures>>
  BY DEF InsertChainWorkflow, StartChainWorkflow
<1>2. PICK c \in {"row", "running"}, d \in {"start", "record"} :
        /\ tasks' = Chained(run[p].task, c) /\ run' = [run EXCEPT ![p].pc = d]
        /\ \/ run[p].pc = "attach" /\ d = "start"
           \/ run[p].pc = "start" /\ d = "record" /\ c = "running"
  BY DEF InsertChainWorkflow, StartChainWorkflow, Chained
<1>3. run[p].pc # "stopped" /\ run[p].pc \in Making BY <1>2 DEF Making
<1>4. run[p] \in Running BY <1>3, TakeRuns
<1>5. /\ run[p].list \subseteq DOMAIN signals /\ run[p].list # {}
      /\ run[p].task \in DOMAIN tasks
      /\ tasks[run[p].task].signal = Oldest(run[p].list) /\ tasks[run[p].task].by = p
  BY <1>3 DEF Hands, HandsAt
<1>6. PICK t : t = run[p].task OBVIOUS
<1>7. PICK g : g = Chained(t, c) OBVIOUS
<1>8. /\ g \in Seq(MadeTask) /\ DOMAIN g = DOMAIN tasks
      /\ g[t].signal = tasks[t].signal /\ g[t].by = tasks[t].by
      /\ g[t].state = tasks[t].state /\ g[t].chain = c
      /\ \A u \in DOMAIN tasks : u # t => g[u] = tasks[u]
  BY <1>5, <1>6, <1>7, TakeChain
<1>9. tasks' = g BY <1>2, <1>6, <1>7
<1>10. PICK r : r = [run[p] EXCEPT !.pc = d] OBVIOUS
<1>11. run \in [Poll -> Running \cup {Stopped}] BY DEF IntakeTypeOK
<1>12. run' = [run EXCEPT ![p] = r] BY ONLY <1>2, <1>10, <1>11
<1>13. r \in Running /\ r.pc = d /\ r.list = run[p].list /\ r.task = t
  BY ONLY <1>4, <1>6, <1>10, d \in {"start", "record"} DEF Running
<1>14. /\ run' \in [Poll -> Running \cup {Stopped}]
       /\ run'[p] = r /\ \A q \in Poll : q # p => run'[q] = run[q]
  BY <1>12, <1>13, TakeRunTyped
<1>15. IntakeTypeOK' BY <1>1, <1>8, <1>9, <1>14 DEF IntakeTypeOK
<1>16. Grows
  <2>1. ASSUME NEW u \in DOMAIN tasks
        PROVE  /\ u \in DOMAIN g /\ g[u].signal = tasks[u].signal /\ g[u].by = tasks[u].by
               /\ g[u].state = tasks[u].state
    BY <1>8
  <2> QED BY <1>1, <1>9, <2>1 DEF Grows
<1>17. Only(p) BY <1>6, <1>8, <1>9, <1>14 DEF Only
<1>18. Resting' BY <1>1, <1>3, <1>14 DEF Resting
<1>19. HandsAt(p, r)'
  BY <1>1, <1>5, <1>6, <1>8, <1>9, <1>13 DEF HandsAt, Judging, Making
<1>20. PollKeeps(p) BY <1>14, <1>15, <1>16, <1>17, <1>18, <1>19 DEF PollKeeps, Hands
<1> QED BY <1>1, <1>2, <1>5, <1>6, <1>8, <1>9, <1>13, <1>14, <1>20

Draws(p) == InsertChainWorkflow(p) \/ StartChainWorkflow(p)

\* What a poll does, its failure included.
PollDoes(p) ==
  Reads(p) \/ Marks(p) \/ EmitBatch(p) \/ CreateTaskFromSignal(p) \/ Draws(p)

\* A poll that writes is running, so it holds what it should.
LEMMA TakeWrites ==
  ASSUME TakeInv, NEW p \in Poll,
         Marks(p) \/ EmitBatch(p) \/ CreateTaskFromSignal(p) \/ Draws(p)
  PROVE  Hands(p)
<1>1. run[p].pc # "stopped"
  BY DEF Marks, Draws, EmitBatch, CreateTaskFromSignal, InsertChainWorkflow,
     StartChainWorkflow, MarkFound, RecordCap, RefuseSignal, RecordRefusal,
     RecordDisposition
<1> QED BY <1>1 DEF TakeInv, AllHands

\* Whatever a poll does keeps the types, the tables and what it holds.
LEMMA TakePollKeeps ==
  ASSUME TakeInv, NEW p \in Poll, PollDoes(p)
  PROVE  PollKeeps(p)
<1>1. IntakeTypeOK /\ Resting /\ (run[p].pc # "stopped" => Hands(p)) BY DEF TakeInv, AllHands
<1>2. CASE Reads(p) BY <1>1, <1>2, TakeReadsKeeps
<1>3. CASE Marks(p) BY <1>1, <1>3, TakeWrites, TakeMarksKeeps
<1>4. CASE EmitBatch(p) BY <1>1, <1>4, TakeWrites, TakeEmitKeeps
<1>5. CASE CreateTaskFromSignal(p) BY <1>1, <1>5, TakeWrites, TakeCreateKeeps
<1>6. CASE Draws(p) BY <1>1, <1>6, TakeWrites, TakeChainKeeps DEF Draws
<1> QED BY <1>2, <1>3, <1>4, <1>5, <1>6 DEF PollDoes

\* What a poll that writes no table comes to.
LEMMA TakeReadsTo ==
  ASSUME TakeInv, NEW p \in Poll, Reads(p)
  PROVE  \E r \in Running \cup {Stopped} :
           /\ run'[p] = r /\ ReadsTo(p, r)
           /\ \A q \in Poll : q # p => run'[q] = run[q]
<1>1. IntakeTypeOK /\ Resting /\ (run[p].pc # "stopped" => Hands(p)) BY DEF TakeInv, AllHands
<1>2. PICK r \in Running \cup {Stopped} :
        run' = [run EXCEPT ![p] = r] /\ ReadsTo(p, r)
  BY <1>1, TakeReads
<1> QED BY <1>1, <1>2, TakeRunTyped

\* What a mark of a poll comes to.
LEMMA TakeMarksTo ==
  ASSUME TakeInv, NEW p \in Poll, Marks(p)
  PROVE  \E r \in Running, b \in BOOLEAN : \E g :
           /\ run'[p] = r /\ MarksTo(p, r, b) /\ signals' = g /\ DOMAIN g = DOMAIN signals
           /\ g[At(p)].item = signals[At(p)].item /\ g[At(p)].refused = b
           /\ \A u \in DOMAIN signals : u # At(p) => g[u] = signals[u]
<1>1. IntakeTypeOK /\ Hands(p) BY TakeWrites DEF TakeInv
<1>2. PICK r \in Running, b \in BOOLEAN :
        run' = [run EXCEPT ![p] = r] /\ MarksTo(p, r, b)
  BY <1>1, TakeMarks
<1>3. At(p) \in DOMAIN signals BY <1>1, TakeMarks
<1>4. PICK g : g = Marked(At(p), b) OBVIOUS
<1>5. signals' = g BY <1>2, <1>4 DEF MarksTo
<1>6. run'[p] = r BY <1>1, <1>2, TakeRunTyped
<1> QED BY <1>1, <1>2, <1>3, <1>4, <1>5, <1>6, TakeMark

\* All polls still hold what they should.
LEMMA TakeAllHands ==
  ASSUME TakeInv, NEW p \in Poll, PollDoes(p)
  PROVE  AllHands'
<1>1. PollKeeps(p) BY TakePollKeeps
<1>2. ASSUME NEW q \in Poll, (run[q].pc # "stopped")'
      PROVE  Hands(q)'
  <2>1. CASE q = p BY <1>1, <1>2, <2>1 DEF PollKeeps
  <2>2. CASE q # p
    <3>1. run[q].pc # "stopped" BY <1>1, <1>2, <2>2 DEF PollKeeps, Only
    <3>2. Hands(q) /\ IntakeTypeOK BY <3>1 DEF TakeInv, AllHands
    <3> QED BY <1>1, <2>2, <3>1, <3>2, TakeOthers DEF PollKeeps
  <2> QED BY <2>1, <2>2
<1> QED BY <1>2 DEF AllHands

\* Only the step that makes a task makes one.
LEMMA TakeSameTasks ==
  ASSUME TakeInv, NEW p \in Poll, Reads(p) \/ Marks(p) \/ EmitBatch(p)
  PROVE  tasks' = tasks
<1>1. CASE Reads(p) BY <1>1, TakeReadsTo DEF ReadsTo
<1>2. CASE Marks(p) BY <1>2, TakeWrites, TakeMarks DEF TakeInv
<1>3. CASE EmitBatch(p) BY <1>3 DEF EmitBatch
<1> QED BY <1>1, <1>2, <1>3

\* A poll makes no second task of a signal.
LEMMA TakeOneTask ==
  ASSUME TakeInv, NEW p \in Poll, PollDoes(p)
  PROVE  OneTaskPerPoll'
<1>1. PollKeeps(p) /\ OneTaskPerPoll BY TakePollKeeps DEF TakeInv
<1>2. \A t \in DOMAIN tasks : tasks'[t].signal = tasks[t].signal /\ tasks'[t].by = tasks[t].by
  BY <1>1 DEF PollKeeps, Grows
<1>3. CASE DOMAIN tasks' = DOMAIN tasks BY <1>1, <1>2, <1>3 DEF OneTaskPerPoll
<1>4. CASE CreateTaskFromSignal(p)
  <2>1. Hands(p) /\ Resting /\ IntakeTypeOK BY <1>4, TakeWrites DEF TakeInv
  <2>2. /\ run[p].pc = "create"
        /\ \A t \in DOMAIN tasks' : t \in DOMAIN tasks \/
             (tasks'[t].signal = At(p) /\ tasks'[t].by = p /\ t = run'[p].task)
    BY <1>4, <2>1, TakeCreateKeeps
  <2>3. \A t \in DOMAIN tasks : tasks[t].signal = At(p) => tasks[t].by # p
    BY <2>1, <2>2 DEF Hands, HandsAt, At
  <2>4. ASSUME NEW t \in DOMAIN tasks', NEW u \in DOMAIN tasks', t # u,
               tasks'[t].signal = tasks'[u].signal
        PROVE  tasks'[t].by # tasks'[u].by
    <3>1. CASE t \in DOMAIN tasks /\ u \in DOMAIN tasks
      BY <1>1, <1>2, <2>4, <3>1 DEF OneTaskPerPoll
    <3>2. CASE t \in DOMAIN tasks /\ u \notin DOMAIN tasks BY <1>2, <2>2, <2>3, <2>4, <3>2
    <3>3. CASE t \notin DOMAIN tasks /\ u \in DOMAIN tasks BY <1>2, <2>2, <2>3, <2>4, <3>3
    <3>4. CASE t \notin DOMAIN tasks /\ u \notin DOMAIN tasks BY <2>2, <2>4, <3>4
    <3> QED BY <3>1, <3>2, <3>3, <3>4
  <2> QED BY <2>4 DEF OneTaskPerPoll
<1>5. CASE Draws(p)
  <2>1. Hands(p) /\ Resting /\ IntakeTypeOK BY <1>5, TakeWrites DEF TakeInv
  <2> QED BY <1>3, <1>5, <2>1, TakeChainKeeps DEF Draws
<1> QED BY <1>3, <1>4, <1>5, TakeSameTasks DEF PollDoes

\* The signal in hand of a poll is one it is disposing of.
LEMMA TakeInHand ==
  ASSUME IntakeTypeOK, NEW p \in Poll, NEW s
  PROVE  InHand(p, s) <=>
           run[p].pc \in Disposing /\ run[p].list # {} /\ At(p) = s
<1>1. run[p].pc # "stopped" =>
        (run[p].pc \in Disposing <=>
           run[p].pc \notin {"stopped", "config", "fetch", "emit", "load"})
  BY TakeRuns DEF Running, Disposing, Judging, Making
<1>2. "stopped" \notin Disposing BY DEF Disposing, Judging, Making
<1> QED BY <1>1, <1>2 DEF InHand

\* It stays in the hands of another poll, and of one whose step keeps its list.
LEMMA TakeStaysInHand ==
  ASSUME IntakeTypeOK, IntakeTypeOK', NEW p \in Poll, NEW q \in Poll, NEW s,
         InHand(q, s),
         \/ run'[q] = run[q]
         \/ run'[q].pc \in Disposing /\ run'[q].list = run[q].list
  PROVE  InHand(q, s)'
<1>1. run[q].pc \in Disposing /\ run[q].list # {} /\ At(q) = s BY TakeInHand
<1>2. run'[q].pc \in Disposing /\ run'[q].list # {} BY <1>1
<1>3. At(q)' = s BY <1>1 DEF At
<1>4. run'[q].pc \notin {"stopped", "config", "fetch", "emit", "load"}
  BY <1>2 DEF Disposing, Judging, Making
<1> QED BY <1>2, <1>3, <1>4 DEF InHand

\* A signal that was neither marked nor taken from a hand is accounted for as it was.
LEMMA TakeSameSignal ==
  ASSUME TakeInv, NEW p \in Poll, PollKeeps(p), failures' \in Nat, failures' >= failures,
         NEW s \in DOMAIN signals,
         signals'[s] = signals[s], signals'[s].processed, MadeFrom(s)' = {},
         InHand(p, s) =>
           run'[p].pc \in Disposing /\ run'[p].list = run[p].list
  PROVE  /\ Disposition[signals'[s].item] = "llm_judge"
         /\ signals'[s].refused \/ failures' > 0 \/ \E q \in Poll : InHand(q, s)'
<1>1. IntakeTypeOK /\ IntakeTypeOK' /\ Grows /\ Only(p) BY DEF TakeInv, PollKeeps
<1>2. MadeFrom(s) = {} BY <1>1 DEF MadeFrom, Grows
<1>3. /\ Disposition[signals[s].item] = "llm_judge"
      /\ signals[s].refused \/ failures > 0 \/ \E q \in Poll : InHand(q, s)
  BY <1>2 DEF TakeInv, OnlyJudgedIsDropped
<1>4. failures \in Nat /\ (failures > 0 => failures' > 0)
  <2>1. failures \in Nat BY <1>1 DEF IntakeTypeOK
  <2> QED BY <2>1
<1>5. ASSUME NEW q \in Poll, InHand(q, s)
      PROVE  InHand(q, s)'
  <2>1. q # p => run'[q] = run[q] BY <1>1 DEF Only
  <2> QED BY <1>1, <1>5, <2>1, TakeStaysInHand
<1> QED BY <1>3, <1>4, <1>5

\* Faults are counted, never forgotten.
LEMMA TakeFaults ==
  ASSUME TakeInv, NEW p \in Poll, PollDoes(p)
  PROVE  /\ failures \in Nat /\ failures' \in Nat
         /\ \/ failures' = failures
            \/ Reads(p) /\ run'[p] = Stopped /\ failures' > 0 /\ queue' = queue
<1>1. failures \in Nat BY DEF TakeInv, IntakeTypeOK
<1>2. CASE Reads(p) BY <1>1, <1>2, TakeReadsTo DEF ReadsTo
<1>3. CASE Marks(p) BY <1>1, <1>3, TakeWrites, TakeMarks DEF TakeInv
<1>4. CASE EmitBatch(p) BY <1>1, <1>4 DEF EmitBatch
<1>5. CASE CreateTaskFromSignal(p) BY <1>1, <1>5 DEF CreateTaskFromSignal
<1>6. CASE Draws(p)
  BY <1>1, <1>6 DEF Draws, InsertChainWorkflow, StartChainWorkflow
<1> QED BY <1>2, <1>3, <1>4, <1>5, <1>6 DEF PollDoes

\* What a poll marks with no task has been judged.
LEMMA TakeDropped ==
  ASSUME TakeInv, NEW p \in Poll, PollDoes(p)
  PROVE  OnlyJudgedIsDropped'
<1>1. PollKeeps(p) /\ IntakeTypeOK /\ Resting BY TakePollKeeps DEF TakeInv
<1>2. /\ failures \in Nat /\ failures' \in Nat
      /\ failures' = failures \/ (Reads(p) /\ failures' > 0)
  BY TakeFaults
<1>3. SUFFICES ASSUME NEW s \in DOMAIN signals', signals'[s].processed,
                      MadeFrom(s)' = {}
               PROVE  /\ Disposition[signals'[s].item] = "llm_judge"
                      /\ signals'[s].refused \/ failures' > 0
                         \/ \E q \in Poll : InHand(q, s)'
  BY DEF OnlyJudgedIsDropped
<1>4. InHand(p, s) => run[p].pc \in Disposing /\ run[p].list # {} /\ At(p) = s
  BY <1>1, TakeInHand
<1>5. CASE Reads(p)
  <2>1. PICK r \in Running \cup {Stopped} : run'[p] = r /\ ReadsTo(p, r)
    BY <1>5, TakeReadsTo
  <2>2. signals' = signals /\ tasks' = tasks BY <2>1 DEF ReadsTo
  <2>3. CASE failures' = failures
    <3>0. ~(failures' = failures + 1) BY <1>2, <2>3
    <3>1. InHand(p, s) => r.pc \in Disposing /\ r.list = run[p].list
      BY <1>4, <2>1, <3>0 DEF ReadsTo
    <3> QED BY <1>1, <1>2, <1>3, <2>1, <2>2, <2>3, <3>1, TakeSameSignal
  <2>4. CASE failures' > 0
    <3>1. MadeFrom(s) = {} BY <1>3, <2>2 DEF MadeFrom
    <3>2. Disposition[signals[s].item] = "llm_judge"
      BY <1>3, <2>2, <3>1 DEF TakeInv, OnlyJudgedIsDropped
    <3> QED BY <2>2, <2>4, <3>2
  <2> QED BY <1>2, <2>3, <2>4
<1>6. CASE Marks(p)
  <2>1. PICK r \in Running, b \in BOOLEAN : \E g :
          /\ run'[p] = r /\ MarksTo(p, r, b) /\ signals' = g /\ DOMAIN g = DOMAIN signals
          /\ g[At(p)].item = signals[At(p)].item /\ g[At(p)].refused = b
          /\ \A u \in DOMAIN signals : u # At(p) => g[u] = signals[u]
    BY <1>6, TakeMarksTo
  <2>2. Hands(p) /\ tasks' = tasks /\ failures' = failures
    BY <1>1, <1>6, TakeWrites, TakeMarks
  <2>3. CASE s # At(p)
    BY <1>1, <1>2, <1>3, <1>4, <2>1, <2>2, <2>3, TakeSameSignal
  <2>4. CASE s = At(p)
    <3>1. signals'[s].item = signals[s].item /\ signals'[s].refused = b BY <2>1, <2>4
    <3>2. MadeFrom(s) = {} BY <1>3, <2>2 DEF MadeFrom
    <3>3. run[p].pc \in Judging BY <2>1, <2>4, <3>2 DEF MarksTo
    <3>4. Disposition[signals[s].item] = "llm_judge"
      BY <2>2, <2>4, <3>3 DEF Hands, HandsAt, At
    <3>5. CASE b BY <3>1, <3>4, <3>5
    <3>6. CASE r.pc \in {"create", "refused"} /\ r.list = run[p].list
      <4>1. r.pc \in Disposing BY <3>6 DEF Disposing, Judging
      <4>2. run[p].pc \in Disposing /\ run[p].list # {}
        BY <2>2, <3>3 DEF Disposing, Hands, HandsAt
      <4>3. InHand(p, s) BY <1>1, <2>4, <4>2, TakeInHand
      <4>4. IntakeTypeOK' BY <1>1 DEF PollKeeps
      <4>5. InHand(p, s)' BY <1>1, <2>1, <3>6, <4>1, <4>3, <4>4, TakeStaysInHand
      <4> QED BY <3>1, <3>4, <4>5
    <3> QED BY <2>1, <2>4, <3>2, <3>5, <3>6 DEF MarksTo
  <2> QED BY <2>3, <2>4
<1>7. CASE EmitBatch(p)
  <2>1. /\ run[p].pc = "emit"
        /\ s \in DOMAIN signals /\ signals'[s] = signals[s]
    BY <1>1, <1>3, <1>7, TakeWrites, TakeEmitKeeps
  <2>2. ~InHand(p, s) BY <2>1 DEF InHand
  <2>3. failures' = failures BY <1>7 DEF EmitBatch
  <2> QED BY <1>1, <1>2, <1>3, <2>1, <2>2, <2>3, TakeSameSignal
<1>8. CASE CreateTaskFromSignal(p) \/ Draws(p)
  <2>1. /\ signals' = signals /\ failures' = failures /\ run'[p].list = run[p].list
        /\ run'[p].pc \in {"attach", "start", "record"}
    <3>1. Hands(p) BY <1>8, TakeWrites
    <3>2. CASE CreateTaskFromSignal(p) BY <1>1, <3>1, <3>2, TakeCreateKeeps
    <3>3. CASE Draws(p) BY <1>1, <3>1, <3>3, TakeChainKeeps DEF Draws
    <3> QED BY <1>8, <3>2, <3>3
  <2>2. run'[p].pc \in Disposing BY <2>1 DEF Disposing, Making
  <2> QED BY <1>1, <1>2, <1>3, <2>1, <2>2, TakeSameSignal
<1> QED BY <1>5, <1>6, <1>7, <1>8 DEF PollDoes

\* An accepted task stays with the poll that is to drive it until it does.
LEMMA TakeDriven ==
  ASSUME TakeInv, NEW p \in Poll, PollDoes(p)
  PROVE  Driven'
<1>1. PollKeeps(p) /\ IntakeTypeOK /\ Resting BY TakePollKeeps DEF TakeInv
<1>2. /\ failures \in Nat /\ failures' \in Nat
      /\ failures' = failures \/ (Reads(p) /\ failures' > 0)
  BY TakeFaults
<1>3. SUFFICES ASSUME NEW t \in DOMAIN tasks', tasks'[t].state = "accepted",
                      tasks'[t].chain # "running", failures' = failures, ~(failures > 0)
               PROVE  \E q \in Poll : run'[q].pc \in {"attach", "start"} /\ run'[q].task = t
  BY <1>2 DEF Driven
<1>4. ASSUME t \in DOMAIN tasks, tasks'[t] = tasks[t],
             run[p].pc \in {"attach", "start"} => run[p].task # t
      PROVE  \E q \in Poll : run'[q].pc \in {"attach", "start"} /\ run'[q].task = t
  <2>1. PICK q \in Poll : run[q].pc \in {"attach", "start"} /\ run[q].task = t
    BY <1>3, <1>4 DEF TakeInv, Driven
  <2>2. run'[q] = run[q] BY <1>1, <1>4, <2>1 DEF PollKeeps, Only
  <2> QED BY <2>1, <2>2
<1>5. CASE Reads(p)
  <2>1. PICK r \in Running \cup {Stopped} : run'[p] = r /\ ReadsTo(p, r)
    BY <1>5, TakeReadsTo
  <2>2. ~(failures' = failures + 1) BY <1>2, <1>3
  <2>3. run[p].pc \notin {"attach", "start"} /\ tasks' = tasks BY <2>1, <2>2 DEF ReadsTo
  <2> QED BY <1>3, <1>4, <2>3
<1>6. CASE Marks(p) \/ EmitBatch(p)
  <2>1. run[p].pc \notin {"attach", "start"}
    BY <1>6
       DEF Marks, EmitBatch, MarkFound, RecordCap, RefuseSignal, RecordRefusal,
           RecordDisposition
  <2> QED BY <1>3, <1>4, <1>6, <2>1, TakeSameTasks
<1>7. CASE CreateTaskFromSignal(p)
  <2>1. /\ run[p].pc = "create" /\ \A u \in DOMAIN tasks : tasks'[u] = tasks[u]
        /\ \A u \in DOMAIN tasks' : u \in DOMAIN tasks \/
             (u = run'[p].task /\ (tasks'[u].state = "accepted" => run'[p].pc = "attach"))
    BY <1>1, <1>7, TakeWrites, TakeCreateKeeps
  <2>2. CASE t \in DOMAIN tasks BY <1>4, <2>1, <2>2
  <2>3. CASE t \notin DOMAIN tasks BY <1>3, <2>1, <2>3
  <2> QED BY <2>2, <2>3
<1>8. CASE Draws(p)
  <2>1. /\ run'[p].task = run[p].task /\ DOMAIN tasks' = DOMAIN tasks
        /\ \A u \in DOMAIN tasks : u # run[p].task => tasks'[u] = tasks[u]
        /\ \/ run'[p].pc = "start"
           \/ tasks'[run[p].task].chain = "running"
    BY <1>1, <1>8, TakeWrites, TakeChainKeeps DEF Draws
  <2>2. CASE t # run[p].task BY <1>3, <1>4, <2>1, <2>2
  <2>3. CASE t = run[p].task BY <1>3, <2>1, <2>3
  <2> QED BY <2>2, <2>3
<1> QED BY <1>5, <1>6, <1>7, <1>8 DEF PollDoes

\* A delivery that is kept stays so when p's step leaves the queue and what p has fetched.
LEMMA TakeStaysKept ==
  ASSUME TakeInv, NEW p \in Poll, PollKeeps(p), queue' = queue, accepted' = accepted,
         NEW n \in DOMAIN accepted, Kept(n), ~Held(p, n)
  PROVE  Kept(n)'
<1>1. Grows /\ Only(p) BY DEF PollKeeps
<1>2. CASE Behind(n) BY <1>2 DEF Kept, Behind
<1>3. CASE n > Len(accepted) - Len(queue) BY <1>3 DEF Kept
<1>4. CASE \E q \in Poll : Held(q, n)
  <2>1. PICK q \in Poll : Held(q, n) BY <1>4
  <2>2. run'[q] = run[q] BY <1>1, <2>1 DEF Only
  <2>3. Held(q, n)' BY <2>1, <2>2 DEF Held
  <2> QED BY <2>3 DEF Kept
<1>5. CASE \E c \in Connector : SignalOf(c, accepted[n]) # {}
  <2>1. PICK c \in Connector : SignalOf(c, accepted[n]) # {} BY <1>5
  <2>2. SignalOf(c, accepted[n])' # {} BY <1>1, <2>1 DEF SignalOf, Grows
  <2> QED BY <2>2 DEF Kept
<1> QED BY <1>2, <1>3, <1>4, <1>5 DEF Kept

\* The deliveries that p fetches are behind no others than those it does not drain.
LEMMA TakeFetched ==
  ASSUME IntakeTypeOK, QueueIsTail, NEW p \in Poll, NEW r, run'[p] = r, r.pc = "emit",
         r.batch = queue, accepted' = accepted, NEW n \in DOMAIN accepted,
         n > Len(accepted) - Len(queue)
  PROVE  Held(p, n)'
<1>1. PICK a \in Nat : a = Len(accepted) /\ DOMAIN accepted = 1 .. a BY DEF IntakeTypeOK
<1>2. PICK b \in Nat : b = Len(queue) /\ DOMAIN queue = 1 .. b BY DEF IntakeTypeOK
<1>3. b <= a /\ \A k \in 1 .. b : queue[k] = accepted[(a - b) + k]
  BY <1>1, <1>2 DEF QueueIsTail
<1>4. PICK d : d = a - b OBVIOUS
<1>5. n \in 1 .. a /\ n > d BY <1>1, <1>2, <1>4
<1>6. d \in 0 .. n - 1 /\ n - d \in 1 .. b BY ONLY <1>1, <1>2, <1>3, <1>4, <1>5
<1>7. \A k \in 1 .. n - d : k \in 1 .. b /\ queue[k] = accepted[d + k]
  <2>1. \A k \in 1 .. n - d : k \in 1 .. b BY ONLY <1>1, <1>2, <1>4, <1>6
  <2>2. \A k \in 1 .. b : queue[k] = accepted[d + k] BY <1>3, <1>4
  <2> QED BY <2>1, <2>2
<1>8. n - d \in DOMAIN queue BY <1>2, <1>6
<1> QED BY <1>6, <1>7, <1>8 DEF Held

\* An item that p takes from its batch is malformed, or its signal is there.
LEMMA TakeEmitted ==
  ASSUME TakeInv, NEW p \in Poll, EmitBatch(p), NEW n \in DOMAIN accepted,
         Held(p, n)
  PROVE  Kept(n)'
<1>1. IntakeTypeOK /\ Resting /\ Hands(p) BY TakeWrites DEF TakeInv
<1>2. /\ PollKeeps(p) /\ accepted' = accepted
      /\ run[p].pc = "emit" /\ run[p].batch \in Seq(Item) /\ run[p].batch # <<>>
      /\ \/ Head(run[p].batch) \in Malformed /\ UNCHANGED signals
         \/ /\ run'[p].pc = "emit" /\ run'[p].batch = Tail(run[p].batch)
            /\ \A i : i = Head(run[p].batch) => SignalOf(Of[p], i)' # {}
  BY <1>1, TakeEmitKeeps
<1>3. PICK d \in 0 .. n - 1 :
        /\ n - d \in DOMAIN run[p].batch
        /\ \A k \in 1 .. n - d : run[p].batch[k] = accepted[d + k]
  BY DEF Held
<1>4. n \in Nat /\ n >= 1 BY <1>1 DEF IntakeTypeOK
<1>5. 1 \in 1 .. n - d /\ d + 1 \in 1 .. n BY <1>3, <1>4
<1>6. PICK i : i = Head(run[p].batch) OBVIOUS
<1>7. i = accepted[d + 1] BY <1>2, <1>3, <1>5, <1>6
<1>8. CASE i \in Malformed
  <2>1. Behind(n)' BY <1>2, <1>5, <1>7, <1>8 DEF Behind
  <2> QED BY <2>1 DEF Kept
<1>9. CASE i \notin Malformed
  <2>1. /\ run'[p].pc = "emit" /\ run'[p].batch = Tail(run[p].batch)
        /\ SignalOf(Of[p], i)' # {}
    BY <1>2, <1>6, <1>9
  <2>2. CASE n = d + 1
    <3>1. accepted'[n] = i BY <1>2, <1>7, <2>2
    <3>2. SignalOf(Of[p], accepted[n])' # {}
      BY <2>1, <3>1 DEF SignalOf
    <3>3. Of[p] \in Connector BY SourceAssumption DEF SourceAssumption
    <3> QED BY <3>2, <3>3 DEF Kept
  <2>3. CASE n # d + 1
    <3>1. PICK e \in Nat : e = d + 1 /\ e \in 0 .. n - 1 BY <1>3, <1>4, <2>3
    <3>2. PICK b : b = run[p].batch OBVIOUS
    <3>3. PICK m \in Nat : m = Len(b) /\ DOMAIN b = 1 .. m /\ b \in Seq(Item) /\ b # <<>>
      BY <1>2, <3>2
    <3>4. m >= 1 /\ n - d \in 1 .. m BY <1>3, <3>2, <3>3
    <3>5. DOMAIN Tail(b) = 1 .. m - 1 /\ \A k \in 1 .. m - 1 : Tail(b)[k] = b[k + 1]
      BY ONLY <3>3, <3>4
    <3>6. n - e \in 1 .. m - 1 BY <1>4, <3>1, <3>3, <3>4
    <3>7. \A k \in 1 .. n - e :
            /\ k \in 1 .. m - 1 /\ k + 1 \in 1 .. n - d /\ d + (k + 1) = e + k
      BY ONLY <1>3, <1>4, <3>1, <3>3, <3>6
    <3>8. \A k \in 1 .. n - e : Tail(b)[k] = accepted[e + k]
      <4>1. \A k \in 1 .. n - d : b[k] = accepted[d + k] BY <1>3, <3>2
      <4>2. ASSUME NEW k \in 1 .. n - e
            PROVE  Tail(b)[k] = accepted[e + k]
        <5>1. /\ k \in 1 .. m - 1 /\ k + 1 \in 1 .. n - d /\ d + (k + 1) = e + k BY <3>7
        <5>2. Tail(b)[k] = b[k + 1] BY <3>5, <5>1
        <5>3. b[k + 1] = accepted[d + (k + 1)] BY <4>1, <5>1
        <5> QED BY ONLY <5>1, <5>2, <5>3
      <4> QED BY <4>2
    <3>9. Held(p, n)' BY <1>2, <2>1, <3>1, <3>2, <3>5, <3>6, <3>8 DEF Held
    <3> QED BY <3>9 DEF Kept
  <2> QED BY <2>2, <2>3
<1> QED BY <1>8, <1>9

\* A step of a poll keeps every accepted delivery.
LEMMA TakeKeepsAll ==
  ASSUME TakeInv, NEW p \in Poll, PollDoes(p)
  PROVE  QueueIsTail' /\ AllKept'
<1>1. PollKeeps(p) /\ IntakeTypeOK /\ Resting /\ QueueIsTail /\ AllKept
  BY TakePollKeeps DEF TakeInv
<1>2. /\ failures \in Nat /\ failures' \in Nat
      /\ \/ failures' = failures
         \/ Reads(p) /\ failures' > 0 /\ queue' = queue
  BY TakeFaults
<1>3. ASSUME queue' = queue, accepted' = accepted
      PROVE  QueueIsTail'
  BY <1>1, <1>3 DEF QueueIsTail
<1>4. ASSUME queue' = queue, accepted' = accepted, failures' = failures,
             \A n \in DOMAIN accepted : ~Held(p, n)
      PROVE  QueueIsTail' /\ AllKept'
  <2>1. ASSUME NEW n \in DOMAIN accepted, Kept(n) PROVE Kept(n)'
    BY <1>1, <1>4, <2>1, TakeStaysKept
  <2> QED BY <1>1, <1>3, <1>4, <2>1 DEF AllKept
<1>5. CASE Reads(p)
  <2>1. PICK r \in Running \cup {Stopped} : run'[p] = r /\ ReadsTo(p, r)
    BY <1>5, TakeReadsTo
  <2>2. accepted' = accepted /\ signals' = signals BY <2>1 DEF ReadsTo
  <2>3. CASE failures' > 0 /\ queue' = queue
    <3>1. AllKept' BY <2>3 DEF AllKept
    <3> QED BY <1>3, <2>2, <2>3, <3>1
  <2>4. CASE failures' = failures
    <3>1. ~(failures' = failures + 1) BY <1>2, <2>4
    <3>2. /\ run[p].pc = "emit" => run[p].batch = <<>>
          /\ \/ queue' = queue
             \/ queue' = <<>> /\ run[p].pc = "fetch" /\ r.pc = "emit" /\ r.batch = queue
      BY <2>1, <3>1 DEF ReadsTo
    <3>3. \A n \in DOMAIN accepted : ~Held(p, n) BY <3>2 DEF Held
    <3>4. CASE queue' = queue BY <1>4, <2>2, <2>4, <3>3, <3>4
    <3>5. CASE queue' = <<>> /\ r.pc = "emit" /\ r.batch = queue
      <4>1. QueueIsTail'
        <5>1. Len(accepted) \in Nat BY <1>1 DEF IntakeTypeOK
        <5> QED BY <2>2, <3>5, <5>1 DEF QueueIsTail
      <4>2. ASSUME NEW n \in DOMAIN accepted, Kept(n) PROVE Kept(n)'
        <5>1. CASE n > Len(accepted) - Len(queue)
          <6>1. Held(p, n)' BY <1>1, <2>1, <2>2, <3>5, <5>1, TakeFetched
          <6> QED BY <6>1 DEF Kept
        <5>2. CASE Behind(n) BY <2>2, <5>2 DEF Kept, Behind
        <5>3. CASE \E q \in Poll : Held(q, n)
          <6>1. PICK q \in Poll : Held(q, n) BY <5>3
          <6>2. run'[q] = run[q] BY <1>1, <3>3, <6>1 DEF PollKeeps, Only
          <6>3. Held(q, n)' BY <2>2, <6>1, <6>2 DEF Held
          <6> QED BY <6>3 DEF Kept
        <5>4. CASE \E c \in Connector : SignalOf(c, accepted[n]) # {}
          BY <2>2, <5>4 DEF Kept, SignalOf
        <5> QED BY <4>2, <5>1, <5>2, <5>3, <5>4 DEF Kept
      <4> QED BY <1>1, <2>2, <2>4, <4>1, <4>2 DEF AllKept
    <3> QED BY <3>2, <3>4, <3>5
  <2> QED BY <1>2, <2>3, <2>4
<1>6. CASE EmitBatch(p)
  <2>1. queue' = queue /\ accepted' = accepted /\ failures' = failures
    BY <1>1, <1>6, TakeWrites, TakeEmitKeeps
  <2>2. ASSUME NEW n \in DOMAIN accepted, Kept(n) PROVE Kept(n)'
    <3>1. CASE Held(p, n) BY <1>6, <3>1, TakeEmitted
    <3>2. CASE ~Held(p, n) BY <1>1, <2>1, <2>2, <3>2, TakeStaysKept
    <3> QED BY <3>1, <3>2
  <2> QED BY <1>1, <1>3, <2>1, <2>2 DEF AllKept
<1>7. CASE Marks(p) \/ CreateTaskFromSignal(p) \/ Draws(p)
  <2>1. run[p].pc # "emit" /\ queue' = queue /\ accepted' = accepted /\ failures' = failures
    <3>1. Hands(p) BY <1>7, TakeWrites
    <3>2. CASE Marks(p) BY <1>1, <3>1, <3>2, TakeMarks DEF Judging
    <3>3. CASE CreateTaskFromSignal(p) BY <1>1, <3>1, <3>3, TakeCreateKeeps
    <3>4. CASE Draws(p) BY <1>1, <3>1, <3>4, TakeChainKeeps DEF Draws
    <3> QED BY <1>7, <3>2, <3>3, <3>4
  <2>2. \A n \in DOMAIN accepted : ~Held(p, n) BY <2>1 DEF Held
  <2> QED BY <1>4, <2>1, <2>2
<1> QED BY <1>5, <1>6, <1>7 DEF PollDoes

\* A poll takes a step: the invariant holds after it.
LEMMA TakePollStep ==
  ASSUME TakeInv, NEW p \in Poll,
         StartPoll(p) \/ PollStep(p) \/ FailPoll(p)
  PROVE  TakeInv'
<1>1. PollDoes(p) BY DEF PollDoes, Reads, Marks, Draws, PollStep
<1>2. IntakeTypeOK' /\ Resting' BY <1>1, TakePollKeeps DEF PollKeeps
<1>3. AllHands' BY <1>1, TakeAllHands
<1>4. OneTaskPerPoll' BY <1>1, TakeOneTask
<1>5. OnlyJudgedIsDropped' BY <1>1, TakeDropped
<1>6. Driven' BY <1>1, TakeDriven
<1>7. QueueIsTail' /\ AllKept' BY <1>1, TakeKeepsAll
<1> QED BY <1>2, <1>3, <1>4, <1>5, <1>6, <1>7 DEF TakeInv

\* Nothing but the types looks at the switches, the schedules and the feed.
LEMMA TakeAside ==
  ASSUME TakeInv, IntakeTypeOK', failures' \in Nat, failures' = failures \/ failures' > 0,
         UNCHANGED <<queue, accepted, signals, tasks, stage, run>>
  PROVE  TakeInv'
<1>1. OneTaskPerPoll' BY DEF TakeInv, OneTaskPerPoll
<1>2. OnlyJudgedIsDropped'
  BY DEF TakeInv, OnlyJudgedIsDropped, MadeFrom, InHand, At
<1>3. AllHands' BY DEF TakeInv, AllHands, Hands, HandsAt, MadeFrom
<1>4. Resting' /\ Driven' /\ QueueIsTail' BY DEF TakeInv, Resting, Driven, QueueIsTail
<1>5. ASSUME NEW n, Kept(n) PROVE Kept(n)'
  BY <1>5 DEF Kept, Behind, Held, SignalOf
<1>6. AllKept' BY <1>5 DEF TakeInv, AllKept
<1> QED BY <1>1, <1>2, <1>3, <1>4, <1>6 DEF TakeInv

\* The owner's requests.
LEMMA TakeOwnerStep ==
  ASSUME TakeInv, NEW o \in Owner,
         \/ OwnerStep(o) \/ FailRequest(o)
         \/ \E c \in Connector : EnableConnector(o, c)
  PROVE  TakeInv'
<1> USE DEF sources, tables
<1>1. /\ owner \in [Owner -> Request \cup {Idle}] /\ switches \in Nat /\ failures \in Nat
      /\ enabled \in [Connector -> BOOLEAN] /\ scheduled \in [Connector -> BOOLEAN]
      /\ IntakeTypeOK
  BY DEF TakeInv, IntakeTypeOK
<1>2. owner[o].pc \in {"switch", "set"} => owner[o] \in Request
  <2>1. Idle.pc = "idle" BY DEF Idle
  <2> QED BY <1>1, <2>1
<1>3. CASE SwitchSchedule(o)
  <2>1. owner[o] \in Request BY <1>2, <1>3 DEF SwitchSchedule
  <2>2. PICK r : r = [owner[o] EXCEPT !.pc = "set"] OBVIOUS
  <2>3. r \in Request BY ONLY <2>1, <2>2 DEF Request
  <2>4. owner' = [owner EXCEPT ![o] = r] BY <1>1, <1>3, <2>2 DEF SwitchSchedule
  <2>5. scheduled' \in [Connector -> BOOLEAN]
    <3>1. owner[o].on \in BOOLEAN BY <2>1 DEF Request
    <3> QED BY <1>1, <1>3, <3>1 DEF SwitchSchedule
  <2>6. IntakeTypeOK'
    BY <1>1, <1>3, <2>3, <2>4, <2>5 DEF IntakeTypeOK, SwitchSchedule
  <2> QED BY <1>1, <1>3, <2>6, TakeAside DEF SwitchSchedule
<1>4. CASE SetEnabled(o)
  <2>1. owner[o] \in Request BY <1>2, <1>4 DEF SetEnabled
  <2>2. enabled' \in [Connector -> BOOLEAN]
    <3>1. owner[o].on \in BOOLEAN BY <2>1 DEF Request
    <3> QED BY <1>1, <1>4, <3>1 DEF SetEnabled
  <2>3. owner' = [owner EXCEPT ![o] = Idle] BY <1>4 DEF SetEnabled
  <2>4. IntakeTypeOK' BY <1>1, <1>4, <2>2, <2>3 DEF IntakeTypeOK, SetEnabled
  <2> QED BY <1>1, <1>4, <2>4, TakeAside DEF SetEnabled
<1>5. CASE FailRequest(o)
  <2>1. failures' = failures + 1 /\ owner' = [owner EXCEPT ![o] = Idle]
    BY <1>5 DEF FailRequest
  <2>2. failures' \in Nat /\ failures' > 0 BY <1>1, <2>1
  <2>3. IntakeTypeOK' BY <1>1, <1>5, <2>1, <2>2 DEF IntakeTypeOK, FailRequest
  <2> QED BY <1>5, <2>2, <2>3, TakeAside DEF FailRequest
<1>6. CASE \E c \in Connector : EnableConnector(o, c)
  <2>1. PICK c \in Connector : EnableConnector(o, c) BY <1>6
  <2>2. PICK on \in BOOLEAN :
          owner' = [owner EXCEPT ![o] = [pc |-> "switch", connector |-> c, on |-> on]]
    BY <2>1 DEF EnableConnector
  <2>3. [pc |-> "switch", connector |-> c, on |-> on] \in Request BY DEF Request
  <2>4. switches' \in Nat BY <1>1, <2>1 DEF EnableConnector
  <2>5. IntakeTypeOK' BY <1>1, <2>1, <2>2, <2>3, <2>4 DEF IntakeTypeOK, EnableConnector
  <2> QED BY <1>1, <2>1, <2>5, TakeAside DEF EnableConnector
<1> QED BY <1>3, <1>4, <1>5, <1>6 DEF OwnerStep

\* An item that is listed.
LEMMA TakePublish ==
  ASSUME TakeInv, NEW i \in Item, Publish(i)
  PROVE  TakeInv'
<1>1. IntakeTypeOK /\ listing \in Seq(Item) /\ failures \in Nat BY DEF TakeInv, IntakeTypeOK
<1>2. listing' = Append(listing, i)
      /\ UNCHANGED <<type, queue, accepted, tables, stage, run, owner, switches, failures>>
  BY DEF Publish
<1>3. listing' \in Seq(Item) BY <1>1, <1>2
<1>4. IntakeTypeOK' BY <1>1, <1>2, <1>3 DEF IntakeTypeOK, tables
<1> QED BY <1>1, <1>2, <1>4, TakeAside DEF tables

\* A delivery that is accepted.
LEMMA TakeDeliver ==
  ASSUME TakeInv, NEW i \in Item, Deliver(i)
  PROVE  TakeInv'
<1>1. /\ IntakeTypeOK /\ queue \in Seq(Item) /\ accepted \in Seq(Item) /\ QueueIsTail /\ AllKept
  BY DEF TakeInv, IntakeTypeOK
<1>2. /\ queue' = Append(queue, i) /\ accepted' = Append(accepted, i)
      /\ UNCHANGED <<type, listing, signals, tasks, enabled, scheduled, stage, run, owner,
                     switches, failures>>
  BY DEF Deliver, tables
<1>3. PICK a \in Nat : a = Len(accepted) BY <1>1
<1>4. PICK b \in Nat : b = Len(queue) BY <1>1
<1>5. /\ accepted' \in Seq(Item) /\ DOMAIN accepted = 1 .. a /\ DOMAIN accepted' = 1 .. a + 1
      /\ Len(accepted') = a + 1 /\ accepted'[a + 1] = i
      /\ \A k \in 1 .. a : accepted'[k] = accepted[k]
  BY ONLY <1>1, <1>2, <1>3, i \in Item
<1>6. /\ queue' \in Seq(Item) /\ DOMAIN queue = 1 .. b /\ DOMAIN queue' = 1 .. b + 1
      /\ Len(queue') = b + 1 /\ queue'[b + 1] = i
      /\ \A k \in 1 .. b : queue'[k] = queue[k]
  BY ONLY <1>1, <1>2, <1>4, i \in Item
<1>7. IntakeTypeOK' BY <1>1, <1>2, <1>5, <1>6 DEF IntakeTypeOK
<1>8. b <= a /\ \A k \in 1 .. b : queue[k] = accepted[(a - b) + k]
  BY <1>1, <1>3, <1>4, <1>6 DEF QueueIsTail
<1>9. (a + 1) - (b + 1) = a - b BY <1>3, <1>4
<1>10. QueueIsTail'
  <2>1. ASSUME NEW k \in 1 .. b + 1
        PROVE  queue'[k] = accepted'[(a - b) + k]
    <3>1. CASE k = b + 1
      <4>1. (a - b) + k = a + 1 BY <1>3, <1>4, <3>1
      <4> QED BY <1>5, <1>6, <3>1, <4>1
    <3>2. CASE k # b + 1
      <4>1. k \in 1 .. b /\ (a - b) + k \in 1 .. a BY <1>3, <1>4, <1>8, <2>1, <3>2
      <4> QED BY <1>5, <1>6, <1>8, <4>1
    <3> QED BY <3>1, <3>2
  <2>2. b + 1 <= a + 1 BY <1>3, <1>4, <1>8
  <2> QED BY <1>5, <1>6, <1>9, <2>1, <2>2 DEF QueueIsTail
<1>11. ASSUME NEW n \in 1 .. a + 1, n \in 1 .. a => Kept(n)
       PROVE  Kept(n)'
  <2>1. CASE n > a - b BY <1>5, <1>6, <1>9, <2>1 DEF Kept
  <2>2. CASE ~(n > a - b)
    <3>1. n \in 1 .. a BY <1>3, <1>4, <2>2
    <3>2. accepted'[n] = accepted[n] /\ \A m \in 1 .. n : accepted'[m] = accepted[m]
      BY <1>3, <1>5, <3>1
    <3>3. CASE Behind(n) BY <3>2, <3>3 DEF Kept, Behind
    <3>4. CASE \E p \in Poll : Held(p, n)
      <4>1. PICK p \in Poll : Held(p, n) BY <3>4
      <4>2. PICK d \in 0 .. n - 1 :
              /\ n - d \in DOMAIN run[p].batch
              /\ \A k \in 1 .. n - d : run[p].batch[k] = accepted[d + k]
        BY <4>1 DEF Held
      <4>3. \A k \in 1 .. n - d : d + k \in 1 .. n BY <1>3, <3>1, <4>2
      <4>4. \A k \in 1 .. n - d : run[p].batch[k] = accepted'[d + k] BY <3>2, <4>2, <4>3
      <4>5. Held(p, n)' BY <1>2, <4>1, <4>2, <4>4 DEF Held
      <4> QED BY <4>5 DEF Kept
    <3>5. CASE \E c \in Connector : SignalOf(c, accepted[n]) # {}
      BY <1>2, <3>2, <3>5 DEF Kept, SignalOf
    <3> QED BY <1>3, <1>4, <1>11, <2>2, <3>1, <3>3, <3>4, <3>5 DEF Kept
  <2> QED BY <2>1, <2>2
<1>12. AllKept' BY <1>1, <1>2, <1>5, <1>11 DEF AllKept
<1>13. OneTaskPerPoll' /\ Resting' /\ Driven'
  BY <1>2 DEF TakeInv, OneTaskPerPoll, Resting, Driven
<1>14. OnlyJudgedIsDropped'
  BY <1>2 DEF TakeInv, OnlyJudgedIsDropped, MadeFrom, InHand, At
<1>15. AllHands' BY <1>2 DEF TakeInv, AllHands, Hands, HandsAt, MadeFrom
<1> QED BY <1>7, <1>10, <1>12, <1>13, <1>14, <1>15 DEF TakeInv

\* The process dies: what it had in memory is gone, and a fault is counted.
LEMMA TakeCrash ==
  ASSUME TakeInv, CrashPolls
  PROVE  TakeInv'
<1>1. IntakeTypeOK /\ failures \in Nat BY DEF TakeInv, IntakeTypeOK
<1>2. /\ failures' = failures + 1 /\ queue' = <<>> /\ run' = [p \in Poll |-> Stopped]
      /\ owner' = [o \in Owner |-> Idle]
      /\ scheduled' = [c \in Connector |-> scheduled[c] \/ enabled[c]]
      /\ UNCHANGED <<type, listing, accepted, signals, tasks, enabled, stage, switches>>
  BY DEF CrashPolls
<1>3. failures' \in Nat /\ failures' > 0 BY <1>1, <1>2
<1>4. queue' \in Seq(Item) /\ run' \in [Poll -> Running \cup {Stopped}]
      /\ owner' \in [Owner -> Request \cup {Idle}]
  BY <1>2
<1>5. scheduled' \in [Connector -> BOOLEAN]
  <2>1. \A c \in Connector : (scheduled[c] \/ enabled[c]) \in BOOLEAN OBVIOUS
  <2> QED BY <1>2, <2>1
<1>6. IntakeTypeOK' BY <1>1, <1>2, <1>3, <1>4, <1>5 DEF IntakeTypeOK
<1>7. \A p \in Poll : run'[p].pc = "stopped" BY <1>2 DEF Stopped
<1>8. AllHands' /\ Resting' BY <1>7 DEF AllHands, Resting
<1>9. Driven' /\ AllKept' BY <1>3 DEF Driven, AllKept
<1>10. OneTaskPerPoll' BY <1>2 DEF TakeInv, OneTaskPerPoll
<1>11. OnlyJudgedIsDropped'
  BY <1>2, <1>3 DEF TakeInv, OnlyJudgedIsDropped, MadeFrom
<1>12. QueueIsTail'
  <2>1. Len(accepted) \in Nat BY <1>1 DEF IntakeTypeOK
  <2> QED BY <1>2, <2>1 DEF QueueIsTail
<1> QED BY <1>6, <1>8, <1>9, <1>10, <1>11, <1>12 DEF TakeInv

\* At the start nothing is accepted, and no poll runs.
LEMMA TakeStart ==
  ASSUME IntakeInit
  PROVE  TakeInv
<1>1. /\ listing = <<>> /\ queue = <<>> /\ accepted = <<>> /\ signals = <<>> /\ tasks = <<>>
      /\ run = [p \in Poll |-> Stopped] /\ failures = 0
  BY DEF IntakeInit
<1>2. IntakeTypeOK BY <1>1 DEF IntakeInit, IntakeTypeOK
<1>3. \A p \in Poll : run[p].pc = "stopped" BY <1>1 DEF Stopped
<1>4. AllHands /\ Resting BY <1>3 DEF AllHands, Resting
<1>5. DOMAIN tasks = {} /\ DOMAIN signals = {} /\ DOMAIN accepted = {} /\ DOMAIN queue = {}
  BY <1>1
<1>6. Driven /\ AllKept /\ OneTaskPerPoll /\ OnlyJudgedIsDropped
  BY <1>5 DEF Driven, AllKept, OneTaskPerPoll, OnlyJudgedIsDropped
<1>7. QueueIsTail BY <1>1, <1>5 DEF QueueIsTail
<1> QED BY <1>2, <1>4, <1>6, <1>7 DEF TakeInv

\* A step that changes nothing.
LEMMA TakeStutters ==
  ASSUME TakeInv, UNCHANGED intakeVars
  PROVE  TakeInv'
<1>1. UNCHANGED <<type, listing, queue, accepted, signals, tasks, enabled, scheduled, stage, run,
                  owner, switches, failures>>
  BY DEF intakeVars, sources, tables
<1>2. IntakeTypeOK' /\ failures' \in Nat BY <1>1 DEF TakeInv, IntakeTypeOK
<1> QED BY <1>1, <1>2, TakeAside

\* The inductive invariant of an intake.
LEMMA TakeInvariant ==
  IntakeSpec => []TakeInv
<1>1. IntakeInit => TakeInv BY TakeStart
<1>2. TakeInv /\ [IntakeNext]_intakeVars => TakeInv'
  <2> SUFFICES ASSUME TakeInv, [IntakeNext]_intakeVars
               PROVE  TakeInv'
    OBVIOUS
  <2>1. CASE \E p \in Poll : StartPoll(p) \/ PollStep(p) \/ FailPoll(p)
    BY <2>1, TakePollStep
  <2>2. CASE \E o \in Owner : \/ OwnerStep(o) \/ FailRequest(o)
                              \/ \E c \in Connector : EnableConnector(o, c)
    BY <2>2, TakeOwnerStep
  <2>3. CASE \E i \in Item : Deliver(i) \/ Publish(i)
    BY <2>3, TakeDeliver, TakePublish
  <2>4. CASE CrashPolls BY <2>4, TakeCrash
  <2>5. CASE UNCHANGED intakeVars BY <2>5, TakeStutters
  <2> QED BY <2>1, <2>2, <2>3, <2>4, <2>5 DEF IntakeNext
<1> QED BY <1>1, <1>2, PTL DEF IntakeSpec

\* Every reachable state of an intake is well typed.
THEOREM IntakeTypes ==
  IntakeSpec => []IntakeTypeOK
<1>1. TakeInv => IntakeTypeOK BY DEF TakeInv
<1> QED BY <1>1, TakeInvariant, PTL

\* A delivery that is kept is somewhere, or behind a malformed one.
LEMMA TakeDeliveryKept ==
  ASSUME TakeInv
  PROVE  DeliveryKept
<1>1. IntakeTypeOK /\ QueueIsTail /\ AllKept /\ failures \in Nat BY DEF TakeInv, IntakeTypeOK
<1>2. ASSUME NEW n \in DOMAIN accepted, ~(failures > 0)
      PROVE  \/ accepted[n] \in Malformed
             \/ \E m \in 1 .. n - 1 : accepted[m] \in Malformed
             \/ \E m \in DOMAIN queue : queue[m] = accepted[n]
             \/ \E p \in Poll : run[p] # Stopped
                  /\ \E k \in DOMAIN run[p].batch : run[p].batch[k] = accepted[n]
             \/ \E c \in Connector : SignalOf(c, accepted[n]) # {}
  <2>1. Kept(n)
    <3>1. failures = 0 BY <1>1, <1>2
    <3> QED BY <1>1, <3>1 DEF AllKept
  <2>2. PICK a \in Nat : a = Len(accepted) /\ DOMAIN accepted = 1 .. a BY <1>1 DEF IntakeTypeOK
  <2>3. PICK b \in Nat : b = Len(queue) /\ DOMAIN queue = 1 .. b BY <1>1 DEF IntakeTypeOK
  <2>4. n \in 1 .. a BY <2>2
  <2>5. CASE Behind(n)
    <3>1. PICK m \in 1 .. n : accepted[m] \in Malformed BY <2>5 DEF Behind
    <3>2. m = n \/ m \in 1 .. n - 1 BY <2>2, <2>4
    <3> QED BY <3>1, <3>2
  <2>6. CASE n > a - b
    <3>1. b <= a /\ \A k \in 1 .. b : queue[k] = accepted[(a - b) + k]
      BY <1>1, <2>2, <2>3 DEF QueueIsTail
    <3>2. n - (a - b) \in 1 .. b /\ (a - b) + (n - (a - b)) = n
      BY ONLY <2>2, <2>3, <2>4, <2>6, <3>1
    <3>3. PICK k \in 1 .. b : (a - b) + k = n BY ONLY <3>2
    <3>4. queue[k] = accepted[(a - b) + k] BY <3>1, <3>3
    <3>5. queue[k] = accepted[n] /\ k \in DOMAIN queue BY <2>3, <3>3, <3>4
    <3> QED BY <3>5
  <2>7. CASE \E p \in Poll : Held(p, n)
    <3>1. PICK p \in Poll : Held(p, n) BY <2>7
    <3>2. PICK d \in 0 .. n - 1 :
            /\ run[p].pc = "emit" /\ n - d \in DOMAIN run[p].batch
            /\ \A k \in 1 .. n - d : run[p].batch[k] = accepted[d + k]
      BY <3>1 DEF Held
    <3>3. n - d \in 1 .. n - d /\ d + (n - d) = n BY <2>2, <2>4, <3>2
    <3>4. run[p].batch[n - d] = accepted[n] BY <3>2, <3>3
    <3>5. run[p] # Stopped BY <1>1, <3>2, TakeRuns
    <3> QED BY <3>2, <3>4, <3>5
  <2> QED BY <2>1, <2>2, <2>3, <2>5, <2>6, <2>7 DEF Kept
<1> QED BY <1>2 DEF DeliveryKept

\* What reaches an intake becomes one task of a poll or is judged, unless a fault takes it:
\* poll.go, ingest.go, disposition.go and webhook.go, with overlapping polls and crashes.
THEOREM IntakeAccounts ==
  IntakeSpec => []SignalsAreAccounted
<1>1. TakeInv => SignalsAreAccounted
  BY TakeDeliveryKept DEF TakeInv, SignalsAreAccounted
<1> QED BY <1>1, TakeInvariant, PTL

\* An accepted task has its chain, is in the hands of the poll that starts it, or was cut off
\* by a fault.
THEOREM IntakeDrives ==
  IntakeSpec => []DrivenUnlessCut
<1>1. TakeInv => DrivenUnlessCut
  <2>1. SUFFICES ASSUME TakeInv, NEW t \in DOMAIN tasks, tasks[t].state = "accepted",
                        tasks[t].chain # "running", ~(failures > 0)
                 PROVE  \E p \in Poll : run[p] # Stopped /\ run[p].task = t
    BY DEF DrivenUnlessCut
  <2>2. PICK p \in Poll : run[p].pc \in {"attach", "start"} /\ run[p].task = t
    BY <2>1 DEF TakeInv, Driven
  <2>3. run[p] # Stopped BY <2>1, <2>2, TakeRuns DEF TakeInv
  <2> QED BY <2>2, <2>3
<1> QED BY <1>1, TakeInvariant, PTL

-----------------------------------------------------------------------------
(* Realtime.                                                               *)

USE RealtimeAssumption DEF RealtimeAssumption

\* A subscriber is in the map from its registration to its removal, and a loop only
\* comes to subscribers in the map.
LiveMembers ==
  /\ \A s \in Stream : s \in subs <=> pump[s] \in {"select", "emit", "dereg"}
  /\ \A s \in Stream : owed[s] > 0 => s \in subs

\* The pump of a current subscription stops only because it was ended.
LiveServed ==
  /\ socket => once
  /\ current # None => quit[current] \/ pump[current] \in {"select", "emit"}

\* There is an event for s in the loop, its buffer, its pump or its channel.
LiveCarried(s) ==
  \/ owed[s] > 0 \/ out[s] > 0
  \/ ~quit[s] /\ (buffer[s] > 0 \/ pump[s] = "emit")

\* Something will have the client ask for the feed.
LiveComing ==
  \/ wire > 0 \/ loading > 0
  \/ current # None /\ LiveCarried(current)
  \/ fetch \in {"asked", "error"} \/ (~socket /\ once)

\* With no cause to stay stale, news are on their way to a client that lacks them.
LiveTold ==
  lost = {} => /\ got \/ LiveComing
               /\ shown \/ LiveComing \/ (fetch = "read" /\ got)

LiveInv == RealtimeTypeOK /\ LiveMembers /\ LiveServed /\ LiveTold
-----------------------------------------------------------------------------
\* RealtimeTypeOK in two parts: counters, and all else.
LiveCounts ==
  /\ version \in 0 .. MaxUpdates /\ wire \in Nat /\ loading \in Nat
  /\ owed \in [Stream -> Nat] /\ buffer \in [Stream -> 0 .. Capacity]
  /\ out \in [Stream -> 0 .. Capacity] /\ breaks \in 0 .. MaxBreaks

LiveFlags ==
  /\ listening \in BOOLEAN /\ quit \in [Stream -> BOOLEAN] /\ subs \subseteq Stream
  /\ pump \in [Stream -> {"select", "emit", "dereg", "close", "done"}]
  /\ socket \in BOOLEAN /\ once \in BOOLEAN /\ current \in Stream \cup {None}
  /\ fetch \in {"idle", "asked", "read", "error"}
  /\ got \in BOOLEAN /\ shown \in BOOLEAN
  /\ lost \subseteq {"gap", "load", "absent", "overflow"}

\* They are all of it.
LEMMA LiveTypeParts ==
  (LiveCounts /\ LiveFlags <=> RealtimeTypeOK) /\ (LiveCounts /\ LiveFlags <=> RealtimeTypeOK)'
  BY DEF RealtimeTypeOK, LiveCounts, LiveFlags

\* The types hold at the start.
LEMMA LiveTypeStart ==
  RealtimeInit => RealtimeTypeOK
<1> SUFFICES ASSUME RealtimeInit PROVE LiveCounts /\ LiveFlags BY LiveTypeParts
<1>1. LiveCounts BY DEF RealtimeInit, LiveCounts
<1>2. LiveFlags BY DEF RealtimeInit, LiveFlags
<1> QED BY <1>1, <1>2

\* Every step keeps the counters in their ranges.
LEMMA LiveCountsStep ==
  LiveCounts /\ LiveFlags /\ [RealtimeNext]_realtimeVars => LiveCounts'
<1> SUFFICES ASSUME LiveCounts, LiveFlags, [RealtimeNext]_realtimeVars PROVE LiveCounts' OBVIOUS
<1> USE DEF LiveCounts
<1>1. CASE Commit BY <1>1 DEF Commit, server
<1>2. CASE Notify BY <1>2 DEF Notify, server
<1>3. CASE LoseListen BY <1>3 DEF LoseListen, Fault, server
<1>4. CASE Dispatch BY <1>4 DEF Dispatch
<1>5. CASE DispatchFails BY <1>5 DEF DispatchFails, Fault, server
<1>6. ASSUME NEW s \in Stream, Send(s) PROVE LiveCounts'
  <2>1. owed' \in [Stream -> Nat] BY <1>6 DEF Send
  <2>2. buffer' \in [Stream -> 0 .. Capacity]
    <3>1. CASE buffer[s] < Capacity BY <1>6, <3>1 DEF Send
    <3>2. CASE ~(buffer[s] < Capacity) BY <1>6, <3>2 DEF Send
    <3> QED BY <3>1, <3>2
  <2>3. UNCHANGED <<version, wire, loading, out, breaks>> BY <1>6 DEF Send, relay
  <2> QED BY <2>1, <2>2, <2>3
<1>7. ASSUME NEW s \in Stream, Subscribe(s) PROVE LiveCounts'
  BY <1>7 DEF Subscribe, relay
<1>8. ASSUME NEW s \in Stream, Take(s) PROVE LiveCounts' BY <1>8 DEF Take, relay
<1>9. ASSUME NEW s \in Stream, TakeFails(s) PROVE LiveCounts'
  BY <1>9 DEF TakeFails, Fault, relay
<1>10. ASSUME NEW s \in Stream, Emit(s) PROVE LiveCounts' BY <1>10 DEF Emit, relay
<1>11. CASE Receive
  <2>1. current \in Stream => out' \in [Stream -> 0 .. Capacity] BY <1>11 DEF Receive
  <2>2. current \in Stream BY <1>11 DEF Receive, LiveFlags
  <2> QED BY <1>11, <2>1, <2>2 DEF Receive, relay
<1>12. ASSUME NEW s \in Stream, Quit(s) \/ Deregister(s) \/ CloseChannels(s)
       PROVE  LiveCounts'
  BY <1>12 DEF Quit, Deregister, CloseChannels, relay
<1>13. CASE Drop \/ FetchFails
  BY <1>13 DEF Drop, FetchFails, Fault, relay, server
<1>14. CASE Reconnect BY <1>14 DEF Reconnect, server
<1>15. CASE \/ Complete \/ Connect \/ Resume \/ ReadFeed \/ ShowFeed
            \/ UNCHANGED realtimeVars
  BY <1>15
     DEF Complete, Connect, Resume, ReadFeed, ShowFeed, relay,
         server, realtimeVars
<1> QED
  BY <1>1, <1>2, <1>3, <1>4, <1>5, <1>6, <1>7, <1>8, <1>9, <1>10, <1>11, <1>12, <1>13, <1>14,
     <1>15 DEF RealtimeNext, DispatcherStep, PumpStep, SubscriptionStep, FeedStep

\* Every step keeps the other types.
LEMMA LiveFlagsStep ==
  LiveFlags /\ [RealtimeNext]_realtimeVars => LiveFlags'
<1> SUFFICES ASSUME LiveFlags, [RealtimeNext]_realtimeVars PROVE LiveFlags' OBVIOUS
<1> USE DEF LiveFlags
<1>1. CASE Commit BY <1>1 DEF Commit, Miss, server, client
<1>2. CASE LoseListen
  BY <1>2 DEF LoseListen, Miss, server, client, firstPage
<1>3. CASE Dispatch BY <1>3 DEF Dispatch, Miss, client, firstPage
<1>4. CASE DispatchFails
  BY <1>4 DEF DispatchFails, Miss, server, client, firstPage
<1>5. ASSUME NEW s \in Stream, Send(s) PROVE LiveFlags'
  <2>1. quit' \in [Stream -> BOOLEAN] BY <1>5 DEF Send
  <2>2. lost' \subseteq {"gap", "load", "absent", "overflow"} BY <1>5 DEF Send, Miss
  <2>3. UNCHANGED <<listening, subs, pump, client, firstPage>>
    BY <1>5 DEF Send, relay
  <2> QED BY <2>1, <2>2, <2>3 DEF client, firstPage
<1>6. ASSUME NEW s \in Stream, Subscribe(s) PROVE LiveFlags'
  BY <1>6 DEF Subscribe, relay, firstPage
<1>7. ASSUME NEW s \in Stream,
             \/ Take(s) \/ Emit(s) \/ Quit(s) \/ Deregister(s)
             \/ CloseChannels(s)
      PROVE  LiveFlags'
  <2>1. /\ pump' \in [Stream -> {"select", "emit", "dereg", "close", "done"}]
        /\ subs' \subseteq Stream
    <3>1. CASE Take(s) \/ Emit(s) BY <3>1 DEF Take, Emit
    <3>2. CASE Quit(s) BY <3>2 DEF Quit
    <3>3. CASE Deregister(s) \/ CloseChannels(s) BY <3>3 DEF Deregister, CloseChannels
    <3> QED BY <1>7, <3>1, <3>2, <3>3
  <2>2. UNCHANGED <<listening, quit, client, firstPage, lost>>
    BY <1>7 DEF Take, Emit, Quit, Deregister, CloseChannels, relay
  <2> QED BY <2>1, <2>2 DEF client, firstPage
<1>8. ASSUME NEW s \in Stream, TakeFails(s) PROVE LiveFlags'
  BY <1>8 DEF TakeFails, Miss, relay, client, firstPage
<1>9. CASE Receive \/ Resume \/ FetchFails
  BY <1>9 DEF Receive, Resume, FetchFails, relay, server, client
<1>10. CASE ReadFeed \/ ShowFeed
  BY <1>10 DEF ReadFeed, ShowFeed, relay, server, client
<1>11. CASE Complete \/ Drop
  BY <1>11 DEF Complete, Drop, relay, server, firstPage
<1>12. CASE Connect BY <1>12 DEF Connect, relay, server
<1>13. CASE Notify \/ Reconnect
  BY <1>13 DEF Notify, Reconnect, server, client, firstPage
<1>14. CASE UNCHANGED realtimeVars
  BY <1>14 DEF realtimeVars, relay, server, client, firstPage
<1> QED
  BY <1>1, <1>2, <1>3, <1>4, <1>5, <1>6, <1>7, <1>8, <1>9, <1>10, <1>11, <1>12, <1>13, <1>14
     DEF RealtimeNext, DispatcherStep, PumpStep, SubscriptionStep, FeedStep

\* Every step keeps the types.
LEMMA LiveTypeStep ==
  RealtimeTypeOK /\ [RealtimeNext]_realtimeVars => RealtimeTypeOK'
  BY LiveTypeParts, LiveCountsStep, LiveFlagsStep

\* The map follows the pumps.
LEMMA LiveMembersStep ==
  RealtimeTypeOK /\ LiveMembers /\ [RealtimeNext]_realtimeVars => LiveMembers'
<1> SUFFICES ASSUME RealtimeTypeOK, LiveMembers, [RealtimeNext]_realtimeVars
             PROVE  LiveMembers'
  OBVIOUS
<1> USE DEF RealtimeTypeOK, LiveMembers
<1>1. CASE UNCHANGED <<owed, subs, pump>> BY <1>1
<1>2. CASE Dispatch BY <1>2 DEF Dispatch
<1>3. ASSUME NEW s \in Stream, Send(s) PROVE LiveMembers' BY <1>3 DEF Send
<1>4. ASSUME NEW s \in Stream, Subscribe(s) PROVE LiveMembers' BY <1>4 DEF Subscribe
<1>5. ASSUME NEW s \in Stream, Take(s) \/ Emit(s) \/ Quit(s) \/ CloseChannels(s)
      PROVE  LiveMembers'
  BY <1>5 DEF Take, Emit, Quit, CloseChannels
<1>6. ASSUME NEW s \in Stream, Deregister(s) PROVE LiveMembers'
  BY <1>6 DEF Deregister, ReadLocked
<1>7. ASSUME \/ Commit \/ Notify \/ LoseListen \/ Reconnect
             \/ DispatchFails
             \/ \E s \in Stream : TakeFails(s)
      PROVE  UNCHANGED <<owed, subs, pump>>
  BY <1>7
     DEF Commit, Notify, LoseListen, Reconnect, DispatchFails,
         TakeFails, server
<1>8. ASSUME \/ Receive \/ Complete \/ Drop \/ Connect \/ Resume
             \/ ReadFeed \/ ShowFeed \/ FetchFails \/ UNCHANGED realtimeVars
      PROVE  UNCHANGED <<owed, subs, pump>>
  BY <1>8
     DEF Receive, Complete, Drop, Connect, Resume, ReadFeed,
         ShowFeed, FetchFails, server, realtimeVars
<1> QED
  BY <1>1, <1>2, <1>3, <1>4, <1>5, <1>6, <1>7, <1>8
     DEF RealtimeNext, DispatcherStep, PumpStep, SubscriptionStep, FeedStep

\* A current subscription is served until it is ended.
LEMMA LiveServedStep ==
  RealtimeTypeOK /\ LiveServed /\ [RealtimeNext]_realtimeVars => LiveServed'
<1> SUFFICES ASSUME RealtimeTypeOK, LiveServed, [RealtimeNext]_realtimeVars
             PROVE  LiveServed'
  OBVIOUS
<1> USE DEF RealtimeTypeOK, LiveServed
<1>1. CASE UNCHANGED <<socket, once, current, quit, pump>> BY <1>1
<1>2. ASSUME NEW s \in Stream, Send(s) PROVE LiveServed'
  BY <1>2 DEF Send, client
<1>3. ASSUME NEW s \in Stream, Subscribe(s) PROVE LiveServed' BY <1>3 DEF Subscribe
<1>4. ASSUME NEW s \in Stream, Take(s) \/ Emit(s) PROVE LiveServed'
  BY <1>4 DEF Take, Emit, client
<1>5. ASSUME NEW s \in Stream, Quit(s) PROVE LiveServed'
  BY <1>5 DEF Quit, Cancelled, client
<1>6. ASSUME NEW s \in Stream, Deregister(s) \/ CloseChannels(s) PROVE LiveServed'
  BY <1>6 DEF Deregister, CloseChannels, client
<1>7. CASE Complete \/ Drop \/ Connect
  BY <1>7 DEF Complete, Drop, Connect, server
<1>8. ASSUME \/ Commit \/ Notify \/ LoseListen \/ Reconnect
             \/ Dispatch \/ DispatchFails
             \/ \E s \in Stream : TakeFails(s)
      PROVE  UNCHANGED <<socket, once, current, quit, pump>>
  BY <1>8
     DEF Commit, Notify, LoseListen, Reconnect, Dispatch,
         DispatchFails, TakeFails, server, client
<1>9. ASSUME \/ Receive \/ Resume \/ ReadFeed \/ ShowFeed
             \/ FetchFails \/ UNCHANGED realtimeVars
      PROVE  UNCHANGED <<socket, once, current, quit, pump>>
  BY <1>9
     DEF Receive, Resume, ReadFeed, ShowFeed, FetchFails, server,
         client, realtimeVars
<1> QED
  BY <1>1, <1>2, <1>3, <1>4, <1>5, <1>6, <1>7, <1>8, <1>9
     DEF RealtimeNext, DispatcherStep, PumpStep, SubscriptionStep, FeedStep

\* What stays on its way stays so, if nothing is done about it.
LEMMA LiveStays ==
  ASSUME LiveTold, lost' = lost \/ lost' # {},
         LiveComing => LiveComing' \/ lost' # {},
         UNCHANGED <<got, shown>>, fetch' = fetch \/ LiveComing'
  PROVE  LiveTold'
  BY DEF LiveTold

\* News are not lost without a cause.
LEMMA LiveToldStep ==
  LiveInv /\ [RealtimeNext]_realtimeVars => LiveTold'
<1> SUFFICES ASSUME LiveInv, [RealtimeNext]_realtimeVars PROVE LiveTold' OBVIOUS
<1>0. RealtimeTypeOK /\ LiveMembers /\ LiveServed /\ LiveTold BY DEF LiveInv
<1>1. CASE Commit
  <2>1. CASE listening
    <3>1. LiveComing' BY <1>0, <1>1, <2>1 DEF Commit, LiveComing, RealtimeTypeOK
    <3> QED BY <3>1 DEF LiveTold
  <2>2. CASE ~listening BY <1>1, <2>2 DEF Commit, Miss, LiveTold
  <2> QED BY <2>1, <2>2
<1>2. CASE Notify
  <2>1. LiveComing' BY <1>0, <1>2 DEF Notify, LiveComing, RealtimeTypeOK
  <2> QED BY <2>1 DEF LiveTold
<1>3. CASE LoseListen
  <2>1. CASE wire > 0 BY <1>3, <2>1 DEF LoseListen, Miss, LiveTold
  <2>2. CASE ~(wire > 0)
    <3>1. LiveComing => LiveComing'
      BY <1>3, <2>2
         DEF LoseListen, LiveComing, LiveCarried, server, client, firstPage
    <3> QED BY <1>0, <1>3, <2>2, <3>1, LiveStays DEF LoseListen, firstPage
  <2> QED BY <2>1, <2>2
<1>4. CASE Dispatch
  <2>1. CASE current \in subs
    <3>1. owed'[current] > 0 BY <1>0, <1>4, <2>1 DEF Dispatch, RealtimeTypeOK
    <3>2. current # None BY <1>0, <2>1 DEF RealtimeTypeOK
    <3>3. LiveComing' BY <1>4, <3>1, <3>2 DEF Dispatch, LiveComing, LiveCarried, client
    <3> QED BY <3>3 DEF LiveTold
  <2>2. CASE current \notin subs BY <1>4, <2>2 DEF Dispatch, Miss, LiveTold
  <2> QED BY <2>1, <2>2
<1>5. CASE DispatchFails BY <1>5 DEF DispatchFails, Miss, LiveTold
<1>6. ASSUME NEW s \in Stream, TakeFails(s) PROVE LiveTold'
  BY <1>6 DEF TakeFails, Miss, LiveTold
<1>7. ASSUME NEW s \in Stream, Send(s) PROVE LiveTold'
  <2>1. CASE quit'[s] BY <1>7, <2>1 DEF Send, Miss, LiveTold
  <2>2. CASE ~quit'[s]
    <3>1. buffer[s] < Capacity BY <1>0, <1>7, <2>2 DEF Send, RealtimeTypeOK
    <3>2. buffer' = [buffer EXCEPT ![s] = @ + 1] /\ quit' = quit BY <1>7, <3>1 DEF Send
    <3>3. CASE s = current
      <4>1. buffer'[s] > 0 BY <1>0, <3>2 DEF RealtimeTypeOK
      <4>2. current # None BY <3>3, <1>7
      <4>3. LiveComing'
        BY <1>7, <2>2, <3>3, <4>1, <4>2 DEF Send, LiveComing, LiveCarried, client
      <4> QED BY <4>3 DEF LiveTold
    <3>4. CASE s # current
      <4>1. current # None => owed'[current] = owed[current] /\ buffer'[current] = buffer[current]
        BY <1>0, <1>7, <3>2, <3>4 DEF Send, RealtimeTypeOK
      <4>2. LiveComing => LiveComing'
        BY <1>7, <3>2, <4>1
           DEF Send, LiveComing, LiveCarried, relay, client, firstPage
      <4>3. lost' = lost BY <1>7, <2>2 DEF Send
      <4> QED BY <1>0, <1>7, <4>2, <4>3, LiveStays DEF Send, firstPage
    <3> QED BY <3>3, <3>4
  <2> QED BY <2>1, <2>2
<1>8. ASSUME NEW s \in Stream, Subscribe(s) PROVE LiveTold'
  <2>1. LiveComing => LiveComing' BY <1>8 DEF Subscribe, LiveComing, relay, firstPage
  <2> QED BY <1>0, <1>8, <2>1, LiveStays DEF Subscribe, firstPage
<1>9. ASSUME NEW s \in Stream, Take(s) PROVE LiveTold'
  <2>1. LiveCarried(current) /\ current # None => LiveCarried(current)'
    BY <1>0, <1>9 DEF Take, LiveCarried, RealtimeTypeOK, client
  <2>2. LiveComing => LiveComing'
    BY <1>9, <2>1 DEF Take, LiveComing, relay, client, firstPage
  <2> QED BY <1>0, <1>9, <2>2, LiveStays DEF Take, firstPage
<1>10. ASSUME NEW s \in Stream, Emit(s) PROVE LiveTold'
  <2>1. LiveCarried(current) /\ current # None => LiveCarried(current)'
    BY <1>0, <1>10 DEF Emit, LiveCarried, RealtimeTypeOK, client
  <2>2. LiveComing => LiveComing'
    BY <1>10, <2>1 DEF Emit, LiveComing, relay, client, firstPage
  <2> QED BY <1>0, <1>10, <2>2, LiveStays DEF Emit, firstPage
<1>11. ASSUME NEW s \in Stream, Quit(s) PROVE LiveTold'
  <2>1. LiveCarried(current) /\ current # None => LiveCarried(current)'
    BY <1>0, <1>11 DEF Quit, Cancelled, LiveCarried, RealtimeTypeOK, client
  <2>2. LiveComing => LiveComing'
    BY <1>11, <2>1 DEF Quit, LiveComing, relay, client, firstPage
  <2> QED BY <1>0, <1>11, <2>2, LiveStays DEF Quit, firstPage
<1>12. ASSUME NEW s \in Stream, Deregister(s) \/ CloseChannels(s) PROVE LiveTold'
  <2>1. LiveCarried(current) /\ current # None => LiveCarried(current)'
    BY <1>0, <1>12 DEF Deregister, CloseChannels, LiveCarried, RealtimeTypeOK, client
  <2>2. LiveComing => LiveComing'
    BY <1>12, <2>1 DEF Deregister, CloseChannels, LiveComing, relay, client, firstPage
  <2> QED BY <1>0, <1>12, <2>2, LiveStays DEF Deregister, CloseChannels, firstPage
<1>13. CASE Receive \/ FetchFails
  <2>1. LiveComing' BY <1>13 DEF Receive, FetchFails, LiveComing
  <2> QED BY <2>1 DEF LiveTold
<1>14. CASE Complete
  <2>1. current \in Stream /\ current \notin subs
    BY <1>0, <1>14 DEF Complete, RealtimeTypeOK, LiveMembers
  <2>2. ~LiveCarried(current)
    BY <1>0, <1>14, <2>1 DEF Complete, LiveCarried, LiveMembers, LiveServed, RealtimeTypeOK
  <2>3. LiveComing => LiveComing'
    BY <1>14, <2>2 DEF Complete, LiveComing, relay, firstPage
  <2> QED BY <1>0, <1>14, <2>3, LiveStays DEF Complete, firstPage
<1>15. CASE Drop
  <2>1. LiveComing' BY <1>0, <1>15 DEF Drop, LiveServed, LiveComing
  <2> QED BY <2>1 DEF LiveTold
<1>16. CASE Connect
  <2>1. CASE once
    <3>1. LiveComing' BY <1>16, <2>1 DEF Connect, LiveComing
    <3> QED BY <3>1 DEF LiveTold
  <2>2. CASE ~once
    <3>1. LiveComing => LiveComing'
      BY <1>16, <2>2 DEF Connect, LiveComing, LiveCarried, relay, server
    <3> QED BY <1>0, <1>16, <2>2, <3>1, LiveStays DEF Connect
  <2> QED BY <2>1, <2>2
<1>17. CASE Resume
  <2>1. LiveComing' BY <1>17 DEF Resume, LiveComing
  <2> QED BY <2>1 DEF LiveTold
<1>18. CASE ReadFeed BY <1>18 DEF ReadFeed, LiveTold
<1>19. CASE ShowFeed
  <2>1. LiveComing => LiveComing'
    BY <1>19 DEF ShowFeed, LiveComing, LiveCarried, relay, server, client
  <2> QED BY <1>0, <1>19, <2>1 DEF ShowFeed, LiveTold
<1>20. CASE Reconnect \/ UNCHANGED realtimeVars
  <2>1. UNCHANGED <<wire, loading, server, client, firstPage, lost>>
    BY <1>20 DEF Reconnect, realtimeVars, relay
  <2>2. LiveComing => LiveComing'
    BY <2>1 DEF LiveComing, LiveCarried, server, client, firstPage
  <2> QED BY <1>0, <2>1, <2>2, LiveStays DEF firstPage
<1> QED
  BY <1>1, <1>2, <1>3, <1>4, <1>5, <1>6, <1>7, <1>8, <1>9, <1>10, <1>11, <1>12, <1>13, <1>14,
     <1>15, <1>16, <1>17, <1>18, <1>19, <1>20
     DEF RealtimeNext, DispatcherStep, PumpStep, SubscriptionStep, FeedStep
-----------------------------------------------------------------------------
\* The invariant holds for ever.
LEMMA LiveInvariant ==
  RealtimeSpec => []LiveInv
<1>1. RealtimeInit => LiveInv
  <2> SUFFICES ASSUME RealtimeInit PROVE LiveInv OBVIOUS
  <2>1. RealtimeTypeOK BY LiveTypeStart
  <2>2. LiveMembers BY DEF RealtimeInit, LiveMembers
  <2>3. LiveServed BY DEF RealtimeInit, LiveServed
  <2>4. LiveTold BY DEF RealtimeInit, LiveTold, LiveComing
  <2> QED BY <2>1, <2>2, <2>3, <2>4 DEF LiveInv
<1>2. LiveInv /\ [RealtimeNext]_realtimeVars => LiveInv'
  BY LiveTypeStep, LiveMembersStep, LiveServedStep, LiveToldStep DEF LiveInv
<1> QED BY <1>1, <1>2, PTL DEF RealtimeSpec

\* Every reachable state of the push is well typed: no buffer beyond its capacity.
THEOREM RealtimeTypes ==
  RealtimeSpec => []RealtimeTypeOK
<1>1. LiveInv => RealtimeTypeOK BY DEF LiveInv
<1> QED BY <1>1, LiveInvariant, PTL

\* No goroutine ever sends on a channel that has been closed: who is in a dispatch loop is
\* in the map, and who is in the map has not been closed (dispatcher.go, Register).
THEOREM NeverSendsOnClosed ==
  RealtimeSpec => []NoSendOnClosed
<1>1. LiveInv => NoSendOnClosed BY DEF LiveInv, LiveMembers, NoSendOnClosed
<1> QED BY <1>1, LiveInvariant, PTL

\* A client at rest that shows an old feed has missed a change for one of the four causes.
THEOREM StaleOnlyForACause ==
  RealtimeSpec => []StaleIsExplained
<1>1. LiveInv => StaleIsExplained
  <2> SUFFICES ASSUME LiveInv, AtRest, lost = {} PROVE shown BY DEF StaleIsExplained
  <2>1. current \in Stream BY DEF LiveInv, RealtimeTypeOK, AtRest
  <2>2. owed[current] = 0 BY <2>1 DEF LiveInv, RealtimeTypeOK, AtRest, ReadLocked
  <2>3. ~LiveComing BY <2>2 DEF AtRest, LiveComing, LiveCarried
  <2> QED BY <2>3 DEF LiveInv, LiveTold, AtRest
<1> QED BY <1>1, LiveInvariant, PTL
=============================================================================
