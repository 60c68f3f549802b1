-------------------------- MODULE CalibrationProofs --------------------------
(***************************************************************************)
(* Proofs about Calibration, for any tools, routines, proposals, numbers   *)
(* of transactions, requests and sweeps, and any setting of the knobs.     *)
(* Inv is inductive: TxShape says what a demoting transaction has seen and *)
(* still has to withdraw, the lock parts that no two of them, nor a        *)
(* transaction and an answer, hold the same row, OwnerShape that a         *)
(* resolution under way keeps its proposal open.                           *)
(***************************************************************************)
EXTENDS Calibration, SequenceTheorems, WellFoundedInduction, TLAPS

USE KnobAssumption, BoundAssumption
-----------------------------------------------------------------------------
(* The invariant. *)

\* A proposal that was made names a routine.
OfferShape == \A p \in Proposal : status[p] # "none" => offer[p].routine \in Routine

\* The outcome a transaction adds is bad and about the routine and a tool it demotes.
AddOf(x) ==
  tx[x].add # <<>> =>
    /\ Len(tx[x].add) = 1
    /\ tx[x].add[1].routine = tx[x].fp
    /\ tx[x].add[1].tool \in tx[x].todo \cup tx[x].done

\* What is or was to be withdrawn was proposed for a locked tool, and nobody has accepted
\* it; what is open of a locked tool is to be withdrawn, or came in after the lock.
ListOf(x) ==
  /\ \A p \in tx[x].open \cup tx[x].gone : status[p] # "none" /\ ToolOfProposal(p) \in tx[x].done
  /\ \A p \in tx[x].open : status[p] \in {"open", "declined"}
  /\ \A p \in Proposal : status[p] = "open" /\ ToolOfProposal(p) \in tx[x].done =>
       offer[p].raced \/ p \in tx[x].open \cup tx[x].gone

TxShape == \A x \in Tx : Active(x) => AddOf(x) /\ ListOf(x)

\* A tool's row is locked by one transaction.
ToolLocks == \A x, y \in Tx, t \in Tool : HoldsTool(x, t) /\ HoldsTool(y, t) => x = y

\* A proposal's row is resolved by one request, and not while it is withdrawn.
RowLocks ==
  /\ \A o \in Owner, x \in Tx, p \in Proposal : ~(HoldsRow(o, p) /\ HoldsRow(x, p))
  /\ \A o, q \in Owner, p \in Proposal : HoldsRow(o, p) /\ HoldsRow(q, p) => o = q

\* An answer is about a proposal that was made; one that is being accepted is open.
OwnerShape ==
  \A o \in Owner :
    /\ owner[o].pc = "resolve" => status[owner[o].proposal] # "none"
    /\ owner[o].pc = "tool" => status[owner[o].proposal] = "open"

\* A sweep that weighs or proposes has a routine in hand.
SweepShape == \A s \in Sweep : sweep[s].pc \in {"weigh", "insert"} => sweep[s].routine \in Routine

Inv ==
  /\ TypeOK /\ OfferShape /\ TxShape /\ ToolLocks /\ RowLocks /\ OwnerShape
  /\ SweepShape /\ GrantIsEarned /\ WithdrawnUnlessRaced /\ AnnouncedUnlessCut
-----------------------------------------------------------------------------
(* Types. *)

\* Which pc a transaction, a request or a sweep is at says what else it carries.
LEMMA Records ==
  ASSUME TypeOK
  PROVE  /\ \A x \in Tx : Active(x) => tx[x] \in Demoting
         /\ \A o \in Owner : owner[o].pc \in {"resolve", "tool"} => owner[o] \in Answering
         /\ \A s \in Sweep : sweep[s] # Rest => sweep[s] \in Sweeping
         /\ \A s \in Sweep :
              sweep[s].pc \in {"grant", "weigh", "insert", "announce"} => sweep[s] \in Sweeping
  BY DEF TypeOK, Active, Rest

\* Of the outcomes a tool had under a task there is a latest, when there are any.
LEMMA LatestIsOne ==
  ASSUME NEW n \in Nat, NEW I \in SUBSET (1 .. n), I # {}
  PROVE  Latest(I) \in I
  <1> DEFINE Back == {n - i : i \in I}
  <1>1. Back \subseteq Nat /\ Back # {}
    <2>1. \A i \in I : n - i \in Nat OBVIOUS
    <2> QED BY <2>1
  <1>2. PICK b \in Back : \A c \in Back : <<c, b>> \notin OpToRel(<, Nat)
    BY <1>1, NatLessThanWellFounded, WFMin, Zenon
  <1>3. \A c \in Back : ~(c < b) BY <1>1, <1>2 DEF OpToRel
  <1>4. PICK i \in I : b = n - i OBVIOUS
  <1>5. \A j \in I : j <= i
    <2> SUFFICES ASSUME NEW j \in I, j > i PROVE FALSE BY SMT
    <2>1. n - j \in Back OBVIOUS
    <2>2. n - j < b BY <1>4
    <2> QED BY <1>3, <2>1, <2>2
  <1> QED BY <1>5 DEF Latest

\* The routine of the latest outcome, as FlagBad reads it, is one or unknown.
LEMMA FlagType ==
  ASSUME TypeOK, NEW t \in Tool, NEW k \in Task
  PROVE  \/ Under(t, k) = {}
         \/ /\ Latest(Under(t, k)) \in DOMAIN outcomes
            /\ outcomes[Latest(Under(t, k))] \in Entry
            /\ Latest(Under(t, k)) \in Nat
  <1> SUFFICES ASSUME Under(t, k) # {}
               PROVE  /\ Latest(Under(t, k)) \in DOMAIN outcomes
                      /\ outcomes[Latest(Under(t, k))] \in Entry
                      /\ Latest(Under(t, k)) \in Nat
    OBVIOUS
  <1>1. Len(outcomes) \in Nat /\ DOMAIN outcomes = 1 .. Len(outcomes) BY DEF TypeOK
  <1>2. Under(t, k) \in SUBSET (1 .. Len(outcomes)) BY <1>1 DEF Under
  <1>3. Latest(Under(t, k)) \in Under(t, k) BY <1>1, <1>2, LatestIsOne
  <1>4. Latest(Under(t, k)) \in DOMAIN outcomes BY <1>1, <1>2, <1>3
  <1> QED BY <1>1, <1>4 DEF TypeOK

\* Scores stay in their range, whichever way they move.
LEMMA ScoreMoves ==
  ASSUME NEW s \in Baseline .. 100
  PROVE  /\ PromoteTo(s) \in Baseline .. 100 /\ Demote(s) \in Baseline .. 100
         /\ Demote(s) <= s /\ s <= PromoteTo(s)
         /\ Band(Demote(s)) = "execute_auto" => Band(s) = "execute_auto"
  BY DEF Baseline, AutoThreshold, PromoteTo, Demote, Band

\* What a step does to a transaction is of its type.
LEMMA BeginType ==
  ASSUME TypeOK, NEW x \in Tx, NEW e \in Seq(Entry), NEW fp \in Routine \cup {Unknown},
         NEW T \in SUBSET Tool, Begin(x, e, fp, T), verdicts' \in Nat
  PROVE  TypeOK'
  <1>1. [pc |-> "demote", add |-> e, fp |-> fp, todo |-> T, done |-> {}, open |-> {},
         gone |-> {}] \in Demoting
    BY DEF Demoting
  <1>2. tx' \in [Tx -> Demoting \cup {Rest}] BY <1>1 DEF TypeOK, Begin
  <1> QED BY <1>2 DEF TypeOK, Begin, tables

\* Outcomes are recorded with the right types.
LEMMA OutcomeType ==
  ASSUME TypeOK, NEW k \in Task, NEW r \in Routine,
         RecordOutcome(r, k) \/ \E x \in Tx : RecordBad(x, r, k)
  PROVE  TypeOK'
  <1>1. ToolOf[r] \in Tool BY RoutineAssumption
  <1>2. ASSUME RecordOutcome(r, k) PROVE TypeOK'
    <2>1. PICK kind \in {"clean", "denied_by_script"} :
           outcomes' = Append(outcomes, [tool |-> ToolOf[r], task |-> k, kind |-> kind,
                         vetoes |-> 0, routine |-> IF kind = "clean" THEN r ELSE Unknown])
      BY <1>2 DEF RecordOutcome
    <2> DEFINE e == [tool |-> ToolOf[r], task |-> k, kind |-> kind, vetoes |-> 0,
                     routine |-> IF kind = "clean" THEN r ELSE Unknown]
    <2>2. e \in Entry BY <1>1 DEF Entry, OutcomeKind
    <2>3. outcomes \in Seq(Entry) /\ outcomes' = Append(outcomes, e) BY <2>1 DEF TypeOK
    <2> HIDE DEF e
    <2>4. outcomes' \in Seq(Entry) /\ Len(outcomes') = Len(outcomes) + 1 BY <2>2, <2>3
    <2>5. ripe' \in 0 .. Len(outcomes') BY <1>2, <2>3, <2>4 DEF TypeOK, RecordOutcome
    <2> QED BY <1>2, <2>4, <2>5 DEF TypeOK, RecordOutcome, Pass
  <1>3. ASSUME NEW x \in Tx, RecordBad(x, r, k) PROVE TypeOK'
    <2> DEFINE e == [tool |-> ToolOf[r], task |-> k, routine |-> r, kind |-> "bad",
                     vetoes |-> 0]
    <2>1. e \in Entry BY <1>1 DEF Entry, OutcomeKind
    <2>2. Begin(x, <<e>>, r, {ToolOf[r]}) /\ verdicts' \in Nat
      BY <1>3 DEF RecordBad, TypeOK
    <2> HIDE DEF e
    <2>3. <<e>> \in Seq(Entry) BY <2>1
    <2>4. {ToolOf[r]} \in SUBSET Tool BY <1>1
    <2> QED BY <2>2, <2>3, <2>4, BeginType
  <1> QED BY <1>2, <1>3

\* Verdicts on a task and flags as well.
LEMMA VerdictType ==
  ASSUME TypeOK, NEW x \in Tx, NEW k \in Task,
         DemoteForTask(x, k) \/ \E t \in Tool : FlagBad(x, t, k)
  PROVE  TypeOK'
  <1>1. ASSUME DemoteForTask(x, k) PROVE TypeOK'
    <2>1. Begin(x, <<>>, Unknown, ToolsActed(k)) /\ verdicts' \in Nat
      BY <1>1 DEF DemoteForTask, TypeOK
    <2>2. ToolsActed(k) \in SUBSET Tool BY DEF ToolsActed
    <2>3. <<>> \in Seq(Entry) OBVIOUS
    <2> QED BY <2>1, <2>2, <2>3, BeginType
  <1>2. ASSUME NEW t \in Tool, FlagBad(x, t, k) PROVE TypeOK'
    <2> DEFINE I == Under(t, k)
               fp == IF I = {} THEN Unknown ELSE outcomes[Latest(I)].routine
               v == IF I # {} /\ Latest(I) > ripe THEN Latest(I) ELSE 0
               e == [tool |-> t, task |-> k, routine |-> fp, kind |-> "bad", vetoes |-> v]
    <2>1. Begin(x, <<e>>, fp, {t}) /\ verdicts' \in Nat BY <1>2 DEF FlagBad, TypeOK
    <2>2. fp \in Routine \cup {Unknown} /\ v \in Nat BY FlagType DEF Entry
    <2> HIDE DEF fp, v
    <2>3. e \in Entry BY <2>2 DEF Entry, OutcomeKind
    <2> HIDE DEF e
    <2>4. <<e>> \in Seq(Entry) BY <2>3
    <2>5. {t} \in SUBSET Tool OBVIOUS
    <2> QED BY <2>1, <2>2, <2>4, <2>5, BeginType
  <1> QED BY <1>1, <1>2

\* A transaction locks, withdraws or rolls back.
LEMMA TxType ==
  ASSUME TypeOK, NEW x \in Tx,
         \/ \E t \in Tool : LockTool(x, t)
         \/ \E p \in Proposal : Withdraw(x, p)
         \/ AbortTx(x)
  PROVE  TypeOK'
  <1>1. tx' \in [Tx -> Demoting \cup {Rest}]
    <2>1. ASSUME NEW t \in Tool, LockTool(x, t) PROVE tx' \in [Tx -> Demoting \cup {Rest}]
      <3> DEFINE O == {p \in Proposal : status[p] = "open" /\ ToolOfProposal(p) = t
                                                       /\ p \notin tx[x].gone}
      <3>1. tx' = [tx EXCEPT ![x].todo = @ \ {t}, ![x].done = @ \cup {t}, ![x].open = O]
        BY <2>1 DEF LockTool
      <3>2. O \in SUBSET Proposal OBVIOUS
      <3> HIDE DEF O
      <3>3. tx[x] \in Demoting BY <2>1, Records DEF LockTool
      <3>4. tx' = [tx EXCEPT ![x] = [tx[x] EXCEPT !.todo = tx[x].todo \ {t},
                                       !.done = tx[x].done \cup {t}, !.open = O]]
        BY <3>1 DEF TypeOK
      <3>5. [tx[x] EXCEPT !.todo = tx[x].todo \ {t}, !.done = tx[x].done \cup {t}, !.open = O]
              \in Demoting
        BY <3>2, <3>3 DEF Demoting
      <3> QED BY <3>4, <3>5 DEF TypeOK
    <2>2. ASSUME NEW p \in Proposal, Withdraw(x, p) PROVE tx' \in [Tx -> Demoting \cup {Rest}]
      <3> DEFINE R == [tx[x] EXCEPT !.open = tx[x].open \ {p}, !.gone = tx[x].gone \cup {p}]
      <3>1. tx[x] \in Demoting BY <2>2, Records DEF Withdraw
      <3>2. R \in Demoting BY <3>1 DEF Demoting
      <3>3. tx' = [tx EXCEPT ![x] = IF status[p] = "open" THEN R ELSE Rest]
        BY <2>2 DEF Withdraw
      <3> HIDE DEF R
      <3> QED BY <3>2, <3>3 DEF TypeOK
    <2>3. ASSUME AbortTx(x) PROVE tx' \in [Tx -> Demoting \cup {Rest}]
      BY <2>3 DEF TypeOK, AbortTx
    <2> QED BY <2>1, <2>2, <2>3
  <1>2. UNCHANGED <<tables, owner, sweep, verdicts, faults>>
    BY DEF LockTool, Withdraw, AbortTx
  <1> QED BY <1>1, <1>2 DEF TypeOK, tables

\* It commits.
LEMMA CommitType == ASSUME TypeOK, NEW x \in Tx, Commit(x) PROVE TypeOK'
  <1>1. tx[x] \in Demoting BY Records DEF Commit
  <1>2. outcomes' \in Seq(Entry) /\ Len(outcomes') = Len(outcomes) + Len(tx[x].add)
    BY <1>1 DEF Commit, TypeOK, Demoting
  <1>3. ripe' \in 0 .. Len(outcomes')
    <2>1. Len(tx[x].add) \in Nat /\ Len(outcomes) \in Nat BY <1>1 DEF TypeOK, Demoting
    <2> QED BY <1>2, <2>1 DEF TypeOK, Commit
  <1>4. score' \in [Tool -> Baseline .. 100]
    BY ScoreMoves DEF Commit, TypeOK
  <1>5. /\ grant' \in [Routine -> Nat] /\ demotions' \in [Tool -> Nat]
        /\ answered' \in [Proposal -> Nat]
    BY DEF Commit, TypeOK
  <1>6. status' \in [Proposal -> {"none", "open", "accepted", "declined", "withdrawn"}]
    BY DEF Commit, TypeOK
  <1>7. tx' \in [Tx -> Demoting \cup {Rest}] BY DEF Commit, TypeOK
  <1> QED BY <1>2, <1>3, <1>4, <1>5, <1>6, <1>7 DEF Commit, TypeOK

\* An answer keeps the types.
LEMMA AnswerType ==
  ASSUME TypeOK, OwnerShape, OfferShape, NEW o \in Owner,
         OwnerStep(o) \/ \E p \in Proposal : Respond(o, p)
  PROVE  TypeOK'
  <1>1. ASSUME NEW p \in Proposal, Respond(o, p) PROVE TypeOK'
    <2>1. \A accept \in BOOLEAN :
            [pc |-> "resolve", proposal |-> p, accept |-> accept] \in Answering
      BY DEF Answering
    <2>2. owner' \in [Owner -> Answering \cup {Rest}] BY <1>1, <2>1 DEF TypeOK, Respond
    <2> QED BY <1>1, <2>2 DEF TypeOK, Respond, tables
  <1>2. CASE ResolveProposal(o)
    <2>1. owner[o] \in Answering BY <1>2, Records DEF ResolveProposal
    <2>2. [owner[o] EXCEPT !.pc = "tool"] \in Answering BY <2>1 DEF Answering
    <2>3. owner' \in [Owner -> Answering \cup {Rest}] BY <1>2, <2>2 DEF TypeOK, ResolveProposal
    <2>4. /\ status' \in [Proposal -> {"none", "open", "accepted", "declined", "withdrawn"}]
          /\ answered' \in [Proposal -> Nat]
      BY <1>2, <2>1 DEF TypeOK, ResolveProposal, Answering
    <2> QED BY <1>2, <2>3, <2>4 DEF TypeOK, ResolveProposal
  <1>3. CASE Accept(o)
    <2> DEFINE p == owner[o].proposal
               r == offer[p].routine
    <2>1. p \in Proposal BY <1>3, Records DEF Accept, Answering
    <2>2. r \in Routine /\ ToolOf[r] \in Tool
      BY <1>3, <2>1, RoutineAssumption DEF Accept, OwnerShape, OfferShape
    <2>3. owner' \in [Owner -> Answering \cup {Rest}] BY <1>3 DEF TypeOK, Accept
    <2>4. score[ToolOf[r]] \in Baseline .. 100 BY <2>2 DEF TypeOK
    <2>5. PromoteTo(score[ToolOf[r]]) \in Baseline .. 100
      BY <2>4, ScoreMoves
    <2>6. /\ score' \in [Tool -> Baseline .. 100]
          /\ grant' \in [Routine -> Nat] /\ answered' \in [Proposal -> Nat]
          /\ status' \in [Proposal -> {"none", "open", "accepted", "declined", "withdrawn"}]
      <3>1. CASE grant[r] = 0
        <4>1. /\ score' = [score EXCEPT ![ToolOf[r]] = PromoteTo(score[ToolOf[r]])]
              /\ grant' = [grant EXCEPT ![r] = 1 + Len(outcomes)]
              /\ status' = [status EXCEPT ![p] = "accepted"]
              /\ answered' = [answered EXCEPT ![p] = Len(outcomes)]
          BY <1>3, <3>1 DEF Accept, Promote
        <4>2. Len(outcomes) \in Nat /\ 1 + Len(outcomes) \in Nat BY DEF TypeOK
        <4> HIDE DEF p, r
        <4>3. score' \in [Tool -> Baseline .. 100]
          BY <2>5, <4>1 DEF TypeOK
        <4>4. grant' \in [Routine -> Nat] /\ answered' \in [Proposal -> Nat]
          <5>1. grant \in [Routine -> Nat] /\ answered \in [Proposal -> Nat] BY DEF TypeOK
          <5> QED BY ONLY <4>1, <4>2, <5>1, Zenon
        <4>5. status' \in [Proposal -> {"none", "open", "accepted", "declined", "withdrawn"}]
          BY <4>1 DEF TypeOK
        <4> QED BY <4>3, <4>4, <4>5
      <3>2. CASE grant[r] # 0 BY <1>3, <3>2 DEF TypeOK, Accept, Promote
      <3> QED BY <3>1, <3>2
    <2> QED BY <1>3, <2>3, <2>6 DEF TypeOK, Accept
  <1>4. CASE AbortAnswer(o)
    <2>1. owner' \in [Owner -> Answering \cup {Rest}] BY <1>4 DEF TypeOK, AbortAnswer
    <2> QED BY <1>4, <2>1 DEF TypeOK, AbortAnswer, tables
  <1> QED BY <1>1, <1>2, <1>3, <1>4 DEF OwnerStep

\* A sweep keeps the types.
LEMMA SweepType == ASSUME TypeOK, SweepShape, NEW s \in Sweep, SweepStep(s) PROVE TypeOK'
  <1>1. \A T \in SUBSET Routine : Look(s, T) \in Sweeping \cup {Rest}
    BY DEF Look, Sweeping
  <1>2. CASE Scan(s)
    <2>1. Candidates \in SUBSET Routine BY DEF Candidates
    <2>2. sweep' \in [Sweep -> Sweeping \cup {Rest}] BY <1>1, <1>2, <2>1 DEF TypeOK, Scan
    <2> QED BY <1>2, <2>2 DEF TypeOK, Scan, tables
  <1>3. CASE CheckGrant(s)
    <2>1. sweep[s] \in Sweeping BY <1>3, Records DEF CheckGrant
    <2>2. PICK r \in sweep[s].todo :
            sweep' = [sweep EXCEPT ![s] =
              IF grant[r] # 0 THEN Look(s, sweep[s].todo \ {r})
              ELSE [sweep[s] EXCEPT !.pc = "weigh", !.routine = r, !.todo = @ \ {r}]]
      BY <1>3 DEF CheckGrant
    <2>3. [sweep[s] EXCEPT !.pc = "weigh", !.routine = r, !.todo = @ \ {r}] \in Sweeping
      BY <2>1, <2>2 DEF Sweeping
    <2>4. sweep[s].todo \ {r} \in SUBSET Routine BY <2>1 DEF Sweeping
    <2>5. sweep' \in [Sweep -> Sweeping \cup {Rest}] BY <1>1, <2>2, <2>3, <2>4 DEF TypeOK
    <2> QED BY <1>3, <2>5 DEF TypeOK, CheckGrant, tables
  <1>4. CASE Weigh(s)
    <2>1. sweep[s] \in Sweeping BY <1>4, Records DEF Weigh
    <2> DEFINE C == CleanOf(Recent(sweep[s].routine))
    <2>2. C \in SUBSET Nat BY DEF CleanOf, Recent, Matured, TypeOK
    <2>3. [sweep[s] EXCEPT !.pc = "insert", !.counted = C] \in Sweeping
      BY <2>1, <2>2 DEF Sweeping
    <2>4. sweep[s].todo \in SUBSET Routine BY <2>1 DEF Sweeping
    <2>5. sweep' = [sweep EXCEPT ![s] =
            IF Proposable(sweep[s].routine)
            THEN [sweep[s] EXCEPT !.pc = "insert", !.counted = C] ELSE Look(s, sweep[s].todo)]
      BY <1>4 DEF Weigh
    <2> HIDE DEF C
    <2>6. sweep' \in [Sweep -> Sweeping \cup {Rest}] BY <1>1, <2>3, <2>4, <2>5 DEF TypeOK
    <2> QED BY <1>4, <2>6 DEF TypeOK, Weigh, tables
  <1>5. CASE InsertProposal(s)
    <2>1. sweep[s] \in Sweeping /\ sweep[s].routine \in Routine
      BY <1>5, Records DEF InsertProposal, SweepShape
    <2> DEFINE r == sweep[s].routine
               t == ToolOf[r]
    <2>2. PICK p \in Proposal :
            /\ status' = [status EXCEPT ![p] = "open"]
            /\ offer' = [offer EXCEPT ![p] =
                 [routine |-> r, counted |-> sweep[s].counted, epoch |-> demotions[t],
                  raced |-> \E x \in Tx : HoldsTool(x, t)]]
            /\ sweep' = [sweep EXCEPT ![s].pc = "announce", ![s].proposal = {p}]
      BY <1>5 DEF InsertProposal
    <2>3. t \in Tool /\ demotions[t] \in Nat BY <2>1, RoutineAssumption DEF TypeOK
    <2>4. offer' \in [Proposal -> Offer] BY <2>1, <2>2, <2>3 DEF TypeOK, Offer, Sweeping
    <2>5. sweep' = [sweep EXCEPT ![s] = [sweep[s] EXCEPT !.pc = "announce", !.proposal = {p}]]
      BY <2>2 DEF TypeOK
    <2>6. [sweep[s] EXCEPT !.pc = "announce", !.proposal = {p}] \in Sweeping
      BY <2>1 DEF Sweeping
    <2>7. sweep' \in [Sweep -> Sweeping \cup {Rest}] BY <2>5, <2>6 DEF TypeOK
    <2>8. status' \in [Proposal -> {"none", "open", "accepted", "declined", "withdrawn"}]
      BY <2>2 DEF TypeOK
    <2> QED BY <1>5, <2>4, <2>7, <2>8 DEF TypeOK, InsertProposal
  <1>6. CASE Announce(s)
    <2>1. sweep[s] \in Sweeping BY <1>6, Records DEF Announce
    <2>2. sweep[s].todo \in SUBSET Routine /\ sweep[s].proposal \in SUBSET Proposal
      BY <2>1 DEF Sweeping
    <2>3. sweep' \in [Sweep -> Sweeping \cup {Rest}] BY <1>1, <1>6, <2>2 DEF TypeOK, Announce
    <2> QED BY <1>6, <2>2, <2>3 DEF TypeOK, Announce
  <1> QED BY <1>2, <1>3, <1>4, <1>5, <1>6 DEF SweepStep

\* Every step keeps the types.
LEMMA TypeStep == ASSUME TypeOK, OwnerShape, OfferShape, SweepShape, Next PROVE TypeOK'
  <1>1. CASE Mature BY <1>1 DEF Mature, TypeOK, Pass
  <1>2. CASE Fault
    <2>1. /\ tx' \in [Tx -> Demoting \cup {Rest}]
          /\ owner' \in [Owner -> Answering \cup {Rest}]
          /\ sweep' \in [Sweep -> Sweeping \cup {Rest}]
      BY <1>2 DEF Fault, TypeOK
    <2> QED BY <1>2, <2>1 DEF Fault, TypeOK, tables
  <1> QED
    BY <1>1, <1>2, OutcomeType, VerdictType, TxType, CommitType, AnswerType, SweepType
       DEF Next, TxStep

-----------------------------------------------------------------------------
(* Transactions. *)

\* A transaction that has only begun.
Fresh(x) == AddOf(x) /\ tx[x].done = {} /\ tx[x].open = {} /\ tx[x].gone = {}

\* A begin leaves a fresh transaction.
LEMMA BeginFresh ==
  ASSUME TypeOK, NEW x \in Tx, NEW fp, NEW T, NEW e, Begin(x, e, fp, T),
         e = <<>> \/ (Len(e) = 1 /\ e[1].routine = fp /\ e[1].tool \in T)
  PROVE  Fresh(x)' /\ Active(x)' /\ \A y \in Tx \ {x} : tx'[y] = tx[y]
  <1>1. /\ tx'[x] = [pc |-> "demote", add |-> e, fp |-> fp, todo |-> T, done |-> {},
                     open |-> {}, gone |-> {}]
        /\ \A y \in Tx \ {x} : tx'[y] = tx[y]
    BY DEF Begin, TypeOK
  <1> QED BY <1>1 DEF Fresh, AddOf, Active

\* Three kinds of step begin a transaction.
LEMMA Beginnings ==
  ASSUME TypeOK, NEW x \in Tx, NEW k \in Task,
         \/ \E r \in Routine : RecordBad(x, r, k)
         \/ DemoteForTask(x, k)
         \/ \E t \in Tool : FlagBad(x, t, k)
  PROVE  /\ Fresh(x)' /\ \A y \in Tx \ {x} : tx'[y] = tx[y]
         /\ UNCHANGED <<tables, owner, sweep, faults>>
         /\ ~Active(x)
  <1>1. ASSUME NEW r \in Routine, RecordBad(x, r, k)
        PROVE  /\ Fresh(x)' /\ \A y \in Tx \ {x} : tx'[y] = tx[y]
               /\ UNCHANGED <<tables, owner, sweep, faults>> /\ ~Active(x)
    <2> DEFINE e == [tool |-> ToolOf[r], task |-> k, routine |-> r, kind |-> "bad",
                     vetoes |-> 0]
    <2>1. Begin(x, <<e>>, r, {ToolOf[r]}) BY <1>1 DEF RecordBad
    <2>2. Len(<<e>>) = 1 /\ <<e>>[1] = e /\ e.routine = r /\ e.tool = ToolOf[r] OBVIOUS
    <2> HIDE DEF e
    <2>3. Len(<<e>>) = 1 /\ <<e>>[1].routine = r /\ <<e>>[1].tool \in {ToolOf[r]} BY <2>2
    <2> QED BY <2>1, <2>3, BeginFresh DEF Begin
  <1>2. ASSUME DemoteForTask(x, k)
        PROVE  /\ Fresh(x)' /\ \A y \in Tx \ {x} : tx'[y] = tx[y]
               /\ UNCHANGED <<tables, owner, sweep, faults>> /\ ~Active(x)
    <2>1. Begin(x, <<>>, Unknown, ToolsActed(k)) BY <1>2 DEF DemoteForTask
    <2> QED BY <2>1, BeginFresh DEF Begin
  <1>3. ASSUME NEW t \in Tool, FlagBad(x, t, k)
        PROVE  /\ Fresh(x)' /\ \A y \in Tx \ {x} : tx'[y] = tx[y]
               /\ UNCHANGED <<tables, owner, sweep, faults>> /\ ~Active(x)
    <2> DEFINE I == Under(t, k)
               fp == IF I = {} THEN Unknown ELSE outcomes[Latest(I)].routine
               v == IF I # {} /\ Latest(I) > ripe THEN Latest(I) ELSE 0
               e == [tool |-> t, task |-> k, routine |-> fp, kind |-> "bad", vetoes |-> v]
    <2>1. Begin(x, <<e>>, fp, {t}) BY <1>3 DEF FlagBad
    <2> HIDE DEF fp, v
    <2>2. Len(<<e>>) = 1 /\ <<e>>[1] = e /\ e.routine = fp /\ e.tool = t OBVIOUS
    <2> HIDE DEF e
    <2>3. Len(<<e>>) = 1 /\ <<e>>[1].routine = fp /\ <<e>>[1].tool \in {t} BY <2>2
    <2> QED BY <2>1, <2>3, BeginFresh DEF Begin
  <1> QED BY <1>1, <1>2, <1>3

\* What LockTool does to its transaction.
LEMMA Locking ==
  ASSUME TypeOK, NEW x \in Tx, NEW t \in Tool, LockTool(x, t)
  PROVE  /\ Active(x) /\ Active(x)' /\ t \in tx[x].todo /\ tx[x].open = {} /\ FreeTool(x, t)
         /\ tx'[x].add = tx[x].add /\ tx'[x].fp = tx[x].fp /\ tx'[x].gone = tx[x].gone
         /\ tx'[x].todo = tx[x].todo \ {t} /\ tx'[x].done = tx[x].done \cup {t}
         /\ tx'[x].open = {p \in Proposal : status[p] = "open" /\ ToolOfProposal(p) = t
                                                         /\ p \notin tx[x].gone}
         /\ \A y \in Tx \ {x} : tx'[y] = tx[y]
         /\ UNCHANGED <<tables, owner, sweep, verdicts, faults>>
  <1> DEFINE O == {p \in Proposal : status[p] = "open" /\ ToolOfProposal(p) = t
                                                   /\ p \notin tx[x].gone}
  <1>1. tx' = [tx EXCEPT ![x].todo = @ \ {t}, ![x].done = @ \cup {t}, ![x].open = O]
    BY DEF LockTool
  <1> HIDE DEF O
  <1>2. tx[x] \in Demoting BY Records DEF LockTool
  <1>3. tx' = [tx EXCEPT ![x] = [tx[x] EXCEPT !.todo = tx[x].todo \ {t},
                                   !.done = tx[x].done \cup {t}, !.open = O]]
    BY <1>1 DEF TypeOK
  <1>4. /\ tx'[x] = [tx[x] EXCEPT !.todo = tx[x].todo \ {t}, !.done = tx[x].done \cup {t},
                                  !.open = O]
        /\ \A y \in Tx \ {x} : tx'[y] = tx[y]
    BY <1>3 DEF TypeOK
  <1>5. /\ tx'[x].pc = "demote" /\ tx'[x].add = tx[x].add /\ tx'[x].fp = tx[x].fp
        /\ tx'[x].gone = tx[x].gone /\ tx'[x].todo = tx[x].todo \ {t}
        /\ tx'[x].done = tx[x].done \cup {t} /\ tx'[x].open = O
    BY <1>2, <1>4 DEF Demoting
  <1> USE DEF O
  <1> QED BY <1>4, <1>5 DEF LockTool, Active

\* What Withdraw does.
LEMMA Withdrawing ==
  ASSUME TypeOK, NEW x \in Tx, NEW p \in Proposal, Withdraw(x, p)
  PROVE  /\ Active(x) /\ p \in tx[x].open /\ FreeRow(x, p)
         /\ \/ ~Active(x)'
            \/ /\ status[p] = "open" /\ Active(x)'
               /\ tx'[x].add = tx[x].add /\ tx'[x].fp = tx[x].fp
               /\ tx'[x].todo = tx[x].todo /\ tx'[x].done = tx[x].done
               /\ tx'[x].open = tx[x].open \ {p} /\ tx'[x].gone = tx[x].gone \cup {p}
         /\ \A y \in Tx \ {x} : tx'[y] = tx[y]
         /\ UNCHANGED <<tables, owner, sweep, verdicts, faults>>
  <1> DEFINE R == [tx[x] EXCEPT !.open = tx[x].open \ {p}, !.gone = tx[x].gone \cup {p}]
  <1>1. tx' = [tx EXCEPT ![x] = IF status[p] = "open" THEN R ELSE Rest] BY DEF Withdraw
  <1>2. tx[x] \in Demoting BY Records DEF Withdraw
  <1>3. /\ R.pc = "demote" /\ R.add = tx[x].add /\ R.fp = tx[x].fp /\ R.todo = tx[x].todo
        /\ R.done = tx[x].done /\ R.open = tx[x].open \ {p} /\ R.gone = tx[x].gone \cup {p}
    BY <1>2 DEF Demoting
  <1> HIDE DEF R
  <1>4. /\ tx'[x] = (IF status[p] = "open" THEN R ELSE Rest)
        /\ \A y \in Tx \ {x} : tx'[y] = tx[y]
    BY <1>1 DEF TypeOK
  <1>5. CASE status[p] = "open" BY <1>3, <1>4, <1>5 DEF Active, Withdraw
  <1>6. CASE status[p] # "open" BY <1>4, <1>6 DEF Active, Withdraw, Rest
  <1> QED BY <1>5, <1>6

\* The other steps leave the proposals alone; a transaction or an answer they leave alone,
\* roll back or begin.
Aside ==
  /\ status' = status /\ offer' = offer /\ demotions' = demotions
  /\ \A y \in Tx : tx'[y] = tx[y] \/ ~Active(y)' \/ Fresh(y)'
  /\ \A o \in Owner :
       \/ owner'[o] = owner[o] \/ owner'[o] = Rest
       \/ owner'[o].pc = "resolve" /\ status[owner'[o].proposal] = "open"

\* Those are all but locks, withdrawals, commits, resolutions, acceptances and proposals.
LEMMA AsideSteps ==
  ASSUME TypeOK, Next
  PROVE  \/ Aside
         \/ \E x \in Tx : \/ Commit(x) \/ \E t \in Tool : LockTool(x, t)
                          \/ \E p \in Proposal : Withdraw(x, p)
         \/ \E o \in Owner : ResolveProposal(o) \/ Accept(o)
         \/ \E s \in Sweep : InsertProposal(s)
  <1>1. ASSUME NEW k \in Task, NEW r \in Routine, RecordOutcome(r, k) PROVE Aside
    BY <1>1 DEF RecordOutcome, Pass, Aside
  <1>2. CASE Mature BY <1>2 DEF Mature, Pass, Aside
  <1>3. ASSUME NEW k \in Task, NEW x \in Tx,
               \/ \E r \in Routine : RecordBad(x, r, k)
               \/ DemoteForTask(x, k)
               \/ \E t \in Tool : FlagBad(x, t, k)
        PROVE  Aside
    <2>1. /\ Fresh(x)' /\ \A y \in Tx \ {x} : tx'[y] = tx[y]
          /\ UNCHANGED <<tables, owner, sweep, faults>>
      BY <1>3, Beginnings
    <2> QED BY <2>1 DEF Aside, tables
  <1>4. ASSUME NEW x \in Tx, AbortTx(x) PROVE Aside
    <2>1. /\ tx' = [tx EXCEPT ![x] = Rest] /\ status' = status /\ offer' = offer
          /\ owner' = owner /\ demotions' = demotions
      BY <1>4 DEF AbortTx, tables
    <2>2. \A y \in Tx : tx'[y] = tx[y] \/ tx'[y] = Rest BY <2>1 DEF TypeOK
    <2> QED BY <2>1, <2>2 DEF Aside, Active, Rest
  <1>5. CASE Fault
    <2>1. status' = status /\ offer' = offer /\ demotions' = demotions
      BY <1>5 DEF Fault, tables
    <2>2. /\ \A y \in Tx : tx'[y] = tx[y] \/ tx'[y] = Rest
          /\ \A o \in Owner : owner'[o] = owner[o] \/ owner'[o] = Rest
      BY <1>5 DEF Fault, TypeOK
    <2> QED BY <2>1, <2>2 DEF Aside, Active, Rest
  <1>6. ASSUME NEW o \in Owner, AbortAnswer(o) \/ \E p \in Proposal : Respond(o, p) PROVE Aside
    <2>1. status' = status /\ offer' = offer /\ tx' = tx /\ demotions' = demotions
      BY <1>6 DEF AbortAnswer, Respond, tables
    <2>2. \/ owner' = [owner EXCEPT ![o] = Rest]
          \/ \E p \in Proposal, accept \in BOOLEAN :
               /\ status[p] = "open"
               /\ owner' = [owner EXCEPT ![o] =
                              [pc |-> "resolve", proposal |-> p, accept |-> accept]]
      BY <1>6 DEF AbortAnswer, Respond
    <2> QED BY <2>1, <2>2 DEF Aside, TypeOK
  <1>7. ASSUME NEW s \in Sweep, Scan(s) \/ CheckGrant(s) \/ Weigh(s) \/ Announce(s) PROVE Aside
    BY <1>7 DEF Scan, CheckGrant, Weigh, Announce, Aside, tables
  <1> QED BY <1>1, <1>2, <1>3, <1>4, <1>5, <1>6, <1>7 DEF Next, TxStep, OwnerStep, SweepStep

\* Locks on tools, one transaction each, and what each has to withdraw: in every step but
\* a commit, a resolution, an acceptance and a proposal.
LEMMA TxAside ==
  ASSUME TypeOK, TxShape, ToolLocks, Aside
  PROVE  TxShape' /\ ToolLocks'
  <1>1. \A y \in Tx : Active(y)' => (tx'[y] = tx[y] /\ Active(y)) \/ Fresh(y)'
    BY DEF Aside, Active
  <1>2. ASSUME NEW y \in Tx, Active(y)' PROVE AddOf(y)' /\ ListOf(y)'
    <2>1. CASE tx'[y] = tx[y] /\ Active(y)
      <3>1. AddOf(y) /\ ListOf(y) BY <2>1 DEF TxShape
      <3> QED BY <2>1, <3>1 DEF AddOf, ListOf, Aside, ToolOfProposal
    <2>2. CASE Fresh(y)' BY <2>2 DEF Fresh, ListOf
    <2> QED BY <1>1, <1>2, <2>1, <2>2
  <1>3. ToolLocks'
    <2> SUFFICES ASSUME NEW x \in Tx, NEW y \in Tx, NEW t \in Tool,
                        HoldsTool(x, t)', HoldsTool(y, t)'
                 PROVE  x = y
      BY DEF ToolLocks
    <2>1. HoldsTool(x, t) /\ HoldsTool(y, t) BY <1>1 DEF HoldsTool, Fresh, Active
    <2> QED BY <2>1 DEF ToolLocks
  <1> QED BY <1>2, <1>3 DEF TxShape

\* A lock is taken.
LEMMA TxLock ==
  ASSUME TypeOK, TxShape, ToolLocks, NEW x \in Tx, NEW t \in Tool, LockTool(x, t)
  PROVE  TxShape' /\ ToolLocks'
  <1>1. /\ Active(x) /\ Active(x)' /\ t \in tx[x].todo /\ tx[x].open = {} /\ FreeTool(x, t)
        /\ tx'[x].add = tx[x].add /\ tx'[x].fp = tx[x].fp /\ tx'[x].gone = tx[x].gone
        /\ tx'[x].todo = tx[x].todo \ {t} /\ tx'[x].done = tx[x].done \cup {t}
        /\ tx'[x].open = {p \in Proposal : status[p] = "open" /\ ToolOfProposal(p) = t
                                                        /\ p \notin tx[x].gone}
        /\ \A y \in Tx \ {x} : tx'[y] = tx[y]
        /\ UNCHANGED <<tables, owner, sweep, verdicts, faults>>
    BY Locking
  <1>2. /\ status' = status /\ offer' = offer
        /\ \A p : ToolOfProposal(p)' = ToolOfProposal(p)
    BY <1>1 DEF tables, ToolOfProposal
  <1>3. AddOf(x) /\ ListOf(x) BY <1>1 DEF TxShape
  <1>4. AddOf(x)' BY <1>1, <1>3 DEF AddOf
  <1>5. ListOf(x)'
    <2>1. tx[x].gone \in SUBSET Proposal BY <1>1, Records DEF Demoting
    <2>2. \A p \in tx'[x].open \cup tx'[x].gone :
            status'[p] # "none" /\ ToolOfProposal(p)' \in tx'[x].done
      BY <1>1, <1>2, <1>3, <2>1 DEF ListOf
    <2>3. \A p \in tx'[x].open : status'[p] \in {"open", "declined"} BY <1>1, <1>2
    <2>4. ASSUME NEW p \in Proposal, status'[p] = "open", ToolOfProposal(p)' \in tx'[x].done
          PROVE  offer'[p].raced \/ p \in tx'[x].open \cup tx'[x].gone
      <3>1. CASE ToolOfProposal(p) = t BY <1>1, <1>2, <2>4, <3>1
      <3>2. CASE ToolOfProposal(p) # t
        <4>1. ToolOfProposal(p) \in tx[x].done /\ status[p] = "open" BY <1>1, <1>2, <2>4, <3>2
        <4> QED BY <1>1, <1>2, <1>3, <4>1 DEF ListOf
      <3> QED BY <3>1, <3>2
    <2> QED BY <2>2, <2>3, <2>4 DEF ListOf
  <1>6. ASSUME NEW y \in Tx \ {x}, Active(y)' PROVE AddOf(y)' /\ ListOf(y)'
    <2>1. tx'[y] = tx[y] /\ Active(y) BY <1>1, <1>6 DEF Active
    <2>2. AddOf(y) /\ ListOf(y) BY <2>1 DEF TxShape
    <2> QED BY <1>2, <2>1, <2>2 DEF AddOf, ListOf
  <1>7. ToolLocks'
    <2> SUFFICES ASSUME NEW y \in Tx, NEW z \in Tx, NEW u \in Tool,
                        HoldsTool(y, u)', HoldsTool(z, u)'
                 PROVE  y = z
      BY DEF ToolLocks
    <2>1. \A w \in Tx : HoldsTool(w, u)' => HoldsTool(w, u) \/ (w = x /\ u = t)
      BY <1>1 DEF HoldsTool, Active
    <2>2. u = t => \A w \in Tx \ {x} : ~HoldsTool(w, u) BY <1>1 DEF FreeTool
    <2> QED BY <2>1, <2>2 DEF ToolLocks
  <1> QED BY <1>4, <1>5, <1>6, <1>7 DEF TxShape

\* A proposal is withdrawn.
LEMMA TxWithdraw ==
  ASSUME TypeOK, TxShape, ToolLocks, NEW x \in Tx, NEW p \in Proposal, Withdraw(x, p)
  PROVE  TxShape' /\ ToolLocks'
  <1>1. /\ Active(x) /\ p \in tx[x].open /\ FreeRow(x, p)
        /\ \/ ~Active(x)'
           \/ /\ status[p] = "open" /\ Active(x)'
              /\ tx'[x].add = tx[x].add /\ tx'[x].fp = tx[x].fp
              /\ tx'[x].todo = tx[x].todo /\ tx'[x].done = tx[x].done
              /\ tx'[x].open = tx[x].open \ {p} /\ tx'[x].gone = tx[x].gone \cup {p}
        /\ \A y \in Tx \ {x} : tx'[y] = tx[y]
        /\ UNCHANGED <<tables, owner, sweep, verdicts, faults>>
    BY Withdrawing
  <1>2. /\ status' = status /\ offer' = offer
        /\ \A q : ToolOfProposal(q)' = ToolOfProposal(q)
    BY <1>1 DEF tables, ToolOfProposal
  <1>3. AddOf(x) /\ ListOf(x) BY <1>1 DEF TxShape
  <1>4. ASSUME Active(x)' PROVE AddOf(x)' /\ ListOf(x)'
    <2>1. AddOf(x)' BY <1>1, <1>3, <1>4 DEF AddOf
    <2>2. tx'[x].open \cup tx'[x].gone = tx[x].open \cup tx[x].gone
          /\ tx'[x].open \subseteq tx[x].open /\ tx'[x].done = tx[x].done
      BY <1>1, <1>4
    <2>3. ListOf(x)' BY <1>2, <1>3, <2>2 DEF ListOf
    <2> QED BY <2>1, <2>3
  <1>5. ASSUME NEW y \in Tx \ {x}, Active(y)' PROVE AddOf(y)' /\ ListOf(y)'
    <2>1. tx'[y] = tx[y] /\ Active(y) BY <1>1, <1>5 DEF Active
    <2>2. AddOf(y) /\ ListOf(y) BY <2>1 DEF TxShape
    <2> QED BY <1>2, <2>1, <2>2 DEF AddOf, ListOf
  <1>6. \A w \in Tx, u \in Tool : HoldsTool(w, u)' => HoldsTool(w, u)
    BY <1>1 DEF HoldsTool, Active
  <1> QED BY <1>4, <1>5, <1>6 DEF TxShape, ToolLocks

\* A commit: its own transaction is gone, and no other works on the same tools.
LEMMA TxCommit ==
  ASSUME TypeOK, TxShape, ToolLocks, NEW x \in Tx, Commit(x)
  PROVE  TxShape' /\ ToolLocks'
  <1>1. /\ tx'[x] = Rest /\ \A y \in Tx \ {x} : tx'[y] = tx[y]
        /\ status' = [p \in Proposal |-> IF p \in tx[x].gone THEN "withdrawn" ELSE status[p]]
        /\ offer' = offer /\ Active(x)
    BY DEF Commit, TypeOK
  <1>2. \A p : ToolOfProposal(p)' = ToolOfProposal(p) BY <1>1 DEF ToolOfProposal
  <1>3. \A y \in Tx : Active(y)' => y # x /\ tx'[y] = tx[y] /\ Active(y)
    BY <1>1 DEF Active, Rest
  <1>4. ASSUME NEW y \in Tx, Active(y)' PROVE AddOf(y)' /\ ListOf(y)'
    <2>1. /\ y # x /\ tx'[y] = tx[y] /\ Active(y) /\ tx[y] \in Demoting
          /\ tx[x] \in Demoting
      BY <1>1, <1>3, <1>4, Records
    <2>2. AddOf(y) /\ ListOf(y) /\ ListOf(x) BY <1>1, <2>1 DEF TxShape
    <2>3. AddOf(y)' BY <2>1, <2>2 DEF AddOf
    <2>4. \A p \in Proposal :
            ToolOfProposal(p) \in tx[y].done => ToolOfProposal(p) \notin tx[x].done
      <3>1. tx[y].done \subseteq Tool BY <2>1 DEF Demoting
      <3> QED BY <1>1, <2>1, <3>1 DEF ToolLocks, HoldsTool
    <2>5. \A p \in tx[y].open \cup tx[y].gone : p \in Proposal /\ status'[p] = status[p]
      <3>1. tx[y].open \cup tx[y].gone \subseteq Proposal BY <2>1 DEF Demoting
      <3>2. \A p \in tx[y].open \cup tx[y].gone : p \notin tx[x].gone
        BY <2>2, <2>4, <3>1 DEF ListOf
      <3> QED BY <1>1, <3>1, <3>2
    <2>6. \A p \in Proposal : status'[p] = "open" => status[p] = "open" BY <1>1
    <2> QED BY <1>1, <1>2, <2>1, <2>2, <2>3, <2>5, <2>6 DEF ListOf
  <1>5. \A w \in Tx, u \in Tool : HoldsTool(w, u)' => HoldsTool(w, u)
    BY <1>3 DEF HoldsTool
  <1> QED BY <1>4, <1>5 DEF TxShape, ToolLocks

\* A resolution of p: it waits for the tool with its row locked, or is over.
Resolves(o, p) ==
  /\ owner[o].proposal = p /\ owner[o].pc = "resolve" /\ FreeRow(o, p)
  /\ \/ /\ status[p] = "open" /\ status' = status
        /\ owner'[o].pc = "tool" /\ owner'[o].proposal = p
     \/ /\ status' = status \/ (status[p] = "open" /\ status' = [status EXCEPT ![p] = "declined"])
        /\ owner'[o] = Rest
  /\ \A q \in Owner \ {o} : owner'[q] = owner[q]
  /\ UNCHANGED <<outcomes, score, grant, offer, announced, demotions, tx, sweep, faults>>

\* An acceptance of p.
Accepts(o, p) ==
  /\ owner[o].proposal = p /\ owner[o].pc = "tool"
  /\ FreeTool(o, ToolOfProposal(p))
  /\ status' \in {status, [status EXCEPT ![p] = "accepted"]}
  /\ owner'[o] = Rest
  /\ \A q \in Owner \ {o} : owner'[q] = owner[q]
  /\ UNCHANGED <<outcomes, offer, announced, demotions, tx, sweep, faults>>

\* These are the owner's steps, but for their effect on score and grant.
LEMMA Answers ==
  ASSUME TypeOK, NEW o \in Owner
  PROVE  /\ ResolveProposal(o) => \E p \in Proposal : Resolves(o, p)
         /\ Accept(o) => \E p \in Proposal : Accepts(o, p)
  <1>1. ASSUME ResolveProposal(o) PROVE \E p \in Proposal : Resolves(o, p)
    <2>1. owner[o] \in Answering BY <1>1, Records DEF ResolveProposal
    <2>2. PICK p \in Proposal : owner[o].proposal = p BY <2>1 DEF Answering
    <2> DEFINE R == [owner[o] EXCEPT !.pc = "tool"]
    <2>3. R.pc = "tool" /\ R.proposal = p BY <2>1, <2>2 DEF Answering
    <2>4. /\ owner' = [owner EXCEPT ![o] = IF status[p] = "open" /\ owner[o].accept
                                           THEN R ELSE Rest]
          /\ status' = [status EXCEPT ![p] = IF status[p] = "open" /\ ~owner[o].accept
                                             THEN "declined" ELSE @]
          /\ FreeRow(o, p) /\ owner[o].pc = "resolve"
          /\ UNCHANGED <<outcomes, score, grant, offer, announced, demotions, tx, sweep,
                         faults>>
      BY <1>1, <2>2 DEF ResolveProposal
    <2> HIDE DEF R
    <2>5. /\ owner'[o] = (IF status[p] = "open" /\ owner[o].accept THEN R ELSE Rest)
          /\ \A q \in Owner \ {o} : owner'[q] = owner[q]
      BY <2>4 DEF TypeOK
    <2>6. CASE status[p] = "open" /\ owner[o].accept
      <3>1. status' = status BY <2>4, <2>6 DEF TypeOK
      <3> QED BY <2>2, <2>3, <2>4, <2>5, <2>6, <3>1 DEF Resolves
    <2>7. CASE ~(status[p] = "open" /\ owner[o].accept)
      <3>1. status' = status \/ (status[p] = "open" /\ status' = [status EXCEPT ![p] = "declined"])
        BY <2>4, <2>7 DEF TypeOK
      <3> QED BY <2>2, <2>4, <2>5, <2>7, <3>1 DEF Resolves
    <2> QED BY <2>6, <2>7
  <1>2. ASSUME Accept(o) PROVE \E p \in Proposal : Accepts(o, p)
    <2>1. owner[o] \in Answering BY <1>2, Records DEF Accept
    <2>2. PICK p \in Proposal : owner[o].proposal = p BY <2>1 DEF Answering
    <2>3. owner'[o] = Rest /\ \A q \in Owner \ {o} : owner'[q] = owner[q]
      BY <1>2 DEF Accept, TypeOK
    <2>4. status' \in {status, [status EXCEPT ![p] = "accepted"]}
      BY <1>2, <2>2 DEF Accept, Promote
    <2> QED BY <1>2, <2>2, <2>3, <2>4 DEF Accept, Accepts
  <1> QED BY <1>1, <1>2

\* A proposal that sweep s makes.
Proposes(s, p) ==
  /\ sweep[s].pc = "insert" /\ status[p] = "none"
  /\ status' = [status EXCEPT ![p] = "open"]
  /\ offer'[p].routine = sweep[s].routine
  /\ offer'[p].epoch = demotions[ToolOf[sweep[s].routine]]
  /\ offer'[p].raced = (\E x \in Tx : HoldsTool(x, ToolOf[sweep[s].routine]))
  /\ \A q \in Proposal \ {p} : offer'[q] = offer[q]
  /\ sweep'[s].pc = "announce" /\ sweep'[s].proposal = {p}
  /\ \A r \in Sweep \ {s} : sweep'[r] = sweep[r]
  /\ UNCHANGED <<outcomes, score, grant, announced, demotions, tx, owner, faults>>

\* That is what an insert does.
LEMMA Proposing ==
  ASSUME TypeOK, NEW s \in Sweep, InsertProposal(s)
  PROVE  \E p \in Proposal : Proposes(s, p)
  <1>1. sweep[s] \in Sweeping BY Records DEF InsertProposal
  <1> DEFINE r == sweep[s].routine
             t == ToolOf[r]
             new == [routine |-> r, counted |-> sweep[s].counted, epoch |-> demotions[t],
                     raced |-> \E x \in Tx : HoldsTool(x, t)]
  <1>2. PICK p \in Proposal :
          /\ status[p] = "none" /\ status' = [status EXCEPT ![p] = "open"]
          /\ offer' = [offer EXCEPT ![p] = new]
          /\ sweep' = [sweep EXCEPT ![s].pc = "announce", ![s].proposal = {p}]
    BY DEF InsertProposal
  <1>3. sweep' = [sweep EXCEPT ![s] = [sweep[s] EXCEPT !.pc = "announce", !.proposal = {p}]]
    BY <1>2 DEF TypeOK
  <1>4. LET R == [sweep[s] EXCEPT !.pc = "announce", !.proposal = {p}]
        IN  R.pc = "announce" /\ R.proposal = {p}
    BY <1>1 DEF Sweeping
  <1>5. /\ sweep'[s].pc = "announce" /\ sweep'[s].proposal = {p}
        /\ \A q \in Sweep \ {s} : sweep'[q] = sweep[q]
    BY <1>3, <1>4 DEF TypeOK
  <1>6. /\ new.routine = r /\ new.epoch = demotions[t]
        /\ new.raced = \E x \in Tx : HoldsTool(x, t)
    OBVIOUS
  <1> HIDE DEF new
  <1>7. offer'[p] = new /\ \A q \in Proposal \ {p} : offer'[q] = offer[q]
    BY <1>2 DEF TypeOK
  <1>8. UNCHANGED <<outcomes, score, grant, announced, demotions, tx, owner, faults>>
        /\ sweep[s].pc = "insert"
    BY DEF InsertProposal
  <1>9. /\ offer'[p].routine = r /\ offer'[p].epoch = demotions[t]
        /\ offer'[p].raced = \E x \in Tx : HoldsTool(x, t)
    BY <1>6, <1>7
  <1> QED BY <1>2, <1>5, <1>7, <1>8, <1>9, Zenon DEF Proposes

\* An answer refuses what is withdrawn at the same time, but cannot accept it: that
\* takes the tool's row.
LEMMA TxAnswer ==
  ASSUME TypeOK, TxShape, ToolLocks, OwnerShape, NEW o \in Owner, ResolveProposal(o) \/ Accept(o)
  PROVE  TxShape' /\ ToolLocks'
  <1>1. PICK p \in Proposal : Resolves(o, p) \/ Accepts(o, p) BY Answers
  <1>2. tx' = tx /\ offer' = offer BY <1>1 DEF Resolves, Accepts
  <1>3. /\ \A q \in Proposal \ {p} : status'[q] = status[q]
        /\ status'[p] \in {status[p], "declined"}
           \/ (status'[p] = "accepted" /\ Accepts(o, p))
        /\ status'[p] = status[p] \/ status[p] = "open"
    <2>1. Accepts(o, p) => status[p] = "open" BY DEF Accepts, OwnerShape
    <2> QED BY <1>1, <2>1 DEF Resolves, Accepts, TypeOK
  <1>4. ASSUME NEW y \in Tx, Active(y)' PROVE AddOf(y)' /\ ListOf(y)'
    <2>1. Active(y) /\ tx[y] \in Demoting BY <1>2, <1>4, Records DEF Active
    <2>2. AddOf(y) /\ ListOf(y) /\ tx[y].open \cup tx[y].gone \subseteq Proposal
      BY <2>1 DEF TxShape, Demoting
    <2>3. AddOf(y)' BY <1>2, <2>2 DEF AddOf
    <2>4. p \in tx[y].open => status'[p] # "accepted"
      <3>1. ASSUME p \in tx[y].open, Accepts(o, p) PROVE FALSE
        <4>1. HoldsTool(y, ToolOfProposal(p)) BY <2>1, <2>2, <3>1 DEF ListOf, HoldsTool
        <4>2. y # o BY TxAssumption
        <4> QED BY <3>1, <4>1, <4>2 DEF Accepts, FreeTool
      <3>2. p \in tx[y].open => status[p] # "accepted" BY <2>2 DEF ListOf
      <3> QED BY <1>3, <3>1, <3>2
    <2>5. \A q \in Proposal :
            /\ status'[q] = "open" => status[q] = "open"
            /\ status[q] # "none" => status'[q] # "none"
            /\ q \in tx[y].open => status'[q] \in {"open", "declined"}
      BY <1>3, <2>2, <2>4 DEF ListOf
    <2>6. /\ \A q \in tx'[y].open \cup tx'[y].gone :
               status'[q] # "none" /\ ToolOfProposal(q)' \in tx'[y].done
          /\ \A q \in tx'[y].open : status'[q] \in {"open", "declined"}
      BY <1>2, <2>2, <2>5 DEF ListOf, ToolOfProposal
    <2>7. ASSUME NEW q \in Proposal, status'[q] = "open", ToolOfProposal(q)' \in tx'[y].done
          PROVE  offer'[q].raced \/ q \in tx'[y].open \cup tx'[y].gone
      BY <1>2, <2>2, <2>5, <2>7 DEF ListOf, ToolOfProposal
    <2>8. ListOf(y)' BY <2>6, <2>7 DEF ListOf
    <2> QED BY <2>3, <2>8
  <1>5. \A w \in Tx, u \in Tool : HoldsTool(w, u)' => HoldsTool(w, u)
    BY <1>2 DEF HoldsTool, Active
  <1> QED BY <1>4, <1>5 DEF TxShape, ToolLocks

\* A proposal that is made while its tool is locked is marked as such.
LEMMA TxProposal ==
  ASSUME TypeOK, TxShape, ToolLocks, NEW s \in Sweep, InsertProposal(s)
  PROVE  TxShape' /\ ToolLocks'
  <1>1. PICK p \in Proposal : Proposes(s, p) BY Proposing
  <1>2. /\ tx' = tx /\ status[p] = "none" /\ status'[p] = "open"
        /\ \A q \in Proposal \ {p} : status'[q] = status[q] /\ offer'[q] = offer[q]
        /\ offer'[p].raced = (\E x \in Tx : HoldsTool(x, ToolOfProposal(p)'))
    BY <1>1 DEF Proposes, TypeOK, ToolOfProposal
  <1>3. \A q \in Proposal \ {p} : ToolOfProposal(q)' = ToolOfProposal(q)
    BY <1>2 DEF ToolOfProposal
  <1>4. ASSUME NEW y \in Tx, Active(y)' PROVE AddOf(y)' /\ ListOf(y)'
    <2>1. Active(y) /\ tx[y] \in Demoting BY <1>2, <1>4, Records DEF Active
    <2>2. AddOf(y) /\ ListOf(y) /\ tx[y].open \cup tx[y].gone \subseteq Proposal
      BY <2>1 DEF TxShape, Demoting
    <2>3. AddOf(y)' BY <1>2, <2>2 DEF AddOf
    <2>4. p \notin tx[y].open \cup tx[y].gone BY <1>2, <2>2 DEF ListOf
    <2>5. ToolOfProposal(p)' \in tx[y].done => offer'[p].raced
      BY <1>2, <2>1 DEF HoldsTool
    <2>6. /\ \A q \in tx'[y].open \cup tx'[y].gone :
               status'[q] # "none" /\ ToolOfProposal(q)' \in tx'[y].done
          /\ \A q \in tx'[y].open : status'[q] \in {"open", "declined"}
      BY <1>2, <1>3, <2>2, <2>4 DEF ListOf
    <2>7. ASSUME NEW q \in Proposal, status'[q] = "open", ToolOfProposal(q)' \in tx'[y].done
          PROVE  offer'[q].raced \/ q \in tx'[y].open \cup tx'[y].gone
      BY <1>2, <1>3, <2>2, <2>5, <2>7 DEF ListOf
    <2>8. ListOf(y)' BY <2>6, <2>7 DEF ListOf
    <2> QED BY <2>3, <2>8
  <1>5. \A w \in Tx, u \in Tool : HoldsTool(w, u)' => HoldsTool(w, u)
    BY <1>2 DEF HoldsTool, Active
  <1> QED BY <1>4, <1>5 DEF TxShape, ToolLocks

\* Every step keeps what transactions have seen and locked.
LEMMA TxStepKeeps ==
  ASSUME TypeOK, TxShape, ToolLocks, OwnerShape, Next
  PROVE  TxShape' /\ ToolLocks'
  BY AsideSteps, TxAside, TxLock, TxWithdraw, TxCommit, TxAnswer, TxProposal

-----------------------------------------------------------------------------
(* Answers. *)

\* Who holds a proposal's row, by kind; nobody is of both kinds.
LEMMA Holders ==
  /\ \A x \in Tx, p \in Proposal : HoldsRow(x, p) <=> Active(x) /\ p \in tx[x].gone
  /\ \A o \in Owner, p \in Proposal :
       HoldsRow(o, p) <=> owner[o].pc = "tool" /\ owner[o].proposal = p
  /\ \A x \in Tx, p \in Proposal : HoldsRow(x, p)' <=> Active(x)' /\ p \in tx'[x].gone
  /\ \A o \in Owner, p \in Proposal :
       HoldsRow(o, p)' <=> owner'[o].pc = "tool" /\ owner'[o].proposal = p
  BY TxAssumption DEF HoldsRow

\* Where nobody takes a row, none is held twice.
LEMMA RowsKept ==
  ASSUME RowLocks,
         \A a \in Tx \cup Owner, p \in Proposal : HoldsRow(a, p)' => HoldsRow(a, p)
  PROVE  RowLocks'
  BY DEF RowLocks

\* Where one request takes a row, it was free.
LEMMA RowTaken ==
  ASSUME RowLocks, NEW b \in Tx \cup Owner, NEW p \in Proposal, FreeRow(b, p),
         \A a \in (Tx \cup Owner) \ {b}, q \in Proposal : HoldsRow(a, q)' => HoldsRow(a, q),
         \A q \in Proposal : HoldsRow(b, q)' => HoldsRow(b, q) \/ q = p
  PROVE  RowLocks'
  <1>1. \A a \in (Tx \cup Owner) \ {b} : ~HoldsRow(a, p)' BY DEF FreeRow
  <1>2. ASSUME NEW o \in Owner, NEW x \in Tx, NEW q \in Proposal,
               HoldsRow(o, q)', HoldsRow(x, q)'
        PROVE  FALSE
    <2>1. o # x BY TxAssumption
    <2>2. q # p BY <1>1, <1>2, <2>1
    <2>3. HoldsRow(o, q) /\ HoldsRow(x, q) BY <1>2, <2>2
    <2> QED BY <2>3 DEF RowLocks
  <1>3. ASSUME NEW o \in Owner, NEW q \in Owner, NEW r \in Proposal,
               HoldsRow(o, r)', HoldsRow(q, r)'
        PROVE  o = q
    <2>1. CASE r = p BY <1>1, <1>3, <2>1
    <2>2. CASE r # p
      <3>1. HoldsRow(o, r) /\ HoldsRow(q, r) BY <1>3, <2>2
      <3> QED BY <3>1 DEF RowLocks
    <2> QED BY <2>1, <2>2
  <1> QED BY <1>2, <1>3 DEF RowLocks

\* Every step keeps the locks on proposals, and what an answer is about.
LEMMA RowStep ==
  ASSUME TypeOK, TxShape, RowLocks, OwnerShape, Next
  PROVE  RowLocks' /\ OwnerShape'
  <1>1. CASE Aside
    <2>1. \A x \in Tx, p \in Proposal : HoldsRow(x, p)' => HoldsRow(x, p)
      BY <1>1, Holders DEF Aside, Fresh, Active
    <2>2. \A o \in Owner, p \in Proposal : HoldsRow(o, p)' => HoldsRow(o, p)
      BY <1>1, Holders DEF Aside, Rest
    <2>3. RowLocks' BY <2>1, <2>2, RowsKept
    <2>4. OwnerShape' BY <1>1 DEF Aside, OwnerShape, Rest
    <2> QED BY <2>3, <2>4
  <1>2. ASSUME NEW x \in Tx, NEW t \in Tool, LockTool(x, t) PROVE RowLocks' /\ OwnerShape'
    <2>1. /\ \A y \in Tx : tx'[y].gone = tx[y].gone /\ (Active(y)' => Active(y))
          /\ UNCHANGED <<tables, owner>>
      BY <1>2, Locking DEF Active
    <2>2. owner' = owner /\ status' = status BY <2>1 DEF tables
    <2>3. RowLocks' BY <2>1, <2>2, Holders, RowsKept
    <2> QED BY <2>2, <2>3 DEF OwnerShape
  <1>3. ASSUME NEW x \in Tx, NEW p \in Proposal, Withdraw(x, p) PROVE RowLocks' /\ OwnerShape'
    <2>1. /\ Active(x) /\ FreeRow(x, p) /\ (Active(x)' => tx'[x].gone = tx[x].gone \cup {p})
          /\ \A y \in Tx \ {x} : tx'[y] = tx[y]
          /\ UNCHANGED <<tables, owner>>
      BY <1>3, Withdrawing
    <2>2. owner' = owner /\ status' = status BY <2>1 DEF tables
    <2>3. \A a \in (Tx \cup Owner) \ {x}, q \in Proposal : HoldsRow(a, q)' => HoldsRow(a, q)
      BY <2>1, <2>2, Holders DEF Active
    <2>4. \A q \in Proposal : HoldsRow(x, q)' => HoldsRow(x, q) \/ q = p
      BY <2>1, Holders
    <2>5. RowLocks' BY <2>1, <2>3, <2>4, RowTaken
    <2> QED BY <2>2, <2>5 DEF OwnerShape
  <1>4. ASSUME NEW x \in Tx, Commit(x) PROVE RowLocks' /\ OwnerShape'
    <2>1. /\ tx'[x] = Rest /\ (\A y \in Tx \ {x} : tx'[y] = tx[y]) /\ owner' = owner
          /\ status' = [p \in Proposal |-> IF p \in tx[x].gone THEN "withdrawn" ELSE status[p]]
          /\ Active(x)
      BY <1>4 DEF Commit, TypeOK
    <2>2. \A a \in Tx \cup Owner, q \in Proposal : HoldsRow(a, q)' => HoldsRow(a, q)
      BY <2>1, Holders DEF Active, Rest
    <2>3. ASSUME NEW o \in Owner, owner[o].pc \in {"resolve", "tool"}
          PROVE  /\ owner[o].proposal \in Proposal
                 /\ owner[o].pc = "tool" => owner[o].proposal \notin tx[x].gone
      <3>1. owner[o].proposal \in Proposal BY <2>3, Records DEF Answering
      <3> QED BY <2>1, <3>1, Holders DEF RowLocks
    <2>4. OwnerShape' BY <2>1, <2>3 DEF OwnerShape
    <2> QED BY <2>2, <2>4, RowsKept
  <1>5. ASSUME NEW o \in Owner, NEW p \in Proposal, Resolves(o, p)
        PROVE  RowLocks' /\ OwnerShape'
    <2>1. /\ FreeRow(o, p) /\ tx' = tx /\ \A q \in Owner \ {o} : owner'[q] = owner[q]
          /\ owner'[o] = Rest \/ (owner'[o].proposal = p /\ owner'[o].pc = "tool"
                                    /\ status[p] = "open" /\ status' = status)
          /\ owner[o].proposal = p /\ owner[o].pc = "resolve"
          /\ status' = status \/ (status[p] = "open" /\ status' = [status EXCEPT ![p] = "declined"])
      BY <1>5 DEF Resolves
    <2>2. \A a \in (Tx \cup Owner) \ {o}, q \in Proposal : HoldsRow(a, q)' => HoldsRow(a, q)
      BY <2>1, Holders DEF Active
    <2>3. \A q \in Proposal : HoldsRow(o, q)' => q = p BY <2>1, Holders DEF Rest
    <2>4. RowLocks' BY <2>1, <2>2, <2>3, RowTaken
    <2>5. ASSUME NEW q \in Owner \ {o}, owner[q].pc \in {"resolve", "tool"}
          PROVE  /\ owner[q].pc = "resolve" => status'[owner[q].proposal] # "none"
                 /\ owner[q].pc = "tool" => status'[owner[q].proposal] = "open"
      <3>1. owner[q].proposal \in Proposal BY <2>5, Records DEF Answering
      <3>2. owner[q].pc = "tool" => owner[q].proposal # p BY <2>1, <3>1, Holders DEF FreeRow
      <3> QED BY <2>1, <3>1, <3>2 DEF OwnerShape, TypeOK
    <2>6. OwnerShape'
      <3>1. ASSUME NEW q \in Owner
            PROVE  /\ owner'[q].pc = "resolve" => status'[owner'[q].proposal] # "none"
                   /\ owner'[q].pc = "tool" => status'[owner'[q].proposal] = "open"
        <4>1. CASE q = o BY <2>1, <4>1 DEF Rest
        <4>2. CASE q # o BY <2>1, <2>5, <4>2
        <4> QED BY <4>1, <4>2
      <3> QED BY <3>1 DEF OwnerShape
    <2> QED BY <2>4, <2>6
  <1>6. ASSUME NEW o \in Owner, NEW p \in Proposal, Accepts(o, p)
        PROVE  RowLocks' /\ OwnerShape'
    <2>1. /\ tx' = tx /\ \A q \in Owner \ {o} : owner'[q] = owner[q]
          /\ owner'[o] = Rest /\ owner[o].proposal = p /\ owner[o].pc = "tool"
          /\ status' \in {status, [status EXCEPT ![p] = "accepted"]}
      BY <1>6 DEF Accepts
    <2>2. \A a \in Tx \cup Owner, q \in Proposal : HoldsRow(a, q)' => HoldsRow(a, q)
      BY <2>1, Holders DEF Active, Rest
    <2>3. RowLocks' BY <2>2, RowsKept
    <2>4. ASSUME NEW q \in Owner
          PROVE  /\ owner'[q].pc = "resolve" => status'[owner'[q].proposal] # "none"
                 /\ owner'[q].pc = "tool" => status'[owner'[q].proposal] = "open"
      <3>1. CASE q = o BY <2>1, <3>1 DEF Rest
      <3>2. CASE q # o /\ owner[q].pc \in {"resolve", "tool"}
        <4>1. owner[q].proposal \in Proposal /\ owner'[q] = owner[q]
          BY <2>1, <3>2, Records DEF Answering
        <4>2. owner[q].pc = "tool" => owner[q].proposal # p
          BY <2>1, <3>2, <4>1, Holders DEF RowLocks
        <4> QED BY <2>1, <4>1, <4>2 DEF OwnerShape, TypeOK
      <3>3. CASE q # o /\ owner[q].pc \notin {"resolve", "tool"} BY <2>1, <3>3
      <3> QED BY <3>1, <3>2, <3>3
    <2> QED BY <2>3, <2>4 DEF OwnerShape
  <1>7. ASSUME NEW s \in Sweep, NEW p \in Proposal, Proposes(s, p)
        PROVE  RowLocks' /\ OwnerShape'
    <2>1. /\ tx' = tx /\ owner' = owner
          /\ status[p] = "none" /\ status' = [status EXCEPT ![p] = "open"]
      BY <1>7 DEF Proposes
    <2>2. \A a \in Tx \cup Owner, q \in Proposal : HoldsRow(a, q)' => HoldsRow(a, q)
      BY <2>1, Holders DEF Active
    <2>3. ASSUME NEW q \in Owner, owner[q].pc \in {"resolve", "tool"}
          PROVE  status'[owner[q].proposal] = status[owner[q].proposal]
      <3>1. owner[q].proposal \in Proposal BY <2>3, Records DEF Answering
      <3> QED BY <2>1, <2>3, <3>1 DEF OwnerShape, TypeOK
    <2>4. OwnerShape' BY <2>1, <2>3 DEF OwnerShape
    <2> QED BY <2>2, <2>4, RowsKept
  <1> QED BY <1>1, <1>2, <1>3, <1>4, <1>5, <1>6, <1>7, AsideSteps, Answers, Proposing

-----------------------------------------------------------------------------
(* Scores and grants. *)

\* Only a commit and an acceptance touch a score or a grant; only a commit and the record
\* of a good or denied call add an outcome.
LEMMA ScoreKept ==
  ASSUME Next
  PROVE  \/ \E x \in Tx : Commit(x)
         \/ \E o \in Owner : Accept(o)
         \/ /\ UNCHANGED <<score, grant>>
            /\ outcomes' = outcomes \/ \E k \in Task, r \in Routine : RecordOutcome(r, k)
  <1>1. ASSUME NEW k \in Task, NEW x \in Tx,
               \/ \E r \in Routine : RecordBad(x, r, k)
               \/ DemoteForTask(x, k)
               \/ \E t \in Tool : FlagBad(x, t, k)
        PROVE  UNCHANGED <<score, grant, outcomes>>
    BY <1>1 DEF RecordBad, DemoteForTask, FlagBad, Begin, tables
  <1>2. ASSUME NEW x \in Tx, TxStep(x), ~Commit(x)
        PROVE  UNCHANGED <<score, grant, outcomes>>
    BY <1>2 DEF TxStep, LockTool, Withdraw, AbortTx, tables
  <1>3. ASSUME NEW o \in Owner,
               ResolveProposal(o) \/ AbortAnswer(o) \/ \E p \in Proposal : Respond(o, p)
        PROVE  UNCHANGED <<score, grant, outcomes>>
    BY <1>3 DEF ResolveProposal, AbortAnswer, Respond, tables
  <1>4. ASSUME NEW s \in Sweep, SweepStep(s) PROVE UNCHANGED <<score, grant, outcomes>>
    BY <1>4 DEF SweepStep, Scan, CheckGrant, Weigh, InsertProposal, Announce, tables
  <1>5. Mature \/ Fault => UNCHANGED <<score, grant, outcomes>>
    BY DEF Mature, Fault, Pass, tables
  <1>6. ASSUME NEW k \in Task, NEW r \in Routine, RecordOutcome(r, k)
        PROVE  UNCHANGED <<score, grant>>
    BY <1>6 DEF RecordOutcome, Pass
  <1> QED BY <1>1, <1>2, <1>3, <1>4, <1>5, <1>6 DEF Next, OwnerStep

\* What an acceptance does: nothing to the tables, when its routine has a grant.
LEMMA Accepting ==
  ASSUME TypeOK, OwnerShape, OfferShape, NEW o \in Owner, Accept(o)
  PROVE  /\ outcomes' = outcomes /\ offer' = offer
         /\ \/ UNCHANGED <<score, grant>>
            \/ \E p \in Proposal, r \in Routine, t \in Tool :
                 /\ r = offer[p].routine /\ t = ToolOf[r] /\ status[p] = "open"
                 /\ score' = [score EXCEPT ![t] = PromoteTo(score[t])]
                 /\ grant' = [grant EXCEPT ![r] = 1 + Len(outcomes)]
                 /\ status' = [status EXCEPT ![p] = "accepted"]
  <1>1. owner[o] \in Answering BY Records DEF Accept
  <1>2. PICK p \in Proposal : owner[o].proposal = p BY <1>1 DEF Answering
  <1>3. status[p] = "open" BY <1>2 DEF Accept, OwnerShape
  <1>4. PICK r \in Routine : r = offer[p].routine BY <1>3 DEF OfferShape
  <1>5. PICK t \in Tool : t = ToolOf[r] BY RoutineAssumption
  <1> QED BY <1>2, <1>3, <1>4, <1>5 DEF Accept, Promote

\* A grant postdates what is bad on record: a bad outcome comes with the revocation, and a
\* new grant begins behind them all.
LEMMA EarnedStep ==
  ASSUME TypeOK, TxShape, OwnerShape, OfferShape, GrantIsEarned, Next
  PROVE  GrantIsEarned'
  <1> DEFINE n == Len(outcomes)
             Hurts(e, r) == e.kind = "bad" /\ e.tool = ToolOf[r] /\ e.routine \in {r, Unknown}
  <1>0. n \in Nat /\ grant \in [Routine -> Nat] BY DEF TypeOK
  <1>1. ASSUME NEW r \in Routine, grant[r] # 0, NEW i \in grant[r] .. n
        PROVE  ~Hurts(outcomes[i], r)
    BY <1>1 DEF GrantIsEarned
  <1>2. ASSUME NEW e \in Entry, Len(outcomes') = n + 1,
               \A i \in 1 .. n : outcomes'[i] = outcomes[i], outcomes'[n + 1] = e,
               \A r \in Routine : grant'[r] # 0 => grant'[r] = grant[r] /\ ~Hurts(e, r)
        PROVE  GrantIsEarned'
    <2>2. ASSUME NEW r \in Routine, grant'[r] # 0, NEW i \in grant'[r] .. Len(outcomes')
          PROVE  ~Hurts(outcomes'[i], r)
      <3>1. grant'[r] = grant[r] /\ grant[r] \in Nat /\ grant[r] # 0 /\ ~Hurts(e, r)
        BY <1>0, <1>2, <2>2
      <3>2. CASE i = n + 1 BY <1>2, <3>1, <3>2
      <3>3. CASE i # n + 1
        <4>1. i \in grant[r] .. n /\ i \in 1 .. n BY <1>0, <1>2, <2>2, <3>1, <3>3
        <4>2. outcomes'[i] = outcomes[i] BY <1>2, <4>1
        <4>3. ~Hurts(outcomes[i], r) BY <1>1, <3>1, <4>1
        <4> HIDE DEF Hurts
        <4> QED BY <4>2, <4>3
      <3> QED BY <3>2, <3>3
    <2> QED BY <2>2 DEF GrantIsEarned
  <1>3. ASSUME outcomes' = outcomes, \A r \in Routine : grant'[r] # 0 => grant'[r] = grant[r]
        PROVE  GrantIsEarned'
    BY <1>3 DEF GrantIsEarned
  <1> HIDE DEF n
  <1>4. ASSUME NEW k \in Task, NEW r \in Routine, RecordOutcome(r, k), UNCHANGED grant
        PROVE  GrantIsEarned'
    <2>1. PICK kind \in {"clean", "denied_by_script"} :
             outcomes' = Append(outcomes, [tool |-> ToolOf[r], task |-> k, kind |-> kind,
                           vetoes |-> 0, routine |-> IF kind = "clean" THEN r ELSE Unknown])
      BY <1>4 DEF RecordOutcome
    <2> DEFINE e == [tool |-> ToolOf[r], task |-> k, kind |-> kind, vetoes |-> 0,
                     routine |-> IF kind = "clean" THEN r ELSE Unknown]
    <2>2. ToolOf[r] \in Tool BY RoutineAssumption
    <2>3. e \in Entry BY <2>2 DEF Entry, OutcomeKind
    <2>4. e.kind # "bad" BY <2>1
    <2>5. outcomes' = Append(outcomes, e) BY <2>1
    <2> HIDE DEF e
    <2>6. Len(outcomes') = n + 1 /\ (\A i \in 1 .. n : outcomes'[i] = outcomes[i])
          /\ outcomes'[n + 1] = e
      BY <2>3, <2>5 DEF TypeOK, n
    <2> QED BY <1>2, <1>4, <2>3, <2>4, <2>6
  <1>5. ASSUME NEW x \in Tx, Commit(x) PROVE GrantIsEarned'
    <2>1. /\ outcomes' = outcomes \o tx[x].add /\ tx[x].todo = {} /\ Active(x)
          /\ grant' = [r \in Routine |-> IF Revoked(x, r) THEN 0 ELSE grant[r]]
      BY <1>5 DEF Commit
    <2>2. tx[x] \in Demoting /\ AddOf(x) BY <2>1, Records DEF TxShape
    <2>3. tx[x].add \in Seq(Entry) BY <2>2 DEF Demoting
    <2>4. CASE tx[x].add = <<>>
      <3>1. outcomes' = outcomes BY <2>1, <2>4 DEF TypeOK
      <3> QED BY <1>3, <2>1, <3>1
    <2>5. CASE tx[x].add # <<>>
      <3>1. /\ Len(tx[x].add) = 1 /\ tx[x].add[1].routine = tx[x].fp
            /\ tx[x].add[1].tool \in tx[x].done
        BY <2>1, <2>2, <2>5 DEF AddOf
      <3>2. PICK e \in Entry : e = tx[x].add[1] BY <2>3, <3>1
      <3>3. Len(outcomes') = n + 1 /\ (\A i \in 1 .. n : outcomes'[i] = outcomes[i])
            /\ outcomes'[n + 1] = e
        <4>1. ASSUME NEW a \in Seq(Entry), NEW b \in Seq(Entry), Len(b) = 1
              PROVE  /\ Len(a \o b) = Len(a) + 1
                     /\ \A i \in 1 .. Len(a) : (a \o b)[i] = a[i]
                     /\ (a \o b)[Len(a) + 1] = b[1]
          <5>1. /\ Len(a \o b) = Len(a) + Len(b)
                /\ \A i \in 1 .. Len(a) + Len(b) :
                     (a \o b)[i] = IF i <= Len(a) THEN a[i] ELSE b[i - Len(a)]
            BY ConcatProperties, Zenon
          <5> DEFINE c == a \o b
          <5>2. Len(c) = Len(a) + Len(b)
                /\ \A i \in 1 .. Len(a) + Len(b) :
                     c[i] = IF i <= Len(a) THEN a[i] ELSE b[i - Len(a)]
            BY <5>1
          <5> HIDE DEF c
          <5>3. Len(a) \in Nat OBVIOUS
          <5>4. Len(c) = Len(a) + 1 BY <4>1, <5>2
          <5>5. \A i \in 1 .. Len(a) : c[i] = a[i] BY <4>1, <5>2, <5>3
          <5>6. c[Len(a) + 1] = b[1]
            <6>1. Len(a) + 1 \in 1 .. Len(a) + Len(b) /\ ~(Len(a) + 1 <= Len(a))
                  /\ Len(a) + 1 - Len(a) = 1
              BY <4>1, <5>3
            <6> QED BY <5>2, <6>1
          <5> QED BY <5>4, <5>5, <5>6 DEF c
        <4>2. outcomes \in Seq(Entry) BY DEF TypeOK
        <4> QED BY <2>1, <2>3, <3>1, <3>2, <4>1, <4>2 DEF n
      <3>4. \A r \in Routine : Hurts(e, r) => Revoked(x, r)
        BY <3>1, <3>2 DEF Revoked
      <3> HIDE DEF Hurts
      <3> QED BY <1>2, <2>1, <3>3, <3>4
    <2> QED BY <2>4, <2>5
  <1>6. ASSUME NEW o \in Owner, Accept(o) PROVE GrantIsEarned'
    <2>1. outcomes' = outcomes BY <1>6, Accepting
    <2>2. CASE UNCHANGED grant BY <1>3, <2>1, <2>2
    <2>3. ASSUME NEW r \in Routine, grant' = [grant EXCEPT ![r] = 1 + Len(outcomes)]
          PROVE  GrantIsEarned'
      <3> SUFFICES ASSUME NEW q \in Routine, grant'[q] # 0,
                          NEW i \in grant'[q] .. Len(outcomes')
                   PROVE  ~Hurts(outcomes'[i], q)
        BY DEF GrantIsEarned
      <3>1. CASE q = r BY <1>0, <2>1, <2>3, <3>1 DEF n
      <3>2. CASE q # r BY <1>0, <1>1, <2>1, <2>3, <3>2 DEF n
      <3> QED BY <3>1, <3>2
    <2> QED BY <1>6, <2>2, <2>3, Accepting
  <1> QED BY <1>3, <1>4, <1>5, <1>6, ScoreKept
-----------------------------------------------------------------------------
(* Proposals. *)

\* But for an insert, a proposal keeps its payload, and is at most resolved or withdrawn.
LEMMA StatusKept ==
  ASSUME TypeOK, TxShape, OwnerShape, Next, ~\E s \in Sweep : InsertProposal(s)
  PROVE  /\ offer' = offer
         /\ \A p \in Proposal :
              \/ status'[p] = status[p]
              \/ status[p] # "none" /\ status'[p] \notin {"none", "open"}
  <1>1. CASE Aside BY <1>1 DEF Aside
  <1>2. ASSUME NEW x \in Tx,
               (\E t \in Tool : LockTool(x, t)) \/ (\E p \in Proposal : Withdraw(x, p))
        PROVE  offer' = offer /\ status' = status
    BY <1>2 DEF LockTool, Withdraw, tables
  <1>3. ASSUME NEW x \in Tx, Commit(x)
        PROVE  /\ offer' = offer
               /\ \A p \in Proposal :
                    \/ status'[p] = status[p]
                    \/ status[p] # "none" /\ status'[p] \notin {"none", "open"}
    <2>1. /\ offer' = offer /\ Active(x)
          /\ status' = [p \in Proposal |-> IF p \in tx[x].gone THEN "withdrawn" ELSE status[p]]
      BY <1>3 DEF Commit
    <2>2. \A p \in tx[x].gone : status[p] # "none" BY <2>1 DEF TxShape, ListOf
    <2> QED BY <2>1, <2>2
  <1>4. ASSUME NEW o \in Owner, NEW p \in Proposal, Resolves(o, p) \/ Accepts(o, p)
        PROVE  /\ offer' = offer
               /\ \A q \in Proposal :
                    \/ status'[q] = status[q]
                    \/ status[q] # "none" /\ status'[q] \notin {"none", "open"}
    <2>1. Accepts(o, p) => status[p] = "open" BY DEF Accepts, OwnerShape
    <2>2. /\ offer' = offer
          /\ \/ status' = status
             \/ status[p] = "open" /\ status' = [status EXCEPT ![p] = "declined"]
             \/ status[p] = "open" /\ status' = [status EXCEPT ![p] = "accepted"]
      BY <1>4, <2>1 DEF Resolves, Accepts
    <2> QED BY <2>2 DEF TypeOK
  <1> QED BY <1>1, <1>2, <1>3, <1>4, AsideSteps, Answers

\* But for an insert and an audit, a sweep keeps its step, is cut off, or goes on to one
\* that has a routine in hand where it needs one.
LEMMA SweepKept ==
  ASSUME TypeOK, SweepShape, Next,
         ~\E s \in Sweep : InsertProposal(s) \/ Announce(s)
  PROVE  /\ announced' = announced /\ faults <= faults'
         /\ \A s \in Sweep :
              \/ sweep'[s] = sweep[s]
              \/ sweep'[s] = Rest /\ 0 < faults'
              \/ /\ sweep[s].pc # "announce" /\ sweep'[s].pc # "announce"
                 /\ sweep'[s].pc \in {"weigh", "insert"} => sweep'[s].routine \in Routine
  <1>0. faults \in Nat BY DEF TypeOK
  <1>1. ASSUME sweep' = sweep, announced' = announced, faults' = faults
        PROVE  /\ announced' = announced /\ faults <= faults'
               /\ \A s \in Sweep : sweep'[s] = sweep[s]
    BY <1>0, <1>1
  <1>2. CASE Fault
    <2>1. announced' = announced /\ faults' = faults + 1 BY <1>2 DEF Fault, tables
    <2>2. \A s \in Sweep : sweep'[s] = sweep[s] \/ sweep'[s] = Rest BY <1>2 DEF Fault, TypeOK
    <2> QED BY <1>0, <2>1, <2>2
  <1>3. ASSUME NEW s \in Sweep, NEW R, sweep' = [sweep EXCEPT ![s] = R],
               sweep[s].pc # "announce", R.pc # "announce",
               R.pc \in {"weigh", "insert"} => R.routine \in Routine,
               announced' = announced, faults' = faults
        PROVE  /\ announced' = announced /\ faults <= faults'
               /\ \A r \in Sweep :
                    \/ sweep'[r] = sweep[r]
                    \/ /\ sweep[r].pc # "announce" /\ sweep'[r].pc # "announce"
                       /\ sweep'[r].pc \in {"weigh", "insert"} => sweep'[r].routine \in Routine
    BY <1>0, <1>3 DEF TypeOK
  <1>4. \A s, T : Look(s, T).pc \notin {"weigh", "insert", "announce"} BY DEF Look, Rest
  <1>5. ASSUME NEW s \in Sweep, Scan(s) \/ CheckGrant(s) \/ Weigh(s)
        PROVE  \E R : /\ sweep' = [sweep EXCEPT ![s] = R]
                      /\ sweep[s].pc # "announce" /\ R.pc # "announce"
                      /\ R.pc \in {"weigh", "insert"} => R.routine \in Routine
                      /\ announced' = announced /\ faults' = faults
    <2>1. CASE Scan(s)
      <3>1. /\ sweep' = [sweep EXCEPT ![s] = Look(s, Candidates)] /\ sweep[s].pc # "announce"
            /\ announced' = announced /\ faults' = faults
        BY <2>1 DEF Scan, Rest, tables
      <3> DEFINE R == Look(s, Candidates)
      <3>2. sweep' = [sweep EXCEPT ![s] = R] BY <3>1
      <3>3. R.pc \notin {"weigh", "insert", "announce"} BY <1>4
      <3> HIDE DEF R
      <3> QED BY <3>1, <3>2, <3>3
    <2>2. CASE CheckGrant(s)
      <3>1. sweep[s] \in Sweeping BY <2>2, Records DEF CheckGrant
      <3>2. PICK r \in sweep[s].todo :
              sweep' = [sweep EXCEPT ![s] =
                IF grant[r] # 0 THEN Look(s, sweep[s].todo \ {r})
                ELSE [sweep[s] EXCEPT !.pc = "weigh", !.routine = r, !.todo = @ \ {r}]]
        BY <2>2 DEF CheckGrant
      <3> DEFINE W == [sweep[s] EXCEPT !.pc = "weigh", !.routine = r, !.todo = @ \ {r}]
                 R == IF grant[r] # 0 THEN Look(s, sweep[s].todo \ {r}) ELSE W
      <3>3. W.pc = "weigh" /\ W.routine \in Routine BY <3>1 DEF Sweeping
      <3>4. sweep' = [sweep EXCEPT ![s] = R] BY <3>2
      <3>5. sweep[s].pc # "announce" /\ announced' = announced /\ faults' = faults
        BY <2>2 DEF CheckGrant, tables
      <3> HIDE DEF W
      <3>6. R.pc # "announce" /\ (R.pc \in {"weigh", "insert"} => R.routine \in Routine)
        BY <1>4, <3>3
      <3> HIDE DEF R
      <3> QED BY <3>4, <3>5, <3>6
    <2>3. CASE Weigh(s)
      <3>1. sweep[s] \in Sweeping /\ sweep[s].routine \in Routine
        BY <2>3, Records DEF Weigh, SweepShape
      <3> DEFINE W == [sweep[s] EXCEPT !.pc = "insert",
                                       !.counted = CleanOf(Recent(sweep[s].routine))]
                 R == IF Proposable(sweep[s].routine) THEN W ELSE Look(s, sweep[s].todo)
      <3>2. W.pc = "insert" /\ W.routine = sweep[s].routine BY <3>1 DEF Sweeping
      <3>3. sweep' = [sweep EXCEPT ![s] = R] BY <2>3 DEF Weigh
      <3>4. sweep[s].pc # "announce" /\ announced' = announced /\ faults' = faults
        BY <2>3 DEF Weigh, tables
      <3> HIDE DEF W
      <3>5. R.pc # "announce" /\ (R.pc \in {"weigh", "insert"} => R.routine \in Routine)
        BY <1>4, <3>1, <3>2
      <3> HIDE DEF R
      <3> QED BY <3>3, <3>4, <3>5
    <2> QED BY <1>5, <2>1, <2>2, <2>3
  <1>6. ASSUME NEW k \in Task,
               \/ \E r \in Routine : RecordOutcome(r, k) \/ \E x \in Tx : RecordBad(x, r, k)
               \/ \E x \in Tx : DemoteForTask(x, k) \/ \E t \in Tool : FlagBad(x, t, k)
        PROVE  sweep' = sweep /\ announced' = announced /\ faults' = faults
    BY <1>6 DEF RecordOutcome, Pass, RecordBad, DemoteForTask, FlagBad, Begin, tables
  <1>7. ASSUME NEW x \in Tx, TxStep(x)
        PROVE  sweep' = sweep /\ announced' = announced /\ faults' = faults
    BY <1>7 DEF TxStep, LockTool, Withdraw, Commit, AbortTx, tables
  <1>8. ASSUME NEW o \in Owner, OwnerStep(o) \/ \E p \in Proposal : Respond(o, p)
        PROVE  sweep' = sweep /\ announced' = announced /\ faults' = faults
    BY <1>8 DEF OwnerStep, ResolveProposal, Accept, AbortAnswer, Respond, tables
  <1>9. Mature => sweep' = sweep /\ announced' = announced /\ faults' = faults
    BY DEF Mature, Pass
  <1>10. \/ Fault \/ (sweep' = sweep /\ announced' = announced /\ faults' = faults)
         \/ \E s \in Sweep : Scan(s) \/ CheckGrant(s) \/ Weigh(s)
    BY <1>6, <1>7, <1>8, <1>9 DEF Next, SweepStep
  <1>11. CASE sweep' = sweep /\ announced' = announced /\ faults' = faults BY <1>1, <1>11
  <1>12. CASE \E s \in Sweep : Scan(s) \/ CheckGrant(s) \/ Weigh(s) BY <1>3, <1>5, <1>12
  <1> QED BY <1>2, <1>10, <1>11, <1>12

\* A proposal that was made names the routine its sweep had in hand.
LEMMA OfferStep ==
  ASSUME TypeOK, TxShape, OwnerShape, OfferShape, SweepShape, Next
  PROVE  OfferShape'
  <1>1. ASSUME NEW s \in Sweep, NEW p \in Proposal, Proposes(s, p) PROVE OfferShape'
    <2>1. /\ \A q \in Proposal \ {p} : status'[q] = status[q] /\ offer'[q] = offer[q]
          /\ offer'[p].routine \in Routine
      BY <1>1 DEF Proposes, TypeOK, SweepShape
    <2> QED BY <2>1 DEF OfferShape
  <1>2. CASE ~\E s \in Sweep : InsertProposal(s) BY <1>2, StatusKept DEF OfferShape
  <1> QED BY <1>1, <1>2, Proposing

\* A sweep has a routine in hand where it needs one, and what it made has its audit or is
\* about to get it.
LEMMA SweepStepKeeps ==
  ASSUME TypeOK, TxShape, OwnerShape, SweepShape, AnnouncedUnlessCut, Next
  PROVE  SweepShape' /\ AnnouncedUnlessCut'
  <1>1. ASSUME NEW s \in Sweep, NEW p \in Proposal, Proposes(s, p)
        PROVE  SweepShape' /\ AnnouncedUnlessCut'
    <2>1. /\ sweep[s].pc = "insert" /\ sweep'[s].pc = "announce" /\ sweep'[s].proposal = {p}
          /\ \A r \in Sweep \ {s} : sweep'[r] = sweep[r]
          /\ announced' = announced /\ faults' = faults
          /\ \A q \in Proposal \ {p} : status'[q] = status[q]
      BY <1>1 DEF Proposes, TypeOK
    <2>2. SweepShape' BY <2>1 DEF SweepShape
    <2>3. ASSUME NEW q \in Proposal, status'[q] # "none"
          PROVE  \/ q \in announced' \/ faults' > 0
                 \/ \E r \in Sweep : sweep'[r].pc = "announce" /\ q \in sweep'[r].proposal
      <3>1. CASE q = p BY <2>1, <3>1
      <3>2. CASE q # p
        <4>1. \/ q \in announced \/ faults > 0
              \/ \E r \in Sweep : sweep[r].pc = "announce" /\ q \in sweep[r].proposal
          BY <2>1, <2>3, <3>2 DEF AnnouncedUnlessCut
        <4>2. \A r \in Sweep : sweep[r].pc = "announce" => sweep'[r] = sweep[r] BY <2>1
        <4> QED BY <2>1, <4>1, <4>2
      <3> QED BY <3>1, <3>2
    <2>4. AnnouncedUnlessCut' BY <2>3 DEF AnnouncedUnlessCut
    <2> QED BY <2>2, <2>4
  <1>2. ASSUME NEW s \in Sweep, Announce(s) PROVE SweepShape' /\ AnnouncedUnlessCut'
    <2> DEFINE R == Look(s, sweep[s].todo)
    <2>1. R.pc \notin {"weigh", "insert", "announce"} BY DEF Look, Rest
    <2>2. /\ sweep[s].pc = "announce" /\ announced' = announced \cup sweep[s].proposal
          /\ sweep' = [sweep EXCEPT ![s] = R] /\ status' = status /\ faults' = faults
      BY <1>2 DEF Announce
    <2> HIDE DEF R
    <2>3. sweep'[s] = R /\ \A r \in Sweep \ {s} : sweep'[r] = sweep[r] BY <2>2 DEF TypeOK
    <2>4. SweepShape' BY <2>1, <2>3 DEF SweepShape
    <2>5. AnnouncedUnlessCut' BY <2>1, <2>2, <2>3 DEF AnnouncedUnlessCut
    <2> QED BY <2>4, <2>5
  <1>3. CASE ~\E s \in Sweep : InsertProposal(s) \/ Announce(s)
    <2>1. /\ announced' = announced /\ faults <= faults' /\ faults \in Nat /\ faults' \in Nat
          /\ \A s \in Sweep :
               \/ sweep'[s] = sweep[s]
               \/ sweep'[s] = Rest /\ 0 < faults'
               \/ /\ sweep[s].pc # "announce" /\ sweep'[s].pc # "announce"
                  /\ sweep'[s].pc \in {"weigh", "insert"} => sweep'[s].routine \in Routine
      <3>1. faults' \in Nat
        <4>1. faults' = faults \/ faults' = faults + 1
          BY DEF Next, TxStep, OwnerStep, SweepStep, RecordOutcome, Mature, Begin, RecordBad,
                 FlagBad, DemoteForTask, LockTool, Withdraw, Commit, Respond, ResolveProposal,
                 Accept, Scan, CheckGrant, Weigh, InsertProposal, Announce, AbortTx,
                 AbortAnswer, Fault
        <4> QED BY <4>1 DEF TypeOK
      <3> QED BY <1>3, <3>1, SweepKept DEF TypeOK
    <2>2. \A p \in Proposal : status'[p] # "none" => status[p] # "none" BY <1>3, StatusKept
    <2>3. SweepShape' BY <2>1 DEF SweepShape, Rest
    <2>4. ASSUME NEW p \in Proposal, status'[p] # "none"
          PROVE  \/ p \in announced' \/ faults' > 0
                 \/ \E s \in Sweep : sweep'[s].pc = "announce" /\ p \in sweep'[s].proposal
      <3>1. \/ p \in announced \/ faults > 0
            \/ \E s \in Sweep : sweep[s].pc = "announce" /\ p \in sweep[s].proposal
        BY <2>2, <2>4 DEF AnnouncedUnlessCut
      <3> QED BY <2>1, <3>1
    <2>5. AnnouncedUnlessCut' BY <2>4 DEF AnnouncedUnlessCut
    <2> QED BY <2>3, <2>5
  <1> QED BY <1>1, <1>2, <1>3, Proposing

\* What is open postdates the last demotion of its tool: the one that commits has
\* withdrawn all it saw, and what it did not see was made while it held the tool.
LEMMA WithdrawnStep ==
  ASSUME TypeOK, TxShape, OwnerShape, OfferShape, SweepShape, WithdrawnUnlessRaced, Next
  PROVE  WithdrawnUnlessRaced'
  <1>1. ASSUME NEW s \in Sweep, NEW p \in Proposal, Proposes(s, p) PROVE WithdrawnUnlessRaced'
    <2>1. /\ \A q \in Proposal \ {p} : status'[q] = status[q] /\ offer'[q] = offer[q]
          /\ demotions' = demotions
          /\ offer'[p].epoch = demotions[ToolOf[offer'[p].routine]]
      BY <1>1 DEF Proposes, TypeOK
    <2> QED BY <2>1 DEF WithdrawnUnlessRaced, ToolOfProposal
  <1>2. ASSUME NEW x \in Tx, Commit(x) PROVE WithdrawnUnlessRaced'
    <2>1. /\ offer' = offer /\ Active(x) /\ tx[x].open = {}
          /\ status' = [p \in Proposal |-> IF p \in tx[x].gone THEN "withdrawn" ELSE status[p]]
          /\ demotions' = [t \in Tool |-> demotions[t] + IF t \in tx[x].done THEN 1 ELSE 0]
      BY <1>2 DEF Commit
    <2>2. ListOf(x) BY <2>1 DEF TxShape
    <2>3. ASSUME NEW p \in Proposal, status'[p] = "open"
          PROVE  offer[p].raced \/ offer[p].epoch = demotions'[ToolOfProposal(p)]
      <3>1. status[p] = "open" /\ p \notin tx[x].gone BY <2>1, <2>3
      <3>2. ToolOfProposal(p) \in Tool
        BY <3>1, RoutineAssumption DEF OfferShape, ToolOfProposal
      <3>3. CASE ToolOfProposal(p) \in tx[x].done BY <2>1, <2>2, <3>1, <3>3 DEF ListOf
      <3>4. CASE ToolOfProposal(p) \notin tx[x].done
        <4>1. demotions'[ToolOfProposal(p)] = demotions[ToolOfProposal(p)]
          BY <2>1, <3>2, <3>4 DEF TypeOK
        <4> QED BY <3>1, <4>1 DEF WithdrawnUnlessRaced
      <3> QED BY <3>3, <3>4
    <2> QED BY <2>1, <2>3 DEF WithdrawnUnlessRaced, ToolOfProposal
  <1>3. CASE /\ ~\E x \in Tx : Commit(x)
             /\ ~\E s \in Sweep : InsertProposal(s)
    <2>1. /\ offer' = offer
          /\ \A p \in Proposal : status'[p] = "open" => status[p] = "open"
      BY <1>3, StatusKept
    <2>2. demotions' = demotions
      <3>1. ASSUME NEW x \in Tx,
                   (\E t \in Tool : LockTool(x, t)) \/ (\E p \in Proposal : Withdraw(x, p))
            PROVE  demotions' = demotions
        BY <3>1 DEF LockTool, Withdraw, tables
      <3>2. ASSUME NEW o \in Owner, ResolveProposal(o) \/ Accept(o)
            PROVE  demotions' = demotions
        BY <3>2 DEF ResolveProposal, Accept
      <3> QED BY <1>3, <3>1, <3>2, AsideSteps DEF Aside
    <2> QED BY <2>1, <2>2 DEF WithdrawnUnlessRaced, ToolOfProposal
  <1> QED BY <1>1, <1>2, <1>3, Proposing
-----------------------------------------------------------------------------
(* The invariant. *)

\* It holds at the start.
LEMMA InitInv == Init => Inv
  <1> SUFFICES ASSUME Init PROVE Inv OBVIOUS
  <1>1. TypeOK
    <2>1. NoOffer \in Offer BY DEF NoOffer, Offer
    <2>2. Baseline \in Baseline .. 100 BY DEF Baseline
    <2>3. outcomes \in Seq(Entry) /\ ripe \in 0 .. Len(outcomes) BY DEF Init
    <2> QED BY <2>1, <2>2, <2>3 DEF Init, TypeOK
  <1>3. \A x \in Tx : ~Active(x) BY DEF Init, Active, Rest
  <1>4. TxShape /\ ToolLocks BY <1>3 DEF TxShape, ToolLocks, HoldsTool
  <1>5. \A a, p : ~HoldsRow(a, p) BY <1>3 DEF HoldsRow, Init, Rest
  <1>6. RowLocks BY <1>5 DEF RowLocks
  <1>7. OwnerShape /\ SweepShape /\ OfferShape
    BY DEF Init, OwnerShape, SweepShape, OfferShape, Rest
  <1>8. GrantIsEarned BY DEF Init, GrantIsEarned
  <1>9. WithdrawnUnlessRaced /\ AnnouncedUnlessCut
    BY DEF Init, WithdrawnUnlessRaced, AnnouncedUnlessCut
  <1> QED BY <1>1, <1>4, <1>6, <1>7, <1>8, <1>9 DEF Inv

\* Every step keeps it.
LEMMA NextInv == Inv /\ [Next]_vars => Inv'
  <1> SUFFICES ASSUME Inv, [Next]_vars PROVE Inv' OBVIOUS
  <1>1. CASE Next
    <2>1. TypeOK' BY <1>1, TypeStep DEF Inv
    <2>3. OfferShape' BY <1>1, OfferStep DEF Inv
    <2>4. TxShape' /\ ToolLocks' BY <1>1, TxStepKeeps DEF Inv
    <2>5. RowLocks' /\ OwnerShape' BY <1>1, RowStep DEF Inv
    <2>6. SweepShape' /\ AnnouncedUnlessCut' BY <1>1, SweepStepKeeps DEF Inv
    <2>7. GrantIsEarned' BY <1>1, EarnedStep DEF Inv
    <2>8. WithdrawnUnlessRaced' BY <1>1, WithdrawnStep DEF Inv
    <2> QED BY <2>1, <2>3, <2>4, <2>5, <2>6, <2>7, <2>8 DEF Inv
  <1>2. CASE UNCHANGED vars
    <2>1. UNCHANGED <<outcomes, ripe, score, grant, status, offer, answered, announced,
                      demotions, tx, owner, sweep, verdicts, faults>>
      BY <1>2 DEF vars, tables
    <2>2. TypeOK' BY <2>1 DEF Inv, TypeOK
    <2>3. OfferShape' /\ SweepShape' /\ OwnerShape'
      BY <2>1 DEF Inv, OfferShape, SweepShape, OwnerShape
    <2>4. TxShape' BY <2>1 DEF Inv, TxShape, Active, AddOf, ListOf, ToolOfProposal
    <2>5. ToolLocks' /\ RowLocks'
      BY <2>1 DEF Inv, ToolLocks, RowLocks, HoldsTool, HoldsRow, Active
    <2>6. GrantIsEarned' /\ WithdrawnUnlessRaced' /\ AnnouncedUnlessCut'
      BY <2>1 DEF Inv, GrantIsEarned, WithdrawnUnlessRaced, AnnouncedUnlessCut, ToolOfProposal
    <2> QED BY <2>2, <2>3, <2>4, <2>5, <2>6 DEF Inv
  <1> QED BY <1>1, <1>2

\* In every behaviour of calibrator and sweep, all of it holds.
THEOREM Invariance == Spec => []Inv
  BY InitInv, NextInv, PTL DEF Spec

\* A live grant postdates every bad outcome of its routine on record, however a failed call
\* and an acceptance meet (calibrator.go demote, phase8_helpers.go).
THEOREM GrantsAreEarned == Spec => []GrantIsEarned
  <1>1. Inv => GrantIsEarned BY DEF Inv
  <1> QED BY <1>1, Invariance, PTL

\* What the owner is shown was made after the last demotion of its tool, has its audit, and
\* is not accepted while it is withdrawn.
THEOREM ProposalsStayHonest == Spec => []ProposalsAreHonest
  <1>1. Inv => ProposalsAreHonest BY DEF Inv, ProposalsAreHonest, RefusalOnly, TxShape, ListOf
  <1> QED BY <1>1, Invariance, PTL

\* What a step does that raises a score, or makes a routine automatic.
ConsentIn(t) ==
  (\/ score'[t] > score[t]
   \/ \E r \in Routine : ToolOf[r] = t /\ ~Automatic(r) /\ Automatic(r)')
  => \E p \in Proposal : status[p] = "open" /\ status'[p] = "accepted" /\ ToolOfProposal(p) = t

\* Only an acceptance of an open proposal of its tool does that.
LEMMA ConsentStep == ASSUME Inv, Next, NEW t \in Tool PROVE ConsentIn(t)
  <1> USE DEF Inv
  <1>0. score[t] \in Baseline .. 100 /\ ToolOf \in [Routine -> Tool]
    BY RoutineAssumption DEF TypeOK
  <1>1. CASE UNCHANGED <<score, grant>>
    BY <1>0, <1>1 DEF ConsentIn, Automatic, Baseline
  <1>2. ASSUME NEW x \in Tx, Commit(x) PROVE ConsentIn(t)
    <2>1. /\ score'[t] = (IF t \in tx[x].done THEN Demote(score[t]) ELSE score[t])
          /\ \A r \in Routine : grant'[r] # 0 => grant[r] # 0
      BY <1>2 DEF Commit
    <2>2. Demote(score[t]) <= score[t] /\ Demote(score[t]) \in Baseline .. 100
          /\ (Band(Demote(score[t])) = "execute_auto" => Band(score[t]) = "execute_auto")
      BY <1>0, ScoreMoves
    <2>3. ~(score'[t] > score[t]) BY <1>0, <2>1, <2>2 DEF Baseline
    <2>4. ASSUME NEW r \in Routine, ToolOf[r] = t, Automatic(r)' PROVE Automatic(r)
      BY <2>1, <2>2, <2>4 DEF Automatic
    <2> QED BY <2>3, <2>4 DEF ConsentIn
  <1>3. ASSUME NEW o \in Owner, Accept(o) PROVE ConsentIn(t)
    <2>1. CASE ~UNCHANGED <<score, grant>>
      <3>1. PICK p \in Proposal, r \in Routine, u \in Tool :
              /\ r = offer[p].routine /\ u = ToolOf[r] /\ status[p] = "open"
              /\ score' = [score EXCEPT ![u] = PromoteTo(score[u])]
              /\ grant' = [grant EXCEPT ![r] = 1 + Len(outcomes)]
              /\ status' = [status EXCEPT ![p] = "accepted"]
        BY <1>3, <2>1, Accepting
      <3>2. CASE u = t
        <4>1. status'[p] = "accepted" BY <3>1 DEF TypeOK
        <4>2. ToolOfProposal(p) = t BY <3>1, <3>2 DEF ToolOfProposal
        <4> QED BY <3>1, <4>1, <4>2 DEF ConsentIn
      <3>3. CASE u # t
        <4>1. score'[t] = score[t] BY <3>1, <3>3 DEF TypeOK
        <4>2. \A q \in Routine : ToolOf[q] = t => grant'[q] = grant[q]
          BY <3>1, <3>3 DEF TypeOK
        <4>3. ~(score'[t] > score[t]) BY <1>0, <4>1 DEF Baseline
        <4>4. ASSUME NEW q \in Routine, ToolOf[q] = t, Automatic(q)' PROVE Automatic(q)
          BY <4>1, <4>2, <4>4 DEF Automatic
        <4> QED BY <4>3, <4>4 DEF ConsentIn
      <3> QED BY <3>2, <3>3
    <2> QED BY <1>1, <2>1
  <1> QED BY <1>1, <1>2, <1>3, ScoreKept

\* Nothing but the owner's acceptance raises a score or makes a routine automatic; no sweep,
\* outcome, demotion, abort or crash does (phase8_helpers.go, sweep.go).
THEOREM OnlyConsent == Spec => OnlyConsentRaises
  <1>1. Inv /\ [Next]_vars =>
          [\A t \in Tool :
             (\/ score'[t] > score[t]
              \/ \E r \in Routine : ToolOf[r] = t /\ ~Automatic(r) /\ Automatic(r)')
             => \E p \in Proposal :
                  status[p] = "open" /\ status'[p] = "accepted" /\ ToolOfProposal(p) = t]_vars
    BY ConsentStep DEF ConsentIn
  <1> QED BY <1>1, Invariance, PTL DEF Spec, OnlyConsentRaises
=============================================================================
