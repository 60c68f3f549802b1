---------------------------- MODULE Calibration ----------------------------
(***************************************************************************)
(* How a routine of a tool earns autonomy and how the tool loses it.       *)
(*                                                                         *)
(*   internal/calibration/calibrator.go  outcomes, demotion, eligibility   *)
(*   internal/calibration/sweep.go       the scheduled search for routines *)
(*   graph/phase8_helpers.go             the owner's answer, the flag      *)
(*                                                                         *)
(* Transactions are read committed: what one has written is buffered here  *)
(* until it commits, a row it has written or selected for update is locked *)
(* until then, and the database aborts one of those that wait in a circle. *)
(* Outcomes are kept in the order of their time; the oldest mature first.  *)
(***************************************************************************)
EXTENDS Naturals, Sequences, FiniteSets

CONSTANTS Tool, Routine, Task,
          ToolOf,      \* the tool of a routine
          Unknown,     \* no routine: a NULL fingerprint
          Proposal,    \* ids that may be minted
          Tx,          \* demoting transactions at a time
          Owner,       \* requests in which the owner answers a proposal
          Sweep,       \* sweeps that may overlap
          Decrement, WindowN, MinSample, Ratio,  \* the knobs, in hundredths
          MaxOutcomes, \* bound: outcomes ever recorded
          MaxVerdicts, \* bound: cancelled or badly rated tasks
          MaxFaults    \* bound: failed statements and crashes

ASSUME TxAssumption == Tx \cap Owner = {}

ASSUME RoutineAssumption == ToolOf \in [Routine -> Tool] /\ Unknown \notin Routine

ASSUME KnobAssumption ==
  Decrement \in Nat /\ WindowN \in Nat /\ MinSample \in Nat \ {0} /\ Ratio \in Nat

ASSUME BoundAssumption == MaxOutcomes \in Nat /\ MaxVerdicts \in Nat /\ MaxFaults \in Nat

VARIABLES
  outcomes,  \* tool_outcomes, oldest first
  ripe,      \* how many of them are past their matured_at
  score,     \* tools.trust_score, in hundredths
  grant,     \* the live grant of a routine: 0 for none, or 1 + the outcomes before it
  status,    \* pending_decisions of kind promotion_proposal
  offer,     \* their frozen payload and time
  answered,  \* how many outcomes there were when one was resolved
  announced, \* those with a promotion_proposed audit
  demotions, \* tool_demoted audits of a tool
  tx,        \* volatile: the demoting transactions
  owner,     \* volatile: the owner's requests
  sweep,     \* volatile: the step of each sweep
  verdicts, faults

tables == <<outcomes, ripe, score, grant, status, offer, answered, announced, demotions>>
vars == <<tables, tx, owner, sweep, verdicts, faults>>

Baseline == 50
AutoThreshold == 80
-----------------------------------------------------------------------------
(* Scores. *)

Band(s) == IF s = 0 THEN "none" ELSE IF s >= AutoThreshold THEN "execute_auto" ELSE "execute_gated"

PromoteTo(s) == IF s > AutoThreshold THEN s ELSE AutoThreshold

Demote(s) == IF s < Baseline + Decrement THEN Baseline ELSE s - Decrement
-----------------------------------------------------------------------------
(* Reading the outcomes. *)

OutcomeKind == {"clean", "bad", "denied_by_script"}
\* vetoes: the outcome a flag is about, if that had not matured, or 0.
Entry == [tool : Tool, task : Task, routine : Routine \cup {Unknown}, kind : OutcomeKind,
          vetoes : Nat]

\* Only rows with a fingerprint mature.
Matured(r) == {i \in 1 .. ripe : outcomes[i].routine = r}

\* MaturedCleanRatioByRoutine: the last WindowN, and the clean ones among them.
Recent(r) == {i \in Matured(r) : Cardinality({j \in Matured(r) : j > i}) < WindowN}
CleanOf(I) == {i \in I : outcomes[i].kind = "clean"}

\* CandidateRoutinesForSweep
Candidates == {r \in Routine : Matured(r) # {}}

OpenOf(r) == {p \in Proposal : status[p] = "open" /\ offer[p].routine = r}

\* Neither the owner nor a demotion has turned r down since its latest clean outcome.
Cooled(r) ==
  \E i \in CleanOf(Matured(r)) :
    \A p \in Proposal : status[p] \in {"declined", "withdrawn"} /\ offer[p].routine = r
                          => answered[p] < i

\* MaybeProposePromotion, after its look at the grants.
Proposable(r) ==
  /\ OpenOf(r) = {}
  /\ Cardinality(Recent(r)) >= MinSample
  /\ Cardinality(CleanOf(Recent(r))) * 100 >= Ratio * Cardinality(Recent(r))
  /\ Cooled(r)

\* The outcomes tool t had under task k; LatestOutcomeForToolTask.
Under(t, k) == {i \in DOMAIN outcomes : outcomes[i].tool = t /\ outcomes[i].task = k}
Latest(I) == CHOOSE i \in I : \A j \in I : j <= i

\* ToolsActedUnderTask; a call that a script denied counts as well.
ToolsActed(k) == {t \in Tool : Under(t, k) # {}}
-----------------------------------------------------------------------------
(* Transactions and locks. *)

Rest == [pc |-> "rest"]
\* add: the outcome to insert, if any; fp: the routine to revoke, Unknown for all;
\* todo, done: tools still to demote, and locked; open, gone: proposals to withdraw.
Demoting == [pc : {"demote"}, add : Seq(Entry),
             fp : Routine \cup {Unknown}, todo : SUBSET Tool, done : SUBSET Tool,
             open : SUBSET Proposal, gone : SUBSET Proposal]
Answering == [pc : {"resolve", "tool"}, proposal : Proposal, accept : BOOLEAN]
Sweeping == [pc : {"grant", "weigh", "insert", "announce"}, todo : SUBSET Routine,
             routine : Routine \cup {Unknown}, counted : SUBSET Nat,
             proposal : SUBSET Proposal]
Offer == [routine : Routine \cup {Unknown}, counted : SUBSET Nat, epoch : Nat, raced : BOOLEAN]

Active(x) == tx[x].pc = "demote"

HoldsTool(x, t) == Active(x) /\ t \in tx[x].done

\* The proposal's row, updated and not committed.
HoldsRow(a, p) ==
  \/ a \in Tx /\ Active(a) /\ p \in tx[a].gone
  \/ a \in Owner /\ owner[a].pc = "tool" /\ owner[a].proposal = p

FreeTool(a, t) == \A x \in Tx \ {a} : ~HoldsTool(x, t)
FreeRow(a, p) == \A b \in (Tx \cup Owner) \ {a} : ~HoldsRow(b, p)

ToolOfProposal(p) == ToolOf[offer[p].routine]

\* a waits for b: for a tool, or for a proposal's row.
WaitsFor(a, b) ==
  /\ a # b
  /\ \/ /\ a \in Tx /\ Active(a)
        /\ \/ tx[a].open = {} /\ b \in Tx /\ \E t \in tx[a].todo : HoldsTool(b, t)
           \/ \E p \in tx[a].open : HoldsRow(b, p)
     \/ /\ a \in Owner /\ owner[a].pc = "tool"
        /\ b \in Tx /\ HoldsTool(b, ToolOfProposal(owner[a].proposal))
     \/ /\ a \in Owner /\ owner[a].pc = "resolve"
        /\ HoldsRow(b, owner[a].proposal)

\* a is one of those that wait for each other in a circle.
InCircle(a) ==
  \E S \in SUBSET (Tx \cup Owner) :
    /\ a \in S
    /\ \A b \in S : (\E c \in S : WaitsFor(b, c)) /\ (\E c \in S : WaitsFor(c, b))
-----------------------------------------------------------------------------
NoOffer == [routine |-> Unknown, counted |-> {}, epoch |-> 0, raced |-> FALSE]

TypeOK ==
  /\ outcomes \in Seq(Entry) /\ ripe \in 0 .. Len(outcomes)
  /\ score \in [Tool -> Baseline .. 100] /\ grant \in [Routine -> Nat]
  /\ status \in [Proposal -> {"none", "open", "accepted", "declined", "withdrawn"}]
  /\ offer \in [Proposal -> Offer] /\ answered \in [Proposal -> Nat]
  /\ announced \subseteq Proposal
  /\ demotions \in [Tool -> Nat]
  /\ tx \in [Tx -> Demoting \cup {Rest}]
  /\ owner \in [Owner -> Answering \cup {Rest}]
  /\ sweep \in [Sweep -> Sweeping \cup {Rest}]
  /\ verdicts \in Nat /\ faults \in Nat

Init ==
  /\ outcomes = <<>> /\ ripe = 0
  /\ score = [t \in Tool |-> Baseline]
  /\ grant = [r \in Routine |-> 0]
  /\ status = [p \in Proposal |-> "none"]
  /\ offer = [p \in Proposal |-> NoOffer]
  /\ answered = [p \in Proposal |-> 0]
  /\ announced = {}
  /\ demotions = [t \in Tool |-> 0]
  /\ tx = [x \in Tx |-> Rest]
  /\ owner = [o \in Owner |-> Rest]
  /\ sweep = [s \in Sweep |-> Rest]
  /\ verdicts = 0 /\ faults = 0
-----------------------------------------------------------------------------
(* Outcomes. *)

Recorded == Len(outcomes) + Cardinality({x \in Tx : Active(x) /\ tx[x].add # <<>>})

Pass == UNCHANGED <<score, grant, status, offer, answered, announced, demotions>>

\* RecordOutcome and writeDeniedByScript: an insert, with the transaction around it.
RecordOutcome(r, k) ==
  /\ Recorded < MaxOutcomes
  /\ \E kind \in {"clean", "denied_by_script"} :
       outcomes' = Append(outcomes,
         [tool |-> ToolOf[r], task |-> k, kind |-> kind, vetoes |-> 0,
          routine |-> IF kind = "clean" THEN r ELSE Unknown])
  /\ UNCHANGED ripe /\ Pass
  /\ UNCHANGED <<tx, owner, sweep, verdicts, faults>>

\* matured_at passes.
Mature ==
  /\ ripe < Len(outcomes)
  /\ ripe' = ripe + 1
  /\ UNCHANGED outcomes /\ Pass
  /\ UNCHANGED <<tx, owner, sweep, verdicts, faults>>
-----------------------------------------------------------------------------
(* Demotion. *)

Begin(x, add, fp, tools) ==
  /\ ~Active(x)
  /\ tx' = [tx EXCEPT ![x] = [pc |-> "demote", add |-> add, fp |-> fp, todo |-> tools,
                              done |-> {}, open |-> {}, gone |-> {}]]
  /\ UNCHANGED <<tables, owner, sweep, faults>>

\* RecordBad: the outcome of a call that failed, and the demotion.
RecordBad(x, r, k) ==
  /\ Recorded < MaxOutcomes
  /\ Begin(x, <<[tool |-> ToolOf[r], task |-> k, routine |-> r, kind |-> "bad",
                 vetoes |-> 0]>>, r, {ToolOf[r]})
  /\ UNCHANGED verdicts

\* FlagBad: a new bad outcome with the fingerprint of the tool's latest under the task.
FlagBad(x, t, k) ==
  /\ Recorded < MaxOutcomes
  /\ LET I == Under(t, k)
         fp == IF I = {} THEN Unknown ELSE outcomes[Latest(I)].routine
     IN  Begin(x, <<[tool |-> t, task |-> k, routine |-> fp, kind |-> "bad",
                     vetoes |-> IF I # {} /\ Latest(I) > ripe THEN Latest(I) ELSE 0]>>,
               fp, {t})
  /\ UNCHANGED verdicts

\* DemoteForCancel, DemoteForFeedback: every tool that acted, and all its grants.
DemoteForTask(x, k) ==
  /\ verdicts < MaxVerdicts
  /\ verdicts' = verdicts + 1
  /\ Begin(x, <<>>, Unknown, ToolsActed(k))

\* Mutant: only the proposals of the routine that went wrong are withdrawn.
LockToolNarrowly(x, t) ==
  /\ Active(x) /\ tx[x].open = {}
  /\ t \in tx[x].todo /\ FreeTool(x, t)
  /\ tx' = [tx EXCEPT ![x].todo = @ \ {t}, ![x].done = @ \cup {t},
                      ![x].open = {p \in Proposal : status[p] = "open" /\ ToolOfProposal(p) = t
                                                      /\ offer[p].routine = tx[x].fp}]
  /\ UNCHANGED <<tables, owner, sweep, verdicts, faults>>

\* demote, up to the list of the tool's open proposals.
LockTool(x, t) ==
  /\ Active(x) /\ tx[x].open = {}
  /\ t \in tx[x].todo /\ FreeTool(x, t)
  /\ tx' = [tx EXCEPT ![x].todo = @ \ {t}, ![x].done = @ \cup {t},
                      ![x].open = {p \in Proposal : status[p] = "open" /\ ToolOfProposal(p) = t
                                                      /\ p \notin tx[x].gone}]
  /\ UNCHANGED <<tables, owner, sweep, verdicts, faults>>

\* One of them is withdrawn; when somebody has resolved it, everything is rolled back.
Withdraw(x, p) ==
  /\ Active(x)
  /\ p \in tx[x].open /\ FreeRow(x, p)
  /\ tx' = [tx EXCEPT ![x] = IF status[p] = "open"
                             THEN [tx[x] EXCEPT !.open = @ \ {p}, !.gone = @ \cup {p}]
                             ELSE Rest]
  /\ UNCHANGED <<tables, owner, sweep, verdicts, faults>>

\* Mutant: an unknown routine revokes nothing.
RevokedExactly(x, r) ==
  ToolOf[r] \in tx[x].done /\ tx[x].fp = r

Revoked(x, r) ==
  ToolOf[r] \in tx[x].done /\ (tx[x].fp = Unknown \/ tx[x].fp = r)

Commit(x) ==
  /\ Active(x) /\ tx[x].todo = {} /\ tx[x].open = {}
  /\ outcomes' = outcomes \o tx[x].add
  /\ score' = [t \in Tool |-> IF t \in tx[x].done THEN Demote(score[t]) ELSE score[t]]
  /\ grant' = [r \in Routine |-> IF Revoked(x, r) THEN 0 ELSE grant[r]]
  /\ status' = [p \in Proposal |-> IF p \in tx[x].gone THEN "withdrawn" ELSE status[p]]
  /\ answered' = [p \in Proposal |-> IF p \in tx[x].gone THEN Len(outcomes) ELSE answered[p]]
  /\ demotions' = [t \in Tool |-> demotions[t] + IF t \in tx[x].done THEN 1 ELSE 0]
  /\ tx' = [tx EXCEPT ![x] = Rest]
  /\ UNCHANGED <<ripe, offer, announced, owner, sweep, verdicts, faults>>
-----------------------------------------------------------------------------
(* The owner's answer: an unlocked look, the resolution, the tool. *)

Respond(o, p) ==
  /\ owner[o] = Rest
  /\ status[p] = "open"
  /\ \E accept \in BOOLEAN :
       owner' = [owner EXCEPT ![o] = [pc |-> "resolve", proposal |-> p, accept |-> accept]]
  /\ UNCHANGED <<tables, tx, sweep, verdicts, faults>>

\* The first resolution wins; a refusal needs nothing else and commits.
ResolveProposal(o) ==
  /\ owner[o].pc = "resolve"
  /\ LET p == owner[o].proposal
         refuse == status[p] = "open" /\ ~owner[o].accept
     IN  /\ FreeRow(o, p)
         /\ owner' = [owner EXCEPT ![o] = IF status[p] = "open" /\ owner[o].accept
                                          THEN [owner[o] EXCEPT !.pc = "tool"] ELSE Rest]
         /\ status' = [status EXCEPT ![p] = IF refuse THEN "declined" ELSE @]
         /\ answered' = [answered EXCEPT ![p] = IF refuse THEN Len(outcomes) ELSE @]
  /\ UNCHANGED <<outcomes, ripe, score, grant, offer, announced, demotions>>
  /\ UNCHANGED <<tx, sweep, verdicts, faults>>

\* Mutant: the score is set before the transaction.
PromoteOutside(o) ==
  LET p == owner[o].proposal
      r == offer[p].routine
      t == ToolOf[r]
  IN  /\ score' = [score EXCEPT ![t] = PromoteTo(@)]
      /\ IF grant[r] = 0
         THEN /\ grant' = [grant EXCEPT ![r] = 1 + Len(outcomes)]
              /\ status' = [status EXCEPT ![p] = "accepted"]
              /\ answered' = [answered EXCEPT ![p] = Len(outcomes)]
         ELSE UNCHANGED <<grant, status, answered>>

\* The effect of an acceptance; a second live grant is against uq_grant_live.
Promote(o) ==
  LET p == owner[o].proposal
      r == offer[p].routine
      t == ToolOf[r]
  IN  IF grant[r] = 0
      THEN /\ score' = [score EXCEPT ![t] = PromoteTo(@)]
           /\ grant' = [grant EXCEPT ![r] = 1 + Len(outcomes)]
           /\ status' = [status EXCEPT ![p] = "accepted"]
           /\ answered' = [answered EXCEPT ![p] = Len(outcomes)]
      ELSE UNCHANGED <<score, grant, status, answered>>

Accept(o) ==
  /\ owner[o].pc = "tool"
  /\ FreeTool(o, ToolOfProposal(owner[o].proposal))
  /\ Promote(o)
  /\ owner' = [owner EXCEPT ![o] = Rest]
  /\ UNCHANGED <<outcomes, ripe, offer, announced, demotions, tx, sweep, verdicts, faults>>
-----------------------------------------------------------------------------
(* The sweep.  A routine is looked up in several statements of their own.  *)

\* Mutant: the sweep returns at the first routine it does not propose.
LookFirst(s, todo) ==
  IF todo # Candidates THEN Rest
  ELSE [pc |-> "grant", todo |-> todo, routine |-> Unknown, counted |-> {}, proposal |-> {}]

Look(s, todo) ==
  IF todo = {} THEN Rest
  ELSE [pc |-> "grant", todo |-> todo, routine |-> Unknown, counted |-> {}, proposal |-> {}]

Scan(s) ==
  /\ sweep[s] = Rest
  /\ Candidates # {}
  /\ sweep' = [sweep EXCEPT ![s] = Look(s, Candidates)]
  /\ UNCHANGED <<tables, tx, owner, verdicts, faults>>

\* LiveGrantExists
CheckGrant(s) ==
  /\ sweep[s].pc = "grant"
  /\ \E r \in sweep[s].todo :
       sweep' = [sweep EXCEPT ![s] =
         IF grant[r] # 0 THEN Look(s, sweep[s].todo \ {r})
         ELSE [sweep[s] EXCEPT !.pc = "weigh", !.routine = r, !.todo = @ \ {r}]]
  /\ UNCHANGED <<tables, tx, owner, verdicts, faults>>

Weigh(s) ==
  /\ sweep[s].pc = "weigh"
  /\ LET r == sweep[s].routine
     IN  sweep' = [sweep EXCEPT ![s] =
           IF Proposable(r)
           THEN [sweep[s] EXCEPT !.pc = "insert", !.counted = CleanOf(Recent(r))]
           ELSE Look(s, sweep[s].todo)]
  /\ UNCHANGED <<tables, tx, owner, verdicts, faults>>

\* emitProposal: the row ...
InsertProposal(s) ==
  /\ sweep[s].pc = "insert"
  /\ \E p \in Proposal :
       LET r == sweep[s].routine
           t == ToolOf[r]
       IN  /\ status[p] = "none"
           /\ status' = [status EXCEPT ![p] = "open"]
           /\ offer' = [offer EXCEPT ![p] =
                [routine |-> r, counted |-> sweep[s].counted, epoch |-> demotions[t],
                 raced |-> \E x \in Tx : HoldsTool(x, t)]]
           /\ sweep' = [sweep EXCEPT ![s].pc = "announce", ![s].proposal = {p}]
  /\ UNCHANGED <<outcomes, ripe, score, grant, answered, announced, demotions>>
  /\ UNCHANGED <<tx, owner, verdicts, faults>>

\* ... and its audit.
Announce(s) ==
  /\ sweep[s].pc = "announce"
  /\ announced' = announced \cup sweep[s].proposal
  /\ sweep' = [sweep EXCEPT ![s] = Look(s, sweep[s].todo)]
  /\ UNCHANGED <<outcomes, ripe, score, grant, status, offer, answered, demotions>>
  /\ UNCHANGED <<tx, owner, verdicts, faults>>
-----------------------------------------------------------------------------
(* What goes wrong. *)

\* The database breaks a circle of waits.
AbortTx(x) ==
  /\ InCircle(x)
  /\ tx' = [tx EXCEPT ![x] = Rest]
  /\ UNCHANGED <<tables, owner, sweep, verdicts, faults>>

AbortAnswer(o) ==
  /\ InCircle(o)
  /\ owner' = [owner EXCEPT ![o] = Rest]
  /\ UNCHANGED <<tables, tx, sweep, verdicts, faults>>

\* A statement fails, or the process dies: nothing uncommitted is left, and a sweep
\* that is recovered begins again.
Fault ==
  /\ faults < MaxFaults
  /\ faults' = faults + 1
  /\ \/ \E x \in Tx : Active(x) /\ tx' = [tx EXCEPT ![x] = Rest] /\ UNCHANGED <<owner, sweep>>
     \/ \E s \in Sweep : sweep[s] # Rest /\ sweep' = [sweep EXCEPT ![s] = Rest]
                           /\ UNCHANGED <<tx, owner>>
     \/ /\ tx' = [x \in Tx |-> Rest]
        /\ owner' = [o \in Owner |-> Rest]
        /\ sweep' = [s \in Sweep |-> Rest]
  /\ UNCHANGED <<tables, verdicts>>

TxStep(x) ==
  \/ \E t \in Tool : LockTool(x, t)
  \/ \E p \in Proposal : Withdraw(x, p)
  \/ Commit(x) \/ AbortTx(x)

OwnerStep(o) == ResolveProposal(o) \/ Accept(o) \/ AbortAnswer(o)

SweepStep(s) == Scan(s) \/ CheckGrant(s) \/ Weigh(s) \/ InsertProposal(s) \/ Announce(s)

Next ==
  \/ Mature \/ Fault
  \/ \E k \in Task :
       \/ \E r \in Routine : RecordOutcome(r, k) \/ \E x \in Tx : RecordBad(x, r, k)
       \/ \E x \in Tx : DemoteForTask(x, k) \/ \E t \in Tool : FlagBad(x, t, k)
  \/ \E x \in Tx : TxStep(x)
  \/ \E o \in Owner : OwnerStep(o) \/ \E p \in Proposal : Respond(o, p)
  \/ \E s \in Sweep : SweepStep(s)

Spec == Init /\ [][Next]_vars

FairSpec ==
  /\ Spec
  /\ \A x \in Tx : WF_vars(TxStep(x))
  /\ \A o \in Owner : WF_vars(OwnerStep(o))
  /\ \A s \in Sweep : WF_vars(SweepStep(s))
-----------------------------------------------------------------------------
(* Properties. *)

\* A live grant postdates every bad outcome of its routine on record: whichever way an
\* acceptance and a bad outcome meet, the grant does not outlive the outcome.
GrantIsEarned ==
  \A r \in Routine : grant[r] # 0 =>
    \A i \in grant[r] .. Len(outcomes) :
      outcomes[i].kind = "bad" /\ outcomes[i].tool = ToolOf[r]
        => outcomes[i].routine \notin {r, Unknown}

\* "a demotion invalidates in-flight promotions" (calibrator.go): a proposal that is open
\* was made after the last demotion of its tool, unless a sweep inserted it while that
\* demotion was under way.
WithdrawnUnlessRaced ==
  \A p \in Proposal :
    status[p] = "open" => offer[p].raced \/ offer[p].epoch = demotions[ToolOfProposal(p)]

\* A demotion that finds a proposal resolved under its hands finds a refusal: no
\* acceptance slips in between its look and its withdrawal.
RefusalOnly ==
  \A x \in Tx : Active(x) => \A p \in tx[x].open : status[p] \in {"open", "declined"}

\* Every proposal has its audit, but for the one a sweep is about to write or a fault has
\* cut off; the sweep that runs again does not make up for it.
AnnouncedUnlessCut ==
  \A p \in Proposal : status[p] # "none" =>
    \/ p \in announced \/ faults > 0
    \/ \E s \in Sweep : sweep[s].pc = "announce" /\ p \in sweep[s].proposal

\* What the owner is shown is current, announced, and answered only once.
ProposalsAreHonest == WithdrawnUnlessRaced /\ RefusalOnly /\ AnnouncedUnlessCut

\* The routine r is approved without a person: the score's band and the grant say so.
Automatic(r) == Band(score[ToolOf[r]]) = "execute_auto" /\ grant[r] # 0

\* Nothing but an acceptance raises a score, or makes a routine automatic: one of the same
\* tool, though not always of the same routine.
OnlyConsentRaises ==
  [][\A t \in Tool :
       (\/ score'[t] > score[t]
        \/ \E r \in Routine : ToolOf[r] = t /\ ~Automatic(r) /\ Automatic(r)')
       => \E p \in Proposal :
            status[p] = "open" /\ status'[p] = "accepted" /\ ToolOfProposal(p) = t]_vars

Ready(r) ==
  /\ r \in Candidates /\ grant[r] = 0 /\ Proposable(r)
  /\ \E p \in Proposal : status[p] = "none"

\* A routine that has earned it is proposed, or loses its claim.
ProposalComes == \A r \in Routine : Ready(r) ~> ~Ready(r)
=============================================================================
