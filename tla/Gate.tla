-------------------------------- MODULE Gate --------------------------------
(***************************************************************************)
(* The verdict on a composed call of one tool under one task.              *)
(*                                                                         *)
(*   internal/gate/               the layers and their order               *)
(*   internal/gatescript/         the script that is active for the tool   *)
(*   internal/overseer/gateway.go the model that grades, and its cap       *)
(*   graph/phase3_helpers.go      a proposal, from the look to the verdict *)
(*   graph/gatescript_helpers.go  the owner attaches and disables scripts  *)
(*                                                                         *)
(* A proposal reads the tool's row once, at its beginning, and everything  *)
(* else when it needs it; an owner's request is a sequence of statements   *)
(* with no transaction around them.  What follows the verdict is Toolflow. *)
(***************************************************************************)
EXTENDS Naturals, FiniteSets

CONSTANTS Client,    \* proposals at a time
          Owner,     \* requests of the owner about scripts at a time
          Shape,     \* what the floor reads of a tool's permissions and of a call
          Cap,       \* overseer evaluations of a task
          MaxVersion,  \* bound: script versions of the tool
          MaxCalls,    \* bound: proposals
          MaxSwitches, \* bound: promotions and demotions of the tool
          MaxFaults    \* bound: requests that end half-way

ASSUME ShapeAssumption ==
  Shape \subseteq [reads : BOOLEAN, spends : BOOLEAN, secret : BOOLEAN,
                   irreversible : {"never", "always", "stranger"},
                   to : {"nobody", "known", "stranger"}]

ASSUME ClientAssumption == IsFiniteSet(Client) /\ Client # {}

ASSUME BoundAssumption ==
  /\ Cap \in Nat /\ MaxVersion \in Nat
  /\ MaxCalls \in Nat /\ MaxSwitches \in Nat /\ MaxFaults \in Nat

VARIABLES
  active,   \* tools.active_script_version, 0 for none
  script,   \* gate_scripts.status, by version
  auto,     \* the score is in the execute_auto band
  granted,  \* the call's routine has a live grant
  evals,    \* overseer_evaluated audits of the task
  call,     \* volatile: the proposals
  owner,    \* volatile: the owner's requests
  graded,   \* external: calls of the overseer's model
  unwritten, \* evaluations that ended before their audit
  troubled, \* two requests of the owner overlapped, or one ended half-way
  calls, switches, faults

tool == <<active, script, auto, granted>>
grading == <<graded, unwritten>>
bounds == <<calls, switches, faults>>
vars == <<tool, evals, call, owner, grading, troubled, bounds>>

Version == 1 .. MaxVersion
Layer == {"read_only", "floor", "script", "autonomy", "overseer"}
Decision == {"approve", "deny", "request_decision"}

Rest == [pc |-> "rest"]

\* A proposal, while layers are left: what of the tool's row at its look is still to be
\* used, and whether the tool has been demoted since.  Then what a layer says, and
\* whether the model was asked.
Scripting == [pc : {"script"}, shape : Shape, pointed : BOOLEAN, auto : BOOLEAN,
              demoted : BOOLEAN]
Trusting == [pc : {"autonomy"}, shape : Shape, auto : BOOLEAN, demoted : BOOLEAN]
Grading == [pc : {"grade"}, shape : Shape]
Settled == [pc : {"audit"}, shape : Shape, layer : Layer, decision : Decision,
            demoted : BOOLEAN, model : BOOLEAN]

Request == [pc : {"insert", "point", "clear", "disable"}, version : Version]

TypeOK ==
  /\ active \in 0 .. MaxVersion
  /\ script \in [Version -> {"none", "active", "disabled"}]
  /\ auto \in BOOLEAN /\ granted \in BOOLEAN
  /\ evals \in Nat
  /\ call \in [Client -> Scripting \cup Trusting \cup Grading \cup Settled \cup {Rest}]
  /\ owner \in [Owner -> Request \cup {Rest}]
  /\ graded \in Nat /\ unwritten \in Nat
  /\ troubled \in BOOLEAN
  /\ calls \in Nat /\ switches \in Nat /\ faults \in Nat

Init ==
  /\ active = 0
  /\ script = [v \in Version |-> "none"]
  /\ auto \in BOOLEAN /\ granted \in BOOLEAN
  /\ evals = 0
  /\ call = [c \in Client |-> Rest]
  /\ owner = [o \in Owner |-> Rest]
  /\ graded = 0 /\ unwritten = 0
  /\ troubled = FALSE
  /\ calls = 0 /\ switches = 0 /\ faults = 0
-----------------------------------------------------------------------------
(* The layers. *)

At(c, p) == call[c].pc = p

Settles(c, next) == call' = [call EXCEPT ![c] = next]

\* What a layer decides on a call of shape s; the verdict is not written yet.
Says(s, layer, decision) ==
  [pc |-> "audit", shape |-> s, layer |-> layer, decision |-> decision,
   demoted |-> FALSE, model |-> FALSE]

HandsOver(c) ==
  Settles(c, [pc |-> "autonomy", shape |-> call[c].shape, auto |-> call[c].auto,
              demoted |-> call[c].demoted])

\* Floor.Check: money, an effect on a third party, a secret.
Trips(s) ==
  \/ s.spends
  \/ s.irreversible = "always"
  \/ s.irreversible = "stranger" /\ s.to # "known"
  \/ s.secret

\* GetActiveGateScript: the row the tool points at now, if it is active.
Running == active # 0 /\ script[active] = "active"

\* A read is not graded; a call that trips the floor is for the owner and nobody else.
Floor(p) ==
  IF p.shape.reads THEN Says(p.shape, "read_only", "approve")
  ELSE IF Trips(p.shape) THEN Says(p.shape, "floor", "request_decision")
  ELSE p

\* The task's state, the tool's row, and the two layers that look at nothing else.
Propose(c) ==
  /\ call[c] = Rest /\ calls < MaxCalls
  /\ calls' = calls + 1
  /\ \E s \in Shape :
       Settles(c, Floor([pc |-> "script", shape |-> s, pointed |-> active # 0,
                         auto |-> auto, demoted |-> FALSE]))
  /\ UNCHANGED <<tool, evals, owner, grading, troubled, switches, faults>>

\* Layer 3 is terminal unless the script hands over or fails ...
Script(c) ==
  /\ At(c, "script")
  /\ call[c].pointed /\ Running
  /\ HandsOver(c) \/ \E d \in Decision : Settles(c, Says(call[c].shape, "script", d))
  /\ UNCHANGED <<tool, evals, owner, grading, troubled, bounds>>

\* ... and skipped when the tool had none, or has none any more ...
NoScript(c) ==
  /\ At(c, "script")
  /\ ~(call[c].pointed /\ Running)
  /\ HandsOver(c)
  /\ UNCHANGED <<tool, evals, owner, grading, troubled, bounds>>

\* ... or cannot be loaded or run at all.
ScriptUnavailable(c) ==
  /\ At(c, "script") /\ faults < MaxFaults
  /\ faults' = faults + 1
  /\ HandsOver(c)
  /\ UNCHANGED <<tool, evals, owner, grading, troubled, calls, switches>>

\* Mutant: the grant is not looked up.
AutonomousBand(c) == call[c].auto

\* autonomyApprove: the band as the row had it, the grant as it is now.
Autonomous(c) == call[c].auto /\ granted

Autonomy(c) ==
  /\ At(c, "autonomy")
  /\ Settles(c, IF Autonomous(c)
                THEN [Says(call[c].shape, "autonomy", "approve") EXCEPT
                        !.demoted = call[c].demoted]
                ELSE [pc |-> "grade", shape |-> call[c].shape])
  /\ UNCHANGED <<tool, evals, owner, grading, troubled, bounds>>

UnderCap == evals < Cap

\* Gateway.Grade: over the cap, or when there is no model or no count, the owner is
\* asked; and so he is when the model fails or answers nonsense.
Grade(c) ==
  /\ At(c, "grade")
  /\ \/ /\ Settles(c, Says(call[c].shape, "overseer", "request_decision"))
        /\ UNCHANGED graded
     \/ /\ UnderCap
        /\ graded' = graded + 1
        /\ \E d \in {"approve", "request_decision"} :
             Settles(c, [Says(call[c].shape, "overseer", d) EXCEPT !.model = TRUE])
  /\ UNCHANGED <<tool, evals, owner, unwritten, troubled, bounds>>

\* Mutant: an approval needs no overseer row.
RecordRequestsOnly(c) ==
  evals + (IF call[c].layer = "overseer" /\ call[c].decision # "approve" THEN 1 ELSE 0)

\* An evaluation is counted by the row it leaves.
Recorded(c) == evals + (IF call[c].layer = "overseer" THEN 1 ELSE 0)

\* writeComposeVerdictOverseerAudit, and the branch on the verdict.
Audit(c) ==
  /\ At(c, "audit")
  /\ evals' = Recorded(c)
  /\ call' = [call EXCEPT ![c] = Rest]
  /\ UNCHANGED <<tool, owner, grading, troubled, bounds>>

Evaluated(c) == At(c, "audit") /\ call[c].model

\* A statement of a proposal fails, or the request ends.
Abandon(c) ==
  /\ call[c] # Rest /\ faults < MaxFaults
  /\ faults' = faults + 1
  /\ unwritten' = unwritten + (IF Evaluated(c) THEN 1 ELSE 0)
  /\ call' = [call EXCEPT ![c] = Rest]
  /\ UNCHANGED <<tool, evals, owner, graded, troubled, calls, switches>>
-----------------------------------------------------------------------------
(* The owner's requests about scripts. *)

Quiet == \A o \in Owner : owner[o] = Rest

Starts(o, request) ==
  /\ owner[o] = Rest
  /\ owner' = [owner EXCEPT ![o] = request]
  /\ troubled' = (troubled \/ ~Quiet)
  /\ UNCHANGED <<tool, evals, call, grading, bounds>>

\* attachGateScript: NextGateScriptVersion ...
Attach(o) ==
  \E v \in Version :
    /\ script[v] = "none" /\ \A w \in Version : w < v => script[w] # "none"
    /\ Starts(o, [pc |-> "insert", version |-> v])

\* ... CreateGateScript, which fails when another request has taken the version ...
Insert(o) ==
  /\ owner[o].pc = "insert"
  /\ LET v == owner[o].version
     IN  IF script[v] = "none"
         THEN /\ script' = [script EXCEPT ![v] = "active"]
              /\ owner' = [owner EXCEPT ![o].pc = "point"]
         ELSE owner' = [owner EXCEPT ![o] = Rest] /\ UNCHANGED script
  /\ UNCHANGED <<active, auto, granted, evals, call, grading, troubled, bounds>>

\* ... and UpdateActiveScriptVersion.
Point(o) ==
  /\ owner[o].pc = "point"
  /\ active' = owner[o].version
  /\ owner' = [owner EXCEPT ![o] = Rest]
  /\ UNCHANGED <<script, auto, granted, evals, call, grading, troubled, bounds>>

\* disableGateScript: the version the tool points at ...
Disable(o) == active # 0 /\ Starts(o, [pc |-> "clear", version |-> active])

\* Mutant: the row is disabled and the pointer left alone.
ClearNothing(o) ==
  /\ owner[o].pc = "clear"
  /\ owner' = [owner EXCEPT ![o].pc = "disable"]
  /\ UNCHANGED <<tool, evals, call, grading, troubled, bounds>>

\* ... ClearActiveScriptVersion, whatever it points at by then ...
Clear(o) ==
  /\ owner[o].pc = "clear"
  /\ active' = 0
  /\ owner' = [owner EXCEPT ![o].pc = "disable"]
  /\ UNCHANGED <<script, auto, granted, evals, call, grading, troubled, bounds>>

\* ... and DisableGateScriptVersion.
DisableRow(o) ==
  /\ owner[o].pc = "disable"
  /\ script' = [script EXCEPT ![owner[o].version] = "disabled"]
  /\ owner' = [owner EXCEPT ![o] = Rest]
  /\ UNCHANGED <<active, auto, granted, evals, call, grading, troubled, bounds>>

AbandonRequest(o) ==
  /\ owner[o] # Rest /\ faults < MaxFaults
  /\ faults' = faults + 1
  /\ owner' = [owner EXCEPT ![o] = Rest]
  /\ troubled' = TRUE
  /\ UNCHANGED <<tool, evals, call, grading, calls, switches>>
-----------------------------------------------------------------------------
(* Calibration changes the tool's row, in one transaction each. *)

\* An accepted promotion, of this routine or of another one of the tool.
Promote ==
  /\ switches < MaxSwitches
  /\ switches' = switches + 1
  /\ auto' = TRUE
  /\ granted' \in {TRUE, granted}
  /\ UNCHANGED <<active, script, evals, call, owner, grading, troubled, calls, faults>>

\* The proposal has yet to use the row's score, or has approved by it.
RowInHand(c) ==
  At(c, "script") \/ At(c, "autonomy") \/ (At(c, "audit") /\ call[c].layer = "autonomy")

\* A demotion, for this routine's sake, for another's or for all.
DemoteTool ==
  /\ switches < MaxSwitches
  /\ switches' = switches + 1
  /\ auto' \in {FALSE, auto}
  /\ granted' \in {FALSE, granted}
  /\ call' = [c \in Client |->
                IF RowInHand(c) THEN [call[c] EXCEPT !.demoted = TRUE] ELSE call[c]]
  /\ UNCHANGED <<active, script, evals, owner, grading, troubled, calls, faults>>

ClientStep(c) ==
  \/ Propose(c) \/ Script(c) \/ NoScript(c) \/ ScriptUnavailable(c)
  \/ Autonomy(c) \/ Grade(c) \/ Audit(c) \/ Abandon(c)

OwnerStep(o) ==
  \/ Attach(o) \/ Insert(o) \/ Point(o)
  \/ Disable(o) \/ Clear(o) \/ DisableRow(o) \/ AbandonRequest(o)

Next ==
  \/ \E c \in Client : ClientStep(c)
  \/ \E o \in Owner : OwnerStep(o)
  \/ Promote \/ DemoteTool

Spec == Init /\ [][Next]_vars
-----------------------------------------------------------------------------
(* Properties. *)

\* Whatever the owner and calibration do meanwhile, no call that spends, discloses a
\* secret or has an effect on anybody but a known contact is approved without the owner;
\* and what the tool's autonomy has approved it would approve still when the verdict is
\* written, unless the tool was demoted while the proposal was under way.
ApprovalEntitled ==
  \A c \in Client : At(c, "audit") =>
    LET p == call[c] IN
    /\ p.decision = "approve" /\ ~p.shape.reads =>
         /\ ~p.shape.spends /\ ~p.shape.secret
         /\ \/ p.shape.irreversible = "never"
            \/ p.shape.irreversible = "stranger" /\ p.shape.to = "known"
    /\ p.layer = "autonomy" => p.demoted \/ (auto /\ granted)

\* The model is asked for no more evaluations of a task than the cap allows, but for
\* those that overlap the last one or that left no row to be counted.
CapUnlessOverlapping == graded <= Cap + Cardinality(Client) - 1 + unwritten

\* The tool never points at a script that has been disabled, and when no two requests of
\* the owner have overlapped and none has ended half-way it points at the newest one, or
\* at none when that is disabled.
PointerFollowsRows ==
  /\ active # 0 => script[active] = "active"
  /\ ~troubled /\ Quiet =>
       \A v \in Version :
         script[v] = "active" /\ (\A w \in Version : w > v => script[w] = "none")
           => active = v
=============================================================================
