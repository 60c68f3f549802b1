----------------------------- MODULE GateProofs -----------------------------
(***************************************************************************)
(* Proofs about Gate, for every number of proposals, requests and versions. *)
(* Inv is inductive: Carried says what a proposal that goes on has passed,  *)
(* and what is left of the row it has read; Counted where each evaluation   *)
(* of the model is to be found; and Pointing how the requests of the owner  *)
(* that are under way stand to the versions and to the pointer.             *)
(***************************************************************************)
EXTENDS Gate, FiniteSetTheorems, TLAPS

USE BoundAssumption DEF BoundAssumption

\* A layer that is left sees only calls that are graded and do not trip the floor, and
\* what it will use of the row's score holds or has been noted as overtaken.
Carries(c) ==
  /\ call[c].pc \in {"script", "autonomy", "grade"} =>
       ~call[c].shape.reads /\ ~Trips(call[c].shape)
  /\ call[c].pc \in {"script", "autonomy"} =>
       (call[c].auto => call[c].demoted \/ auto)
  /\ At(c, "audit") =>
       /\ call[c].decision = "approve" /\ ~call[c].shape.reads => ~Trips(call[c].shape)
       /\ call[c].layer = "autonomy" => call[c].demoted \/ (auto /\ granted)

Carried == \A c \in Client : Carries(c)

\* An evaluation is on record, in a proposal's hands, or was lost with its proposal.
Answered == {c \in Client : Evaluated(c)}
Counted ==
  /\ graded <= evals + unwritten + Cardinality(Answered)
  /\ CapUnlessOverlapping
  /\ \A c \in Client : Evaluated(c) => call[c].layer = "overseer"

Known(v) == script[v] # "none"

\* Versions are taken in order, and a request holds one that fits its step.
Versions ==
  /\ \A v, w \in Version : v < w /\ Known(w) => Known(v)
  /\ active # 0 => script[active] = "active"
  /\ \A o \in Owner :
       /\ owner[o].pc = "insert" => \A w \in Version : w < owner[o].version => Known(w)
       /\ owner[o].pc = "point" =>
            script[owner[o].version] = "active" /\ active # owner[o].version
       /\ owner[o].pc \in {"clear", "disable"} => Known(owner[o].version)
       /\ owner[o].pc = "disable" => active # owner[o].version

\* A version that is yet to be pointed at is in nobody else's hands.
Exclusive ==
  \A o, q \in Owner :
    (/\ owner[o].pc = "point" /\ owner[q].pc \in {"point", "clear", "disable"}
     /\ owner[o].version = owner[q].version)
    => o = q

\* The newest version, when it has not been disabled.
Newest(v) == script[v] = "active" /\ \A w \in Version : w > v => script[w] = "none"

\* Without overlap and without a cut there is one request at a time, and the newest
\* version is pointed at or is the one it has in hand.
Alone == \A o, q \in Owner : owner[o] # Rest /\ owner[q] # Rest => o = q
Pointing ==
  ~troubled =>
    /\ Alone
    /\ \A o \in Owner : owner[o].pc = "clear" => active = owner[o].version
    /\ \A o \in Owner : owner[o].pc = "point" => Newest(owner[o].version)
    /\ \A v \in Version : Newest(v) =>
         \/ active = v
         \/ \E o \in Owner : owner[o].pc \in {"point", "disable"} /\ owner[o].version = v

\* What a request holds, and what it leaves behind.
Requests == Versions /\ Exclusive /\ Pointing

Inv == TypeOK /\ Carried /\ Counted /\ Requests
-----------------------------------------------------------------------------
(* Types. *)

Place == Scripting \cup Trusting \cup Grading \cup Settled \cup {Rest}

\* What a layer says is a verdict.
LEMMA SaysType ==
  ASSUME NEW s \in Shape, NEW l \in Layer, NEW d \in Decision
  PROVE  /\ Says(s, l, d) \in Settled
         /\ \A b \in BOOLEAN : /\ [Says(s, l, d) EXCEPT !.demoted = b] \in Settled
                               /\ [Says(s, l, d) EXCEPT !.model = b] \in Settled
  BY DEF Says, Settled

\* The floor lets a proposal go on, or settles it.
LEMMA FloorType ==
  ASSUME NEW p \in Scripting PROVE Floor(p) \in Scripting \cup Settled
<1>1. p.shape \in Shape BY DEF Scripting
<1>2. /\ Says(p.shape, "read_only", "approve") \in Settled
      /\ Says(p.shape, "floor", "request_decision") \in Settled
  BY <1>1, SaysType DEF Layer, Decision
<1> QED BY <1>2 DEF Floor

\* A proposal's step keeps its type.
LEMMA ClientType ==
  ASSUME TypeOK, NEW c \in Client, ClientStep(c) PROVE call' \in [Client -> Place]
<1> SUFFICES \E x \in Place : call' = [call EXCEPT ![c] = x] BY DEF TypeOK, Place
<1>a. call[c] \in Place BY DEF TypeOK, Place
<1>b. /\ At(c, "script") => call[c] \in Scripting
      /\ At(c, "autonomy") => call[c] \in Trusting
      /\ At(c, "grade") => call[c] \in Grading
      /\ At(c, "audit") => call[c] \in Settled
  BY <1>a DEF Place, At, Scripting, Trusting, Grading, Settled, Rest
<1>1. CASE Propose(c)
  <2>1. PICK s \in Shape :
          call' = [call EXCEPT ![c] = Floor([pc |-> "script", shape |-> s,
                     pointed |-> active # 0, auto |-> auto, demoted |-> FALSE])]
    BY <1>1 DEF Propose, Settles
  <2>2. [pc |-> "script", shape |-> s, pointed |-> active # 0, auto |-> auto,
         demoted |-> FALSE] \in Scripting
    BY DEF Scripting, TypeOK
  <2> QED BY <2>1, <2>2, FloorType DEF Place
<1>2. ASSUME HandsOver(c), At(c, "script") PROVE \E x \in Place : call' = [call EXCEPT ![c] = x]
  <2>1. [pc |-> "autonomy", shape |-> call[c].shape, auto |-> call[c].auto,
         demoted |-> call[c].demoted] \in Trusting
    BY <1>b, <1>2 DEF Scripting, Trusting
  <2> QED BY <1>2, <2>1 DEF HandsOver, Settles, Place
<1>3. CASE Script(c)
  <2>1. CASE HandsOver(c) BY <1>2, <1>3, <2>1 DEF Script
  <2>2. ASSUME NEW d \in Decision, Settles(c, Says(call[c].shape, "script", d))
        PROVE  \E x \in Place : call' = [call EXCEPT ![c] = x]
    <3>1. call[c].shape \in Shape BY <1>3, <1>b DEF Script, Scripting
    <3> QED BY <2>2, <3>1, SaysType DEF Layer, Settles, Place
  <2> QED BY <1>3, <2>1, <2>2 DEF Script
<1>4. CASE NoScript(c) \/ ScriptUnavailable(c)
  BY <1>2, <1>4 DEF NoScript, ScriptUnavailable
<1>5. CASE Autonomy(c)
  <2>1. call[c].shape \in Shape /\ call[c].demoted \in BOOLEAN
    BY <1>5, <1>b DEF Autonomy, Trusting
  <2>2. [Says(call[c].shape, "autonomy", "approve") EXCEPT !.demoted = call[c].demoted]
          \in Settled
    BY <2>1, SaysType DEF Layer, Decision
  <2>3. [pc |-> "grade", shape |-> call[c].shape] \in Grading BY <2>1 DEF Grading
  <2> QED BY <1>5, <2>2, <2>3 DEF Autonomy, Settles, Place
<1>6. CASE Grade(c)
  <2>1. call[c].shape \in Shape BY <1>6, <1>b DEF Grade, Grading
  <2>2. Says(call[c].shape, "overseer", "request_decision") \in Settled
    BY <2>1, SaysType DEF Layer, Decision
  <2>3. \A d \in {"approve", "request_decision"} :
          [Says(call[c].shape, "overseer", d) EXCEPT !.model = TRUE] \in Settled
    BY <2>1, SaysType DEF Layer, Decision
  <2> QED BY <1>6, <2>2, <2>3 DEF Grade, Settles, Place
<1>7. CASE Audit(c) \/ Abandon(c) BY <1>7 DEF Audit, Abandon, Place
<1> QED BY <1>1, <1>3, <1>4, <1>5, <1>6, <1>7 DEF ClientStep

\* A request's step keeps its type and the versions'.
LEMMA OwnerType ==
  ASSUME TypeOK, NEW o \in Owner, OwnerStep(o)
  PROVE  /\ owner' \in [Owner -> Request \cup {Rest}]
         /\ active' \in 0 .. MaxVersion /\ troubled' \in BOOLEAN
         /\ script' \in [Version -> {"none", "active", "disabled"}]
<1> USE DEF TypeOK
<1>a. owner[o] # Rest => owner[o] \in Request OBVIOUS
<1>1. CASE Attach(o) BY <1>1 DEF Attach, Starts, Request, tool
<1>2. CASE Disable(o)
  <2>1. active \in Version BY <1>2 DEF Disable, Version
  <2> QED BY <1>2, <2>1 DEF Disable, Starts, Request, tool
<1>3. CASE Insert(o)
  <2>1. owner[o] \in Request BY <1>3, <1>a DEF Insert, Rest
  <2>2. [owner[o] EXCEPT !.pc = "point"] \in Request BY <2>1 DEF Request
  <2>3. owner[o].version \in Version BY <2>1 DEF Request
  <2> QED BY <1>3, <2>2, <2>3 DEF Insert
<1>4. CASE Point(o)
  <2>1. owner[o].version \in Version BY <1>4, <1>a DEF Point, Rest, Request
  <2> QED BY <1>4, <2>1 DEF Point, Version
<1>5. CASE Clear(o)
  <2>1. owner[o] \in Request BY <1>5, <1>a DEF Clear, Rest
  <2>2. [owner[o] EXCEPT !.pc = "disable"] \in Request BY <2>1 DEF Request
  <2> QED BY <1>5, <2>2 DEF Clear
<1>6. CASE DisableRow(o) BY <1>6 DEF DisableRow
<1>7. CASE AbandonRequest(o) BY <1>7 DEF AbandonRequest, tool
<1> QED BY <1>1, <1>2, <1>3, <1>4, <1>5, <1>6, <1>7 DEF OwnerStep

\* A demotion keeps the proposals' types.
LEMMA DemoteType ==
  ASSUME TypeOK, DemoteTool PROVE call' \in [Client -> Place]
<1> SUFFICES ASSUME NEW c \in Client, RowInHand(c)
             PROVE  [call[c] EXCEPT !.demoted = TRUE] \in Place
  BY DEF DemoteTool, TypeOK, Place
<1>1. call[c] \in Place BY DEF TypeOK, Place
<1>2. call[c] \in Scripting \cup Trusting \cup Settled
  BY <1>1 DEF RowInHand, At, Place, Grading, Rest
<1>3. CASE call[c] \in Scripting BY <1>3 DEF Scripting, Place
<1>4. CASE call[c] \in Trusting BY <1>4 DEF Trusting, Place
<1>5. CASE call[c] \in Settled BY <1>5 DEF Settled, Place
<1> QED BY <1>2, <1>3, <1>4, <1>5

\* A step keeps the types.
LEMMA TypeStep == ASSUME TypeOK, [Next]_vars PROVE TypeOK'
<1>1. ASSUME NEW c \in Client, ClientStep(c) PROVE TypeOK'
  <2>1. call' \in [Client -> Place] BY <1>1, ClientType
  <2>2. UNCHANGED <<tool, owner, troubled, switches>>
    BY <1>1 DEF ClientStep, Propose, Script, NoScript, ScriptUnavailable, Autonomy, Grade,
                Audit, Abandon, bounds
  <2>3. evals' \in Nat /\ calls' \in Nat /\ faults' \in Nat
    BY <1>1 DEF TypeOK, ClientStep, Propose, Script, NoScript, ScriptUnavailable, Autonomy,
                Grade, Audit, Recorded, Abandon, bounds
  <2>4. graded' \in Nat /\ unwritten' \in Nat
    BY <1>1 DEF TypeOK, ClientStep, Propose, Script, NoScript, ScriptUnavailable, Autonomy,
                Grade, Audit, Abandon, grading
  <2> QED BY <2>1, <2>2, <2>3, <2>4 DEF TypeOK, Place, tool
<1>2. ASSUME NEW o \in Owner, OwnerStep(o) PROVE TypeOK'
  <2>1. UNCHANGED <<auto, granted, evals, call, grading, calls, switches>>
    BY <1>2 DEF OwnerStep, Attach, Insert, Point, Disable, Clear, DisableRow, AbandonRequest,
                Starts, tool, bounds
  <2>2. faults' \in Nat
    BY <1>2 DEF TypeOK, OwnerStep, Attach, Insert, Point, Disable, Clear, DisableRow,
                AbandonRequest, Starts, bounds
  <2> QED BY <1>2, <2>1, <2>2, OwnerType DEF TypeOK, grading
<1>3. CASE Promote
  <2>1. auto' \in BOOLEAN BY <1>3 DEF Promote
  <2>2. granted' \in BOOLEAN
    <3>1. granted \in BOOLEAN /\ granted' \in {TRUE, granted} BY <1>3 DEF Promote, TypeOK
    <3> QED BY <3>1
  <2>3. switches' \in Nat BY <1>3 DEF Promote, TypeOK
  <2>4. UNCHANGED <<active, script, evals, call, owner, grading, troubled, calls, faults>>
    BY <1>3 DEF Promote
  <2> QED BY <2>1, <2>2, <2>3, <2>4 DEF TypeOK, grading
<1>4. CASE DemoteTool
  <2>1. auto' \in BOOLEAN /\ granted' \in BOOLEAN BY <1>4 DEF DemoteTool, TypeOK
  <2>2. call' \in [Client -> Place] BY <1>4, DemoteType
  <2>3. switches' \in Nat BY <1>4 DEF DemoteTool, TypeOK
  <2>4. UNCHANGED <<active, script, evals, owner, grading, troubled, calls, faults>>
    BY <1>4 DEF DemoteTool
  <2> QED BY <2>1, <2>2, <2>3, <2>4 DEF TypeOK, Place, grading
<1>5. CASE UNCHANGED vars BY <1>5 DEF TypeOK, vars, tool, grading, bounds
<1> QED BY <1>1, <1>2, <1>3, <1>4, <1>5 DEF Next
-----------------------------------------------------------------------------
(* Proposals. *)

\* Where a proposal's own step takes it, by what the step is.
LEMMA CarriedStep ==
  ASSUME TypeOK, Carried, NEW c \in Client, ClientStep(c) PROVE Carried'
<1>a. call[c] \in Place BY DEF TypeOK, Place
<1>b. UNCHANGED <<auto, granted>>
  BY DEF ClientStep, Propose, Script, NoScript, ScriptUnavailable, Autonomy, Grade, Audit,
         Abandon, tool
<1>c. \A d \in Client : d # c => call'[d] = call[d]
  BY DEF TypeOK, ClientStep, Propose, Script, NoScript, ScriptUnavailable, HandsOver,
         Autonomy, Grade, Audit, Abandon, Settles
<1>d. \A d \in Client : d # c => Carries(d)' BY <1>b, <1>c DEF Carried, Carries, At
<1>e. Carries(c) BY DEF Carried
<1> SUFFICES Carries(c)' BY <1>d DEF Carried
<1>1. CASE Propose(c)
  <2>1. PICK s \in Shape :
          call'[c] = Floor([pc |-> "script", shape |-> s, pointed |-> active # 0,
                            auto |-> auto, demoted |-> FALSE])
    BY <1>1 DEF Propose, Settles, TypeOK
  <2>2. CASE s.reads BY <2>1, <2>2 DEF Floor, Says, Carries, At
  <2>3. CASE ~s.reads /\ Trips(s) BY <2>1, <2>3 DEF Floor, Says, Carries, At
  <2>4. CASE ~s.reads /\ ~Trips(s) BY <2>1, <2>4, <1>b DEF Floor, Carries, At
  <2> QED BY <2>2, <2>3, <2>4
<1>2. ASSUME HandsOver(c), At(c, "script") PROVE Carries(c)'
  <2>1. call'[c] = [pc |-> "autonomy", shape |-> call[c].shape, auto |-> call[c].auto,
                    demoted |-> call[c].demoted]
    BY <1>2 DEF HandsOver, Settles, TypeOK
  <2> QED BY <1>2, <1>b, <1>e, <2>1 DEF Carries, At
<1>3. CASE Script(c)
  <2>1. ASSUME NEW d \in Decision, Settles(c, Says(call[c].shape, "script", d))
        PROVE  Carries(c)'
    <3>1. call'[c] = Says(call[c].shape, "script", d) BY <2>1 DEF Settles, TypeOK
    <3> QED BY <1>3, <1>e, <3>1 DEF Script, Says, Carries, At
  <2> QED BY <1>2, <1>3, <2>1 DEF Script
<1>4. CASE NoScript(c) \/ ScriptUnavailable(c)
  BY <1>2, <1>4 DEF NoScript, ScriptUnavailable
<1>5. CASE Autonomy(c)
  <2>1. CASE Autonomous(c)
    <3>1. call'[c] = [Says(call[c].shape, "autonomy", "approve") EXCEPT
                        !.demoted = call[c].demoted]
      BY <1>5, <2>1 DEF Autonomy, Settles, TypeOK
    <3>2. call'[c] = [pc |-> "audit", shape |-> call[c].shape, layer |-> "autonomy",
                      decision |-> "approve", demoted |-> call[c].demoted, model |-> FALSE]
      BY <3>1 DEF Says
    <3>3. call[c].demoted \/ (auto /\ granted)
      BY <1>5, <1>e, <2>1 DEF Autonomy, Autonomous, Carries, At
    <3> QED BY <1>5, <1>b, <1>e, <3>2, <3>3 DEF Autonomy, Carries, At
  <2>2. CASE ~Autonomous(c)
    <3>1. call'[c] = [pc |-> "grade", shape |-> call[c].shape]
      BY <1>5, <2>2 DEF Autonomy, Settles, TypeOK
    <3> QED BY <1>5, <1>e, <3>1 DEF Autonomy, Carries, At
  <2> QED BY <2>1, <2>2
<1>6. CASE Grade(c)
  <2>1. PICK d \in Decision, b \in BOOLEAN :
          call'[c] = [pc |-> "audit", shape |-> call[c].shape, layer |-> "overseer",
                      decision |-> d, demoted |-> FALSE, model |-> b]
    BY <1>6 DEF Grade, Settles, Says, TypeOK, Decision
  <2> QED BY <1>6, <1>e, <2>1 DEF Grade, Carries, At
<1>7. CASE Audit(c) \/ Abandon(c)
  <2>1. call'[c] = Rest BY <1>7 DEF Audit, Abandon, TypeOK
  <2> QED BY <2>1 DEF Carries, At, Rest
<1> QED BY <1>1, <1>3, <1>4, <1>5, <1>6, <1>7 DEF ClientStep

\* A promotion grants, and a demotion notes what it overtakes.
LEMMA CarriedSwitch ==
  ASSUME TypeOK, Carried, Promote \/ DemoteTool PROVE Carried'
<1> SUFFICES ASSUME NEW c \in Client PROVE Carries(c)' BY DEF Carried
<1>a. Carries(c) BY DEF Carried
<1>1. CASE Promote
  <2>1. call' = call BY <1>1 DEF Promote
  <2>2. auto' /\ (granted => granted')
    <3>1. auto' = TRUE BY <1>1 DEF Promote
    <3>2. granted' = TRUE \/ granted' = granted BY <1>1 DEF Promote
    <3>3. ASSUME granted PROVE granted' BY <3>2, <3>3
    <3> QED BY <3>1, <3>3
  <2>3. call[c].pc \in {"script", "autonomy"} => (call[c].auto => call[c].demoted \/ auto')
    BY <2>2
  <2>4. At(c, "audit") /\ call[c].layer = "autonomy" => call[c].demoted \/ (auto' /\ granted')
    <3>1. At(c, "audit") /\ call[c].layer = "autonomy" => call[c].demoted \/ granted
      BY <1>a DEF Carries
    <3> QED BY <2>2, <3>1
  <2> QED BY <1>a, <2>1, <2>3, <2>4 DEF Carries, At
<1>2. CASE DemoteTool
  <2>1. CASE RowInHand(c)
    <3>1. call'[c] = [call[c] EXCEPT !.demoted = TRUE]
      BY <1>2, <2>1 DEF DemoteTool
    <3>2. call[c] \in Scripting \cup Trusting \cup Settled
      BY <2>1 DEF RowInHand, At, TypeOK, Grading, Rest
    <3>3. call'[c].demoted BY <3>1, <3>2 DEF Scripting, Trusting, Settled
    <3>4. /\ call'[c].pc = call[c].pc /\ call'[c].shape = call[c].shape
          /\ (At(c, "audit") => call'[c].layer = call[c].layer
                                /\ call'[c].decision = call[c].decision)
      BY <3>1, <3>2 DEF At, Scripting, Trusting, Settled
    <3> QED BY <1>a, <3>3, <3>4 DEF Carries, At
  <2>2. CASE ~RowInHand(c)
    <3>1. call'[c] = call[c] BY <1>2, <2>2 DEF DemoteTool
    <3> QED BY <1>a, <2>2, <3>1 DEF Carries, RowInHand, At
  <2> QED BY <2>1, <2>2
<1> QED BY <1>1, <1>2

\* No proposal's place depends on the owner's requests.
LEMMA CarriedStays ==
  ASSUME Carried, UNCHANGED <<auto, granted, call>> PROVE Carried'
  BY DEF Carried, Carries, At
-----------------------------------------------------------------------------
(* Evaluations. *)

\* The proposals with an evaluation in hand are finite in number.
LEMMA AnsweredFinite ==
  /\ IsFiniteSet(Answered) /\ Cardinality(Answered) \in Nat
  /\ Cardinality(Client) \in Nat \ {0}
<1>1. IsFiniteSet(Client) /\ Client # {} BY ClientAssumption DEF ClientAssumption
<1>2. Answered \subseteq Client BY DEF Answered
<1>3. IsFiniteSet(Answered) BY <1>1, <1>2, FS_Subset
<1> QED BY <1>1, <1>3, FS_CardinalityType, FS_EmptySet

\* Only the overseer's layer asks the model.
LEMMA AskedStep ==
  ASSUME TypeOK, Counted, [Next]_vars
  PROVE  \A c \in Client : Evaluated(c)' => call'[c].layer = "overseer"
<1> SUFFICES ASSUME NEW c \in Client, Evaluated(c)' PROVE call'[c].layer = "overseer"
  OBVIOUS
<1>a. call[c] \in Place BY DEF TypeOK, Place
<1>b. Evaluated(c) => call[c].layer = "overseer" BY DEF Counted
<1>c. call'[c].pc = "audit" /\ call'[c].model BY DEF Evaluated, At
<1>d. ASSUME call'[c] = call[c] PROVE call'[c].layer = "overseer"
  BY <1>b, <1>c, <1>d DEF Evaluated, At
<1>e. ASSUME NEW s, NEW l, NEW d, call'[c] = Says(s, l, d) PROVE FALSE
  BY <1>c, <1>e DEF Says
<1>1. ASSUME NEW d \in Client, ClientStep(d), d # c PROVE call'[c].layer = "overseer"
  <2>1. call'[c] = call[c]
    BY <1>1 DEF TypeOK, ClientStep, Propose, Script, NoScript, ScriptUnavailable, HandsOver,
                Autonomy, Grade, Audit, Abandon, Settles
  <2> QED BY <1>d, <2>1
<1>2. ASSUME ClientStep(c) PROVE call'[c].layer = "overseer"
  <2>1. CASE Propose(c)
    <3>1. PICK s \in Shape :
            call'[c] = Floor([pc |-> "script", shape |-> s, pointed |-> active # 0,
                              auto |-> auto, demoted |-> FALSE])
      BY <2>1 DEF Propose, Settles, TypeOK
    <3> QED BY <1>c, <1>e, <3>1 DEF Floor
  <2>2. CASE Script(c) \/ NoScript(c) \/ ScriptUnavailable(c)
    <3>1. ASSUME HandsOver(c) PROVE FALSE
      BY <1>c, <3>1 DEF HandsOver, Settles, TypeOK
    <3>2. ASSUME NEW d, Settles(c, Says(call[c].shape, "script", d)) PROVE FALSE
      BY <1>e, <3>2 DEF Settles, TypeOK
    <3> QED BY <2>2, <3>1, <3>2 DEF Script, NoScript, ScriptUnavailable
  <2>3. CASE Autonomy(c)
    <3>1. \/ call'[c].pc = "grade"
          \/ call'[c] = [pc |-> "audit", shape |-> call[c].shape, layer |-> "autonomy",
                         decision |-> "approve", demoted |-> call[c].demoted,
                         model |-> FALSE]
      BY <2>3 DEF Autonomy, Settles, Says, TypeOK
    <3> QED BY <1>c, <3>1
  <2>4. CASE Grade(c)
    <3>1. PICK d \in Decision, b \in BOOLEAN :
            call'[c] = [pc |-> "audit", shape |-> call[c].shape, layer |-> "overseer",
                        decision |-> d, demoted |-> FALSE, model |-> b]
      BY <2>4 DEF Grade, Settles, Says, TypeOK, Decision
    <3> QED BY <3>1
  <2>5. CASE Audit(c) \/ Abandon(c) BY <1>c, <2>5 DEF Audit, Abandon, TypeOK, Rest
  <2> QED BY <1>2, <2>1, <2>2, <2>3, <2>4, <2>5 DEF ClientStep
<1>3. ASSUME NEW o \in Owner, OwnerStep(o) PROVE call'[c].layer = "overseer"
  BY <1>d, <1>3 DEF OwnerStep, Attach, Insert, Point, Disable, Clear, DisableRow,
                    AbandonRequest, Starts
<1>4. CASE Promote BY <1>d, <1>4 DEF Promote
<1>5. CASE DemoteTool
  <2>1. CASE RowInHand(c)
    <3>1. call'[c] = [call[c] EXCEPT !.demoted = TRUE] BY <1>5, <2>1 DEF DemoteTool
    <3>2. call[c] \in Scripting \cup Trusting \cup Settled
      BY <1>a, <2>1 DEF RowInHand, At, Place, Grading, Rest
    <3>3. call[c] \in Settled BY <1>c, <3>1, <3>2 DEF Scripting, Trusting, Settled
    <3>4. call'[c].layer = call[c].layer /\ call[c].pc = "audit" /\ call[c].model
      BY <1>c, <3>1, <3>3 DEF Settled
    <3> QED BY <1>b, <3>4 DEF Evaluated, At
  <2>2. CASE ~RowInHand(c) BY <1>d, <1>5, <2>2 DEF DemoteTool
  <2> QED BY <2>1, <2>2
<1>6. CASE UNCHANGED vars BY <1>d, <1>6 DEF vars
<1> QED BY <1>1, <1>2, <1>3, <1>4, <1>5, <1>6 DEF Next

\* Away from the proposal that steps, evaluations stay where they are.
LEMMA AnsweredStep ==
  ASSUME TypeOK, NEW c \in Client, \A d \in Client : d # c => call'[d] = call[d]
  PROVE  /\ Evaluated(c) /\ ~Evaluated(c)' => Cardinality(Answered') = Cardinality(Answered) - 1
         /\ ~Evaluated(c) /\ Evaluated(c)' =>
              /\ Cardinality(Answered') = Cardinality(Answered) + 1
              /\ Cardinality(Answered) <= Cardinality(Client) - 1
         /\ (Evaluated(c) <=> Evaluated(c)') => Answered' = Answered
<1>a. \A d \in Client : d # c => (Evaluated(d)' <=> Evaluated(d)) BY DEF Evaluated, At
<1>b. IsFiniteSet(Answered) BY AnsweredFinite
<1>1. ASSUME Evaluated(c), ~Evaluated(c)'
      PROVE  Cardinality(Answered') = Cardinality(Answered) - 1
  <2>1. Answered' = Answered \ {c} BY <1>a, <1>1 DEF Answered
  <2>2. c \in Answered BY <1>1 DEF Answered
  <2> QED BY <1>b, <2>1, <2>2, FS_RemoveElement
<1>2. ASSUME ~Evaluated(c), Evaluated(c)'
      PROVE  /\ Cardinality(Answered') = Cardinality(Answered) + 1
             /\ Cardinality(Answered) <= Cardinality(Client) - 1
  <2>1. Answered' = Answered \cup {c} BY <1>a, <1>2 DEF Answered
  <2>2. c \notin Answered BY <1>2 DEF Answered
  <2>3. Cardinality(Answered \cup {c}) = Cardinality(Answered) + 1
    BY <1>b, <2>2, FS_AddElement
  <2>4. Answered \cup {c} \subseteq Client BY DEF Answered
  <2>5. Cardinality(Answered \cup {c}) <= Cardinality(Client)
    BY <2>4, ClientAssumption, FS_Subset DEF ClientAssumption
  <2> QED BY <2>1, <2>3, <2>5, AnsweredFinite
<1>3. ASSUME Evaluated(c) <=> Evaluated(c)' PROVE Answered' = Answered
  BY <1>a, <1>3 DEF Answered
<1> QED BY <1>1, <1>2, <1>3

\* A step that asks for no evaluation and writes none leaves the count as it is.
LEMMA CountedStays ==
  ASSUME TypeOK, Counted, UNCHANGED grading, evals' = evals,
         \A d \in Client : Evaluated(d)' <=> Evaluated(d),
         \A d \in Client : Evaluated(d)' => call'[d].layer = "overseer"
  PROVE  Counted'
<1>1. Answered' = Answered BY DEF Answered
<1> QED BY <1>1 DEF Counted, CapUnlessOverlapping, grading

\* A proposal's step accounts for each evaluation.
LEMMA CountedStep ==
  ASSUME TypeOK, Counted, NEW c \in Client, ClientStep(c) PROVE Counted'
<1>a. \A d \in Client : Evaluated(d)' => call'[d].layer = "overseer"
  BY AskedStep DEF Next
<1>b. \A d \in Client : d # c => call'[d] = call[d]
  BY DEF TypeOK, ClientStep, Propose, Script, NoScript, ScriptUnavailable, HandsOver,
         Autonomy, Grade, Audit, Abandon, Settles
<1>c. /\ graded \in Nat /\ evals \in Nat /\ unwritten \in Nat
      /\ Cardinality(Client) \in Nat \ {0} /\ Cardinality(Answered) \in Nat
      /\ Cardinality(Answered') \in Nat
  <2>1. Cardinality(Answered') \in Nat
    <3>1. Answered' \subseteq Client BY DEF Answered
    <3> QED BY <3>1, ClientAssumption, FS_Subset, FS_CardinalityType DEF ClientAssumption
  <2> QED BY <2>1, AnsweredFinite DEF TypeOK
<1>d. /\ graded <= evals + unwritten + Cardinality(Answered)
      /\ graded <= Cap + Cardinality(Client) - 1 + unwritten
  BY DEF Counted, CapUnlessOverlapping
<1> SUFFICES /\ graded' <= evals' + unwritten' + Cardinality(Answered')
             /\ graded' <= Cap + Cardinality(Client) - 1 + unwritten'
  BY <1>a DEF Counted, CapUnlessOverlapping
<1>e. ASSUME UNCHANGED grading, evals' = evals, ~Evaluated(c)
      PROVE  /\ graded' <= evals' + unwritten' + Cardinality(Answered')
             /\ graded' <= Cap + Cardinality(Client) - 1 + unwritten'
  <2>1. Cardinality(Answered') >= Cardinality(Answered) BY <1>b, <1>c, <1>e, AnsweredStep
  <2> QED BY <1>c, <1>d, <1>e, <2>1 DEF grading
<1>1. CASE Propose(c) \/ Script(c) \/ NoScript(c) \/ ScriptUnavailable(c) \/ Autonomy(c)
  <2>1. UNCHANGED grading /\ evals' = evals
    BY <1>1 DEF Propose, Script, NoScript, ScriptUnavailable, Autonomy
  <2>2. ~Evaluated(c)
    BY <1>1 DEF Propose, Script, NoScript, ScriptUnavailable, Autonomy, Evaluated, At, Rest
  <2> QED BY <1>e, <2>1, <2>2
<1>2. CASE Grade(c)
  <2>1. ~Evaluated(c) /\ evals' = evals /\ unwritten' = unwritten
    BY <1>2 DEF Grade, Evaluated, At
  <2>2. CASE graded' = graded
    BY <1>e, <2>1, <2>2 DEF grading
  <2>3. CASE graded' # graded
    <3>1. graded' = graded + 1 /\ evals < Cap BY <1>2, <2>3 DEF Grade, UnderCap
    <3>2. PICK d \in Decision :
            call'[c] = [Says(call[c].shape, "overseer", d) EXCEPT !.model = TRUE]
      BY <1>2, <2>3 DEF Grade, Settles, TypeOK, Decision
    <3>3. Evaluated(c)' BY <3>2 DEF Evaluated, At, Says
    <3>4. /\ Cardinality(Answered') = Cardinality(Answered) + 1
          /\ Cardinality(Answered) <= Cardinality(Client) - 1
      BY <1>b, <2>1, <3>3, AnsweredStep
    <3>5. Cap \in Nat BY BoundAssumption
    <3> QED BY <1>c, <1>d, <2>1, <3>1, <3>4, <3>5
  <2> QED BY <2>2, <2>3
<1>3. CASE Audit(c)
  <2>1. UNCHANGED grading /\ evals' \in {evals, evals + 1} /\ ~Evaluated(c)'
    BY <1>3 DEF Audit, Recorded, Evaluated, At, TypeOK, Rest
  <2>2. CASE Evaluated(c)
    <3>1. evals' = evals + 1 BY <1>3, <2>2 DEF Audit, Recorded, Counted
    <3>2. Cardinality(Answered') = Cardinality(Answered) - 1
      BY <1>b, <2>1, <2>2, AnsweredStep
    <3> QED BY <1>c, <1>d, <2>1, <3>1, <3>2 DEF grading
  <2>3. CASE ~Evaluated(c)
    <3>1. Answered' = Answered BY <1>b, <2>1, <2>3, AnsweredStep
    <3> QED BY <1>c, <1>d, <2>1, <3>1 DEF grading
  <2> QED BY <2>2, <2>3
<1>4. CASE Abandon(c)
  <2>1. /\ evals' = evals /\ graded' = graded /\ ~Evaluated(c)'
        /\ unwritten' = unwritten + (IF Evaluated(c) THEN 1 ELSE 0)
    BY <1>4 DEF Abandon, Evaluated, At, TypeOK, Rest
  <2>2. CASE Evaluated(c)
    <3>1. Cardinality(Answered') = Cardinality(Answered) - 1
      BY <1>b, <2>1, <2>2, AnsweredStep
    <3>2. unwritten' = unwritten + 1 BY <2>1, <2>2
    <3> QED BY <1>c, <1>d, <2>1, <3>1, <3>2
  <2>3. CASE ~Evaluated(c)
    <3>1. unwritten' = unwritten BY <1>c, <2>1, <2>3
    <3> QED BY <1>e, <2>1, <2>3, <3>1 DEF grading
  <2> QED BY <2>2, <2>3
<1> QED BY <1>1, <1>2, <1>3, <1>4 DEF ClientStep

\* A demotion is no evaluation.
LEMMA CountedDemotion == ASSUME TypeOK, Counted, DemoteTool PROVE Counted'
<1>a. \A d \in Client : Evaluated(d)' => call'[d].layer = "overseer"
  BY AskedStep DEF Next
<1>b. ASSUME NEW d \in Client PROVE Evaluated(d)' <=> Evaluated(d)
  <2>1. CASE RowInHand(d)
    <3>1. call'[d] = [call[d] EXCEPT !.demoted = TRUE] BY <2>1 DEF DemoteTool
    <3>2. call[d] \in Scripting \cup Trusting \cup Settled
      BY <2>1 DEF RowInHand, At, TypeOK, Grading, Rest
    <3>3. call'[d].pc = call[d].pc /\ (At(d, "audit") => call'[d].model = call[d].model)
      BY <3>1, <3>2 DEF At, Scripting, Trusting, Settled
    <3> QED BY <3>3 DEF Evaluated, At
  <2>2. CASE ~RowInHand(d)
    <3>1. call'[d] = call[d] BY <2>2 DEF DemoteTool
    <3> QED BY <3>1 DEF Evaluated, At
  <2> QED BY <2>1, <2>2
<1>c. UNCHANGED grading /\ evals' = evals BY DEF DemoteTool
<1> QED BY <1>a, <1>b, <1>c, CountedStays
-----------------------------------------------------------------------------
(* The owner's requests. *)

\* A request that starts finds the versions as they are.
LEMMA AttachStep == ASSUME TypeOK, Requests, NEW o \in Owner, Attach(o) PROVE Requests'
<1>1. PICK v \in Version :
        /\ script[v] = "none" /\ \A w \in Version : w < v => script[w] # "none"
        /\ Starts(o, [pc |-> "insert", version |-> v])
  BY DEF Attach
<1>2. /\ owner'[o] = [pc |-> "insert", version |-> v] /\ owner[o] = Rest
      /\ \A q \in Owner : q # o => owner'[q] = owner[q]
      /\ active' = active /\ script' = script
      /\ ~troubled' => ~troubled /\ Quiet
  BY <1>1 DEF Starts, TypeOK, tool
<1>3. Versions' BY <1>1, <1>2 DEF Requests, Versions, Known
<1>4. Exclusive' BY <1>2 DEF Requests, Exclusive
<1>5. ASSUME ~troubled' PROVE Pointing'
  <2>1. \A q \in Owner : owner[q] = Rest BY <1>2, <1>5 DEF Quiet
  <2>2. \A u \in Version : Newest(u)' => Newest(u) BY <1>2 DEF Newest
  <2>3. \A u \in Version : Newest(u) => active = u
    BY <1>2, <1>5, <2>1 DEF Requests, Pointing, Rest
  <2> QED BY <1>2, <2>1, <2>2, <2>3 DEF Pointing, Alone, Rest
<1> QED BY <1>3, <1>4, <1>5 DEF Requests, Pointing

\* A disabling starts at the version that is pointed at, which no request has in hand.
LEMMA DisableStep == ASSUME TypeOK, Requests, NEW o \in Owner, Disable(o) PROVE Requests'
<1>1. active # 0 /\ Starts(o, [pc |-> "clear", version |-> active]) BY DEF Disable
<1>2. /\ owner'[o] = [pc |-> "clear", version |-> active] /\ owner[o] = Rest
      /\ \A q \in Owner : q # o => owner'[q] = owner[q]
      /\ active' = active /\ script' = script
      /\ ~troubled' => ~troubled /\ Quiet
  BY <1>1 DEF Starts, TypeOK, tool
<1>3. Versions' BY <1>1, <1>2 DEF Requests, Versions, Known
<1>4. Exclusive' BY <1>2 DEF Requests, Exclusive, Versions
<1>5. ASSUME ~troubled' PROVE Pointing'
  <2>1. \A q \in Owner : owner[q] = Rest BY <1>2, <1>5 DEF Quiet
  <2>2. \A u \in Version : Newest(u)' => Newest(u) BY <1>2 DEF Newest
  <2>3. \A u \in Version : Newest(u) => active = u
    BY <1>2, <1>5, <2>1 DEF Requests, Pointing, Rest
  <2> QED BY <1>2, <2>1, <2>2, <2>3 DEF Pointing, Alone, Rest
<1> QED BY <1>3, <1>4, <1>5 DEF Requests, Pointing

\* A version that is taken is the newest, and in nobody else's hands.
LEMMA InsertStep == ASSUME TypeOK, Requests, NEW o \in Owner, Insert(o) PROVE Requests'
<1> DEFINE v == owner[o].version
<1>a. owner[o].pc = "insert" /\ v \in Version BY DEF Insert, TypeOK, Request, Rest
<1>b. UNCHANGED <<active, troubled>> BY DEF Insert
<1>c. \A q \in Owner : q # o => owner'[q] = owner[q] BY DEF Insert, TypeOK
<1>1. CASE script[v] = "none"
  <2>1. /\ script'[v] = "active" /\ \A u \in Version : u # v => script'[u] = script[u]
        /\ owner'[o].pc = "point" /\ owner'[o].version = v
    BY <1>1, <1>a DEF Insert, TypeOK, Request, Rest
  <2>2. \A w \in Version : w < v => Known(w) BY <1>a DEF Requests, Versions
  <2>3. \A w \in Version : w > v => ~Known(w)
    BY <1>1, <1>a DEF Requests, Versions, Known, Version
  <2>4. active # v BY <1>1, <1>a DEF Requests, Versions, Version
  <2>5. \A q \in Owner : owner[q].pc \in {"point", "clear", "disable"} => owner[q].version # v
    BY <1>1 DEF Requests, Versions, Known
  <2>6. Versions'
    <3>1. (\A u, w \in Version : u < w /\ Known(w) => Known(u))'
      BY <1>a, <2>1, <2>2 DEF Requests, Versions, Known, Version
    <3>2. active' # 0 => script'[active'] = "active"
      BY <1>b, <2>1, <2>4 DEF Requests, Versions, TypeOK, Version
    <3>3. ASSUME NEW q \in Owner, q # o
          PROVE  /\ owner'[q].pc = "insert" =>
                      \A w \in Version : w < owner'[q].version => Known(w)'
                 /\ owner'[q].pc = "point" => script'[owner'[q].version] = "active"
                                             /\ active' # owner'[q].version
                 /\ owner'[q].pc \in {"clear", "disable"} => Known(owner[q].version)'
                 /\ owner'[q].pc = "disable" => active' # owner'[q].version
      <4>1. owner[q].pc # "rest" => owner[q].version \in Version
        BY DEF TypeOK, Request, Rest
      <4>2. \A u \in Version : /\ Known(u) => Known(u)'
                               /\ script[u] = "active" => script'[u] = "active"
        BY <2>1 DEF Known
      <4>3. owner'[q] = owner[q] /\ active' = active BY <1>b, <1>c, <3>3
      <4>4. ASSUME owner'[q].pc = "insert", NEW w \in Version, w < owner'[q].version
            PROVE  Known(w)'
        BY <4>2, <4>3, <4>4 DEF Requests, Versions, Known
      <4>5. CASE owner'[q].pc = "point" BY <4>1, <4>2, <4>3, <4>5 DEF Requests, Versions
      <4>6. CASE owner'[q].pc \in {"clear", "disable"}
        BY <4>1, <4>2, <4>3, <4>6 DEF Requests, Versions, Known
      <4> QED BY <4>4, <4>5, <4>6
    <3>4. /\ owner'[o].pc = "point" /\ script'[owner'[o].version] = "active"
          /\ active' # owner'[o].version
      BY <1>b, <2>1, <2>4
    <3>5. ASSUME NEW q \in Owner
          PROVE  /\ owner'[q].pc = "insert" =>
                      \A w \in Version : w < owner'[q].version => Known(w)'
                 /\ owner'[q].pc = "point" => script'[owner'[q].version] = "active"
                                             /\ active' # owner'[q].version
                 /\ owner'[q].pc \in {"clear", "disable"} => Known(owner[q].version)'
                 /\ owner'[q].pc = "disable" => active' # owner'[q].version
      <4>1. CASE q = o BY <3>4, <4>1
      <4>2. CASE q # o BY <3>3, <4>2
      <4> QED BY <4>1, <4>2
    <3> QED BY <3>1, <3>2, <3>5 DEF Versions
  <2>7. Exclusive' BY <1>c, <2>1, <2>5 DEF Requests, Exclusive
  <2>8. ASSUME ~troubled' PROVE Pointing'
    <3>1. \A q \in Owner : q # o => owner[q] = Rest /\ owner'[q] = Rest
      BY <1>a, <1>b, <1>c, <2>8 DEF Requests, Pointing, Alone, Rest
    <3>2. Newest(v)' BY <2>1, <2>3, <1>a DEF Newest, Known, Version
    <3>3. ASSUME NEW u \in Version, Newest(u)' PROVE u = v
      <4>1. CASE u < v
        BY <1>a, <2>1, <3>3, <4>1 DEF Newest, Version
      <4>2. CASE u > v
        BY <2>1, <2>3, <3>3, <4>2 DEF Newest, Known, Version
      <4> QED BY <1>a, <4>1, <4>2 DEF Version
    <3> QED BY <1>b, <2>1, <3>1, <3>2, <3>3 DEF Pointing, Alone, Rest
  <2> QED BY <2>6, <2>7, <2>8 DEF Requests, Pointing
<1>2. CASE script[v] # "none"
  <2>1. owner'[o] = Rest /\ script' = script BY <1>2 DEF Insert, TypeOK
  <2>2. Versions' BY <1>b, <1>c, <2>1 DEF Requests, Versions, Known, Rest
  <2>3. Exclusive' BY <1>c, <2>1 DEF Requests, Exclusive, Rest
  <2>4. ASSUME ~troubled' PROVE Pointing'
    <3>1. \A q \in Owner : q # o => owner[q] = Rest
      BY <1>a, <1>b, <2>4 DEF Requests, Pointing, Alone, Rest
    <3>2. \A u \in Version : Newest(u)' => Newest(u) BY <2>1 DEF Newest
    <3>3. \A u \in Version : Newest(u) => active = u
      BY <1>a, <1>b, <2>4, <3>1 DEF Requests, Pointing, Rest
    <3> QED BY <1>b, <1>c, <2>1, <3>1, <3>2, <3>3 DEF Pointing, Alone, Rest
  <2> QED BY <2>2, <2>3, <2>4 DEF Requests, Pointing
<1> QED BY <1>1, <1>2

\* The version that is pointed at is the newest, when requests do not overlap.
LEMMA PointStep == ASSUME TypeOK, Requests, NEW o \in Owner, Point(o) PROVE Requests'
<1> DEFINE v == owner[o].version
<1>a. owner[o].pc = "point" /\ v \in Version BY DEF Point, TypeOK, Request, Rest
<1>b. /\ active' = v /\ UNCHANGED <<script, troubled>>
      /\ owner'[o] = Rest /\ \A q \in Owner : q # o => owner'[q] = owner[q]
  BY DEF Point, TypeOK
<1>c. \A q \in Owner : q # o /\ owner[q].pc \in {"point", "clear", "disable"} =>
        owner[q].version # v
  BY <1>a DEF Requests, Exclusive
<1>1. Versions' BY <1>a, <1>b, <1>c DEF Requests, Versions, Known, Rest
<1>2. Exclusive' BY <1>b DEF Requests, Exclusive, Rest
<1>3. ASSUME ~troubled' PROVE Pointing'
  <2>1. \A q \in Owner : q # o => owner[q] = Rest
    BY <1>a, <1>b, <1>3 DEF Requests, Pointing, Alone, Rest
  <2>2. Newest(v) BY <1>a, <1>b, <1>3 DEF Requests, Pointing
  <2>3. ASSUME NEW u \in Version, Newest(u)' PROVE u = v
    BY <1>a, <1>b, <2>2, <2>3 DEF Newest, Version
  <2> QED BY <1>b, <2>1, <2>3 DEF Pointing, Alone, Rest
<1> QED BY <1>1, <1>2, <1>3 DEF Requests, Pointing

\* The version that is no longer pointed at is the one to be disabled.
LEMMA ClearStep == ASSUME TypeOK, Requests, NEW o \in Owner, Clear(o) PROVE Requests'
<1> DEFINE v == owner[o].version
<1>a. owner[o].pc = "clear" /\ v \in Version BY DEF Clear, TypeOK, Request, Rest
<1>b. /\ active' = 0 /\ UNCHANGED <<script, troubled>>
      /\ owner'[o].pc = "disable" /\ owner'[o].version = v
      /\ \A q \in Owner : q # o => owner'[q] = owner[q]
  BY <1>a DEF Clear, TypeOK, Request, Rest
<1>c. \A q \in Owner : owner[q] # Rest => 0 # owner[q].version
  BY DEF TypeOK, Request, Version
<1>1. Versions' BY <1>a, <1>b, <1>c DEF Requests, Versions, Known, Rest
<1>2. Exclusive' BY <1>a, <1>b DEF Requests, Exclusive
<1>3. ASSUME ~troubled' PROVE Pointing'
  <2>1. \A q \in Owner : q # o => owner[q] = Rest
    BY <1>a, <1>b, <1>3 DEF Requests, Pointing, Alone, Rest
  <2>2. active = v BY <1>a, <1>b, <1>3 DEF Requests, Pointing
  <2>3. \A u \in Version : Newest(u)' => Newest(u) BY <1>b DEF Newest
  <2>4. \A u \in Version : Newest(u) => u = v
    BY <1>a, <1>b, <1>3, <2>1, <2>2 DEF Requests, Pointing, Rest
  <2> QED BY <1>b, <2>1, <2>3, <2>4 DEF Pointing, Alone, Rest
<1> QED BY <1>1, <1>2, <1>3 DEF Requests, Pointing

\* What is disabled is not pointed at, and not about to be.
LEMMA DisableRowStep ==
  ASSUME TypeOK, Requests, NEW o \in Owner, DisableRow(o) PROVE Requests'
<1> DEFINE v == owner[o].version
<1>a. owner[o].pc = "disable" /\ v \in Version BY DEF DisableRow, TypeOK, Request, Rest
<1>b. /\ active' = active /\ troubled' = troubled
      /\ script'[v] = "disabled" /\ \A u \in Version : u # v => script'[u] = script[u]
      /\ owner'[o] = Rest /\ \A q \in Owner : q # o => owner'[q] = owner[q]
  BY <1>a DEF DisableRow, TypeOK
<1>c. active # v /\ Known(v) BY <1>a DEF Requests, Versions
<1>d. \A u \in Version : Known(u)' <=> Known(u) BY <1>b, <1>c DEF Known
<1>e. ASSUME NEW q \in Owner, owner'[q].pc # "rest"
      PROVE  q # o /\ owner'[q] = owner[q] /\ owner[q].version \in Version
  BY <1>b, <1>e DEF Rest, TypeOK, Request
<1>1. Versions'
  <2>1. (\A u, w \in Version : u < w /\ Known(w) => Known(u))'
    BY <1>d DEF Requests, Versions, Known
  <2>2. active' # 0 => script'[active'] = "active"
    BY <1>b, <1>c DEF Requests, Versions, TypeOK, Version
  <2>3. ASSUME NEW q \in Owner, owner'[q].pc = "insert", NEW w \in Version,
               w < owner'[q].version
        PROVE  Known(w)'
    BY <1>d, <1>e, <2>3 DEF Requests, Versions, Known
  <2>4. ASSUME NEW q \in Owner, owner'[q].pc = "point"
        PROVE  script'[owner'[q].version] = "active" /\ active' # owner'[q].version
    <3>1. owner[q].version # v BY <1>a, <1>e, <2>4 DEF Requests, Exclusive
    <3> QED BY <1>b, <1>e, <2>4, <3>1 DEF Requests, Versions
  <2>5. ASSUME NEW q \in Owner, owner'[q].pc \in {"clear", "disable"}
        PROVE  Known(owner[q].version)'
    BY <1>d, <1>e, <2>5 DEF Requests, Versions, Known
  <2>6. ASSUME NEW q \in Owner, owner'[q].pc = "disable" PROVE active' # owner'[q].version
    BY <1>b, <1>e, <2>6 DEF Requests, Versions
  <2> QED BY <2>1, <2>2, <2>3, <2>4, <2>5, <2>6 DEF Versions
<1>2. Exclusive' BY <1>e DEF Requests, Exclusive
<1>3. ASSUME ~troubled' PROVE Pointing'
  <2>1. \A q \in Owner : q # o => owner[q] = Rest
    BY <1>a, <1>b, <1>3 DEF Requests, Pointing, Alone, Rest
  <2>2. ASSUME NEW u \in Version, Newest(u)' PROVE Newest(u) /\ u # v
    BY <1>b, <1>d, <2>2 DEF Newest, Known
  <2>3. \A u \in Version : Newest(u) /\ u # v => active = u
    BY <1>a, <1>b, <1>3, <2>1 DEF Requests, Pointing, Rest
  <2> QED BY <1>b, <2>1, <2>2, <2>3 DEF Pointing, Alone, Rest
<1> QED BY <1>1, <1>2, <1>3 DEF Requests, Pointing

\* A request that ends half-way leaves the rest to themselves.
LEMMA AbandonRequestStep ==
  ASSUME TypeOK, Requests, NEW o \in Owner, AbandonRequest(o) PROVE Requests'
<1>a. /\ troubled' /\ UNCHANGED <<active, script>>
      /\ owner'[o] = Rest /\ \A q \in Owner : q # o => owner'[q] = owner[q]
  BY DEF AbandonRequest, TypeOK, tool
<1>1. Versions' BY <1>a DEF Requests, Versions, Known, Rest
<1>2. Exclusive' BY <1>a DEF Requests, Exclusive, Rest
<1> QED BY <1>a, <1>1, <1>2 DEF Requests, Pointing

\* Proposals and calibration leave the versions to the owner.
LEMMA RequestsStay ==
  ASSUME Requests, UNCHANGED <<active, script, owner, troubled>> PROVE Requests'
<1>1. Versions' BY DEF Requests, Versions, Known
<1>2. Exclusive' BY DEF Requests, Exclusive
<1>3. Pointing' BY DEF Requests, Pointing, Alone, Newest
<1> QED BY <1>1, <1>2, <1>3 DEF Requests
-----------------------------------------------------------------------------
(* Theorems. *)

\* At the start there is nothing to account for.
LEMMA InvInit == ASSUME Init PROVE Inv
<1>1. TypeOK
  <2>1. owner \in [Owner -> Request \cup {Rest}] BY DEF Init
  <2>2. call \in [Client -> Scripting \cup Trusting \cup Grading \cup Settled \cup {Rest}]
    BY DEF Init
  <2>3. active \in 0 .. MaxVersion /\ script \in [Version -> {"none", "active", "disabled"}]
    BY DEF Init
  <2>4. auto \in BOOLEAN /\ granted \in BOOLEAN /\ troubled \in BOOLEAN BY DEF Init
  <2>5. /\ evals \in Nat /\ graded \in Nat /\ unwritten \in Nat
        /\ calls \in Nat /\ switches \in Nat /\ faults \in Nat
    BY DEF Init
  <2> QED BY <2>1, <2>2, <2>3, <2>4, <2>5 DEF TypeOK
<1>2. Carried BY DEF Init, Carried, Carries, At, Rest
<1>3. Counted
  <2>1. \A c \in Client : ~Evaluated(c) BY DEF Init, Evaluated, At, Rest
  <2>2. Cardinality(Answered) \in Nat /\ Cardinality(Client) \in Nat \ {0}
    BY AnsweredFinite
  <2>3. graded = 0 /\ evals = 0 /\ unwritten = 0 BY DEF Init
  <2> QED BY <2>1, <2>2, <2>3 DEF Counted, CapUnlessOverlapping
<1>4. Requests
  BY DEF Init, Requests, Versions, Exclusive, Pointing, Alone, Newest, Known, Rest
<1> QED BY <1>1, <1>2, <1>3, <1>4 DEF Inv

\* A step keeps the invariant.
LEMMA InvStep == ASSUME Inv, [Next]_vars PROVE Inv'
<1> USE DEF Inv
<1>a. TypeOK' BY TypeStep
<1>1. ASSUME NEW c \in Client, ClientStep(c) PROVE Inv'
  <2>1. UNCHANGED <<active, script, owner, troubled>>
    BY <1>1 DEF ClientStep, Propose, Script, NoScript, ScriptUnavailable, Autonomy, Grade,
                Audit, Abandon, tool
  <2> QED BY <1>a, <1>1, <2>1, CarriedStep, CountedStep, RequestsStay
<1>2. ASSUME NEW o \in Owner, OwnerStep(o) PROVE Inv'
  <2>1. UNCHANGED <<auto, granted, evals, call, grading>>
    BY <1>2 DEF OwnerStep, Attach, Insert, Point, Disable, Clear, DisableRow, AbandonRequest,
                Starts, tool
  <2>2. Carried' BY <2>1, CarriedStays
  <2>3. Counted'
    <3>1. \A d \in Client : Evaluated(d)' <=> Evaluated(d) BY <2>1 DEF Evaluated, At
    <3>2. \A d \in Client : Evaluated(d)' => call'[d].layer = "overseer"
      BY <1>2, AskedStep DEF Next
    <3> QED BY <2>1, <3>1, <3>2, CountedStays
  <2>4. Requests'
    BY <1>2, AttachStep, InsertStep, PointStep, DisableStep, ClearStep, DisableRowStep,
       AbandonRequestStep DEF OwnerStep
  <2> QED BY <1>a, <2>2, <2>3, <2>4
<1>3. CASE Promote
  <2>1. UNCHANGED <<active, script, evals, call, owner, grading, troubled>>
    BY <1>3 DEF Promote
  <2>2. Carried' BY <1>3, CarriedSwitch
  <2>3. Counted'
    <3>1. \A d \in Client : Evaluated(d)' <=> Evaluated(d) BY <2>1 DEF Evaluated, At
    <3>2. \A d \in Client : Evaluated(d)' => call'[d].layer = "overseer"
      BY <1>3, AskedStep DEF Next
    <3> QED BY <2>1, <3>1, <3>2, CountedStays
  <2> QED BY <1>a, <2>1, <2>2, <2>3, RequestsStay
<1>4. CASE DemoteTool
  <2>1. UNCHANGED <<active, script, owner, troubled>> BY <1>4 DEF DemoteTool
  <2> QED BY <1>a, <1>4, <2>1, CarriedSwitch, CountedDemotion, RequestsStay
<1>5. CASE UNCHANGED vars
  <2>1. UNCHANGED <<active, script, auto, granted, evals, call, owner, grading, troubled>>
    BY <1>5 DEF vars, tool
  <2>2. Carried' BY <2>1, CarriedStays
  <2>3. Counted'
    <3>1. \A d \in Client : Evaluated(d)' <=> Evaluated(d) BY <2>1 DEF Evaluated, At
    <3>2. \A d \in Client : Evaluated(d)' => call'[d].layer = "overseer" BY <1>5, AskedStep
    <3> QED BY <2>1, <3>1, <3>2, CountedStays
  <2> QED BY <1>a, <2>1, <2>2, <2>3, RequestsStay
<1> QED BY <1>1, <1>2, <1>3, <1>4, <1>5 DEF Next

\* The invariant, of every reachable state.
THEOREM Invariance == Spec => []Inv
<1> QED BY InvInit, InvStep, PTL DEF Spec

\* However proposals, the owner's requests and calibration interleave, nothing that
\* spends, discloses a secret or reaches anybody but a known contact is approved without
\* the owner, and an autonomous approval that was not overtaken by a demotion holds still.
THEOREM ApprovalsEntitled == Spec => []ApprovalEntitled
<1>1. ASSUME Inv PROVE ApprovalEntitled
  <2> SUFFICES ASSUME NEW c \in Client, At(c, "audit")
               PROVE  /\ call[c].decision = "approve" /\ ~call[c].shape.reads =>
                           /\ ~call[c].shape.spends /\ ~call[c].shape.secret
                           /\ \/ call[c].shape.irreversible = "never"
                              \/ call[c].shape.irreversible = "stranger"
                                 /\ call[c].shape.to = "known"
                      /\ call[c].layer = "autonomy" => call[c].demoted \/ (auto /\ granted)
    BY DEF ApprovalEntitled
  <2>1. Carries(c) BY <1>1 DEF Inv, Carried
  <2>2. call[c].shape \in Shape
    <3>1. call[c] \in Settled
      BY <1>1 DEF Inv, TypeOK, At, Scripting, Trusting, Grading, Rest
    <3> QED BY <3>1 DEF Settled
  <2>3. call[c].shape.irreversible \in {"never", "always", "stranger"}
    BY <2>2, ShapeAssumption DEF ShapeAssumption
  <2>4. ASSUME call[c].decision = "approve", ~call[c].shape.reads PROVE ~Trips(call[c].shape)
    BY <2>1, <2>4 DEF Carries
  <2> QED BY <2>1, <2>3, <2>4 DEF Carries, Trips
<1> QED BY <1>1, Invariance, PTL

\* However many proposals a task has at a time, the model is asked no more often than the
\* cap, the proposals that may overlap, and the evaluations that left no row, allow.
THEOREM CapKept == Spec => []CapUnlessOverlapping
<1>1. Inv => CapUnlessOverlapping BY DEF Inv, Counted
<1> QED BY <1>1, Invariance, PTL

\* However the owner's requests interleave and wherever they end, the tool never points at
\* a disabled script, and requests one at a time leave it pointing at the newest one.
THEOREM PointerKept == Spec => []PointerFollowsRows
<1>1. ASSUME Inv PROVE PointerFollowsRows
  <2>1. active # 0 => script[active] = "active" BY <1>1 DEF Inv, Requests, Versions
  <2>2. ASSUME ~troubled, Quiet, NEW v \in Version, Newest(v) PROVE active = v
    BY <1>1, <2>2 DEF Inv, Requests, Pointing, Quiet, Rest
  <2> QED BY <2>1, <2>2 DEF PointerFollowsRows, Newest
<1> QED BY <1>1, Invariance, PTL
=============================================================================
