----------------------------- MODULE Embedding -----------------------------
(***************************************************************************)
(* The index of vectors, and how it follows the configuration.             *)
(*                                                                         *)
(*   internal/embedding/reindex.go   versions, the rebuild, the flip       *)
(*   internal/embedding/store.go     two slots, one of them serving        *)
(*   cmd/tendant/main.go             boot order, and the hook on a change  *)
(*                                                                         *)
(* A version is built into the slot that does not serve, by a durable      *)
(* workflow with one step per batch, and then takes over.  The model is    *)
(* fixed when the process starts; the dimension may change at run time.    *)
(* What a vector is depends on the model that computes it only.            *)
(***************************************************************************)
EXTENDS Overlay, Sequences, FiniteSets

CONSTANTS Model,       \* models an operator may start the process with
          Batches,     \* batches of texts to embed
          MaxEvents    \* bound: writes to the key, faults and crashes together

Empty == "none"

ASSUME ModelAssumption == Empty \notin Model

ASSUME BoundAssumption == Batches \in Nat \ {0} /\ MaxEvents \in Nat

VARIABLES
  model,     \* volatile: of this process's embedder
  boot,      \* volatile: how far main has come
  ensure,    \* volatile: the one call of EnsureActiveVersion there is at a time
  versions,  \* embedding_versions, each with what DBOS knows of its workflow
  thread,    \* volatile: the goroutine of each workflow
  vectors,   \* embeddings: of each slot and batch, the model it was computed with
  crossed,   \* versions that have a batch of another model than their own
  strays,    \* superseded versions whose workflow was not cancelled
  events

index == <<versions, vectors>>
vars == <<overlay, model, boot, ensure, index, thread, crossed, strays, events>>

Slot == {"blue", "green"}
Config == [model : Model, dimension : Value]
Flip == Batches + 1

\* wf: of the reindex workflow; "orphan" is pending on a version of the program that is
\* gone.  at: the step it runs next; 0 prepares, Flip flips.
Version == [config : Config, slot : Slot,
            status : {"building", "active", "retired", "superseded"},
            wf : {"none", "pending", "orphan", "cancelled", "failed", "done"},
            at : 0 .. Flip]
\* After the transaction: workflows to cancel, and then to start, one of each at most.
Ensuring == [pc : {"tx"}, dimension : Value]
              \cup [pc : {"after"}, cancel : SUBSET DOMAIN versions,
                    start : SUBSET DOMAIN versions]

TypeOK ==
  /\ OverlayTypeOK
  /\ model \in Model
  /\ boot \in {"load", "listen", "launch", "ensuring", "up"}
  /\ ensure \in Ensuring \cup {Idle}
  /\ versions \in Seq(Version)
  \* "ran", "left": a body has run, and its result goes on or ends the workflow.
  /\ thread \in Seq({"off", "idle", "run", "ran", "left"}) /\ Len(thread) = Len(versions)
  /\ vectors \in [Slot -> [1 .. Batches -> Model \cup {Empty}]]
  /\ crossed \subseteq DOMAIN versions /\ strays \subseteq DOMAIN versions
  /\ events \in 0 .. MaxEvents

Init ==
  /\ OverlayInit
  /\ model \in Model
  /\ boot = "load" /\ ensure = Idle
  /\ versions = <<>> /\ thread = <<>>
  /\ vectors = [s \in Slot |-> [b \in 1 .. Batches |-> Empty]]
  /\ crossed = {} /\ strays = {}
  /\ events = 0
-----------------------------------------------------------------------------
(* Reading the tables. *)

WithStatus(st) == {v \in DOMAIN versions : versions[v].status = st}
Active == WithStatus("active")
Building == WithStatus("building")
Has(set, config) == \E v \in set : versions[v].config = config

\* Mutant: the slot that serves.
BusySlot == IF \E v \in Active : versions[v].slot = "green" THEN "green" ELSE "blue"

\* IdleSlot: blue when nothing serves.
IdleSlot == IF \E v \in Active : versions[v].slot = "blue" THEN "green" ELSE "blue"

Marked(set, st) ==
  [v \in DOMAIN versions |-> IF v \in set THEN [versions[v] EXCEPT !.status = st]
                                         ELSE versions[v]]
-----------------------------------------------------------------------------
(* The process starts. *)

BootLoad ==
  /\ boot = "load" /\ boot' = "listen"
  /\ Load
  /\ UNCHANGED <<model, ensure, index, thread, crossed, strays>>

BootListen ==
  /\ boot = "listen" /\ boot' = "launch"
  /\ Listen
  /\ UNCHANGED <<model, ensure, index, thread, crossed, strays>>

\* It is logged, and the process starts without.
BootDeaf ==
  /\ boot = "listen" /\ boot' = "launch"
  /\ ListenFails
  /\ UNCHANGED <<model, ensure, index, thread, crossed, strays>>

\* Mutant: what was under way is not taken up.
LaunchAfresh ==
  /\ boot = "launch" /\ boot' = "ensuring"
  /\ ensure' = [pc |-> "tx", dimension |-> cached]
  /\ UNCHANGED <<overlay, model, index, thread, crossed, strays>>

\* durable.Launch recovers the pending workflows of this version of the program, and main
\* calls EnsureActiveVersion.
Launch ==
  /\ boot = "launch" /\ boot' = "ensuring"
  /\ thread' = [v \in DOMAIN versions |->
                  IF versions[v].wf = "pending" THEN "idle" ELSE "off"]
  /\ ensure' = [pc |-> "tx", dimension |-> cached]
  /\ UNCHANGED <<overlay, model, index, crossed, strays>>

\* The process dies, and the next has another model, or is another program.
Crash(m, upgrade) ==
  /\ LoseOverlay
  /\ model' = m /\ boot' = "load"
  /\ ensure' = Idle
  /\ thread' = [v \in DOMAIN versions |-> "off"]
  /\ versions' = [v \in DOMAIN versions |->
                    IF upgrade /\ versions[v].wf = "pending"
                    THEN [versions[v] EXCEPT !.wf = "orphan"] ELSE versions[v]]
  /\ strays' = strays \cup (IF ensure.pc = "after" THEN ensure.cancel ELSE {})
  /\ UNCHANGED <<vectors, crossed>>
-----------------------------------------------------------------------------
(* EnsureActiveVersion.  Its caller is main at boot, and the listener thereafter. *)

\* The hook of the listener, which is there when main has come to its end.
OnChange ==
  /\ listener = Fire /\ boot = "up" /\ ensure = Idle
  /\ ensure' = [pc |-> "tx", dimension |-> cached]
  /\ UNCHANGED <<overlay, model, boot, index, thread, crossed, strays>>

Unhooked ==
  /\ listener = Fire /\ boot # "up"
  /\ listener' = Idle
  /\ Miss("unhooked", boot = "ensuring")
  /\ UNCHANGED <<stored, cached, wire, listening, call,
                 model, boot, ensure, index, thread, crossed, strays>>

\* The call is over, and its caller goes on.
Return(failed) ==
  /\ ensure' = Idle
  /\ boot' = "up"
  /\ listener' = IF boot = "up" THEN Idle ELSE listener
  /\ Miss("failed", failed)
  /\ UNCHANGED <<stored, cached, wire, listening, call>>

\* What is left to do when the transaction has committed.
Proceed(cancel, start) ==
  IF cancel \cup start = {} THEN Return(FALSE)
  ELSE /\ ensure' = [pc |-> "after", cancel |-> cancel, start |-> start]
       /\ UNCHANGED <<overlay, boot>>

Wanted == [model |-> model, dimension |-> ensure.dimension]

\* One transaction under the advisory lock.  A build of the same configuration is left
\* alone ...
Deduplicate ==
  /\ ensure.pc = "tx"
  /\ Has(Building, Wanted)
  /\ Return(FALSE)
  /\ UNCHANGED <<model, index, thread, crossed, strays>>

\* ... any other is superseded, and a new one begins, unless what serves is what is wanted.
Provision ==
  LET new == IF Has(Active, Wanted) THEN {} ELSE {Len(versions) + 1}
      row == [config |-> Wanted, slot |-> IdleSlot, status |-> "building",
              wf |-> "none", at |-> 0]
  IN /\ ensure.pc = "tx"
     /\ ~Has(Building, Wanted)
     /\ versions' = Marked(Building, "superseded") \o [v \in 1 .. Cardinality(new) |-> row]
     /\ thread' = thread \o [v \in 1 .. Cardinality(new) |-> "off"]
     /\ Proceed({v \in Building : versions[v].wf # "none"}, new)
     /\ UNCHANGED <<model, vectors, crossed, strays>>

Cancelling(v) == ensure.pc = "after" /\ v \in ensure.cancel /\ Proceed({}, ensure.start)

\* The cancellation of the superseded build, on which nothing is said to rest ...
CancelSuperseded(v) ==
  /\ Cancelling(v)
  /\ versions' = [versions EXCEPT ![v].wf =
                    IF @ \in {"pending", "orphan"} THEN "cancelled" ELSE @]
  /\ UNCHANGED <<model, thread, vectors, crossed, strays>>

\* ... and which may fail.
CancelFails(v) ==
  /\ Cancelling(v)
  /\ strays' = strays \cup {v}
  /\ UNCHANGED <<model, index, thread, crossed>>

\* The workflow of the new version: its id, and its start.
StartReindex(v) ==
  /\ ensure.pc = "after" /\ ensure.cancel = {} /\ v \in ensure.start
  /\ versions' = [versions EXCEPT ![v].wf = "pending"]
  /\ thread' = [thread EXCEPT ![v] = "idle"]
  /\ Return(FALSE)
  /\ UNCHANGED <<model, vectors, crossed, strays>>

\* Any statement may fail; it is logged, and nobody tries again.
EnsureFails ==
  /\ ensure.pc = "tx" \/ (ensure.pc = "after" /\ ensure.cancel = {})
  /\ Return(TRUE)
  /\ UNCHANGED <<model, index, thread, crossed, strays>>
-----------------------------------------------------------------------------
(* ReindexWorkflow. *)

\* DBOS looks for a cancellation before each step.
Begin(v) ==
  /\ thread[v] = "idle"
  /\ thread' = [thread EXCEPT ![v] = IF versions[v].wf = "pending" THEN "run" ELSE "off"]
  /\ UNCHANGED <<overlay, model, boot, ensure, index, crossed, strays>>

Ran(v, on) == thread' = [thread EXCEPT ![v] = IF on THEN "ran" ELSE "left"]

\* Is it still wanted?  Then the texts are listed.
Prepare(v) ==
  /\ thread[v] = "run" /\ versions[v].at = 0
  /\ Ran(v, versions[v].status = "building")
  /\ UNCHANGED <<overlay, model, boot, ensure, index, crossed, strays>>

\* A batch is embedded by this process's model and put into the slot, wanted or not.
Embed(v) ==
  LET b == versions[v].at
      slot == versions[v].slot
  IN /\ thread[v] = "run" /\ b \in 1 .. Batches
     /\ vectors' = [vectors EXCEPT ![slot][b] = model]
     /\ crossed' = IF model = versions[v].config.model THEN crossed ELSE crossed \cup {v}
     /\ Ran(v, TRUE)
     /\ UNCHANGED <<overlay, model, boot, ensure, versions, strays>>

\* What the flip makes of the tables.
Live(v) ==
  LET others == Active \ {v}
      cleared == {versions[w].slot : w \in others} \ {versions[v].slot}
      retired == Marked(others, "retired")
  IN /\ versions' = [retired EXCEPT ![v].status = "active"]
     /\ vectors' = [s \in Slot |-> IF s \in cleared THEN [b \in 1 .. Batches |-> Empty]
                                                   ELSE vectors[s]]

\* Mutant: the status was looked at when the build began.
FlipAnyway(v) ==
  /\ thread[v] = "run" /\ versions[v].at = Flip
  /\ Live(v)
  /\ Ran(v, FALSE)
  /\ UNCHANGED <<overlay, model, boot, ensure, crossed, strays>>

\* What has served retires and its slot is cleared, in the transaction that lets the new
\* version serve, if it is still to.
FlipLive(v) ==
  /\ thread[v] = "run" /\ versions[v].at = Flip
  /\ IF versions[v].status = "building" THEN Live(v) ELSE UNCHANGED index
  /\ Ran(v, FALSE)
  /\ UNCHANGED <<overlay, model, boot, ensure, crossed, strays>>

\* The checkpoint of a step; with the last the workflow is done.
Checkpoint(v) ==
  /\ thread[v] \in {"ran", "left"}
  /\ IF thread[v] = "ran"
     THEN /\ versions' = [versions EXCEPT ![v].at = @ + 1]
          /\ thread' = [thread EXCEPT ![v] = "idle"]
     ELSE /\ versions' = [versions EXCEPT ![v].wf = IF @ = "pending" THEN "done" ELSE @]
          /\ thread' = [thread EXCEPT ![v] = "off"]
  /\ UNCHANGED <<overlay, model, boot, ensure, vectors, crossed, strays>>

\* A step fails, the model's provider for one, and the workflow with it.
Fail(v) ==
  /\ thread[v] = "run"
  /\ versions' = [versions EXCEPT ![v].wf = IF @ = "pending" THEN "failed" ELSE @]
  /\ thread' = [thread EXCEPT ![v] = "off"]
  /\ UNCHANGED <<overlay, model, boot, ensure, vectors, crossed, strays>>
-----------------------------------------------------------------------------
core == <<model, boot, ensure, index, thread, crossed, strays>>

Happens == events < MaxEvents /\ events' = events + 1

Reindex(v) == Begin(v) \/ Prepare(v) \/ Embed(v) \/ FlipLive(v) \/ Checkpoint(v)

Next ==
  \/ /\ UNCHANGED events
     /\ \/ BootLoad \/ BootListen \/ Launch
        \/ OnChange \/ Unhooked \/ Deduplicate \/ Provision
        \/ \E v \in DOMAIN versions : CancelSuperseded(v) \/ StartReindex(v) \/ Reindex(v)
        \/ /\ UNCHANGED core
           /\ \/ Hear \/ AssignHeard \/ Reconnect
              \/ \E c \in Client : ReadEntry(c) \/ AssignEntry(c)
  \/ /\ Happens
     /\ \/ BootDeaf \/ EnsureFails
        \/ \E v \in DOMAIN versions : CancelFails(v) \/ Fail(v)
        \/ \E m \in Model, upgrade \in BOOLEAN : Crash(m, upgrade)
        \/ /\ UNCHANGED core
           /\ \/ HearFails \/ Disconnect
              \/ \E c \in Client : AbandonEntry(c)
              \/ \E d \in Value : Edit(d, boot # "load")
              \/ \E c \in Client, d \in Value : boot = "up" /\ SetEntry(c, d)

Spec == Init /\ [][Next]_vars
-----------------------------------------------------------------------------
(* Properties. *)

\* See CacheAgrees of Overlay, once the table has been read.
CacheIsTrue == CacheAgrees(boot # "load")

\* The slot that serves has a vector of every text, and all are of the version's own
\* model: a search compares like with like.  Two causes may spoil it: a build that was
\* taken up by a process with another model, and one that was superseded but not
\* cancelled, and writes on.
ServingIsTrue ==
  \A v \in Active :
    LET slot == versions[v].slot
    IN \A b \in 1 .. Batches :
         /\ vectors[slot][b] # Empty
         /\ \/ vectors[slot][b] = versions[v].config.model
            \/ \E w \in crossed \cup strays : versions[w].slot = slot

\* What serves is only ever replaced by something newer, however late an older build
\* comes to its end.
ServingMovesForward ==
  [][\A v \in Active : \E w \in Active' : w >= v]_vars

\* A build of the wanted configuration that nobody works on: its transaction committed and
\* nothing after, a step of it failed, or its program is gone.
Stuck ==
  \E v \in Building : /\ versions[v].config = [model |-> model, dimension |-> stored]
                      /\ versions[v].wf # "pending"

\* Nothing is under way any more.
Quiet ==
  /\ boot = "up" /\ ensure = Idle /\ Settled
  /\ \A v \in DOMAIN versions : thread[v] = "off"

\* When all is quiet what serves is what is configured, unless the last write has been
\* missed, or the build is stuck: EnsureActiveVersion takes it for one under way, whenever
\* it looks.
QuietServesConfig ==
  Quiet => \/ missed # {} \/ Stuck
           \/ Has(Active, [model |-> model, dimension |-> stored])
=============================================================================
