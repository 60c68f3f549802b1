-------------------------- MODULE EmbeddingProofs --------------------------
(***************************************************************************)
(* Proofs about Embedding, for any models, dimensions, callers, number of  *)
(* batches and of faults.  Inv is inductive: CacheShape says when the cache *)
(* is behind and nobody is told, VersionShape and SlotShape how the        *)
(* versions, their workflows and the two slots stand to each other,        *)
(* WriterShape who may still write into a slot that is somebody else's,    *)
(* VectorShape what the slots hold, and AimShape that a change that was    *)
(* heard of leads to a build.                                              *)
(***************************************************************************)
EXTENDS Embedding, FiniteSetTheorems, TLAPS

USE BoundAssumption, ModelAssumption DEF BoundAssumption, ModelAssumption

-----------------------------------------------------------------------------
(* The inductive invariant. *)

\* The listener is there from boot's listen on, and waits while it calls EnsureActiveVersion.
BootShape ==
  /\ boot \in {"load", "listen"} => listener = Gone
  /\ boot \in {"load", "listen", "launch"} => ensure = Idle
  /\ boot = "up" /\ ensure # Idle => listener = Fire

\* Nothing has been missed, and nothing is on the wire or being read.
Informed == wire = 0 /\ missed = {} /\ listener.pc # "read"

\* What the listener is about to assign is what is stored, unless more is on the wire.
CacheShape ==
  /\ boot # "load" /\ Informed => cached = stored
  /\ boot # "load" /\ wire = 0 /\ missed = {} /\ listener.pc = "read" => listener.value = stored

\* Only the last version may be building; what serves, or has served, is at its end; a
\* superseded build that is still pending is about to be cancelled.
VersionOf(v) ==
  /\ versions[v].status = "building" => v = Len(versions)
  /\ versions[v].status \in {"active", "retired"} => versions[v].at = Flip
  /\ versions[v].status = "superseded" /\ versions[v].wf \in {"pending", "orphan"}
       => v \in strays \/ (ensure.pc = "after" /\ v \in ensure.cancel)
  /\ thread[v] = "ran" => versions[v].at <= Batches
  /\ versions[v].wf = "none" => thread[v] = "off"
  /\ boot \in {"ensuring", "up"} /\ versions[v].wf = "pending" => thread[v] # "off"

VersionShape == \A v \in DOMAIN versions : VersionOf(v)

\* One version serves, and the one that is built is built beside it; the one about to be
\* started waits for its start, and one at most is about to be cancelled.
SlotShape ==
  /\ \A v, w \in Active : v = w
  /\ \A v \in Building, w \in Active : versions[v].slot # versions[w].slot
  /\ ensure.pc = "after" => /\ \A v \in ensure.start : v \in Building /\ versions[v].wf = "none"
                            /\ \A v, w \in ensure.cancel : v = w

\* Another workflow that writes into the slot of v.
Writes(w, v) ==
  w # v /\ versions[w].slot = versions[v].slot /\ thread[w] # "off" /\ versions[w].at # Flip

\* It is a stray, or has outlived by a batch what this very process superseded it with.
WriterShape ==
  \A v \in Building \cup Active, w \in DOMAIN versions :
    Writes(w, v) => w \in strays \/ versions[v].config.model = model

\* The workflow of v has written the batch.
Written(v, b) == b < versions[v].at \/ (b = versions[v].at /\ thread[v] = "ran")

\* The batch is there, and is of the version's model but for the two causes.
Sound(v, b) ==
  LET slot == versions[v].slot
  IN /\ vectors[slot][b] # Empty
     /\ \/ vectors[slot][b] = versions[v].config.model
        \/ \E w \in crossed \cup strays : versions[w].slot = slot

VectorShape ==
  \A v \in Building \cup Active : \A b \in 1 .. Batches : Written(v, b) => Sound(v, b)

\* What is configured is being built, or serves and nothing else is being built.
Aims ==
  LET config == [model |-> model, dimension |-> stored]
  IN Has(Building, config) \/ (Building = {} /\ Has(Active, config))

\* What was heard of during the boot is still to come.
Hooked == boot = "up" \/ listener # Fire

\* A call of EnsureActiveVersion was told what is stored, and the last has seen to it.
AimShape ==
  Informed =>
    /\ ensure.pc = "tx" /\ Hooked => ensure.dimension = stored
    /\ ensure.pc = "after" /\ Hooked => Aims
    /\ boot = "up" /\ ensure = Idle /\ listener # Fire => Aims

Inv == /\ TypeOK /\ BootShape /\ CacheShape /\ VersionShape /\ SlotShape
       /\ WriterShape /\ VectorShape /\ AimShape

-----------------------------------------------------------------------------
(* The kinds of a state that is told by its pc. *)

\* The call of EnsureActiveVersion is of one of three kinds.
LEMMA EnsureKinds ==
  ASSUME TypeOK
  PROVE  /\ ensure.pc \in {"idle", "tx", "after"}
         /\ ensure = Idle <=> ensure.pc = "idle"
         /\ ensure.pc = "tx" => ensure.dimension \in Value
         /\ ensure.pc = "after" => /\ ensure.cancel \subseteq DOMAIN versions
                                   /\ ensure.start \subseteq DOMAIN versions
  BY DEF TypeOK, Ensuring, Idle

\* The listener is of one of four.
LEMMA ListenerKinds ==
  ASSUME TypeOK
  PROVE  /\ listener.pc \in {"gone", "idle", "fire", "read"}
         /\ listener = Gone <=> listener.pc = "gone"
         /\ listener = Idle <=> listener.pc = "idle"
         /\ listener = Fire <=> listener.pc = "fire"
         /\ listener.pc = "read" => listener.value \in Value
  BY DEF TypeOK, OverlayTypeOK, Gone, Idle, Fire, Read

-----------------------------------------------------------------------------
(* What an action makes of the versions. *)

\* A version that is there has the types of its fields.
LEMMA VersionType ==
  ASSUME TypeOK, NEW v \in DOMAIN versions
  PROVE  /\ versions[v] \in Version /\ v \in 1 .. Len(versions) /\ v \in Nat
         /\ versions[v].config \in Config /\ versions[v].slot \in Slot
         /\ versions[v].status \in {"building", "active", "retired", "superseded"}
         /\ versions[v].at \in 0 .. Flip
         /\ thread[v] \in {"off", "idle", "run", "ran", "left"}
         /\ v \in DOMAIN thread
  <1>1. versions \in Seq(Version) /\ thread \in Seq({"off", "idle", "run", "ran", "left"})
        /\ Len(thread) = Len(versions)
    BY DEF TypeOK
  <1>2. versions[v] \in Version /\ v \in 1 .. Len(versions) BY <1>1
  <1> QED BY <1>1, <1>2 DEF Version

\* A sequence of versions of which every one is replaced by a version.
LEMMA SameLength ==
  ASSUME NEW S, NEW s \in Seq(S), NEW f, f = [i \in DOMAIN s |-> f[i]],
         \A i \in DOMAIN s : f[i] \in S
  PROVE  f \in Seq(S) /\ Len(f) = Len(s) /\ DOMAIN f = DOMAIN s
  <1>1. DOMAIN s = 1 .. Len(s) /\ Len(s) \in Nat
    OBVIOUS
  <1>2. f \in [1 .. Len(s) -> S] BY <1>1
  <1>3. f \in Seq(S) BY <1>1, <1>2
  <1> QED BY <1>1, <1>2, <1>3

\* One version is replaced by another.
LEMMA OneReplaced ==
  ASSUME NEW S, NEW s \in Seq(S), NEW v \in DOMAIN s, NEW r \in S, NEW t,
         t = [s EXCEPT ![v] = r]
  PROVE  /\ t \in Seq(S) /\ Len(t) = Len(s) /\ DOMAIN t = DOMAIN s
         /\ \A u \in DOMAIN s : t[u] = IF u = v THEN r ELSE s[u]
  OBVIOUS

\* What goes on under the same number.
Same(u) ==
  /\ u \in DOMAIN versions'
  /\ versions'[u].config = versions[u].config /\ versions'[u].slot = versions[u].slot

\* Only the state of its workflow.
WfOnly(u) == Same(u) /\ versions'[u].status = versions[u].status /\ versions'[u].at = versions[u].at

\* The sequences stay sequences, of the same length or one longer.
Shaped(n) ==
  /\ versions' \in Seq(Version) /\ thread' \in Seq({"off", "idle", "run", "ran", "left"})
  /\ Len(versions') = n /\ Len(thread') = n
  /\ DOMAIN versions' = 1 .. n /\ DOMAIN thread' = 1 .. n

\* Setting the state of a workflow.
LEMMA WfSet ==
  ASSUME TypeOK, NEW v \in DOMAIN versions, NEW x, versions' = [versions EXCEPT ![v].wf = x],
         x \in {"none", "pending", "orphan", "cancelled", "failed", "done"}
  PROVE  /\ versions' \in Seq(Version) /\ Len(versions') = Len(versions)
         /\ DOMAIN versions' = DOMAIN versions
         /\ \A u \in DOMAIN versions :
              /\ WfOnly(u)
              /\ versions'[u].wf = IF u = v THEN x ELSE versions[u].wf
  <1> DEFINE r == [versions[v] EXCEPT !.wf = x]
  <1>1. versions[v] \in Version /\ versions \in Seq(Version) BY VersionType DEF TypeOK
  <1>2. /\ r \in Version /\ r.wf = x /\ r.config = versions[v].config
        /\ r.slot = versions[v].slot /\ r.status = versions[v].status /\ r.at = versions[v].at
    BY <1>1 DEF Version
  <1>3. versions' = [versions EXCEPT ![v] = r]
    OBVIOUS
  <1> HIDE DEF r
  <1>4. /\ versions' \in Seq(Version) /\ Len(versions') = Len(versions)
        /\ DOMAIN versions' = DOMAIN versions
        /\ \A u \in DOMAIN versions : versions'[u] = IF u = v THEN r ELSE versions[u]
    <2>1. versions \in Seq(Version) /\ v \in DOMAIN versions /\ r \in Version BY <1>1, <1>2
    <2> QED BY ONLY <1>3, <2>1, OneReplaced
  <1>5. ASSUME NEW u \in DOMAIN versions
        PROVE  WfOnly(u) /\ versions'[u].wf = IF u = v THEN x ELSE versions[u].wf
    <2>1. CASE u = v
      <3>1. versions'[u] = r /\ u \in DOMAIN versions' BY <1>4, <2>1
      <3> QED BY <1>2, <2>1, <3>1 DEF WfOnly, Same
    <2>2. CASE u # v
      <3>1. versions'[u] = versions[u] /\ u \in DOMAIN versions' BY <1>4, <2>2
      <3> QED BY <2>2, <3>1 DEF WfOnly, Same
    <2> QED BY <2>1, <2>2
  <1> QED BY <1>4, <1>5

\* Setting a goroutine.
LEMMA ThreadSet ==
  ASSUME TypeOK, NEW v \in DOMAIN versions, NEW x \in {"off", "idle", "run", "ran", "left"},
         thread' = [thread EXCEPT ![v] = x]
  PROVE  /\ thread' \in Seq({"off", "idle", "run", "ran", "left"})
         /\ Len(thread') = Len(versions)
         /\ \A u \in DOMAIN versions : thread'[u] = IF u = v THEN x ELSE thread[u]
  <1>1. thread \in Seq({"off", "idle", "run", "ran", "left"}) /\ v \in DOMAIN thread
        /\ Len(thread) = Len(versions) /\ DOMAIN versions = DOMAIN thread
    BY VersionType DEF TypeOK
  <1>2. /\ thread' \in Seq({"off", "idle", "run", "ran", "left"}) /\ Len(thread') = Len(thread)
        /\ \A u \in DOMAIN thread : thread'[u] = IF u = v THEN x ELSE thread[u]
    BY <1>1, OneReplaced
  <1> QED BY <1>1, <1>2

\* The lengths and the fields when nothing is written.
LEMMA Unwritten ==
  ASSUME TypeOK
  PROVE  /\ versions \in Seq(Version) /\ thread \in Seq({"off", "idle", "run", "ran", "left"})
         /\ Len(thread) = Len(versions) /\ Len(versions) \in Nat
         /\ DOMAIN versions = 1 .. Len(versions) /\ DOMAIN thread = 1 .. Len(versions)
         /\ versions' = versions => \A u \in DOMAIN versions : WfOnly(u)
                                                     /\ versions'[u].wf = versions[u].wf
  <1>1. versions \in Seq(Version) /\ thread \in Seq({"off", "idle", "run", "ran", "left"})
        /\ Len(thread) = Len(versions)
    BY DEF TypeOK
  <1> QED BY <1>1 DEF WfOnly, Same

\* The steps of a workflow that write no version.
LEMMA ThreadSteps ==
  ASSUME TypeOK, NEW v \in DOMAIN versions, Begin(v) \/ Prepare(v) \/ Embed(v)
  PROVE  /\ Shaped(Len(versions)) /\ versions' = versions
         /\ \A u \in DOMAIN versions : u # v => thread'[u] = thread[u]
         /\ Begin(v) => /\ thread[v] = "idle"
                        /\ thread'[v] = IF versions[v].wf = "pending" THEN "run" ELSE "off"
         /\ Prepare(v) => /\ thread[v] = "run" /\ versions[v].at = 0
                          /\ thread'[v] \in {"ran", "left"}
         /\ Embed(v) => thread[v] = "run" /\ thread'[v] = "ran" /\ versions[v].at \in 1 .. Batches
  <1>1. versions' = versions BY DEF Begin, Prepare, Embed, index
  <1>2. PICK x \in {"off", "idle", "run", "ran", "left"} :
          /\ thread' = [thread EXCEPT ![v] = x]
          /\ Begin(v) => x = IF versions[v].wf = "pending" THEN "run" ELSE "off"
          /\ Prepare(v) => x \in {"ran", "left"}
          /\ Embed(v) => x = "ran"
    BY DEF Begin, Prepare, Embed, Ran
  <1>3. /\ thread' \in Seq({"off", "idle", "run", "ran", "left"}) /\ Len(thread') = Len(versions)
        /\ \A u \in DOMAIN versions : thread'[u] = IF u = v THEN x ELSE thread[u]
    BY <1>2, ThreadSet
  <1>4. Shaped(Len(versions)) BY <1>1, <1>3, Unwritten DEF Shaped
  <1> QED BY <1>1, <1>2, <1>3, <1>4 DEF Begin, Prepare, Embed

\* The checkpoint of a step, or its failure.
LEMMA Ended ==
  ASSUME TypeOK, NEW v \in DOMAIN versions, Fail(v) \/ (Checkpoint(v) /\ thread[v] = "left")
  PROVE  /\ Shaped(Len(versions))
         /\ \A u \in DOMAIN versions :
              /\ WfOnly(u)
              /\ u # v => thread'[u] = thread[u] /\ versions'[u].wf = versions[u].wf
         /\ thread'[v] = "off" /\ thread[v] \in {"run", "left"}
         /\ versions[v].wf = "pending" => versions'[v].wf \in {"done", "failed"}
         /\ versions[v].wf # "pending" => versions'[v].wf = versions[v].wf
  <1>1. versions[v].wf \in {"none", "pending", "orphan", "cancelled", "failed", "done"}
    BY VersionType DEF Version
  <1>2. PICK x \in {"none", "pending", "orphan", "cancelled", "failed", "done"} :
          /\ versions' = [versions EXCEPT ![v].wf = x]
          /\ versions[v].wf = "pending" => x \in {"done", "failed"}
          /\ versions[v].wf # "pending" => x = versions[v].wf
    <2>1. CASE versions[v].wf = "pending" BY <2>1 DEF Fail, Checkpoint
    <2>2. CASE versions[v].wf # "pending" BY <1>1, <2>2 DEF Fail, Checkpoint
    <2> QED BY <2>1, <2>2
  <1>3. thread' = [thread EXCEPT ![v] = "off"] /\ thread[v] \in {"run", "left"}
    BY DEF Fail, Checkpoint
  <1>4. /\ versions' \in Seq(Version) /\ Len(versions') = Len(versions)
        /\ \A u \in DOMAIN versions :
              WfOnly(u) /\ versions'[u].wf = IF u = v THEN x ELSE versions[u].wf
    BY <1>2, WfSet
  <1>5. /\ thread' \in Seq({"off", "idle", "run", "ran", "left"}) /\ Len(thread') = Len(versions)
        /\ \A u \in DOMAIN versions : thread'[u] = IF u = v THEN "off" ELSE thread[u]
    BY <1>3, ThreadSet
  <1>6. Shaped(Len(versions)) BY <1>4, <1>5 DEF Shaped
  <1> QED BY <1>2, <1>3, <1>4, <1>5, <1>6

\* The checkpoint after which the workflow goes on.
LEMMA GoesOn ==
  ASSUME TypeOK, NEW v \in DOMAIN versions, Checkpoint(v), thread[v] = "ran",
         versions[v].at <= Batches
  PROVE  /\ Shaped(Len(versions))
         /\ \A u \in DOMAIN versions :
              /\ Same(u) /\ versions'[u].wf = versions[u].wf
              /\ versions'[u].status = versions[u].status
              /\ u # v => thread'[u] = thread[u] /\ versions'[u].at = versions[u].at
         /\ thread'[v] = "idle" /\ versions'[v].at = versions[v].at + 1
  <1> DEFINE r == [versions[v] EXCEPT !.at = @ + 1]
  <1>1. versions[v] \in Version /\ versions \in Seq(Version) /\ versions[v].at \in 0 .. Flip
    BY VersionType DEF TypeOK
  <1>2. versions[v].at + 1 \in 0 .. Flip BY <1>1 DEF Flip
  <1>3. /\ r \in Version /\ r.wf = versions[v].wf /\ r.config = versions[v].config
        /\ r.slot = versions[v].slot /\ r.status = versions[v].status
        /\ r.at = versions[v].at + 1
    BY <1>1, <1>2 DEF Version
  <1>4. versions' = [versions EXCEPT ![v] = r] /\ thread' = [thread EXCEPT ![v] = "idle"]
    BY DEF Checkpoint
  <1> HIDE DEF r
  <1>5. /\ versions' \in Seq(Version) /\ Len(versions') = Len(versions)
        /\ DOMAIN versions' = DOMAIN versions
        /\ \A u \in DOMAIN versions : versions'[u] = IF u = v THEN r ELSE versions[u]
    BY <1>1, <1>3, <1>4, OneReplaced
  <1>6. /\ thread' \in Seq({"off", "idle", "run", "ran", "left"}) /\ Len(thread') = Len(versions)
        /\ \A u \in DOMAIN versions : thread'[u] = IF u = v THEN "idle" ELSE thread[u]
    BY <1>4, ThreadSet
  <1>7. Shaped(Len(versions)) BY <1>5, <1>6 DEF Shaped
  <1>8. ASSUME NEW u \in DOMAIN versions
        PROVE  /\ Same(u) /\ versions'[u].wf = versions[u].wf
               /\ versions'[u].status = versions[u].status
               /\ u # v => thread'[u] = thread[u] /\ versions'[u].at = versions[u].at
    <2>1. CASE u = v
      <3>1. versions'[u] = r /\ u \in DOMAIN versions' BY <1>5, <2>1
      <3> QED BY <1>3, <2>1, <3>1 DEF Same
    <2>2. CASE u # v
      <3>1. versions'[u] = versions[u] /\ u \in DOMAIN versions' BY <1>5, <2>2
      <3> QED BY <1>6, <2>2, <3>1 DEF Same
    <2> QED BY <2>1, <2>2
  <1> QED BY <1>3, <1>5, <1>6, <1>7, <1>8

\* The steps of EnsureActiveVersion after its transaction.
LEMMA Cancelled ==
  ASSUME TypeOK, NEW v \in DOMAIN versions, CancelSuperseded(v)
  PROVE  /\ Shaped(Len(versions)) /\ thread' = thread
         /\ \A u \in DOMAIN versions :
              WfOnly(u) /\ (u # v => versions'[u].wf = versions[u].wf)
         /\ versions[v].wf \in {"pending", "orphan"} => versions'[v].wf = "cancelled"
         /\ versions[v].wf \notin {"pending", "orphan"} => versions'[v].wf = versions[v].wf
  <1>1. versions[v].wf \in {"none", "pending", "orphan", "cancelled", "failed", "done"}
    BY VersionType DEF Version
  <1>2. PICK x \in {"none", "pending", "orphan", "cancelled", "failed", "done"} :
          /\ versions' = [versions EXCEPT ![v].wf = x]
          /\ versions[v].wf \in {"pending", "orphan"} => x = "cancelled"
          /\ versions[v].wf \notin {"pending", "orphan"} => x = versions[v].wf
    <2>1. CASE versions[v].wf \in {"pending", "orphan"} BY <2>1 DEF CancelSuperseded
    <2>2. CASE versions[v].wf \notin {"pending", "orphan"} BY <1>1, <2>2 DEF CancelSuperseded
    <2> QED BY <2>1, <2>2
  <1>3. /\ versions' \in Seq(Version) /\ Len(versions') = Len(versions)
        /\ \A u \in DOMAIN versions :
              WfOnly(u) /\ versions'[u].wf = IF u = v THEN x ELSE versions[u].wf
    BY <1>2, WfSet
  <1>4. thread' = thread BY DEF CancelSuperseded
  <1>5. Shaped(Len(versions)) BY <1>3, <1>4, Unwritten DEF Shaped
  <1> QED BY <1>2, <1>3, <1>4, <1>5

\* The start of the workflow.
LEMMA Started ==
  ASSUME TypeOK, NEW v \in DOMAIN versions, StartReindex(v)
  PROVE  /\ Shaped(Len(versions))
         /\ \A u \in DOMAIN versions :
              /\ WfOnly(u)
              /\ u # v => thread'[u] = thread[u] /\ versions'[u].wf = versions[u].wf
         /\ thread'[v] = "idle" /\ versions'[v].wf = "pending"
  <1>1. /\ versions' = [versions EXCEPT ![v].wf = "pending"]
        /\ thread' = [thread EXCEPT ![v] = "idle"]
    BY DEF StartReindex
  <1>2. /\ versions' \in Seq(Version) /\ Len(versions') = Len(versions)
        /\ \A u \in DOMAIN versions :
              WfOnly(u) /\ versions'[u].wf = IF u = v THEN "pending" ELSE versions[u].wf
    BY <1>1, WfSet
  <1>3. /\ thread' \in Seq({"off", "idle", "run", "ran", "left"}) /\ Len(thread') = Len(versions)
        /\ \A u \in DOMAIN versions : thread'[u] = IF u = v THEN "idle" ELSE thread[u]
    BY <1>1, ThreadSet
  <1>4. Shaped(Len(versions)) BY <1>2, <1>3 DEF Shaped
  <1> QED BY <1>2, <1>3, <1>4

\* Marking versions changes their status.
LEMMA MarkedType ==
  ASSUME TypeOK, NEW set, NEW st \in {"building", "active", "retired", "superseded"}
  PROVE  /\ Marked(set, st) \in Seq(Version) /\ Len(Marked(set, st)) = Len(versions)
         /\ DOMAIN Marked(set, st) = DOMAIN versions
         /\ \A u \in DOMAIN versions :
              /\ Marked(set, st)[u] \in Version
              /\ Marked(set, st)[u].config = versions[u].config
              /\ Marked(set, st)[u].slot = versions[u].slot
              /\ Marked(set, st)[u].wf = versions[u].wf
              /\ Marked(set, st)[u].at = versions[u].at
              /\ Marked(set, st)[u].status = IF u \in set THEN st ELSE versions[u].status
  <1> DEFINE f == Marked(set, st)
  <1>1. f = [u \in DOMAIN versions |-> f[u]] BY DEF Marked
  <1>2. ASSUME NEW u \in DOMAIN versions
        PROVE  /\ f[u] \in Version /\ f[u].config = versions[u].config
               /\ f[u].slot = versions[u].slot /\ f[u].wf = versions[u].wf
               /\ f[u].at = versions[u].at
               /\ f[u].status = IF u \in set THEN st ELSE versions[u].status
    <2>1. versions[u] \in Version BY VersionType
    <2>2. f[u] = IF u \in set THEN [versions[u] EXCEPT !.status = st] ELSE versions[u]
      BY DEF Marked
    <2> HIDE DEF f
    <2>3. CASE u \in set
      <3>1. f[u] = [versions[u] EXCEPT !.status = st] BY <2>2, <2>3
      <3> QED BY <2>1, <2>3, <3>1 DEF Version
    <2>4. CASE u \notin set BY <2>1, <2>2, <2>4
    <2> QED BY <2>3, <2>4
  <1> HIDE DEF f
  <1>3. versions \in Seq(Version) BY DEF TypeOK
  <1>4. \A u \in DOMAIN versions : f[u] \in Version BY <1>2
  <1>5. f \in Seq(Version) /\ Len(f) = Len(versions) /\ DOMAIN f = DOMAIN versions
    BY ONLY <1>1, <1>3, <1>4, SameLength
  <1> QED BY <1>2, <1>5 DEF f

\* The flip, when the version is still to serve: it is active, and what was retires.
LEMMA WentLive ==
  ASSUME TypeOK, NEW v \in DOMAIN versions, FlipLive(v), versions[v].status = "building"
  PROVE  /\ Shaped(Len(versions))
         /\ \A u \in DOMAIN versions :
              /\ Same(u) /\ versions'[u].wf = versions[u].wf /\ versions'[u].at = versions[u].at
              /\ u # v => /\ thread'[u] = thread[u]
                          /\ versions'[u].status = IF u \in Active THEN "retired"
                                                                   ELSE versions[u].status
         /\ thread[v] = "run" /\ thread'[v] = "left" /\ versions[v].at = Flip
         /\ versions'[v].status = "active"
         /\ vectors' = [s \in Slot |->
                          IF s \in {versions[w].slot : w \in Active} \ {versions[v].slot}
                          THEN [b \in 1 .. Batches |-> Empty] ELSE vectors[s]]
  <1>1. v \notin Active BY DEF Active, WithStatus
  <1>2. Live(v) /\ thread[v] = "run" /\ thread' = [thread EXCEPT ![v] = "left"]
        /\ versions[v].at = Flip
    BY DEF FlipLive, Ran
  <1> DEFINE m == Marked(Active, "retired")
             r == [m[v] EXCEPT !.status = "active"]
  <1>3. Active \ {v} = Active BY <1>1
  <1>4. versions' = [m EXCEPT ![v] = r] BY <1>2, <1>3 DEF Live
  <1>5. vectors' = [s \in Slot |->
                      IF s \in {versions[w].slot : w \in Active} \ {versions[v].slot}
                      THEN [b \in 1 .. Batches |-> Empty] ELSE vectors[s]]
    BY <1>2, <1>3 DEF Live
  <1> HIDE DEF m
  <1>6. /\ m \in Seq(Version) /\ Len(m) = Len(versions) /\ DOMAIN m = DOMAIN versions
        /\ \A u \in DOMAIN versions :
             /\ m[u] \in Version /\ m[u].config = versions[u].config
             /\ m[u].slot = versions[u].slot /\ m[u].wf = versions[u].wf
             /\ m[u].at = versions[u].at
             /\ m[u].status = IF u \in Active THEN "retired" ELSE versions[u].status
    BY MarkedType DEF m
  <1>7. m[v] \in Version BY <1>6
  <1>8. /\ r \in Version /\ r.wf = m[v].wf /\ r.config = m[v].config
        /\ r.slot = m[v].slot /\ r.status = "active" /\ r.at = m[v].at
    BY <1>7 DEF Version
  <1> HIDE DEF r
  <1>9. /\ versions' \in Seq(Version) /\ Len(versions') = Len(versions)
        /\ DOMAIN versions' = DOMAIN versions
        /\ \A u \in DOMAIN versions : versions'[u] = IF u = v THEN r ELSE m[u]
    <2>1. m \in Seq(Version) /\ v \in DOMAIN m /\ DOMAIN m = DOMAIN versions
          /\ Len(m) = Len(versions)
      BY <1>6
    <2>2. /\ versions' \in Seq(Version) /\ Len(versions') = Len(m) /\ DOMAIN versions' = DOMAIN m
          /\ \A u \in DOMAIN m : versions'[u] = IF u = v THEN r ELSE m[u]
      BY ONLY <1>4, <1>8, <2>1, OneReplaced
    <2> QED BY <2>1, <2>2
  <1>10. /\ thread' \in Seq({"off", "idle", "run", "ran", "left"}) /\ Len(thread') = Len(versions)
         /\ \A u \in DOMAIN versions : thread'[u] = IF u = v THEN "left" ELSE thread[u]
    BY <1>2, ThreadSet
  <1>11. Shaped(Len(versions)) BY <1>9, <1>10 DEF Shaped
  <1>12. ASSUME NEW u \in DOMAIN versions
         PROVE  /\ Same(u) /\ versions'[u].wf = versions[u].wf
                /\ versions'[u].at = versions[u].at
                /\ u # v => versions'[u].status = IF u \in Active THEN "retired"
                                                                  ELSE versions[u].status
    <2>1. CASE u = v
      <3>1. versions'[u] = r /\ u \in DOMAIN versions' BY <1>9, <2>1
      <3> QED BY <1>6, <1>8, <2>1, <3>1 DEF Same
    <2>2. CASE u # v
      <3>1. versions'[u] = m[u] /\ u \in DOMAIN versions' BY <1>9, <2>2
      <3> QED BY <1>6, <2>2, <3>1 DEF Same
    <2> QED BY <2>1, <2>2
  <1> QED BY <1>2, <1>5, <1>8, <1>9, <1>10, <1>11, <1>12

\* The flip, when it is not: the workflow ends.
LEMMA StayedBack ==
  ASSUME TypeOK, NEW v \in DOMAIN versions, FlipLive(v), versions[v].status # "building"
  PROVE  /\ Shaped(Len(versions)) /\ UNCHANGED index
         /\ \A u \in DOMAIN versions : u # v => thread'[u] = thread[u]
         /\ thread[v] = "run" /\ thread'[v] = "left"
  <1>1. UNCHANGED index /\ thread[v] = "run" /\ thread' = [thread EXCEPT ![v] = "left"]
    BY DEF FlipLive, Ran
  <1>2. /\ thread' \in Seq({"off", "idle", "run", "ran", "left"}) /\ Len(thread') = Len(versions)
        /\ \A u \in DOMAIN versions : thread'[u] = IF u = v THEN "left" ELSE thread[u]
    BY <1>1, ThreadSet
  <1>3. Shaped(Len(versions)) BY <1>1, <1>2, Unwritten DEF Shaped, index
  <1> QED BY <1>1, <1>2, <1>3

\* A sequence that is extended by one element, or by none.
LEMMA Extended ==
  ASSUME NEW S, NEW s \in Seq(S), NEW r \in S, NEW k \in {0, 1}, NEW t,
         t = s \o [v \in 1 .. k |-> r]
  PROVE  /\ t \in Seq(S) /\ Len(t) = Len(s) + k
         /\ \A u \in DOMAIN s : u \in DOMAIN t /\ t[u] = s[u]
         /\ k = 1 => t[Len(s) + 1] = r
  <1> DEFINE e == [v \in 1 .. k |-> r]
  <1>1. e \in Seq(S) /\ Len(e) = k /\ (k = 1 => e[1] = r)
    OBVIOUS
  <1>2. t = s \o e
    OBVIOUS
  <1> HIDE DEF e
  <1>3. t \in Seq(S) /\ Len(t) = Len(s) + k /\ Len(s) \in Nat BY <1>1, <1>2
  <1>4. \A u \in 1 .. Len(s) : t[u] = s[u] BY <1>1, <1>2
  <1>5. k = 1 => t[Len(s) + 1] = r BY <1>1, <1>2
  <1>6. DOMAIN s = 1 .. Len(s) /\ DOMAIN t = 1 .. Len(t) BY <1>3
  <1>7. \A u \in DOMAIN s : u \in DOMAIN t BY <1>3, <1>6
  <1> QED BY <1>3, <1>4, <1>5, <1>6, <1>7

\* The row a transaction that provides for a configuration would insert.
Row == [config |-> Wanted, slot |-> IdleSlot, status |-> "building", wf |-> "none", at |-> 0]

\* What the transaction leaves: nothing of before builds any more; if what serves is not what
\* is wanted there is one version more, which does.
LEMMA Provided ==
  ASSUME TypeOK, NEW n, n = Len(versions), Provision
  PROVE  \E k \in {0, 1} :
           /\ Shaped(n + k) /\ n \in Nat /\ DOMAIN versions = 1 .. n
           /\ k = 0 <=> Has(Active, Wanted)
           /\ \A u \in DOMAIN versions :
                /\ Same(u) /\ versions'[u].wf = versions[u].wf
                /\ versions'[u].at = versions[u].at /\ thread'[u] = thread[u]
                /\ versions'[u].status = IF u \in Building THEN "superseded"
                                                           ELSE versions[u].status
           /\ k = 1 => versions'[n + 1] = Row /\ thread'[n + 1] = "off"
           /\ Proceed({v \in Building : versions[v].wf # "none"}, IF k = 0 THEN {} ELSE {n + 1})
  <1> DEFINE m == Marked(Building, "superseded")
             new == IF Has(Active, Wanted) THEN {} ELSE {n + 1}
             k == Cardinality(new)
  <1>1. ensure.pc = "tx" BY DEF Provision
  <1>2. Row \in Version
    <2>1. Wanted \in Config BY <1>1, EnsureKinds DEF Wanted, Config, TypeOK
    <2>2. IdleSlot \in Slot BY DEF IdleSlot, Slot
    <2>3. 0 \in 0 .. Flip BY DEF Flip
    <2> QED BY <2>1, <2>2, <2>3 DEF Row, Version
  <1>3. k \in {0, 1} /\ (k = 0 <=> Has(Active, Wanted)) /\ new = IF k = 0 THEN {} ELSE {n + 1}
    <2>1. CASE Has(Active, Wanted)
      <3>1. new = {} BY <2>1
      <3> HIDE DEF new
      <3>2. k = 0 BY <3>1, FS_EmptySet
      <3> QED BY <2>1, <3>1, <3>2
    <2>2. CASE ~Has(Active, Wanted)
      <3>1. new = {n + 1} BY <2>2
      <3> HIDE DEF new
      <3>2. Cardinality({n + 1}) = 1 BY ONLY FS_Singleton, Zenon
      <3>3. k = 1 BY <3>1, <3>2
      <3> HIDE DEF k
      <3> QED BY <2>2, <3>1, <3>3
    <2> QED BY <2>1, <2>2
  <1>4. /\ versions' = m \o [v \in 1 .. k |-> Row]
        /\ thread' = thread \o [v \in 1 .. k |-> "off"]
        /\ Proceed({v \in Building : versions[v].wf # "none"}, new)
    BY DEF Provision, Row
  <1>5. /\ m \in Seq(Version) /\ Len(m) = n /\ DOMAIN m = DOMAIN versions
        /\ \A u \in DOMAIN versions :
             /\ m[u].config = versions[u].config /\ m[u].slot = versions[u].slot
             /\ m[u].wf = versions[u].wf /\ m[u].at = versions[u].at
             /\ m[u].status = IF u \in Building THEN "superseded" ELSE versions[u].status
    BY MarkedType
  <1>6. thread \in Seq({"off", "idle", "run", "ran", "left"}) /\ Len(thread) = n
        /\ n \in Nat /\ DOMAIN versions = 1 .. n /\ DOMAIN thread = 1 .. n
    BY Unwritten
  <1> HIDE DEF m, k, new
  <1>7. /\ versions' \in Seq(Version) /\ Len(versions') = n + k
        /\ \A u \in DOMAIN m : u \in DOMAIN versions' /\ versions'[u] = m[u]
        /\ k = 1 => versions'[n + 1] = Row
    <2>1. m \in Seq(Version) /\ Len(m) = n BY <1>5
    <2>2. /\ versions' \in Seq(Version) /\ Len(versions') = Len(m) + k
          /\ \A u \in DOMAIN m : u \in DOMAIN versions' /\ versions'[u] = m[u]
          /\ k = 1 => versions'[Len(m) + 1] = Row
      <3>1. k \in {0, 1} /\ versions' = m \o [v \in 1 .. k |-> Row] BY <1>3, <1>4
      <3> QED BY ONLY <1>2, <2>1, <3>1, Extended
    <2> QED BY <2>1, <2>2
  <1>8. /\ thread' \in Seq({"off", "idle", "run", "ran", "left"}) /\ Len(thread') = n + k
        /\ \A u \in DOMAIN thread : u \in DOMAIN thread' /\ thread'[u] = thread[u]
        /\ k = 1 => thread'[n + 1] = "off"
    <2>1. "off" \in {"off", "idle", "run", "ran", "left"}
      OBVIOUS
    <2> QED BY ONLY <1>3, <1>4, <1>6, <2>1, Extended
  <1>9. Shaped(n + k) BY <1>3, <1>6, <1>7, <1>8 DEF Shaped
  <1>10. \A u \in DOMAIN versions :
           /\ Same(u) /\ versions'[u].wf = versions[u].wf
           /\ versions'[u].at = versions[u].at /\ thread'[u] = thread[u]
           /\ versions'[u].status = IF u \in Building THEN "superseded" ELSE versions[u].status
    BY <1>5, <1>6, <1>7, <1>8 DEF Same
  <1>11. Proceed({v \in Building : versions[v].wf # "none"}, IF k = 0 THEN {} ELSE {n + 1})
    BY <1>3, <1>4
  <1> QED BY <1>3, <1>6, <1>7, <1>8, <1>9, <1>10, <1>11

\* The launch of DBOS takes up what is pending.
LEMMA Launched ==
  ASSUME TypeOK, Launch
  PROVE  /\ Shaped(Len(versions)) /\ versions' = versions
         /\ \A u \in DOMAIN versions :
              thread'[u] = IF versions[u].wf = "pending" THEN "idle" ELSE "off"
  <1>1. /\ thread' = [u \in DOMAIN versions |->
                        IF versions[u].wf = "pending" THEN "idle" ELSE "off"]
        /\ versions' = versions
    BY DEF Launch, index
  <1>2. thread' \in Seq({"off", "idle", "run", "ran", "left"}) /\ Len(thread') = Len(versions)
    <2>1. DOMAIN versions = 1 .. Len(versions) /\ Len(versions) \in Nat BY Unwritten
    <2> QED BY <1>1, <2>1
  <1> QED BY <1>1, <1>2, Unwritten DEF Shaped

\* The death of the process leaves no goroutine, and may leave a workflow to a program that
\* is gone.
LEMMA Crashed ==
  ASSUME TypeOK, NEW m \in Model, NEW upgrade \in BOOLEAN, Crash(m, upgrade)
  PROVE  /\ Shaped(Len(versions))
         /\ \A u \in DOMAIN versions :
              /\ WfOnly(u) /\ thread'[u] = "off"
              /\ versions'[u].wf \in {versions[u].wf, "orphan"}
              /\ versions'[u].wf = "orphan" => versions[u].wf \in {"pending", "orphan"}
              /\ versions'[u].wf = "none" => versions[u].wf = "none"
  <1>1. /\ thread' = [u \in DOMAIN versions |-> "off"]
        /\ versions' = [u \in DOMAIN versions |->
                          IF upgrade /\ versions[u].wf = "pending"
                          THEN [versions[u] EXCEPT !.wf = "orphan"] ELSE versions[u]]
    BY DEF Crash
  <1>2. thread' \in Seq({"off", "idle", "run", "ran", "left"}) /\ Len(thread') = Len(versions)
    <2>1. DOMAIN versions = 1 .. Len(versions) /\ Len(versions) \in Nat BY Unwritten
    <2> QED BY <1>1, <2>1
  <1>3. ASSUME NEW u \in DOMAIN versions
        PROVE  /\ versions'[u] \in Version
               /\ WfOnly(u) /\ thread'[u] = "off"
               /\ versions'[u].wf \in {versions[u].wf, "orphan"}
               /\ versions'[u].wf = "orphan" => versions[u].wf \in {"pending", "orphan"}
               /\ versions'[u].wf = "none" => versions[u].wf = "none"
    <2>1. versions[u] \in Version BY VersionType
    <2>2. u \in DOMAIN versions' /\ thread'[u] = "off" BY <1>1
    <2>3. CASE upgrade /\ versions[u].wf = "pending"
      <3>1. versions'[u] = [versions[u] EXCEPT !.wf = "orphan"] BY <1>1, <2>3
      <3> QED BY <2>1, <2>2, <2>3, <3>1 DEF Version, WfOnly, Same
    <2>4. CASE ~(upgrade /\ versions[u].wf = "pending")
      <3>1. versions'[u] = versions[u] BY <1>1, <2>4
      <3> QED BY <2>1, <2>2, <2>4, <3>1 DEF WfOnly, Same
    <2> QED BY <2>3, <2>4
  <1>4. versions' \in Seq(Version) /\ Len(versions') = Len(versions)
    <2>1. versions' = [u \in DOMAIN versions |-> versions'[u]] BY <1>1
    <2>2. versions \in Seq(Version) /\ \A u \in DOMAIN versions : versions'[u] \in Version
      BY <1>3, Unwritten
    <2> QED BY ONLY <2>1, <2>2, SameLength
  <1>5. Shaped(Len(versions)) BY <1>2, <1>4 DEF Shaped
  <1> QED BY <1>3, <1>5

-----------------------------------------------------------------------------
(* The steps, and what they leave alone. *)

\* A step of the overlay.
OverlayStep ==
  /\ UNCHANGED core
  /\ \/ Hear \/ AssignHeard \/ Reconnect \/ HearFails \/ Disconnect
     \/ \E c \in Client : ReadEntry(c) \/ AssignEntry(c) \/ AbandonEntry(c)
     \/ \E d \in Value : Edit(d, boot # "load")
     \/ \E c \in Client, d \in Value : boot = "up" /\ SetEntry(c, d)

\* A step of main before it calls EnsureActiveVersion, and of a listener without a hook.
MainStep == BootLoad \/ BootListen \/ BootDeaf \/ Unhooked

\* A call of EnsureActiveVersion begins, or ends with nothing written.
CallStep == OnChange \/ Deduplicate \/ EnsureFails

\* A step after the transaction.
AfterStep(v) == CancelSuperseded(v) \/ CancelFails(v) \/ StartReindex(v)

\* Every step is one of these.
LEMMA Steps ==
  ASSUME Next
  PROVE  \/ OverlayStep \/ MainStep \/ CallStep \/ Launch \/ Provision
         \/ \E v \in DOMAIN versions : AfterStep(v) \/ Reindex(v) \/ Fail(v)
         \/ \E m \in Model, upgrade \in BOOLEAN : Crash(m, upgrade)
  BY DEF Next, OverlayStep, MainStep, CallStep, AfterStep, Happens

\* The tables and the goroutines are as they were.
Still == UNCHANGED <<index, thread, crossed, strays, model>>

\* These steps write nothing there.
LEMMA StillSteps ==
  ASSUME OverlayStep \/ MainStep \/ CallStep
  PROVE  Still
  <1>1. CASE OverlayStep BY <1>1 DEF OverlayStep, core, Still, index
  <1>2. CASE MainStep BY <1>2 DEF MainStep, BootLoad, BootListen, BootDeaf, Unhooked, Still
  <1>3. CASE CallStep BY <1>3 DEF CallStep, OnChange, Deduplicate, EnsureFails, Still
  <1> QED BY <1>1, <1>2, <1>3

\* No version comes, and none changes its status.
Kept ==
  /\ Shaped(Len(versions))
  /\ \A u \in DOMAIN versions : Same(u) /\ versions'[u].status = versions[u].status

\* So it is unless a build is superseded or goes live.
LEMMA KeptSteps ==
  ASSUME TypeOK, VersionShape, Next
  PROVE  \/ Kept \/ Provision
         \/ \E v \in DOMAIN versions : FlipLive(v) /\ versions[v].status = "building"
  <1>1. CASE Still
    <2>1. versions' = versions /\ thread' = thread BY <1>1 DEF Still, index
    <2> QED BY <2>1, Unwritten DEF Kept, Shaped, WfOnly
  <1>2. CASE Launch
    <2>1. Shaped(Len(versions)) /\ versions' = versions BY <1>2, Launched
    <2> QED BY <2>1, Unwritten DEF Kept, WfOnly
  <1>3. ASSUME NEW v \in DOMAIN versions, AfterStep(v)
        PROVE  Kept
    <2>1. CASE CancelSuperseded(v) BY <2>1, Cancelled DEF Kept, WfOnly
    <2>2. CASE CancelFails(v)
      <3>1. versions' = versions /\ thread' = thread BY <2>2 DEF CancelFails, index
      <3> QED BY <3>1, Unwritten DEF Kept, Shaped, WfOnly
    <2>3. CASE StartReindex(v) BY <2>3, Started DEF Kept, WfOnly
    <2> QED BY <1>3, <2>1, <2>2, <2>3 DEF AfterStep
  <1>4. ASSUME NEW v \in DOMAIN versions, Reindex(v) \/ Fail(v),
               ~(FlipLive(v) /\ versions[v].status = "building")
        PROVE  Kept
    <2>1. CASE Begin(v) \/ Prepare(v) \/ Embed(v)
      <3>1. Shaped(Len(versions)) /\ versions' = versions BY <2>1, ThreadSteps
      <3> QED BY <3>1, Unwritten DEF Kept, WfOnly
    <2>2. CASE FlipLive(v)
      <3>1. Shaped(Len(versions)) /\ versions' = versions BY <1>4, <2>2, StayedBack DEF index
      <3> QED BY <3>1, Unwritten DEF Kept, WfOnly
    <2>3. CASE Checkpoint(v) /\ thread[v] = "ran"
      <3>1. versions[v].at <= Batches BY <2>3 DEF VersionShape, VersionOf
      <3> QED BY <2>3, <3>1, GoesOn DEF Kept
    <2>4. CASE Fail(v) \/ (Checkpoint(v) /\ thread[v] = "left")
      BY <2>4, Ended DEF Kept, WfOnly
    <2> QED BY <1>4, <2>1, <2>2, <2>3, <2>4 DEF Reindex, Checkpoint
  <1>5. ASSUME NEW m \in Model, NEW upgrade \in BOOLEAN, Crash(m, upgrade)
        PROVE  Kept
    BY <1>5, Crashed DEF Kept, WfOnly
  <1> QED BY <1>1, <1>2, <1>3, <1>4, <1>5, Steps, StillSteps

\* The domain only grows, and what a version is of stays.
LEMMA Grows ==
  ASSUME TypeOK, VersionShape, Next
  PROVE  \E n \in Nat : /\ Shaped(n) /\ DOMAIN versions \subseteq DOMAIN versions'
                        /\ \A u \in DOMAIN versions : Same(u)
  <1>0. Len(versions) \in Nat /\ DOMAIN versions = 1 .. Len(versions) BY Unwritten
  <1>1. CASE Kept
    <2>1. Shaped(Len(versions)) /\ \A u \in DOMAIN versions : Same(u) BY <1>1 DEF Kept
    <2>2. DOMAIN versions' = 1 .. Len(versions) BY <2>1 DEF Shaped
    <2> QED BY <1>0, <2>1, <2>2
  <1>2. CASE Provision
    <2>1. PICK k \in {0, 1} : /\ Shaped(Len(versions) + k) /\ \A u \in DOMAIN versions : Same(u)
      BY <1>2, Provided
    <2>2. DOMAIN versions' = 1 .. Len(versions) + k BY <2>1 DEF Shaped
    <2>3. Len(versions) + k \in Nat /\ DOMAIN versions \subseteq DOMAIN versions' BY <1>0, <2>2
    <2> QED BY <2>1, <2>3
  <1>3. CASE \E v \in DOMAIN versions : FlipLive(v) /\ versions[v].status = "building"
    <2>1. Shaped(Len(versions)) /\ \A u \in DOMAIN versions : Same(u) BY <1>3, WentLive
    <2>2. DOMAIN versions' = 1 .. Len(versions) BY <2>1 DEF Shaped
    <2> QED BY <1>0, <2>1, <2>2
  <1> QED BY <1>1, <1>2, <1>3, KeptSteps

-----------------------------------------------------------------------------
(* The types. *)

\* The operations of the overlay keep its types.
LEMMA OverlayTyped ==
  ASSUME OverlayTypeOK,
         \/ Hear \/ AssignHeard \/ Reconnect \/ HearFails \/ Disconnect
         \/ Load \/ Listen \/ ListenFails \/ LoseOverlay
         \/ \E c \in Client : ReadEntry(c) \/ AssignEntry(c) \/ AbandonEntry(c)
         \/ \E d \in Value, l \in BOOLEAN : Edit(d, l) \/ \E c \in Client : SetEntry(c, d)
  PROVE  OverlayTypeOK'
  <1> USE DEF OverlayTypeOK
  <1>1. Idle # Gone /\ Idle # Fire /\ Gone # Fire
        /\ \A d : Read(d).pc = "read" /\ Read(d).value = d
    BY DEF Idle, Gone, Fire, Read
  <1>2. CASE Hear BY <1>2 DEF Hear
  <1>3. CASE AssignHeard
    <2>1. listener.pc = "read" => \E d \in Value : listener = Read(d)
      BY DEF Idle, Gone, Fire
    <2>2. cached' \in Value BY <1>1, <1>3, <2>1 DEF AssignHeard
    <2> QED BY <1>3, <2>2 DEF AssignHeard
  <1>4. CASE Reconnect BY <1>4 DEF Reconnect
  <1>5. CASE HearFails BY <1>5 DEF HearFails, Miss, Cause
  <1>6. CASE Disconnect BY <1>6 DEF Disconnect, Miss, Cause
  <1>7. CASE Load BY <1>7 DEF Load
  <1>8. CASE Listen \/ ListenFails BY <1>8 DEF Listen, ListenFails
  <1>9. CASE LoseOverlay BY <1>9 DEF LoseOverlay
  <1>10. ASSUME NEW c \in Client, ReadEntry(c) PROVE OverlayTypeOK' BY <1>10 DEF ReadEntry
  <1>11. ASSUME NEW c \in Client, AssignEntry(c) PROVE OverlayTypeOK'
    <2>1. call[c].pc = "read" => \E d \in Value : call[c] = Read(d)
      BY DEF Idle, Fire
    <2>2. cached' \in Value BY <1>1, <1>11, <2>1 DEF AssignEntry
    <2>3. call' \in [Client -> {Idle, Fire} \cup {Read(d) : d \in Value}]
      BY <1>11 DEF AssignEntry
    <2>4. missed' \subseteq Cause BY <1>11 DEF AssignEntry, Miss, Cause
    <2> QED BY <1>11, <2>2, <2>3, <2>4 DEF AssignEntry
  <1>12. ASSUME NEW c \in Client, AbandonEntry(c) PROVE OverlayTypeOK' BY <1>12 DEF AbandonEntry
  <1>13. ASSUME NEW d \in Value, NEW l \in BOOLEAN, Stores(d, l)
         PROVE  /\ stored' \in Value /\ cached' \in Value /\ wire' \in Nat
                /\ listening' \in BOOLEAN /\ missed' \subseteq Cause
                /\ listener' \in {Gone, Idle, Fire} \cup {Read(x) : x \in Value}
    BY <1>13 DEF Stores, Miss, Cause
  <1>14. ASSUME NEW d \in Value, NEW l \in BOOLEAN, Edit(d, l) PROVE OverlayTypeOK'
    BY <1>13, <1>14 DEF Edit
  <1>15. ASSUME NEW d \in Value, NEW c \in Client, SetEntry(c, d) PROVE OverlayTypeOK'
    BY <1>13, <1>15 DEF SetEntry
  <1> QED
    BY <1>2, <1>3, <1>4, <1>5, <1>6, <1>7, <1>8, <1>9, <1>10, <1>11, <1>12, <1>14, <1>15

\* What the end of a call of EnsureActiveVersion leaves of the overlay.
LEMMA Returned ==
  ASSUME TypeOK, NEW failed \in BOOLEAN, Return(failed)
  PROVE  /\ OverlayTypeOK' /\ ensure' = Idle /\ boot' = "up"
         /\ missed' = missed \cup (IF failed THEN {"failed"} ELSE {})
         /\ stored' = stored /\ cached' = cached /\ wire' = wire
         /\ listener' = IF boot = "up" THEN Idle ELSE listener
  BY DEF Return, Miss, TypeOK, OverlayTypeOK, Cause

\* After the transaction the call is over, or goes on with what is given.
LEMMA Proceeds ==
  ASSUME TypeOK, NEW cancel, NEW start, Proceed(cancel, start)
  PROVE  \/ Return(FALSE) /\ cancel = {} /\ start = {}
         \/ /\ ensure' = [pc |-> "after", cancel |-> cancel, start |-> start]
            /\ UNCHANGED <<overlay, boot>>
  BY DEF Proceed

\* What a step makes of the call of EnsureActiveVersion.
LEMMA EnsureMoves ==
  ASSUME TypeOK, Next
  PROVE  \/ UNCHANGED ensure
         \/ ensure' = Idle
         \/ ensure' = [pc |-> "tx", dimension |-> cached]
         \/ /\ ensure.pc = "after"
            /\ ensure' = [pc |-> "after", cancel |-> {}, start |-> ensure.start]
         \/ Provision
  <1>1. CASE OverlayStep BY <1>1 DEF OverlayStep, core
  <1>2. CASE MainStep BY <1>2 DEF MainStep, BootLoad, BootListen, BootDeaf, Unhooked
  <1>3. CASE CallStep BY <1>3 DEF CallStep, OnChange, Deduplicate, EnsureFails, Return
  <1>4. CASE Launch BY <1>4 DEF Launch
  <1>5. ASSUME NEW v \in DOMAIN versions, AfterStep(v)
        PROVE  \/ ensure' = Idle
               \/ /\ ensure.pc = "after"
                  /\ ensure' = [pc |-> "after", cancel |-> {}, start |-> ensure.start]
    <2>1. CASE StartReindex(v) BY <2>1 DEF StartReindex, Return
    <2>2. CASE Cancelling(v)
      <3>1. ensure.pc = "after" /\ Proceed({}, ensure.start) BY <2>2 DEF Cancelling
      <3> QED BY <3>1, Proceeds DEF Return
    <2> QED BY <1>5, <2>1, <2>2 DEF AfterStep, CancelSuperseded, CancelFails
  <1>6. ASSUME NEW v \in DOMAIN versions, Reindex(v) \/ Fail(v)
        PROVE  UNCHANGED ensure
    BY <1>6 DEF Reindex, Begin, Prepare, Embed, FlipLive, Checkpoint, Fail
  <1>7. ASSUME NEW m \in Model, NEW upgrade \in BOOLEAN, Crash(m, upgrade)
        PROVE  ensure' = Idle
    BY <1>7 DEF Crash
  <1> QED BY <1>1, <1>2, <1>3, <1>4, <1>5, <1>6, <1>7, Steps

\* Who writes the overlay's part.
LEMMA OverlayMoves ==
  ASSUME TypeOK, Next
  PROVE  OverlayTypeOK' /\ model' \in Model
         /\ boot' \in {"load", "listen", "launch", "ensuring", "up"}
  <1> USE DEF TypeOK
  <1>1. CASE OverlayStep
    <2>1. OverlayTypeOK' BY <1>1, OverlayTyped DEF OverlayStep
    <2> QED BY <1>1, <2>1 DEF OverlayStep, core
  <1>2. CASE MainStep
    <2>1. CASE BootLoad BY <2>1, OverlayTyped DEF BootLoad
    <2>2. CASE BootListen BY <2>2, OverlayTyped DEF BootListen
    <2>3. CASE BootDeaf BY <2>3, OverlayTyped DEF BootDeaf
    <2>4. CASE Unhooked BY <2>4 DEF Unhooked, Miss, OverlayTypeOK, Cause
    <2> QED BY <1>2, <2>1, <2>2, <2>3, <2>4 DEF MainStep
  <1>3. ASSUME UNCHANGED overlay PROVE OverlayTypeOK'
    BY <1>3 DEF overlay, OverlayTypeOK
  <1>4. ASSUME NEW cancel, NEW start, Proceed(cancel, start)
        PROVE  OverlayTypeOK' /\ boot' \in {boot, "up"}
    BY <1>3, <1>4, Proceeds, Returned
  <1>5. CASE CallStep
    <2>1. CASE OnChange BY <1>3, <2>1 DEF OnChange
    <2>2. CASE Deduplicate \/ EnsureFails BY <2>2, Returned DEF Deduplicate, EnsureFails
    <2> QED BY <1>5, <2>1, <2>2 DEF CallStep
  <1>6. CASE Launch BY <1>3, <1>6 DEF Launch
  <1>7. CASE Provision
    <2>1. PICK k \in {0, 1} : Proceed({v \in Building : versions[v].wf # "none"},
                                      IF k = 0 THEN {} ELSE {Len(versions) + 1})
      BY <1>7, Provided
    <2> QED BY <1>4, <1>7, <2>1 DEF Provision
  <1>8. ASSUME NEW v \in DOMAIN versions, AfterStep(v)
        PROVE  OverlayTypeOK' /\ model' \in Model /\ boot' \in {boot, "up"}
    <2>1. CASE CancelSuperseded(v) \/ CancelFails(v)
      BY <1>4, <2>1 DEF CancelSuperseded, CancelFails, Cancelling
    <2>2. CASE StartReindex(v) BY <2>2, Returned DEF StartReindex
    <2> QED BY <1>8, <2>1, <2>2 DEF AfterStep
  <1>9. ASSUME NEW v \in DOMAIN versions, Reindex(v) \/ Fail(v)
        PROVE  UNCHANGED <<overlay, model, boot>>
    BY <1>9 DEF Reindex, Begin, Prepare, Embed, FlipLive, Checkpoint, Fail
  <1>10. ASSUME NEW m \in Model, NEW upgrade \in BOOLEAN, Crash(m, upgrade)
         PROVE  OverlayTypeOK' /\ model' \in Model /\ boot' = "load"
    BY <1>10, OverlayTyped DEF Crash
  <1> QED BY <1>1, <1>2, <1>3, <1>5, <1>6, <1>7, <1>8, <1>9, <1>10, Steps

\* The vectors, the causes and the bound.
LEMMA RestMoves ==
  ASSUME TypeOK, Next, DOMAIN versions \subseteq DOMAIN versions'
  PROVE  /\ vectors' \in [Slot -> [1 .. Batches -> Model \cup {Empty}]]
         /\ crossed' \subseteq DOMAIN versions' /\ strays' \subseteq DOMAIN versions'
         /\ events' \in 0 .. MaxEvents
  <1> USE DEF TypeOK
  <1>1. events' \in 0 .. MaxEvents BY DEF Next, Happens
  <1>2. CASE UNCHANGED <<vectors, crossed, strays>> BY <1>1, <1>2
  <1>3. CASE Still BY <1>2, <1>3 DEF Still, index
  <1>4. CASE Launch \/ Provision BY <1>2, <1>4 DEF Launch, Provision, index
  <1>5. ASSUME NEW v \in DOMAIN versions, AfterStep(v)
        PROVE  UNCHANGED <<vectors, crossed>> /\ strays' \subseteq strays \cup {v}
    BY <1>5 DEF AfterStep, CancelSuperseded, CancelFails, StartReindex, index
  <1>6. ASSUME NEW v \in DOMAIN versions, Embed(v)
        PROVE  /\ vectors' \in [Slot -> [1 .. Batches -> Model \cup {Empty}]]
               /\ crossed' \subseteq crossed \cup {v} /\ UNCHANGED strays
    <2>1. versions[v].slot \in Slot /\ versions[v].at \in 1 .. Batches
      BY <1>6, VersionType DEF Embed
    <2> QED BY <1>6, <2>1 DEF Embed
  <1>7. ASSUME NEW v \in DOMAIN versions, FlipLive(v)
        PROVE  /\ vectors' \in [Slot -> [1 .. Batches -> Model \cup {Empty}]]
               /\ UNCHANGED <<crossed, strays>>
    <2>1. CASE versions[v].status = "building"
      <3>1. vectors' = [s \in Slot |->
                          IF s \in {versions[w].slot : w \in Active} \ {versions[v].slot}
                          THEN [b \in 1 .. Batches |-> Empty] ELSE vectors[s]]
        BY <1>7, <2>1, WentLive
      <3>2. [b \in 1 .. Batches |-> Empty] \in [1 .. Batches -> Model \cup {Empty}]
        OBVIOUS
      <3>3. vectors' \in [Slot -> [1 .. Batches -> Model \cup {Empty}]] BY <3>1, <3>2
      <3> QED BY <1>7, <3>3 DEF FlipLive
    <2>2. CASE versions[v].status # "building" BY <1>7, <2>2 DEF FlipLive, index
    <2> QED BY <2>1, <2>2
  <1>8. ASSUME NEW v \in DOMAIN versions, Begin(v) \/ Prepare(v) \/ Checkpoint(v) \/ Fail(v)
        PROVE  UNCHANGED <<vectors, crossed, strays>>
    BY <1>8 DEF Begin, Prepare, Checkpoint, Fail, index
  <1>9. ASSUME NEW m \in Model, NEW upgrade \in BOOLEAN, Crash(m, upgrade)
        PROVE  UNCHANGED <<vectors, crossed>> /\ strays' \subseteq DOMAIN versions
    BY <1>9, EnsureKinds DEF Crash
  <1>10. ASSUME NEW v \in DOMAIN versions, Reindex(v) \/ Fail(v)
         PROVE  /\ vectors' \in [Slot -> [1 .. Batches -> Model \cup {Empty}]]
                /\ crossed' \subseteq crossed \cup {v} /\ UNCHANGED strays
    BY <1>6, <1>7, <1>8, <1>10 DEF Reindex
  <1> QED BY <1>1, <1>2, <1>3, <1>4, <1>5, <1>9, <1>10, Steps, StillSteps

\* No step leaves the types.
LEMMA TypeStep ==
  ASSUME TypeOK, VersionShape, Next
  PROVE  TypeOK'
  <1>1. PICK n \in Nat : Shaped(n) /\ DOMAIN versions \subseteq DOMAIN versions'
    BY Grows
  <1>2. ensure' \in Ensuring' \cup {Idle}
    <2>1. CASE UNCHANGED ensure BY <1>1, <2>1 DEF TypeOK, Ensuring
    <2>2. CASE ensure' = Idle BY <2>2
    <2>3. CASE ensure' = [pc |-> "tx", dimension |-> cached]
      BY <2>3 DEF TypeOK, OverlayTypeOK, Ensuring
    <2>4. CASE /\ ensure.pc = "after"
               /\ ensure' = [pc |-> "after", cancel |-> {}, start |-> ensure.start]
      <3>1. ensure.start \subseteq DOMAIN versions' BY <1>1, <2>4, EnsureKinds
      <3> QED BY <2>4, <3>1 DEF Ensuring
    <2>5. CASE Provision
      <3>1. PICK k \in {0, 1} :
              /\ Shaped(Len(versions) + k) /\ Len(versions) \in Nat
              /\ Proceed({v \in Building : versions[v].wf # "none"},
                         IF k = 0 THEN {} ELSE {Len(versions) + 1})
        BY <2>5, Provided
      <3>2. DOMAIN versions' = 1 .. Len(versions) + k BY <3>1 DEF Shaped
      <3>3. (IF k = 0 THEN {} ELSE {Len(versions) + 1}) \subseteq DOMAIN versions'
        BY <3>1, <3>2
      <3>4. {v \in Building : versions[v].wf # "none"} \subseteq DOMAIN versions'
        BY <1>1 DEF Building, WithStatus
      <3>5. CASE Return(FALSE) BY <3>5 DEF Return
      <3>6. CASE ensure' = [pc |-> "after", cancel |-> {v \in Building : versions[v].wf # "none"},
                            start |-> IF k = 0 THEN {} ELSE {Len(versions) + 1}]
        BY <3>3, <3>4, <3>6 DEF Ensuring
      <3> QED BY <3>1, <3>5, <3>6, Proceeds
    <2> QED BY <2>1, <2>2, <2>3, <2>4, <2>5, EnsureMoves
  <1>3. /\ versions' \in Seq(Version) /\ thread' \in Seq({"off", "idle", "run", "ran", "left"})
        /\ Len(thread') = Len(versions')
    BY <1>1 DEF Shaped
  <1> QED BY <1>1, <1>2, <1>3, OverlayMoves, RestMoves DEF TypeOK

-----------------------------------------------------------------------------
(* The boot, the listener and the cache. *)

\* A call of EnsureActiveVersion that is under way goes on or ends: nobody is told anything,
\* and the listener that waited for it is free again.
LEMMA CallGoesOn ==
  ASSUME TypeOK, BootShape,
         Deduplicate \/ EnsureFails \/ Provision \/ \E v \in DOMAIN versions : AfterStep(v)
  PROVE  /\ ensure.pc \in {"tx", "after"} /\ boot \in {"ensuring", "up"}
         /\ UNCHANGED <<stored, cached, wire>> /\ missed \subseteq missed'
         /\ BootShape' /\ (Informed' => Informed)
         /\ \/ ensure' = Idle /\ boot' = "up"
               /\ listener' = IF boot = "up" THEN Idle ELSE listener
            \/ ensure'.pc = "after" /\ UNCHANGED <<boot, listener>>
  <1>1. ensure.pc \in {"tx", "after"} /\ ensure # Idle
    <2>1. Deduplicate \/ EnsureFails => ensure.pc \in {"tx", "after"}
      BY DEF Deduplicate, EnsureFails
    <2>2. Provision => ensure.pc = "tx" BY DEF Provision
    <2>3. ASSUME NEW v \in DOMAIN versions, AfterStep(v) PROVE ensure.pc = "after"
      BY <2>3 DEF AfterStep, CancelSuperseded, CancelFails, StartReindex, Cancelling
    <2>4. ensure.pc \in {"tx", "after"} BY <2>1, <2>2, <2>3
    <2> QED BY <2>4 DEF Idle
  <1>2. boot \in {"ensuring", "up"} BY <1>1 DEF BootShape, TypeOK
  <1>3. boot = "up" => listener = Fire BY <1>1 DEF BootShape
  <1>4. \/ \E failed \in BOOLEAN : Return(failed)
        \/ \E cancel, start : ensure' = [pc |-> "after", cancel |-> cancel, start |-> start]
                              /\ UNCHANGED <<overlay, boot>>
    <2>1. CASE Deduplicate \/ EnsureFails BY <2>1 DEF Deduplicate, EnsureFails
    <2>2. CASE Provision
      <3>1. PICK k \in {0, 1} : Proceed({v \in Building : versions[v].wf # "none"},
                                        IF k = 0 THEN {} ELSE {Len(versions) + 1})
        BY <2>2, Provided
      <3> QED BY <3>1, Proceeds
    <2>3. ASSUME NEW v \in DOMAIN versions, AfterStep(v)
          PROVE  \/ Return(FALSE)
                 \/ \E cancel, start :
                      /\ ensure' = [pc |-> "after", cancel |-> cancel, start |-> start]
                      /\ UNCHANGED <<overlay, boot>>
      <3>1. CASE StartReindex(v) BY <3>1 DEF StartReindex
      <3>2. CASE CancelSuperseded(v) \/ CancelFails(v)
        <4>1. Proceed({}, ensure.start) BY <3>2 DEF CancelSuperseded, CancelFails, Cancelling
        <4> QED BY <4>1, Proceeds
      <3> QED BY <2>3, <3>1, <3>2 DEF AfterStep
    <2> QED BY <2>1, <2>2, <2>3
  <1>5. CASE \E failed \in BOOLEAN : Return(failed)
    <2>1. PICK failed \in BOOLEAN : Return(failed) BY <1>5
    <2>2. /\ ensure' = Idle /\ boot' = "up" /\ missed \subseteq missed'
          /\ UNCHANGED <<stored, cached, wire>>
          /\ listener' = IF boot = "up" THEN Idle ELSE listener
      BY <2>1, Returned
    <2>3. BootShape' BY <2>2 DEF BootShape
    <2>4. Informed' => Informed BY <1>3, <2>2 DEF Informed, Idle, Fire
    <2> QED BY <1>1, <1>2, <2>2, <2>3, <2>4
  <1>6. CASE \E cancel, start : ensure' = [pc |-> "after", cancel |-> cancel, start |-> start]
                                /\ UNCHANGED <<overlay, boot>>
    <2>1. ensure'.pc = "after" /\ UNCHANGED <<overlay, boot>> BY <1>6
    <2>2. BootShape' BY <1>1, <1>2, <2>1 DEF BootShape, overlay
    <2> QED BY <1>1, <1>2, <2>1, <2>2 DEF overlay, Informed
  <1> QED BY <1>4, <1>5, <1>6

\* The steps of a workflow leave the overlay, the boot and the call alone.
LEMMA WorkflowApart ==
  ASSUME NEW v \in DOMAIN versions, Reindex(v) \/ Fail(v)
  PROVE  UNCHANGED <<stored, cached, wire, missed, listener, model, boot, ensure>>
  BY DEF Reindex, Begin, Prepare, Embed, FlipLive, Checkpoint, Fail, overlay

\* The listener as the operations of the overlay leave it.
LEMMA ListenerMoves ==
  ASSUME TypeOK, OverlayStep
  PROVE  /\ listener = Gone => listener' = Gone
         /\ listener = Fire => listener' = Fire
         /\ boot' = boot /\ ensure' = ensure
  <1>1. \/ UNCHANGED listener \/ listener = Idle \/ listener.pc = "read"
    BY DEF OverlayStep, Hear, AssignHeard, Reconnect, HearFails, Disconnect, ReadEntry,
           AssignEntry, AbandonEntry, Edit, SetEntry, Stores
  <1> QED BY <1>1 DEF Idle, Gone, Fire, OverlayStep, core

\* No step leaves BootShape.
LEMMA BootStep ==
  ASSUME TypeOK, BootShape, Next
  PROVE  BootShape'
  <1> USE DEF BootShape
  <1>1. CASE OverlayStep BY <1>1, ListenerMoves
  <1>2. CASE MainStep
    <2>1. CASE BootLoad BY <2>1 DEF BootLoad, Load
    <2>2. CASE BootListen \/ BootDeaf
      BY <2>2 DEF BootListen, BootDeaf, Listen, ListenFails
    <2>3. CASE Unhooked BY <2>3 DEF Unhooked, Gone, Fire
    <2> QED BY <1>2, <2>1, <2>2, <2>3 DEF MainStep
  <1>3. CASE OnChange BY <1>3 DEF OnChange, overlay
  <1>4. CASE Launch BY <1>4 DEF Launch
  <1>5. CASE Deduplicate \/ EnsureFails \/ Provision \/ \E v \in DOMAIN versions : AfterStep(v)
    BY <1>5, CallGoesOn
  <1>6. CASE \E v \in DOMAIN versions : Reindex(v) \/ Fail(v) BY <1>6, WorkflowApart
  <1>7. CASE \E m \in Model, upgrade \in BOOLEAN : Crash(m, upgrade)
    BY <1>7 DEF Crash, LoseOverlay
  <1> QED BY <1>1, <1>2, <1>3, <1>4, <1>5, <1>6, <1>7, Steps DEF CallStep

\* A step of the overlay: what one is told of afterwards one was told of before, and what is
\* stored is the same, or it is being assigned.
LEMMA CacheOfOverlay ==
  ASSUME TypeOK, CacheShape, OverlayStep
  PROVE  CacheShape'
  <1> USE DEF CacheShape, Informed
  <1>0. boot' = boot /\ Read(stored).pc = "read" /\ Read(stored).value = stored
        /\ Fire.pc # "read" /\ wire \in Nat
    BY DEF OverlayStep, core, Read, Fire, TypeOK, OverlayTypeOK
  <1>1. CASE Hear BY <1>0, <1>1 DEF Hear
  <1>2. CASE AssignHeard BY <1>0, <1>2 DEF AssignHeard
  <1>3. CASE Reconnect BY <1>0, <1>3 DEF Reconnect
  <1>4. CASE HearFails BY <1>0, <1>4 DEF HearFails, Miss
  <1>5. CASE Disconnect BY <1>0, <1>5 DEF Disconnect, Miss
  <1>6. ASSUME NEW c \in Client, ReadEntry(c) \/ AbandonEntry(c) PROVE CacheShape'
    BY <1>0, <1>6 DEF ReadEntry, AbandonEntry
  <1>7. ASSUME NEW c \in Client, AssignEntry(c) PROVE CacheShape'
    BY <1>0, <1>7 DEF AssignEntry, Miss
  <1>8. ASSUME NEW d, Stores(d, boot # "load") PROVE CacheShape'
    BY <1>0, <1>8 DEF Stores, Miss
  <1>9. CASE \E d \in Value : Edit(d, boot # "load") BY <1>8, <1>9 DEF Edit
  <1>10. ASSUME NEW d \in Value, NEW c \in Client, boot = "up", SetEntry(c, d) PROVE CacheShape'
    <2>1. Stores(d, TRUE) BY <1>10 DEF SetEntry
    <2> QED BY <1>0, <1>10, <2>1 DEF Stores, Miss
  <1> QED BY <1>1, <1>2, <1>3, <1>4, <1>5, <1>6, <1>7, <1>9, <1>10 DEF OverlayStep

\* No step leaves CacheShape.
LEMMA CacheStep ==
  ASSUME TypeOK, BootShape, CacheShape, Next
  PROVE  CacheShape'
  <1> USE DEF CacheShape, Informed
  <1>1. CASE OverlayStep BY <1>1, CacheOfOverlay
  <1>2. CASE MainStep
    <2>1. CASE BootLoad BY <2>1 DEF BootLoad, Load, BootShape, Gone
    <2>2. CASE BootListen \/ BootDeaf
      BY <2>2 DEF BootListen, BootDeaf, Listen, ListenFails, Gone, Idle
    <2>3. CASE Unhooked BY <2>3 DEF Unhooked, Idle, Fire, Miss
    <2> QED BY <1>2, <2>1, <2>2, <2>3 DEF MainStep
  <1>3. CASE OnChange BY <1>3 DEF OnChange, overlay
  <1>4. CASE Launch BY <1>4 DEF Launch, overlay
  <1>5. CASE Deduplicate \/ EnsureFails \/ Provision \/ \E v \in DOMAIN versions : AfterStep(v)
    <2>1. /\ boot # "load" /\ UNCHANGED <<stored, cached, wire>> /\ missed \subseteq missed'
          /\ Informed' => Informed
          /\ listener' \in {listener, Idle}
      BY <1>5, CallGoesOn
    <2> QED BY <2>1 DEF Idle
  <1>6. CASE \E v \in DOMAIN versions : Reindex(v) \/ Fail(v) BY <1>6, WorkflowApart
  <1>7. CASE \E m \in Model, upgrade \in BOOLEAN : Crash(m, upgrade) BY <1>7 DEF Crash
  <1> QED BY <1>1, <1>2, <1>3, <1>4, <1>5, <1>6, <1>7, Steps DEF CallStep

-----------------------------------------------------------------------------
(* The versions and their workflows. *)

\* Nothing is written of the versions, and who is to be cancelled still is, or has been left.
LEMMA VersionsStay ==
  ASSUME TypeOK, VersionShape, UNCHANGED <<versions, thread>>, strays \subseteq strays',
         boot' \in {"ensuring", "up"} => boot \in {"ensuring", "up"},
         ensure.pc = "after" => \A v \in ensure.cancel :
            v \in strays' \/ (ensure'.pc = "after" /\ v \in ensure'.cancel)
  PROVE  VersionShape'
  BY DEF VersionShape, VersionOf

\* A step of the workflow leaves the strays as well.
LEMMA StraysApart ==
  ASSUME NEW v \in DOMAIN versions, Reindex(v) \/ Fail(v)
  PROVE  UNCHANGED strays
  BY DEF Reindex, Begin, Prepare, Embed, FlipLive, Checkpoint, Fail

\* The fields a step of a workflow may change stay in order.
LEMMA VersionOfWorkflow ==
  ASSUME TypeOK, VersionShape, NEW v \in DOMAIN versions, Reindex(v) \/ Fail(v)
  PROVE  VersionShape'
  <1>1. UNCHANGED <<boot, ensure, strays>> BY WorkflowApart, StraysApart
  <1>2. DOMAIN versions = 1 .. Len(versions) /\ Len(versions) \in Nat BY Unwritten
  <1>3. ASSUME NEW u \in DOMAIN versions
        PROVE  /\ VersionOf(u) /\ versions[u].at \in 0 .. Flip
    BY <1>3, VersionType DEF VersionShape
  <1>4. CASE Begin(v) \/ Prepare(v) \/ Embed(v)
    <2>1. versions' = versions BY <1>4, ThreadSteps
    <2>2. ASSUME NEW u \in DOMAIN versions PROVE VersionOf(u)'
      <3>1. CASE u # v
        <4>1. thread'[u] = thread[u] BY <1>4, <3>1, ThreadSteps
        <4> QED BY <1>1, <1>3, <2>1, <4>1 DEF VersionOf
      <3>2. CASE u = v /\ Begin(v)
        <4>1. thread[v] = "idle" /\ thread'[v] = IF versions[v].wf = "pending" THEN "run" ELSE "off"
          BY <3>2, ThreadSteps
        <4> QED BY <1>1, <1>3, <2>1, <3>2, <4>1 DEF VersionOf
      <3>3. CASE u = v /\ (Prepare(v) \/ Embed(v))
        <4>1. /\ thread[v] = "run" /\ thread'[v] \in {"ran", "left"}
              /\ versions[v].at <= Batches
          BY <3>3, ThreadSteps
        <4> QED BY <1>1, <1>3, <2>1, <3>3, <4>1 DEF VersionOf
      <3> QED BY <1>4, <3>1, <3>2, <3>3
    <2> QED BY <2>1, <2>2 DEF VersionShape
  <1>5. CASE FlipLive(v) /\ versions[v].status # "building"
    <2>1. versions' = versions /\ thread[v] = "run" /\ thread'[v] = "left"
      BY <1>5, StayedBack DEF index
    <2>2. ASSUME NEW u \in DOMAIN versions PROVE VersionOf(u)'
      <3>1. CASE u # v
        <4>1. thread'[u] = thread[u] BY <1>5, <3>1, StayedBack
        <4> QED BY <1>1, <1>3, <2>1, <4>1 DEF VersionOf
      <3>2. CASE u = v BY <1>1, <1>3, <2>1, <3>2 DEF VersionOf
      <3> QED BY <3>1, <3>2
    <2> QED BY <2>1, <2>2 DEF VersionShape
  <1>6. CASE FlipLive(v) /\ versions[v].status = "building"
    <2>1. /\ Shaped(Len(versions)) /\ versions[v].at = Flip
          /\ thread[v] = "run" /\ thread'[v] = "left" /\ versions'[v].status = "active"
      BY <1>6, WentLive
    <2>2. DOMAIN versions' = DOMAIN versions /\ Len(versions') = Len(versions)
      BY <1>2, <2>1 DEF Shaped
    <2>3. ASSUME NEW u \in DOMAIN versions PROVE VersionOf(u)'
      <3>1. versions'[u].wf = versions[u].wf /\ versions'[u].at = versions[u].at
        BY <1>6, WentLive
      <3>2. CASE u # v
        <4>1. thread'[u] = thread[u]
              /\ versions'[u].status = IF u \in Active THEN "retired" ELSE versions[u].status
          BY <1>6, <3>2, WentLive
        <4>2. u \in Active <=> versions[u].status = "active" BY DEF Active, WithStatus
        <4> QED BY <1>1, <1>3, <2>2, <3>1, <4>1, <4>2 DEF VersionOf
      <3>3. CASE u = v BY <1>1, <1>3, <2>1, <2>2, <3>1, <3>3 DEF VersionOf
      <3> QED BY <3>2, <3>3
    <2> QED BY <2>2, <2>3 DEF VersionShape
  <1>7. CASE Checkpoint(v) /\ thread[v] = "ran"
    <2>1. versions[v].at <= Batches BY <1>3, <1>7 DEF VersionOf
    <2>2. /\ Shaped(Len(versions)) /\ thread'[v] = "idle"
      BY <1>7, <2>1, GoesOn
    <2>3. DOMAIN versions' = DOMAIN versions /\ Len(versions') = Len(versions)
      BY <1>2, <2>2 DEF Shaped
    <2>4. ASSUME NEW u \in DOMAIN versions PROVE VersionOf(u)'
      <3>1. /\ versions'[u].wf = versions[u].wf /\ versions'[u].status = versions[u].status
            /\ u # v => thread'[u] = thread[u] /\ versions'[u].at = versions[u].at
        BY <1>7, <2>1, GoesOn
      <3>2. CASE u # v BY <1>1, <1>3, <2>3, <3>1, <3>2 DEF VersionOf
      <3>3. CASE u = v
        <4>1. versions[v].status \notin {"active", "retired"} BY <1>3, <2>1 DEF VersionOf, Flip
        <4> QED BY <1>1, <1>3, <1>7, <2>2, <2>3, <3>1, <3>3, <4>1 DEF VersionOf
      <3> QED BY <3>2, <3>3
    <2> QED BY <2>3, <2>4 DEF VersionShape
  <1>8. CASE Fail(v) \/ (Checkpoint(v) /\ thread[v] = "left")
    <2>1. /\ Shaped(Len(versions)) /\ thread'[v] = "off" /\ thread[v] \in {"run", "left"}
          /\ versions[v].wf = "pending" => versions'[v].wf \in {"done", "failed"}
          /\ versions[v].wf # "pending" => versions'[v].wf = versions[v].wf
      BY <1>8, Ended
    <2>2. DOMAIN versions' = DOMAIN versions /\ Len(versions') = Len(versions)
      BY <1>2, <2>1 DEF Shaped
    <2>3. ASSUME NEW u \in DOMAIN versions PROVE VersionOf(u)'
      <3>1. /\ versions'[u].at = versions[u].at /\ versions'[u].status = versions[u].status
            /\ u # v => thread'[u] = thread[u] /\ versions'[u].wf = versions[u].wf
        BY <1>8, Ended DEF WfOnly
      <3>2. CASE u # v BY <1>1, <1>3, <2>2, <3>1, <3>2 DEF VersionOf
      <3>3. CASE u = v BY <1>1, <1>3, <2>1, <2>2, <3>1, <3>3 DEF VersionOf
      <3> QED BY <3>2, <3>3
    <2> QED BY <2>2, <2>3 DEF VersionShape
  <1> QED BY <1>4, <1>5, <1>6, <1>7, <1>8 DEF Reindex, Checkpoint

\* The transaction: whatever was building and is worked on is to be cancelled.
LEMMA VersionOfProvision ==
  ASSUME TypeOK, BootShape, VersionShape, Provision
  PROVE  VersionShape'
  <1> SUFFICES ASSUME NEW n, n = Len(versions) PROVE VersionShape'
    OBVIOUS
  <1>1. PICK k \in {0, 1} :
           /\ Shaped(n + k) /\ n \in Nat /\ DOMAIN versions = 1 .. n
           /\ \A u \in DOMAIN versions :
                /\ Same(u) /\ versions'[u].wf = versions[u].wf
                /\ versions'[u].at = versions[u].at /\ thread'[u] = thread[u]
                /\ versions'[u].status = IF u \in Building THEN "superseded"
                                                           ELSE versions[u].status
           /\ k = 1 => versions'[n + 1] = Row /\ thread'[n + 1] = "off"
           /\ Proceed({v \in Building : versions[v].wf # "none"}, IF k = 0 THEN {} ELSE {n + 1})
    BY Provided
  <1>2. ensure.pc = "tx" /\ strays' = strays BY DEF Provision
  <1>3. boot \in {"ensuring", "up"} BY CallGoesOn
  <1>4. DOMAIN versions' = 1 .. n + k /\ Len(versions') = n + k BY <1>1 DEF Shaped
  <1>5. \A v \in Building : versions[v].wf # "none" => ensure'.pc = "after" /\ v \in ensure'.cancel
    <2>1. CASE {v \in Building : versions[v].wf # "none"} = {} BY <2>1
    <2>2. CASE ensure' = [pc |-> "after", cancel |-> {v \in Building : versions[v].wf # "none"},
                          start |-> IF k = 0 THEN {} ELSE {n + 1}]
      BY <2>2
    <2>3. Proceed({v \in Building : versions[v].wf # "none"}, IF k = 0 THEN {} ELSE {n + 1})
      BY <1>1
    <2> QED BY <2>1, <2>2, <2>3, Proceeds, Zenon
  <1>6. ASSUME NEW u \in DOMAIN versions PROVE VersionOf(u)'
    <2>1. /\ versions'[u].wf = versions[u].wf
          /\ versions'[u].at = versions[u].at /\ thread'[u] = thread[u]
          /\ versions'[u].status = IF u \in Building THEN "superseded" ELSE versions[u].status
      BY <1>1
    <2>2. u \in Building <=> versions[u].status = "building" BY DEF Building, WithStatus
    <2>3. VersionOf(u) BY DEF VersionShape
    <2>4. CASE u \in Building BY <1>2, <1>3, <1>5, <2>1, <2>2, <2>3, <2>4 DEF VersionOf
    <2>5. CASE u \notin Building BY <1>2, <1>3, <2>1, <2>2, <2>3, <2>5 DEF VersionOf
    <2> QED BY <2>4, <2>5
  <1>7. ASSUME k = 1, NEW u, u = n + 1 PROVE VersionOf(u)'
    <2>1. /\ versions'[u].status = "building" /\ versions'[u].wf = "none" /\ thread'[u] = "off"
          /\ Len(versions') = u
      BY <1>1, <1>4, <1>7 DEF Row
    <2> QED BY <2>1 DEF VersionOf
  <1>8. \A u \in DOMAIN versions' : u \in DOMAIN versions \/ (k = 1 /\ u = n + 1)
    BY <1>1, <1>4
  <1> QED BY <1>6, <1>7, <1>8 DEF VersionShape

\* The cancellation and the start.
LEMMA VersionOfAfter ==
  ASSUME TypeOK, BootShape, VersionShape, SlotShape, NEW v \in DOMAIN versions, AfterStep(v)
  PROVE  VersionShape'
  <1>0. DOMAIN versions = 1 .. Len(versions) /\ Len(versions) \in Nat BY Unwritten
  <1>1. boot \in {"ensuring", "up"} BY CallGoesOn
  <1>2. CASE CancelFails(v)
    <2>1. /\ UNCHANGED <<versions, thread>> /\ strays' = strays \cup {v} /\ ensure.pc = "after"
          /\ v \in ensure.cancel
      BY <1>2 DEF CancelFails, Cancelling, index
    <2>2. \A u \in ensure.cancel : u = v BY <2>1 DEF SlotShape
    <2> QED BY <1>1, <2>1, <2>2, VersionsStay
  <1>3. CASE CancelSuperseded(v)
    <2>1. /\ ensure.pc = "after" /\ v \in ensure.cancel /\ strays' = strays
      BY <1>3 DEF CancelSuperseded, Cancelling
    <2>2. \A u \in ensure.cancel : u = v BY <2>1 DEF SlotShape
    <2>3. /\ Shaped(Len(versions)) /\ thread' = thread
          /\ \A u \in DOMAIN versions :
               WfOnly(u) /\ (u # v => versions'[u].wf = versions[u].wf)
          /\ versions[v].wf \in {"pending", "orphan"} => versions'[v].wf = "cancelled"
          /\ versions[v].wf \notin {"pending", "orphan"} => versions'[v].wf = versions[v].wf
      BY <1>3, Cancelled
    <2>4. DOMAIN versions' = DOMAIN versions /\ Len(versions') = Len(versions)
      BY <1>0, <2>3 DEF Shaped
    <2>5. ASSUME NEW u \in DOMAIN versions PROVE VersionOf(u)'
      <3>1. versions'[u].status = versions[u].status /\ versions'[u].at = versions[u].at
        BY <2>3 DEF WfOnly
      <3>2. VersionOf(u) BY DEF VersionShape
      <3>3. CASE u # v BY <1>1, <2>1, <2>2, <2>3, <2>4, <3>1, <3>2, <3>3 DEF VersionOf
      <3>4. CASE u = v BY <1>1, <2>1, <2>3, <2>4, <3>1, <3>2, <3>4 DEF VersionOf
      <3> QED BY <3>3, <3>4
    <2> QED BY <2>4, <2>5 DEF VersionShape
  <1>4. CASE StartReindex(v)
    <2>1. /\ ensure.pc = "after" /\ ensure.cancel = {} /\ strays' = strays /\ v \in ensure.start
      BY <1>4 DEF StartReindex
    <2>2. versions[v].status = "building" BY <2>1 DEF SlotShape, Building, WithStatus
    <2>3. /\ Shaped(Len(versions))
          /\ \A u \in DOMAIN versions :
               /\ WfOnly(u)
               /\ u # v => thread'[u] = thread[u] /\ versions'[u].wf = versions[u].wf
          /\ thread'[v] = "idle" /\ versions'[v].wf = "pending"
      BY <1>4, Started
    <2>4. DOMAIN versions' = DOMAIN versions /\ Len(versions') = Len(versions)
      BY <1>0, <2>3 DEF Shaped
    <2>5. ASSUME NEW u \in DOMAIN versions PROVE VersionOf(u)'
      <3>1. versions'[u].status = versions[u].status /\ versions'[u].at = versions[u].at
        BY <2>3 DEF WfOnly
      <3>2. VersionOf(u) BY DEF VersionShape
      <3>3. CASE u # v BY <1>1, <2>1, <2>3, <2>4, <3>1, <3>2, <3>3 DEF VersionOf
      <3>4. CASE u = v BY <2>1, <2>2, <2>3, <2>4, <3>1, <3>2, <3>4 DEF VersionOf
      <3> QED BY <3>3, <3>4
    <2> QED BY <2>4, <2>5 DEF VersionShape
  <1> QED BY <1>2, <1>3, <1>4 DEF AfterStep

\* No step leaves VersionShape.
LEMMA VersionStep ==
  ASSUME TypeOK, BootShape, VersionShape, SlotShape, Next
  PROVE  VersionShape'
  <1>1. CASE OverlayStep BY <1>1, VersionsStay DEF OverlayStep, core, index
  <1>2. CASE MainStep
    <2>1. UNCHANGED <<versions, thread, strays, ensure>>
      BY <1>2 DEF MainStep, BootLoad, BootListen, BootDeaf, Unhooked, index
    <2>2. boot' \in {"ensuring", "up"} => boot \in {"ensuring", "up"}
      BY <1>2 DEF MainStep, BootLoad, BootListen, BootDeaf, Unhooked
    <2> QED BY <2>1, <2>2, VersionsStay
  <1>3. CASE CallStep
    <2>1. UNCHANGED <<versions, thread, strays>> BY <1>3, StillSteps DEF Still, index
    <2>2. boot \in {"ensuring", "up"} BY <1>3, CallGoesOn DEF CallStep, OnChange
    <2>3. ensure.pc = "after" => ensure.cancel = {}
      <3>1. CASE OnChange BY <3>1 DEF OnChange, Idle
      <3>2. CASE Deduplicate BY <3>2 DEF Deduplicate
      <3>3. CASE EnsureFails BY <3>3 DEF EnsureFails
      <3> QED BY <1>3, <3>1, <3>2, <3>3 DEF CallStep
    <2>4. ensure.pc = "after" => \A v \in ensure.cancel :
             v \in strays' \/ (ensure'.pc = "after" /\ v \in ensure'.cancel)
      BY <2>3
    <2>5. strays \subseteq strays' /\ UNCHANGED <<versions, thread>> BY <2>1
    <2> QED BY <2>2, <2>4, <2>5, VersionsStay
  <1>4. CASE Launch
    <2>1. /\ versions' = versions /\ strays' = strays /\ ensure = Idle
          /\ \A u \in DOMAIN versions :
               thread'[u] = IF versions[u].wf = "pending" THEN "idle" ELSE "off"
      BY <1>4, Launched DEF Launch, BootShape
    <2>2. ASSUME NEW u \in DOMAIN versions PROVE VersionOf(u)'
      <3>1. VersionOf(u) BY DEF VersionShape
      <3>2. thread'[u] = IF versions[u].wf = "pending" THEN "idle" ELSE "off" BY <2>1
      <3>3. ensure.pc # "after" BY <2>1 DEF Idle
      <3> QED BY <2>1, <3>1, <3>2, <3>3 DEF VersionOf
    <2> QED BY <2>1, <2>2 DEF VersionShape
  <1>5. CASE Provision BY <1>5, VersionOfProvision
  <1>6. CASE \E v \in DOMAIN versions : AfterStep(v) BY <1>6, VersionOfAfter
  <1>7. CASE \E v \in DOMAIN versions : Reindex(v) \/ Fail(v) BY <1>7, VersionOfWorkflow
  <1>8. ASSUME NEW m \in Model, NEW upgrade \in BOOLEAN, Crash(m, upgrade) PROVE VersionShape'
    <2>1. /\ Shaped(Len(versions)) /\ boot' = "load"
          /\ strays \subseteq strays' /\ (ensure.pc = "after" => ensure.cancel \subseteq strays')
      BY <1>8, Crashed DEF Crash
    <2>2. DOMAIN versions' = DOMAIN versions /\ Len(versions') = Len(versions)
      BY <2>1, Unwritten DEF Shaped
    <2>3. ASSUME NEW u \in DOMAIN versions PROVE VersionOf(u)'
      <3>1. /\ WfOnly(u) /\ thread'[u] = "off"
            /\ versions'[u].wf \in {versions[u].wf, "orphan"}
            /\ versions'[u].wf = "orphan" => versions[u].wf \in {"pending", "orphan"}
        BY <1>8, Crashed
      <3>2. VersionOf(u) BY DEF VersionShape
      <3> QED BY <2>1, <2>2, <3>1, <3>2 DEF VersionOf, WfOnly
    <2> QED BY <2>2, <2>3 DEF VersionShape
  <1> QED BY <1>1, <1>2, <1>3, <1>4, <1>5, <1>6, <1>7, <1>8, Steps

-----------------------------------------------------------------------------
(* What builds and what serves. *)

\* Both are the same sets, of the same configurations and slots.
LEMMA KeptSets ==
  ASSUME TypeOK, Kept
  PROVE  /\ Active' = Active /\ Building' = Building
         /\ \A u \in DOMAIN versions : versions'[u].config = versions[u].config
                                       /\ versions'[u].slot = versions[u].slot
         /\ \A c : Has(Building, c)' <=> Has(Building, c)
         /\ \A c : Has(Active, c)' <=> Has(Active, c)
  <1>1. DOMAIN versions = 1 .. Len(versions) BY Unwritten
  <1>2. DOMAIN versions' = DOMAIN versions
        /\ \A u \in DOMAIN versions : versions'[u].status = versions[u].status
                                      /\ versions'[u].config = versions[u].config
                                      /\ versions'[u].slot = versions[u].slot
    BY <1>1 DEF Kept, Shaped, Same
  <1>3. Active' = Active /\ Building' = Building BY <1>2 DEF Active, Building, WithStatus
  <1> QED BY <1>2, <1>3 DEF Has, Active, Building, WithStatus

\* Only the last may be building.
LEMMA OneBuilds ==
  ASSUME VersionShape, NEW v \in Building
  PROVE  v = Len(versions) /\ v \in DOMAIN versions /\ versions[v].status = "building"
  BY DEF VersionShape, VersionOf, Building, WithStatus

\* After the flip the new version serves, alone, and nothing is built.
LEMMA LiveSets ==
  ASSUME TypeOK, VersionShape, NEW v \in DOMAIN versions, FlipLive(v),
         versions[v].status = "building"
  PROVE  /\ v \in Building /\ Active' = {v} /\ Building' = {} /\ DOMAIN versions' = DOMAIN versions
         /\ \A u \in DOMAIN versions : versions'[u].config = versions[u].config
                                       /\ versions'[u].slot = versions[u].slot
  <1>1. v \in Building BY DEF Building, WithStatus
  <1>2. DOMAIN versions' = DOMAIN versions /\ versions'[v].status = "active"
    BY WentLive, Unwritten DEF Shaped
  <1>3. ASSUME NEW u \in DOMAIN versions
        PROVE  /\ versions'[u].config = versions[u].config /\ versions'[u].slot = versions[u].slot
               /\ u # v => versions'[u].status \notin {"active", "building"}
    <2>1. Same(u) BY WentLive
    <2>2. CASE u # v
      <3>1. versions'[u].status = IF u \in Active THEN "retired" ELSE versions[u].status
        BY <2>2, WentLive
      <3>2. u \notin Building BY <1>1, <2>2, OneBuilds
      <3>3. u \in Active \/ versions[u].status \notin {"active", "building"}
        BY <3>2 DEF Active, Building, WithStatus
      <3> QED BY <2>1, <3>1, <3>3 DEF Same
    <2> QED BY <2>1, <2>2 DEF Same
  <1>4. Active' = {v}
    <2>1. \A u \in DOMAIN versions : versions'[u].status = "active" <=> u = v BY <1>2, <1>3
    <2>2. Active' = {u \in DOMAIN versions : versions'[u].status = "active"}
      BY <1>2 DEF Active, WithStatus
    <2> QED BY <2>1, <2>2
  <1>5. Building' = {}
    <2>1. \A u \in DOMAIN versions : versions'[u].status # "building" BY <1>2, <1>3
    <2>2. Building' = {u \in DOMAIN versions : versions'[u].status = "building"}
      BY <1>2 DEF Building, WithStatus
    <2> QED BY <2>1, <2>2
  <1> QED BY <1>1, <1>2, <1>3, <1>4, <1>5

\* After the transaction what serves does still, and what is built is the new version, if
\* there is one.
LEMMA ProvidedSets ==
  ASSUME TypeOK, VersionShape, NEW n, n = Len(versions), Provision
  PROVE  \E k \in {0, 1} :
           /\ n \in Nat /\ DOMAIN versions = 1 .. n /\ DOMAIN versions' = 1 .. n + k
           /\ k = 0 <=> Has(Active, Wanted)
           /\ Active' = Active /\ Building' = (IF k = 0 THEN {} ELSE {n + 1})
           /\ \A u \in DOMAIN versions :
                /\ versions'[u].config = versions[u].config
                /\ versions'[u].slot = versions[u].slot
                /\ versions'[u].at = versions[u].at
                /\ thread'[u] = thread[u]
           /\ k = 1 => versions'[n + 1] = Row /\ thread'[n + 1] = "off"
           /\ Proceed({v \in Building : versions[v].wf # "none"}, IF k = 0 THEN {} ELSE {n + 1})
  <1>1. PICK k \in {0, 1} :
           /\ Shaped(n + k) /\ n \in Nat /\ DOMAIN versions = 1 .. n
           /\ k = 0 <=> Has(Active, Wanted)
           /\ \A u \in DOMAIN versions :
                /\ Same(u) /\ versions'[u].wf = versions[u].wf
                /\ versions'[u].at = versions[u].at /\ thread'[u] = thread[u]
                /\ versions'[u].status = IF u \in Building THEN "superseded"
                                                           ELSE versions[u].status
           /\ k = 1 => versions'[n + 1] = Row /\ thread'[n + 1] = "off"
           /\ Proceed({v \in Building : versions[v].wf # "none"}, IF k = 0 THEN {} ELSE {n + 1})
    BY Provided
  <1>2. DOMAIN versions' = 1 .. n + k BY <1>1 DEF Shaped
  <1>3. k = 1 => versions'[n + 1].status = "building" BY <1>1 DEF Row
  <1>4. \A u \in DOMAIN versions' : u \in DOMAIN versions \/ (k = 1 /\ u = n + 1) BY <1>1, <1>2
  <1>5. \A u \in DOMAIN versions : u \in DOMAIN versions' /\ u # n + 1 BY <1>1, <1>2
  <1>6. ASSUME NEW u \in DOMAIN versions
        PROVE  /\ versions'[u].status = "active" <=> versions[u].status = "active"
               /\ versions'[u].status # "building"
    BY <1>1 DEF Building, WithStatus
  <1>7. Active' = Active
    <2>1. \A u \in DOMAIN versions' : versions'[u].status = "active" <=> u \in Active
      BY <1>3, <1>4, <1>5, <1>6 DEF Active, WithStatus
    <2>2. Active' = {u \in DOMAIN versions' : versions'[u].status = "active"}
      BY DEF Active, WithStatus
    <2>3. Active \subseteq DOMAIN versions' BY <1>5 DEF Active, WithStatus
    <2> QED BY <2>1, <2>2, <2>3
  <1>8. Building' = IF k = 0 THEN {} ELSE {n + 1}
    <2>1. \A u \in DOMAIN versions' : versions'[u].status = "building" <=> (k = 1 /\ u = n + 1)
      BY <1>3, <1>4, <1>5, <1>6
    <2>2. Building' = {u \in DOMAIN versions' : versions'[u].status = "building"}
      BY DEF Building, WithStatus
    <2>3. k = 1 => n + 1 \in DOMAIN versions' BY <1>1, <1>2
    <2> QED BY <2>1, <2>2, <2>3
  <1>9. ASSUME NEW u \in DOMAIN versions
        PROVE  /\ versions'[u].config = versions[u].config /\ versions'[u].slot = versions[u].slot
               /\ versions'[u].at = versions[u].at /\ thread'[u] = thread[u]
    BY <1>1 DEF Same
  <1> QED BY <1>1, <1>2, <1>7, <1>8, <1>9

-----------------------------------------------------------------------------
(* The slots. *)

\* A workflow that has not been started is only started by EnsureActiveVersion.
LEMMA NoneStays ==
  ASSUME TypeOK, VersionShape, Next, NEW u \in DOMAIN versions, versions[u].wf = "none",
         ~StartReindex(u), ~Provision
  PROVE  versions'[u].wf = "none"
  <1>1. CASE UNCHANGED versions BY <1>1
  <1>2. CASE Still BY <1>1, <1>2 DEF Still, index
  <1>3. CASE Launch BY <1>1, <1>3, Launched
  <1>4. ASSUME NEW v \in DOMAIN versions, AfterStep(v) PROVE versions'[u].wf = "none"
    <2>1. CASE CancelSuperseded(v)
      <3>1. CASE u = v BY <2>1, <3>1, Cancelled
      <3>2. CASE u # v BY <2>1, <3>2, Cancelled
      <3> QED BY <3>1, <3>2
    <2>2. CASE CancelFails(v) BY <1>1, <2>2 DEF CancelFails, index
    <2>3. CASE StartReindex(v)
      <3>1. u # v BY <2>3
      <3> QED BY <2>3, <3>1, Started
    <2> QED BY <1>4, <2>1, <2>2, <2>3 DEF AfterStep
  <1>5. ASSUME NEW v \in DOMAIN versions, Reindex(v) \/ Fail(v) PROVE versions'[u].wf = "none"
    <2>1. CASE Begin(v) \/ Prepare(v) \/ Embed(v) BY <1>1, <2>1, ThreadSteps
    <2>2. CASE FlipLive(v)
      <3>1. CASE versions[v].status = "building" BY <2>2, <3>1, WentLive
      <3>2. CASE versions[v].status # "building" BY <1>1, <2>2, <3>2, StayedBack DEF index
      <3> QED BY <3>1, <3>2
    <2>3. CASE Checkpoint(v) /\ thread[v] = "ran"
      <3>1. versions[v].at <= Batches BY <2>3 DEF VersionShape, VersionOf
      <3> QED BY <2>3, <3>1, GoesOn
    <2>4. CASE Fail(v) \/ (Checkpoint(v) /\ thread[v] = "left")
      <3>1. CASE u = v BY <2>4, <3>1, Ended
      <3>2. CASE u # v BY <2>4, <3>2, Ended
      <3> QED BY <3>1, <3>2
    <2> QED BY <1>5, <2>1, <2>2, <2>3, <2>4 DEF Reindex, Checkpoint
  <1>6. ASSUME NEW m \in Model, NEW upgrade \in BOOLEAN, Crash(m, upgrade)
        PROVE  versions'[u].wf = "none"
    BY <1>6, Crashed
  <1> QED BY <1>2, <1>3, <1>4, <1>5, <1>6, Steps, StillSteps

\* No step leaves SlotShape.
LEMMA SlotStep ==
  ASSUME TypeOK, VersionShape, SlotShape, Next
  PROVE  SlotShape'
  <1>1. CASE Kept /\ ~Provision
    <2>1. Active' = Active /\ Building' = Building
          /\ \A u \in DOMAIN versions : versions'[u].slot = versions[u].slot
      BY <1>1, KeptSets
    <2>2. Active \subseteq DOMAIN versions /\ Building \subseteq DOMAIN versions
      BY DEF Active, Building, WithStatus
    <2>3. (\A v, w \in Active : v = w)' BY <2>1 DEF SlotShape
    <2>4. (\A v \in Building, w \in Active : versions[v].slot # versions[w].slot)'
      BY <2>1, <2>2 DEF SlotShape
    <2>5. ASSUME ensure'.pc = "after"
          PROVE  /\ ensure.pc = "after" /\ ensure'.start = ensure.start
                 /\ ensure'.cancel \subseteq ensure.cancel
      BY <1>1, <2>5, EnsureMoves DEF Idle
    <2>6. ASSUME ensure'.pc = "after", NEW u \in ensure.start
          PROVE  u \in Building /\ versions'[u].wf = "none"
      <3>1. u \in Building /\ versions[u].wf = "none" BY <2>5, <2>6 DEF SlotShape
      <3>2. ensure' # Idle BY <2>6 DEF Idle
      <3>3. ~StartReindex(u) BY <3>2 DEF StartReindex, Return
      <3> QED BY <1>1, <2>2, <3>1, <3>3, NoneStays
    <2> QED BY <2>1, <2>3, <2>4, <2>5, <2>6 DEF SlotShape
  <1>2. CASE Provision
    <2> SUFFICES ASSUME NEW n, n = Len(versions) PROVE SlotShape'
      OBVIOUS
    <2>1. PICK k \in {0, 1} :
           /\ n \in Nat /\ DOMAIN versions = 1 .. n
           /\ Active' = Active /\ Building' = (IF k = 0 THEN {} ELSE {n + 1})
           /\ \A u \in DOMAIN versions : versions'[u].slot = versions[u].slot
           /\ k = 1 => versions'[n + 1] = Row
           /\ Proceed({v \in Building : versions[v].wf # "none"}, IF k = 0 THEN {} ELSE {n + 1})
      BY <1>2, ProvidedSets
    <2>2. \A w \in Active : IdleSlot # versions[w].slot
      BY DEF IdleSlot, SlotShape
    <2>3. Active \subseteq DOMAIN versions BY DEF Active, WithStatus
    <2>4. (\A v \in Building, w \in Active : versions[v].slot # versions[w].slot)'
      <3>1. k = 1 => versions'[n + 1].slot = IdleSlot BY <2>1 DEF Row
      <3> QED BY <2>1, <2>2, <2>3, <3>1
    <2>5. (\A v, w \in Active : v = w)' BY <2>1 DEF SlotShape
    <2>6. ASSUME ensure'.pc = "after"
          PROVE  /\ ensure'.start = Building'
                 /\ ensure'.cancel \subseteq Building
      <3>1. Proceed({v \in Building : versions[v].wf # "none"}, IF k = 0 THEN {} ELSE {n + 1})
        BY <2>1
      <3>2. ensure' # Idle BY <2>6 DEF Idle
      <3>3. ensure' = [pc |-> "after", cancel |-> {v \in Building : versions[v].wf # "none"},
                       start |-> IF k = 0 THEN {} ELSE {n + 1}]
        <4>1. ~Return(FALSE) BY <3>2 DEF Return
        <4> QED BY <3>1, <4>1, Proceeds, Zenon
      <3>4. ensure'.start = (IF k = 0 THEN {} ELSE {n + 1}) BY <3>3
      <3>5. ensure'.cancel = {v \in Building : versions[v].wf # "none"} BY <3>3
      <3> QED BY <2>1, <3>4, <3>5
    <2>7. \A u \in Building' : versions'[u].wf = "none" BY <2>1 DEF Row
    <2>8. \A v, w \in Building : v = w BY OneBuilds
    <2> QED BY <2>4, <2>5, <2>6, <2>7, <2>8 DEF SlotShape
  <1>3. ASSUME NEW v \in DOMAIN versions, FlipLive(v), versions[v].status = "building"
        PROVE  SlotShape'
    <2>1. v \in Building /\ Active' = {v} /\ Building' = {} BY <1>3, LiveSets
    <2>2. ensure' = ensure /\ thread[v] = "run" BY <1>3 DEF FlipLive
    <2>3. ensure.pc = "after" => ensure.start = {}
      <3>1. ASSUME ensure.pc = "after", NEW u \in ensure.start PROVE FALSE
        <4>1. u \in Building /\ versions[u].wf = "none" BY <3>1 DEF SlotShape
        <4>2. u = v BY <2>1, <4>1, OneBuilds
        <4> QED BY <2>2, <4>1, <4>2 DEF VersionShape, VersionOf
      <3> QED BY <3>1
    <2> QED BY <2>1, <2>2, <2>3 DEF SlotShape
  <1> QED BY <1>1, <1>2, <1>3, KeptSteps

-----------------------------------------------------------------------------
(* A change that was heard of leads to a build. *)

\* What is aimed at depends on the sets, the model and what is stored only.
LEMMA AimsKept ==
  ASSUME TypeOK, Kept, UNCHANGED <<model, stored>>
  PROVE  Aims' <=> Aims
  <1> SUFFICES ASSUME NEW c, c = [model |-> model, dimension |-> stored]
               PROVE  Aims' <=> Aims
    OBVIOUS
  <1>1. Has(Building, c)' <=> Has(Building, c) BY KeptSets
  <1>2. Has(Active, c)' <=> Has(Active, c) BY KeptSets
  <1>3. Building' = Building BY KeptSets
  <1>4. c' = c /\ c = [model |-> model', dimension |-> stored'] BY DEF Aims
  <1> QED BY <1>1, <1>2, <1>3, <1>4 DEF Aims, Has

\* A step of the overlay: a write is told of, or missed.
LEMMA AimOfOverlay ==
  ASSUME TypeOK, BootShape, AimShape, OverlayStep
  PROVE  AimShape'
  <1>1. Still /\ boot' = boot /\ ensure' = ensure
    BY StillSteps DEF OverlayStep, core
  <1>2. UNCHANGED <<versions, model>> BY <1>1 DEF Still, index
  <1>3. Kept
    <2>1. versions' = versions /\ thread' = thread BY <1>1 DEF Still, index
    <2> QED BY <2>1, Unwritten DEF Kept, Shaped, WfOnly
  <1>4. Read(stored).pc = "read" /\ Fire.pc = "fire" /\ Idle.pc = "idle" /\ wire \in Nat
    BY DEF Read, Fire, Idle, TypeOK, OverlayTypeOK
  <1>5. CASE /\ stored' = stored /\ (Informed' => Informed)
             /\ listener' = listener
    BY <1>1, <1>2, <1>3, <1>5, AimsKept DEF AimShape, Hooked
  <1>6. CASE ~Informed' BY <1>6 DEF AimShape
  <1>7. CASE boot = "load" /\ ensure = Idle BY <1>1, <1>4, <1>7 DEF AimShape
  <1>8. CASE Hear BY <1>4, <1>6, <1>8 DEF Hear, Informed
  <1>9. CASE AssignHeard
    <2>1. listener # Fire /\ listener' = Fire BY <1>4, <1>9 DEF AssignHeard
    <2>2. boot = "up" => ensure = Idle BY <2>1 DEF BootShape
    <2> QED BY <1>1, <1>4, <2>1, <2>2 DEF AimShape, Hooked
  <1>10. CASE Reconnect BY <1>5, <1>10 DEF Reconnect, Informed
  <1>11. CASE HearFails BY <1>6, <1>11 DEF HearFails, Informed, Miss
  <1>12. CASE Disconnect
    <2>1. /\ stored' = stored /\ listener' = listener
          /\ missed' = missed \cup (IF wire > 0 THEN {"unheard"} ELSE {})
      BY <1>12 DEF Disconnect, Miss
    <2>2. missed' = {} => missed = {} /\ wire = 0 BY <1>4, <2>1
    <2> QED BY <1>5, <2>1, <2>2 DEF Informed
  <1>13. ASSUME NEW c \in Client, ReadEntry(c) \/ AbandonEntry(c) PROVE AimShape'
    BY <1>5, <1>13 DEF ReadEntry, AbandonEntry, Informed
  <1>14. ASSUME NEW c \in Client, AssignEntry(c) PROVE AimShape'
    BY <1>5, <1>14 DEF AssignEntry, Informed, Miss
  <1>15. ASSUME NEW d, Stores(d, boot # "load") PROVE AimShape'
    <2>1. CASE boot = "load" BY <1>7, <2>1 DEF BootShape
    <2>2. CASE boot # "load" /\ ~listening
      BY <1>6, <1>15, <2>2 DEF Stores, Miss, Informed
    <2>3. CASE listening
      <3>1. wire' = wire + 1 BY <1>15, <2>3 DEF Stores
      <3> QED BY <1>4, <1>6, <3>1 DEF Informed
    <2> QED BY <2>1, <2>2, <2>3
  <1>16. CASE \E d \in Value : Edit(d, boot # "load") BY <1>15, <1>16 DEF Edit
  <1>17. ASSUME NEW d \in Value, NEW c \in Client, boot = "up", SetEntry(c, d) PROVE AimShape'
    <2>1. Stores(d, boot # "load") BY <1>17 DEF SetEntry, Stores, Miss
    <2> QED BY <1>15, <2>1
  <1> QED BY <1>8, <1>9, <1>10, <1>11, <1>12, <1>13, <1>14, <1>16, <1>17 DEF OverlayStep

\* The transaction sees to it that what it was told is built or serves.
LEMMA AimOfTransaction ==
  ASSUME TypeOK, VersionShape, UNCHANGED stored, ensure.dimension = stored,
         (Deduplicate /\ Kept) \/ Provision
  PROVE  Aims'
  <1> SUFFICES ASSUME NEW c, c = [model |-> model, dimension |-> stored] PROVE Aims'
    OBVIOUS
  <1>1. model' = model BY DEF Deduplicate, Provision
  <1>2. c = [model |-> model', dimension |-> stored'] /\ Wanted = c BY <1>1 DEF Wanted
  <1>3. CASE Deduplicate /\ Kept
    <2>1. Has(Building, c)' BY <1>2, <1>3, KeptSets DEF Deduplicate
    <2> QED BY <1>2, <2>1 DEF Aims, Has
  <1>4. CASE Provision
    <2> SUFFICES ASSUME NEW n, n = Len(versions) PROVE Aims'
      OBVIOUS
    <2>1. PICK k \in {0, 1} :
           /\ n \in Nat /\ DOMAIN versions = 1 .. n
           /\ k = 0 <=> Has(Active, Wanted)
           /\ Active' = Active /\ Building' = (IF k = 0 THEN {} ELSE {n + 1})
           /\ \A u \in DOMAIN versions : versions'[u].config = versions[u].config
           /\ k = 1 => versions'[n + 1] = Row
      BY <1>4, ProvidedSets
    <2>2. CASE k = 0
      <3>1. PICK u \in Active : versions[u].config = c BY <1>2, <2>1, <2>2 DEF Has
      <3>2. u \in Active' /\ versions'[u].config = c BY <2>1, <3>1 DEF Active, WithStatus
      <3>3. Building' = {} BY <2>1, <2>2
      <3> QED BY <1>2, <3>2, <3>3 DEF Aims, Has
    <2>3. CASE k = 1
      <3>1. n + 1 \in Building' /\ versions'[n + 1].config = c BY <1>2, <2>1, <2>3 DEF Row
      <3> QED BY <1>2, <3>1 DEF Aims, Has
    <2> QED BY <2>1, <2>2, <2>3
  <1> QED BY <1>3, <1>4

\* No step leaves AimShape.
LEMMA AimStep ==
  ASSUME TypeOK, BootShape, CacheShape, VersionShape, AimShape, Next
  PROVE  AimShape'
  <1>0. Fire.pc = "fire" /\ Idle.pc = "idle" BY DEF Fire, Idle
  <1>1. CASE OverlayStep BY <1>1, AimOfOverlay
  <1>2. CASE MainStep
    <2>1. CASE BootLoad \/ BootListen \/ BootDeaf
      <3>1. ensure' = Idle /\ boot' # "up"
        BY <2>1 DEF BootLoad, BootListen, BootDeaf, BootShape
      <3> QED BY <1>0, <3>1 DEF AimShape
    <2>2. CASE Unhooked
      <3>1. boot # "up" /\ boot' = boot /\ ensure' = ensure
            /\ missed' = missed \cup (IF boot = "ensuring" THEN {"unhooked"} ELSE {})
        BY <2>2 DEF Unhooked, Miss
      <3>2. CASE boot = "ensuring" BY <3>1, <3>2 DEF AimShape, Informed
      <3>3. CASE boot # "ensuring"
        <4>1. ensure' = Idle BY <3>1, <3>3 DEF BootShape, TypeOK
        <4> QED BY <1>0, <3>1, <4>1 DEF AimShape
      <3> QED BY <3>2, <3>3
    <2> QED BY <1>2, <2>1, <2>2 DEF MainStep
  <1>3. CASE OnChange \/ Launch
    <2>1. /\ ensure' = [pc |-> "tx", dimension |-> cached] /\ boot # "load"
          /\ UNCHANGED <<stored, wire, missed, listener>>
      BY <1>3 DEF OnChange, Launch, overlay
    <2>2. Informed' => cached = stored BY <2>1 DEF CacheShape, Informed
    <2> QED BY <1>0, <2>1, <2>2 DEF AimShape
  <1>4. CASE EnsureFails
    <2>1. "failed" \in missed' BY <1>4, Returned DEF EnsureFails
    <2> QED BY <2>1 DEF AimShape, Informed
  <1>5. CASE Deduplicate \/ Provision \/ \E v \in DOMAIN versions : AfterStep(v)
    <2>1. /\ ensure.pc \in {"tx", "after"} /\ boot \in {"ensuring", "up"}
          /\ UNCHANGED stored /\ (Informed' => Informed)
          /\ \/ /\ ensure' = Idle /\ boot' = "up"
                /\ listener' = IF boot = "up" THEN Idle ELSE listener
             \/ ensure'.pc = "after" /\ UNCHANGED <<boot, listener>>
      BY <1>5, CallGoesOn
    <2>2. \/ ensure'.pc = "after" /\ Hooked' /\ Informed'
          \/ boot' = "up" /\ ensure' = Idle /\ listener' # Fire /\ Informed'
          => Informed /\ Hooked
      BY <1>0, <2>1 DEF Hooked
    <2>3. ensure'.pc # "tx" BY <1>0, <2>1
    <2>4. Informed /\ Hooked => Aims'
      <3>1. ASSUME Informed, Hooked, Deduplicate \/ Provision PROVE Aims'
        <4>1. ensure.pc = "tx" BY <3>1 DEF Deduplicate, Provision
        <4>2. ensure.dimension = stored BY <3>1, <4>1 DEF AimShape
        <4>3. Deduplicate => Kept
          <5>1. ASSUME Deduplicate PROVE Kept
            <6>1. versions' = versions /\ thread' = thread BY <5>1 DEF Deduplicate, index
            <6> QED BY <6>1, Unwritten DEF Kept, Shaped, WfOnly
          <5> QED BY <5>1
        <4> QED BY <2>1, <3>1, <4>2, <4>3, AimOfTransaction
      <3>2. ASSUME Informed, Hooked, NEW v \in DOMAIN versions, AfterStep(v) PROVE Aims'
        <4>1. ensure.pc = "after" /\ model' = model
          BY <3>2 DEF AfterStep, CancelSuperseded, CancelFails, StartReindex, Cancelling
        <4>2. Aims BY <3>2, <4>1 DEF AimShape
        <4>3. Kept
          <5>1. CASE CancelSuperseded(v) BY <5>1, Cancelled DEF Kept, WfOnly
          <5>2. CASE CancelFails(v)
            <6>1. versions' = versions /\ thread' = thread BY <5>2 DEF CancelFails, index
            <6> QED BY <6>1, Unwritten DEF Kept, Shaped, WfOnly
          <5>3. CASE StartReindex(v) BY <5>3, Started DEF Kept, WfOnly
          <5> QED BY <3>2, <5>1, <5>2, <5>3 DEF AfterStep
        <4> QED BY <2>1, <4>1, <4>2, <4>3, AimsKept
      <3> QED BY <1>5, <3>1, <3>2
    <2> QED BY <1>0, <2>1, <2>2, <2>3, <2>4 DEF AimShape
  <1>6. ASSUME NEW v \in DOMAIN versions, Reindex(v) \/ Fail(v) PROVE AimShape'
    <2>1. UNCHANGED <<stored, wire, missed, listener, model, boot, ensure>>
      BY <1>6, WorkflowApart
    <2>2. Aims => Aims'
      <3>1. CASE Kept BY <2>1, <3>1, AimsKept
      <3>3. ~Provision
        <4>1. Provision => boot \in {"ensuring", "up"} /\ ensure.pc = "tx"
          BY CallGoesOn DEF Provision
        <4>2. ensure' = ensure BY <2>1
        <4>3. Provision => ensure'.pc # "tx" BY <1>0, CallGoesOn
        <4> QED BY <4>1, <4>2, <4>3
      <3>4. CASE \E u \in DOMAIN versions : FlipLive(u) /\ versions[u].status = "building"
        <4>1. PICK u \in DOMAIN versions : FlipLive(u) /\ versions[u].status = "building" BY <3>4
        <4>2. /\ u \in Building /\ Active' = {u} /\ Building' = {}
              /\ versions'[u].config = versions[u].config
          BY <4>1, LiveSets
        <4>3. \A w \in Building : w = u BY <4>2, OneBuilds
        <4> QED BY <2>1, <4>2, <4>3 DEF Aims, Has
      <3> QED BY <3>1, <3>3, <3>4, KeptSteps
    <2> QED BY <2>1, <2>2 DEF AimShape, Informed, Hooked
  <1>7. ASSUME NEW m \in Model, NEW upgrade \in BOOLEAN, Crash(m, upgrade) PROVE AimShape'
    <2>1. ensure' = Idle /\ boot' = "load" BY <1>7 DEF Crash
    <2> QED BY <1>0, <2>1 DEF AimShape
  <1> QED BY <1>1, <1>2, <1>3, <1>4, <1>5, <1>6, <1>7, Steps DEF CallStep

-----------------------------------------------------------------------------
(* Who writes into a slot. *)

\* Both sets are as they were, and nobody begins to write.
LEMMA WritersKept ==
  ASSUME TypeOK, WriterShape, Kept, model' = model, strays \subseteq strays',
         \A v \in Building \cup Active, w \in DOMAIN versions :
           Writes(w, v)' => Writes(w, v) \/ w \in strays'
  PROVE  WriterShape'
  <1>1. /\ Active' = Active /\ Building' = Building
        /\ \A u \in DOMAIN versions : versions'[u].config = versions[u].config
    BY KeptSets
  <1>2. DOMAIN versions' = DOMAIN versions BY Unwritten DEF Kept, Shaped
  <1>3. Active \subseteq DOMAIN versions /\ Building \subseteq DOMAIN versions
    BY DEF Active, Building, WithStatus
  <1>4. ASSUME NEW v \in Building \cup Active, NEW w \in DOMAIN versions, Writes(w, v)'
        PROVE  w \in strays' \/ versions'[v].config.model = model'
    BY <1>1, <1>3, <1>4 DEF WriterShape
  <1> QED BY <1>1, <1>2, <1>4 DEF WriterShape

\* What the step leaves of the slot, the step and the goroutine decides it.
LEMMA WritesBefore ==
  ASSUME NEW v \in DOMAIN versions, NEW w \in DOMAIN versions, Same(v), Same(w),
         thread'[w] # "off" => thread[w] # "off",
         versions'[w].at # Flip => versions[w].at # Flip
  PROVE  Writes(w, v)' => Writes(w, v)
  BY DEF Writes, Same

\* No step leaves WriterShape.
LEMMA WriterStep ==
  ASSUME TypeOK, BootShape, VersionShape, SlotShape, WriterShape, Next
  PROVE  WriterShape'
  <1>0. DOMAIN versions = 1 .. Len(versions) /\ Len(versions) \in Nat
        /\ Building \subseteq DOMAIN versions /\ Active \subseteq DOMAIN versions
    BY Unwritten DEF Active, Building, WithStatus
  <1>1. ASSUME UNCHANGED <<versions, thread, model>>, strays \subseteq strays' PROVE WriterShape'
    <2>1. Kept BY <1>1, Unwritten DEF Kept, Shaped, WfOnly
    <2>2. \A v, w : Writes(w, v)' => Writes(w, v) BY <1>1 DEF Writes
    <2> QED BY <1>1, <2>1, <2>2, WritersKept
  <1>2. CASE Still BY <1>1, <1>2 DEF Still, index
  <1>3. CASE Launch
    <2>1. /\ versions' = versions /\ strays' = strays /\ ensure = Idle /\ model' = model
          /\ \A u \in DOMAIN versions :
               thread'[u] = IF versions[u].wf = "pending" THEN "idle" ELSE "off"
      BY <1>3, Launched DEF Launch, BootShape
    <2>2. Kept BY <1>3, <2>1, Launched, Unwritten DEF Kept, WfOnly
    <2>3. ASSUME NEW v \in Building \cup Active, NEW w \in DOMAIN versions, Writes(w, v)'
          PROVE  w \in strays
      <3>1. /\ w # v /\ versions[w].slot = versions[v].slot /\ versions[w].at # Flip
            /\ versions[w].wf = "pending"
        BY <2>1, <2>3 DEF Writes
      <3>2. VersionOf(w) BY DEF VersionShape
      <3>3. versions[w].status \notin {"active", "retired"} BY <3>1, <3>2 DEF VersionOf
      <3>4. versions[w].status # "building"
        <4>1. ASSUME w \in Building PROVE FALSE
          <5>1. CASE v \in Building BY <3>1, <4>1, <5>1, OneBuilds
          <5>2. CASE v \in Active BY <3>1, <4>1, <5>2 DEF SlotShape
          <5> QED BY <2>3, <5>1, <5>2
        <4> QED BY <4>1 DEF Building, WithStatus
      <3>5. versions[w].status = "superseded" BY <3>3, <3>4, VersionType
      <3> QED BY <2>1, <3>1, <3>2, <3>5 DEF VersionOf, Idle
    <2> QED BY <2>1, <2>2, <2>3, WritersKept
  <1>4. CASE Provision
    <2> SUFFICES ASSUME NEW n, n = Len(versions) PROVE WriterShape'
      OBVIOUS
    <2>1. PICK k \in {0, 1} :
           /\ n \in Nat /\ DOMAIN versions = 1 .. n /\ DOMAIN versions' = 1 .. n + k
           /\ Active' = Active /\ Building' = (IF k = 0 THEN {} ELSE {n + 1})
           /\ \A u \in DOMAIN versions :
                /\ versions'[u].config = versions[u].config
                /\ versions'[u].slot = versions[u].slot
                /\ versions'[u].at = versions[u].at
                /\ thread'[u] = thread[u]
           /\ k = 1 => versions'[n + 1] = Row /\ thread'[n + 1] = "off"
      BY <1>4, ProvidedSets
    <2>2. strays' = strays /\ model' = model BY <1>4 DEF Provision
    <2>3. ASSUME NEW v \in Building' \cup Active', NEW w \in DOMAIN versions', Writes(w, v)'
          PROVE  w \in strays' \/ versions'[v].config.model = model'
      <3>1. thread'[w] # "off" BY <2>3 DEF Writes
      <3>2. w \in DOMAIN versions BY <2>1, <3>1
      <3>3. CASE v \in Building'
        <4>1. k = 1 /\ v = n + 1 BY <2>1, <3>3
        <4>2. versions'[v].config = Wanted BY <2>1, <4>1 DEF Row
        <4> QED BY <2>2, <4>2 DEF Wanted
      <3>4. CASE v \in Active
        <4>1. v \in DOMAIN versions BY <1>0, <3>4
        <4>2. Writes(w, v) BY <2>1, <2>3, <3>2, <4>1 DEF Writes
        <4> QED BY <2>1, <2>2, <3>2, <3>4, <4>1, <4>2 DEF WriterShape
      <3> QED BY <2>1, <2>3, <3>3, <3>4
    <2> QED BY <2>3 DEF WriterShape
  <1>5. ASSUME NEW u \in DOMAIN versions, AfterStep(u) PROVE WriterShape'
    <2>1. CASE CancelSuperseded(u)
      <3>1. /\ Kept /\ thread' = thread /\ strays' = strays /\ model' = model
            /\ \A w \in DOMAIN versions : Same(w) /\ versions'[w].at = versions[w].at
        BY <2>1, Cancelled DEF Kept, WfOnly, CancelSuperseded
      <3>2. \A v, w \in DOMAIN versions : Writes(w, v)' => Writes(w, v) BY <3>1, WritesBefore
      <3> QED BY <1>0, <3>1, <3>2, WritersKept
    <2>2. CASE CancelFails(u) BY <1>1, <2>2 DEF CancelFails, index
    <2>3. CASE StartReindex(u)
      <3>1. /\ Kept /\ strays' = strays /\ model' = model
            /\ \A w \in DOMAIN versions :
                 /\ Same(w) /\ versions'[w].at = versions[w].at
                 /\ w # u => thread'[w] = thread[w]
        BY <2>3, Started DEF Kept, WfOnly, StartReindex
      <3>2. u \in Building BY <2>3 DEF StartReindex, SlotShape
      <3>3. ASSUME NEW v \in Building \cup Active, NEW w \in DOMAIN versions, Writes(w, v)'
            PROVE  Writes(w, v)
        <4>1. CASE w # u BY <1>0, <3>1, <3>3, <4>1, WritesBefore
        <4>2. CASE w = u
          <5>1. w # v /\ versions[w].slot = versions[v].slot
            BY <1>0, <3>1, <3>3 DEF Writes, Same
          <5>2. CASE v \in Building BY <3>2, <4>2, <5>1, <5>2, OneBuilds
          <5>3. CASE v \in Active BY <3>2, <4>2, <5>1, <5>3 DEF SlotShape
          <5> QED BY <3>3, <5>2, <5>3
        <4> QED BY <4>1, <4>2
      <3> QED BY <3>1, <3>3, WritersKept
    <2> QED BY <1>5, <2>1, <2>2, <2>3 DEF AfterStep
  <1>6. ASSUME NEW u \in DOMAIN versions, Reindex(u) \/ Fail(u) PROVE WriterShape'
    <2>1. strays' = strays /\ model' = model BY <1>6, StraysApart, WorkflowApart
    <2>2. ASSUME Kept, \A w \in DOMAIN versions : /\ thread'[w] # "off" => thread[w] # "off"
                                                  /\ versions'[w].at # Flip => versions[w].at # Flip
          PROVE  WriterShape'
      <3>1. \A v, w \in DOMAIN versions : Writes(w, v)' => Writes(w, v)
        BY <2>2, WritesBefore DEF Kept
      <3> QED BY <1>0, <2>1, <2>2, <3>1, WritersKept
    <2>3. CASE Begin(u) \/ Prepare(u) \/ Embed(u)
      <3>1. /\ Shaped(Len(versions)) /\ versions' = versions
            /\ \A w \in DOMAIN versions : w # u => thread'[w] = thread[w]
            /\ thread[u] # "off"
        BY <2>3, ThreadSteps
      <3>2. Kept BY <3>1, Unwritten DEF Kept, WfOnly
      <3> QED BY <2>2, <3>1, <3>2
    <2>4. CASE FlipLive(u) /\ versions[u].status # "building"
      <3>1. /\ Shaped(Len(versions)) /\ versions' = versions
            /\ \A w \in DOMAIN versions : w # u => thread'[w] = thread[w]
            /\ thread[u] = "run"
        BY <2>4, StayedBack DEF index
      <3>2. Kept BY <3>1, Unwritten DEF Kept, WfOnly
      <3> QED BY <2>2, <3>1, <3>2
    <2>5. CASE FlipLive(u) /\ versions[u].status = "building"
      <3>1. /\ u \in Building /\ Active' = {u} /\ Building' = {}
            /\ DOMAIN versions' = DOMAIN versions
            /\ versions'[u].config = versions[u].config
        BY <2>5, LiveSets
      <3>2. ASSUME NEW w \in DOMAIN versions, Writes(w, u)' PROVE Writes(w, u)
        <4>1. w # u BY <3>2 DEF Writes
        <4>2. /\ Same(w) /\ Same(u) /\ thread'[w] = thread[w]
              /\ versions'[w].at = versions[w].at
          BY <2>5, <4>1, WentLive
        <4> QED BY <3>2, <4>2, WritesBefore
      <3>3. ASSUME NEW w \in DOMAIN versions', Writes(w, u)'
            PROVE  w \in strays' \/ versions'[u].config.model = model'
        <4>1. Writes(w, u) BY <3>1, <3>2, <3>3
        <4> QED BY <2>1, <3>1, <3>3, <4>1 DEF WriterShape
      <3> QED BY <3>1, <3>3 DEF WriterShape
    <2>6. CASE Checkpoint(u) /\ thread[u] = "ran"
      <3>1. versions[u].at <= Batches /\ versions[u].at \in Nat
        BY <2>6, VersionType DEF VersionShape, VersionOf
      <3>2. /\ Kept
            /\ \A w \in DOMAIN versions :
                 w # u => thread'[w] = thread[w] /\ versions'[w].at = versions[w].at
        BY <2>6, <3>1, GoesOn DEF Kept
      <3>3. versions[u].at # Flip BY <3>1 DEF Flip
      <3> QED BY <2>2, <2>6, <3>2, <3>3
    <2>7. CASE Fail(u) \/ (Checkpoint(u) /\ thread[u] = "left")
      <3>1. /\ Kept /\ thread'[u] = "off"
            /\ \A w \in DOMAIN versions :
                 /\ versions'[w].at = versions[w].at
                 /\ w # u => thread'[w] = thread[w]
        BY <2>7, Ended DEF Kept, WfOnly
      <3> QED BY <2>2, <3>1
    <2> QED BY <1>6, <2>3, <2>4, <2>5, <2>6, <2>7 DEF Reindex, Checkpoint
  <1>7. ASSUME NEW m \in Model, NEW upgrade \in BOOLEAN, Crash(m, upgrade) PROVE WriterShape'
    <2>1. /\ DOMAIN versions' = DOMAIN versions
          /\ \A w \in DOMAIN versions : thread'[w] = "off"
      BY <1>0, <1>7, Crashed DEF Shaped
    <2> QED BY <2>1 DEF WriterShape, Writes
  <1> QED BY <1>2, <1>3, <1>4, <1>5, <1>6, <1>7, Steps, StillSteps

-----------------------------------------------------------------------------
(* What the slots hold. *)

\* A batch that is as it was stays sound.
LEMMA SoundStays ==
  ASSUME TypeOK, NEW v \in DOMAIN versions, NEW b,
         \A u \in DOMAIN versions : Same(u),
         vectors'[versions[v].slot][b] = vectors[versions[v].slot][b],
         crossed \cup strays \subseteq crossed' \cup strays',
         Sound(v, b)
  PROVE  Sound(v, b)'
  <1>1. crossed \cup strays \subseteq DOMAIN versions BY DEF TypeOK
  <1>2. versions'[v].slot = versions[v].slot /\ versions'[v].config = versions[v].config
    BY DEF Same
  <1>3. \A w \in crossed \cup strays : versions'[w].slot = versions[w].slot BY <1>1 DEF Same
  <1> QED BY <1>2, <1>3 DEF Sound

\* Both sets are as they were, no batch is written, and none is said to be.
LEMMA VectorsKept ==
  ASSUME TypeOK, VectorShape, Kept, vectors' = vectors,
         crossed \cup strays \subseteq crossed' \cup strays',
         \A v \in DOMAIN versions, b \in 1 .. Batches : Written(v, b)' => Written(v, b)
  PROVE  VectorShape'
  <1>1. Active' = Active /\ Building' = Building BY KeptSets
  <1>2. Active \subseteq DOMAIN versions /\ Building \subseteq DOMAIN versions
    BY DEF Active, Building, WithStatus
  <1>3. \A u \in DOMAIN versions : Same(u) BY DEF Kept
  <1>4. ASSUME NEW v \in Building \cup Active, NEW b \in 1 .. Batches, Written(v, b)'
        PROVE  Sound(v, b)'
    <2>1. Sound(v, b) /\ v \in DOMAIN versions BY <1>2, <1>4 DEF VectorShape
    <2> QED BY <1>3, <2>1, SoundStays
  <1> QED BY <1>1, <1>4 DEF VectorShape

\* Nothing becomes written when the step is the same and no step has just run.
LEMMA WrittenBefore ==
  ASSUME NEW v \in DOMAIN versions, NEW b, versions'[v].at = versions[v].at,
         thread'[v] = "ran" => thread[v] = "ran"
  PROVE  Written(v, b)' => Written(v, b)
  BY DEF Written

\* The step that embeds: its batch is sound in the slot of whoever has it.
LEMMA VectorOfEmbed ==
  ASSUME TypeOK, VersionShape, SlotShape, WriterShape, VectorShape,
         NEW w \in DOMAIN versions, Embed(w)
  PROVE  VectorShape'
  <1>1. /\ Shaped(Len(versions)) /\ versions' = versions /\ thread[w] = "run"
        /\ \A u \in DOMAIN versions : u # w => thread'[u] = thread[u]
        /\ versions[w].at \in 1 .. Batches
    BY ThreadSteps
  <1>2. Kept BY <1>1, Unwritten DEF Kept, WfOnly
  <1>3. Active' = Active /\ Building' = Building /\ \A u \in DOMAIN versions : Same(u)
    BY <1>2, KeptSets DEF Kept
  <1>4. Active \subseteq DOMAIN versions /\ Building \subseteq DOMAIN versions
    BY DEF Active, Building, WithStatus
  <1>5. /\ strays' = strays /\ crossed \subseteq crossed'
        /\ versions[w].config.model # model => w \in crossed'
    BY DEF Embed
  <1>6. /\ vectors \in [Slot -> [1 .. Batches -> Model \cup {Empty}]] /\ versions[w].slot \in Slot
        /\ model \in Model /\ model # Empty
    BY VersionType DEF TypeOK
  <1>7. vectors' = [vectors EXCEPT ![versions[w].slot][versions[w].at] = model] BY DEF Embed
  <1>8. vectors'[versions[w].slot][versions[w].at] = model BY <1>1, <1>6, <1>7
  <1>9. ASSUME NEW s \in Slot, NEW b \in 1 .. Batches, s # versions[w].slot \/ b # versions[w].at
        PROVE  vectors'[s][b] = vectors[s][b]
    <2>1. CASE s # versions[w].slot BY <1>6, <1>7, <2>1
    <2>2. CASE s = versions[w].slot /\ b # versions[w].at BY <1>1, <1>6, <1>7, <2>2
    <2> QED BY <1>9, <2>1, <2>2
  <1>10. ASSUME NEW v \in Building \cup Active, NEW b \in 1 .. Batches, Written(v, b)'
         PROVE  Sound(v, b)'
    <2>1. v \in DOMAIN versions /\ versions[v].slot \in Slot BY <1>4, VersionType
    <2>2. CASE versions[v].slot # versions[w].slot \/ b # versions[w].at
      <3>1. vectors'[versions[v].slot][b] = vectors[versions[v].slot][b] BY <1>9, <2>1, <2>2
      <3>2. Written(v, b)
        <4>1. CASE v = w
          <5>1. CASE b # versions[w].at BY <1>1, <1>10, <4>1, <5>1 DEF Written
          <5> QED BY <2>2, <4>1, <5>1
        <4>2. CASE v # w BY <1>1, <1>10, <2>1, <4>2 DEF Written
        <4> QED BY <4>1, <4>2
      <3>3. Sound(v, b) BY <3>2 DEF VectorShape
      <3>4. crossed \cup strays \subseteq crossed' \cup strays' BY <1>5
      <3> QED BY <1>3, <2>1, <3>1, <3>3, <3>4, SoundStays
    <2>3. CASE versions[v].slot = versions[w].slot /\ b = versions[w].at
      <3>1. vectors'[versions'[v].slot][b] = model /\ model # Empty
        BY <1>1, <1>6, <1>8, <2>3
      <3>2. \/ versions[v].config.model = model
            \/ w \in crossed' \cup strays'
        <4>1. CASE v = w BY <1>5, <4>1
        <4>2. CASE v # w
          <5>1. versions[w].at # Flip BY <1>1 DEF Flip
          <5>2. Writes(w, v) BY <1>1, <2>3, <4>2, <5>1 DEF Writes
          <5> QED BY <1>5, <5>2 DEF WriterShape
        <4> QED BY <4>1, <4>2
      <3>3. versions'[w].slot = versions'[v].slot /\ versions'[v].config = versions[v].config
        BY <1>1, <2>3
      <3> QED BY <3>1, <3>2, <3>3 DEF Sound
    <2> QED BY <2>2, <2>3
  <1> QED BY <1>3, <1>10 DEF VectorShape

\* The flip: all batches are there, and what is cleared is somebody else's slot.
LEMMA VectorOfFlip ==
  ASSUME TypeOK, VersionShape, VectorShape, NEW v \in DOMAIN versions, FlipLive(v),
         versions[v].status = "building"
  PROVE  VectorShape'
  <1>1. v \in Building /\ Active' = {v} /\ Building' = {} BY LiveSets
  <1>2. /\ \A u \in DOMAIN versions : Same(u)
        /\ versions[v].at = Flip
        /\ vectors' = [s \in Slot |->
                         IF s \in {versions[w].slot : w \in Active} \ {versions[v].slot}
                         THEN [b \in 1 .. Batches |-> Empty] ELSE vectors[s]]
    BY WentLive
  <1>3. versions[v].slot \in Slot BY VersionType
  <1>4. vectors'[versions[v].slot] = vectors[versions[v].slot] BY <1>2, <1>3
  <1>5. crossed \cup strays \subseteq crossed' \cup strays' BY DEF FlipLive
  <1>6. ASSUME NEW b \in 1 .. Batches PROVE Sound(v, b)'
    <2>1. Written(v, b) BY <1>2 DEF Written, Flip
    <2>2. Sound(v, b) BY <1>1, <2>1 DEF VectorShape
    <2>3. vectors'[versions[v].slot][b] = vectors[versions[v].slot][b] BY <1>4
    <2> QED BY <1>2, <1>5, <2>2, <2>3, SoundStays
  <1> QED BY <1>1, <1>6 DEF VectorShape

\* No step leaves VectorShape.
LEMMA VectorStep ==
  ASSUME TypeOK, VersionShape, SlotShape, WriterShape, VectorShape, Next
  PROVE  VectorShape'
  <1>0. /\ DOMAIN versions = 1 .. Len(versions) /\ Len(versions) \in Nat
        /\ Building \subseteq DOMAIN versions /\ Active \subseteq DOMAIN versions
    BY Unwritten DEF Active, Building, WithStatus
  <1>1. ASSUME UNCHANGED <<versions, thread, vectors, crossed>>, strays \subseteq strays'
        PROVE  VectorShape'
    <2>1. Kept BY <1>1, Unwritten DEF Kept, Shaped, WfOnly
    <2>2. \A v, b : Written(v, b)' => Written(v, b) BY <1>1 DEF Written
    <2> QED BY <1>1, <2>1, <2>2, VectorsKept
  <1>2. CASE Still BY <1>1, <1>2 DEF Still, index
  <1>3. CASE Launch
    <2>1. /\ versions' = versions /\ UNCHANGED <<vectors, crossed, strays>>
          /\ \A u \in DOMAIN versions : thread'[u] # "ran"
      BY <1>3, Launched DEF Launch, index
    <2>2. Kept BY <1>3, <2>1, Launched, Unwritten DEF Kept, WfOnly
    <2>3. \A v \in DOMAIN versions, b \in 1 .. Batches : Written(v, b)' => Written(v, b)
      BY <2>1, WrittenBefore
    <2> QED BY <2>1, <2>2, <2>3, VectorsKept
  <1>4. CASE Provision
    <2> SUFFICES ASSUME NEW n, n = Len(versions) PROVE VectorShape'
      OBVIOUS
    <2>1. PICK k \in {0, 1} :
           /\ n \in Nat /\ DOMAIN versions = 1 .. n /\ DOMAIN versions' = 1 .. n + k
           /\ Active' = Active /\ Building' = (IF k = 0 THEN {} ELSE {n + 1})
           /\ \A u \in DOMAIN versions :
                /\ versions'[u].config = versions[u].config
                /\ versions'[u].slot = versions[u].slot
                /\ versions'[u].at = versions[u].at
                /\ thread'[u] = thread[u]
           /\ k = 1 => versions'[n + 1] = Row /\ thread'[n + 1] = "off"
      BY <1>4, ProvidedSets
    <2>2. UNCHANGED <<vectors, crossed, strays>> BY <1>4 DEF Provision
    <2>3. \A u \in DOMAIN versions : Same(u) BY <2>1 DEF Same
    <2>4. ASSUME NEW v \in Building' \cup Active', NEW b \in 1 .. Batches, Written(v, b)'
          PROVE  Sound(v, b)'
      <3>1. CASE v \in Building'
        <4>1. k = 1 /\ v = n + 1 BY <2>1, <3>1
        <4>2. versions'[v].at = 0 /\ thread'[v] = "off" BY <2>1, <4>1 DEF Row
        <4> QED BY <2>4, <4>2 DEF Written
      <3>2. CASE v \in Active
        <4>1. v \in DOMAIN versions BY <1>0, <3>2
        <4>2. Written(v, b) BY <2>1, <2>4, <4>1, WrittenBefore
        <4>3. Sound(v, b) BY <3>2, <4>2 DEF VectorShape
        <4> QED BY <2>2, <2>3, <4>1, <4>3, SoundStays
      <3> QED BY <2>1, <2>4, <3>1, <3>2
    <2> QED BY <2>4 DEF VectorShape
  <1>5. ASSUME NEW u \in DOMAIN versions, AfterStep(u) PROVE VectorShape'
    <2>1. CASE CancelSuperseded(u)
      <3>1. /\ Kept /\ UNCHANGED <<vectors, crossed, strays>>
            /\ \A w \in DOMAIN versions : versions'[w].at = versions[w].at /\ thread'[w] = thread[w]
        BY <2>1, Cancelled DEF Kept, WfOnly, CancelSuperseded
      <3>2. \A v \in DOMAIN versions, b \in 1 .. Batches : Written(v, b)' => Written(v, b)
        BY <3>1, WrittenBefore
      <3> QED BY <3>1, <3>2, VectorsKept
    <2>2. CASE CancelFails(u) BY <1>1, <2>2 DEF CancelFails, index
    <2>3. CASE StartReindex(u)
      <3>1. /\ Kept /\ UNCHANGED <<vectors, crossed, strays>>
            /\ \A w \in DOMAIN versions : /\ versions'[w].at = versions[w].at
                                          /\ thread'[w] \in {thread[w], "idle"}
        BY <2>3, Started DEF Kept, WfOnly, StartReindex
      <3>2. \A v \in DOMAIN versions, b \in 1 .. Batches : Written(v, b)' => Written(v, b)
        BY <3>1, WrittenBefore
      <3> QED BY <3>1, <3>2, VectorsKept
    <2> QED BY <1>5, <2>1, <2>2, <2>3 DEF AfterStep
  <1>6. ASSUME NEW u \in DOMAIN versions, Begin(u) \/ Prepare(u)
        PROVE  VectorShape'
    <2>1. /\ Shaped(Len(versions)) /\ versions' = versions
          /\ \A w \in DOMAIN versions : w # u => thread'[w] = thread[w]
          /\ Begin(u) => thread'[u] # "ran"
          /\ Prepare(u) => versions[u].at = 0
      BY <1>6, ThreadSteps
    <2>2. Kept /\ UNCHANGED <<vectors, crossed, strays>>
      BY <1>6, <2>1, Unwritten DEF Kept, WfOnly, Begin, Prepare, index
    <2>3. ASSUME NEW v \in DOMAIN versions, NEW b \in 1 .. Batches, Written(v, b)'
          PROVE  Written(v, b)
      <3>1. CASE v # u BY <2>1, <2>3, <3>1, WrittenBefore
      <3>2. CASE v = u BY <1>6, <2>1, <2>3, <3>2 DEF Written
      <3> QED BY <3>1, <3>2
    <2> QED BY <2>2, <2>3, VectorsKept
  <1>7. ASSUME NEW u \in DOMAIN versions, Embed(u) PROVE VectorShape' BY <1>7, VectorOfEmbed
  <1>8. ASSUME NEW u \in DOMAIN versions, FlipLive(u) PROVE VectorShape'
    <2>1. CASE versions[u].status = "building" BY <1>8, <2>1, VectorOfFlip
    <2>2. CASE versions[u].status # "building"
      <3>1. /\ Shaped(Len(versions)) /\ versions' = versions /\ vectors' = vectors
            /\ \A w \in DOMAIN versions : w # u => thread'[w] = thread[w]
            /\ thread'[u] = "left"
        BY <1>8, <2>2, StayedBack DEF index
      <3>2. Kept /\ UNCHANGED <<crossed, strays>>
        BY <1>8, <3>1, Unwritten DEF Kept, WfOnly, FlipLive
      <3>3. \A w \in DOMAIN versions : thread'[w] = "ran" => thread[w] = "ran" BY <3>1
      <3>4. \A v \in DOMAIN versions, b \in 1 .. Batches : Written(v, b)' => Written(v, b)
        BY <3>1, <3>3, WrittenBefore
      <3> QED BY <3>1, <3>2, <3>4, VectorsKept
    <2> QED BY <2>1, <2>2
  <1>9. ASSUME NEW u \in DOMAIN versions, Checkpoint(u) \/ Fail(u) PROVE VectorShape'
    <2>1. UNCHANGED <<vectors, crossed, strays>> BY <1>9 DEF Checkpoint, Fail
    <2>2. CASE Checkpoint(u) /\ thread[u] = "ran"
      <3>1. versions[u].at <= Batches /\ versions[u].at \in Nat
        BY <2>2, VersionType DEF VersionShape, VersionOf
      <3>2. /\ Kept /\ thread'[u] = "idle" /\ versions'[u].at = versions[u].at + 1
            /\ \A w \in DOMAIN versions :
                 w # u => thread'[w] = thread[w] /\ versions'[w].at = versions[w].at
        BY <2>2, <3>1, GoesOn DEF Kept
      <3>3. ASSUME NEW v \in DOMAIN versions, NEW b \in 1 .. Batches, Written(v, b)'
            PROVE  Written(v, b)
        <4>1. CASE v # u BY <3>2, <3>3, <4>1, WrittenBefore
        <4>2. CASE v = u BY <2>2, <3>1, <3>2, <3>3, <4>2 DEF Written
        <4> QED BY <4>1, <4>2
      <3> QED BY <2>1, <3>2, <3>3, VectorsKept
    <2>3. CASE Fail(u) \/ (Checkpoint(u) /\ thread[u] = "left")
      <3>1. /\ Kept /\ thread'[u] = "off"
            /\ \A w \in DOMAIN versions :
                 /\ versions'[w].at = versions[w].at
                 /\ w # u => thread'[w] = thread[w]
        BY <2>3, Ended DEF Kept, WfOnly
      <3>2. \A w \in DOMAIN versions : thread'[w] = "ran" => thread[w] = "ran" BY <3>1
      <3>3. \A v \in DOMAIN versions, b \in 1 .. Batches : Written(v, b)' => Written(v, b)
        BY <3>1, <3>2, WrittenBefore
      <3> QED BY <2>1, <3>1, <3>3, VectorsKept
    <2> QED BY <1>9, <2>2, <2>3 DEF Checkpoint
  <1>10. ASSUME NEW m \in Model, NEW upgrade \in BOOLEAN, Crash(m, upgrade) PROVE VectorShape'
    <2>1. /\ Kept /\ UNCHANGED <<vectors, crossed>> /\ strays \subseteq strays'
          /\ \A w \in DOMAIN versions : versions'[w].at = versions[w].at /\ thread'[w] = "off"
      BY <1>10, Crashed DEF Kept, WfOnly, Crash
    <2>2. \A v \in DOMAIN versions, b \in 1 .. Batches : Written(v, b)' => Written(v, b)
      BY <2>1, WrittenBefore
    <2>3. crossed \cup strays \subseteq crossed' \cup strays' BY <2>1
    <2> QED BY <2>1, <2>2, <2>3, VectorsKept
  <1> QED BY <1>2, <1>3, <1>4, <1>5, <1>6, <1>7, <1>8, <1>9, <1>10, Steps, StillSteps DEF Reindex

-----------------------------------------------------------------------------
(* The theorems. *)

\* The invariant holds at first.
LEMMA InitInv == Init => Inv
  <1> SUFFICES ASSUME Init PROVE Inv
    OBVIOUS
  <1>1. /\ DOMAIN versions = {} /\ Len(versions) = 0 /\ Len(thread) = 0
        /\ versions \in Seq(Version) /\ thread \in Seq({"off", "idle", "run", "ran", "left"})
    BY DEF Init
  <1>2. OverlayTypeOK BY DEF Init, OverlayInit, OverlayTypeOK
  <1>3. vectors \in [Slot -> [1 .. Batches -> Model \cup {Empty}]] BY DEF Init
  <1>4. TypeOK BY <1>1, <1>2, <1>3 DEF Init, TypeOK
  <1>5. boot = "load" /\ ensure = Idle /\ listener = Gone BY DEF Init, OverlayInit
  <1>6. BootShape /\ CacheShape BY <1>5 DEF BootShape, CacheShape
  <1>7. Active = {} /\ Building = {} BY <1>1 DEF Active, Building, WithStatus
  <1>8. VersionShape BY <1>1 DEF VersionShape
  <1>9. SlotShape /\ WriterShape /\ VectorShape
    BY <1>5, <1>7 DEF SlotShape, WriterShape, VectorShape, Idle
  <1>10. AimShape BY <1>5 DEF AimShape, Idle
  <1> QED BY <1>4, <1>6, <1>8, <1>9, <1>10 DEF Inv

\* And after every step.
LEMMA NextInv == Inv /\ [Next]_vars => Inv'
  <1> SUFFICES ASSUME Inv, [Next]_vars PROVE Inv'
    OBVIOUS
  <1>1. CASE Next
    <2>1. TypeOK' BY <1>1, TypeStep DEF Inv
    <2>2. BootShape' BY <1>1, BootStep DEF Inv
    <2>3. CacheShape' BY <1>1, CacheStep DEF Inv
    <2>4. VersionShape' BY <1>1, VersionStep DEF Inv
    <2>5. SlotShape' BY <1>1, SlotStep DEF Inv
    <2>6. WriterShape' BY <1>1, WriterStep DEF Inv
    <2>7. VectorShape' BY <1>1, VectorStep DEF Inv
    <2>8. AimShape' BY <1>1, AimStep DEF Inv
    <2> QED BY <2>1, <2>2, <2>3, <2>4, <2>5, <2>6, <2>7, <2>8 DEF Inv
  <1>2. CASE UNCHANGED vars
    <2>1. UNCHANGED <<stored, cached, wire, listening, listener, call, missed, model, boot, ensure,
                      versions, vectors, thread, crossed, strays, events>>
      BY <1>2 DEF vars, overlay, index
    <2>2. TypeOK' BY <2>1 DEF Inv, TypeOK, OverlayTypeOK, Ensuring
    <2>3. Active' = Active /\ Building' = Building BY <2>1 DEF Active, Building, WithStatus
    <2>4. BootShape' /\ CacheShape' BY <2>1 DEF Inv, BootShape, CacheShape, Informed
    <2>5. VersionShape' BY <2>1 DEF Inv, VersionShape, VersionOf
    <2>6. SlotShape' BY <2>1, <2>3 DEF Inv, SlotShape
    <2>7. WriterShape' BY <2>1, <2>3 DEF Inv, WriterShape, Writes
    <2>8. VectorShape' BY <2>1, <2>3 DEF Inv, VectorShape, Written, Sound
    <2>9. AimShape' BY <2>1, <2>3 DEF Inv, AimShape, Informed, Hooked, Aims, Has
    <2> QED BY <2>2, <2>4, <2>5, <2>6, <2>7, <2>8, <2>9 DEF Inv
  <1> QED BY <1>1, <1>2

\* The types and the shape of the index, of reindex.go, store.go and overlay.go, for every
\* number of models, dimensions, batches, callers and faults.
THEOREM Invariance == Spec => []Inv
  BY InitInv, NextInv, PTL DEF Spec

\* CacheIsTrue: when nothing is on its way, what the process takes the key to be is what is
\* stored, unless it has missed a write (overlay.go, Refresh and listenLoop).
THEOREM CacheAlwaysTrue == Spec => []CacheIsTrue
  <1>1. Inv => CacheIsTrue
    <2> SUFFICES ASSUME Inv, boot # "load", Settled, missed = {} PROVE cached = stored
      BY DEF CacheIsTrue, CacheAgrees
    <2>1. wire = 0 /\ listener.pc # "read" BY DEF Settled, Idle, Gone
    <2>2. Informed BY <2>1 DEF Informed
    <2> QED BY <2>2 DEF Inv, CacheShape
  <1> QED BY <1>1, Invariance, PTL

\* ServingIsTrue: a search compares like with like, but for the two causes that are named
\* (reindex.go, ReindexWorkflow and flip; store.go, IdleSlot).
THEOREM ServingAlwaysTrue == Spec => []ServingIsTrue
  <1>1. Inv => ServingIsTrue
    <2> SUFFICES ASSUME Inv, NEW v \in Active, NEW b \in 1 .. Batches PROVE Sound(v, b)
      BY DEF ServingIsTrue, Sound
    <2>1. v \in DOMAIN versions /\ versions[v].status = "active" BY DEF Active, WithStatus
    <2>2. versions[v].at = Flip BY <2>1 DEF Inv, VersionShape, VersionOf
    <2>3. Written(v, b) BY <2>2 DEF Written, Flip
    <2> QED BY <2>3 DEF Inv, VectorShape
  <1> QED BY <1>1, Invariance, PTL

\* QuietServesConfig: a change that was heard of has led to a build, and the build to the
\* version that serves, or it is stuck (reindex.go, EnsureActiveVersion; main.go, the hook).
THEOREM QuietServes == Spec => []QuietServesConfig
  <1>1. Inv => QuietServesConfig
    <2> SUFFICES ASSUME Inv, Quiet, missed = {}, NEW c, c = [model |-> model, dimension |-> stored]
                 PROVE  Stuck \/ Has(Active, c)
      BY DEF QuietServesConfig
    <2>1. /\ boot = "up" /\ ensure = Idle /\ wire = 0 /\ listener \in {Idle, Gone}
          /\ \A v \in DOMAIN versions : thread[v] = "off"
      BY DEF Quiet, Settled
    <2>2. Informed /\ listener # Fire BY <2>1 DEF Informed, Idle, Gone, Fire
    <2>3. Aims BY <2>1, <2>2 DEF Inv, AimShape
    <2>4. ASSUME NEW v \in Building, versions[v].config = c PROVE Stuck
      <3>1. v \in DOMAIN versions BY DEF Building, WithStatus
      <3>2. versions[v].wf # "pending" BY <2>1, <3>1 DEF Inv, VersionShape, VersionOf
      <3> QED BY <2>4, <3>2 DEF Stuck
    <2> QED BY <2>3, <2>4 DEF Aims, Has
  <1> QED BY <1>1, Invariance, PTL

\* ServingMovesForward: only the last version is ever being built, so what goes live is newer
\* than what it replaces (reindex.go, flip, which looks at the status once more).
THEOREM ServingOnlyForward == Spec => ServingMovesForward
  <1>1. Inv /\ [Next]_vars => [\A v \in Active : \E w \in Active' : w >= v]_vars
    <2> SUFFICES ASSUME Inv, Next, NEW v \in Active PROVE \E w \in Active' : w >= v
      OBVIOUS
    <2>0. TypeOK /\ VersionShape BY DEF Inv
    <2>1. v \in DOMAIN versions /\ v \in Nat /\ v <= Len(versions)
          /\ DOMAIN versions = 1 .. Len(versions) /\ Len(versions) \in Nat
      BY <2>0, Unwritten DEF Active, WithStatus
    <2>2. CASE v \in Active' BY <2>1, <2>2
    <2>3. CASE Kept BY <2>0, <2>2, <2>3, KeptSets
    <2>4. CASE Provision
      <3>1. Active' = Active BY <2>0, <2>4, ProvidedSets
      <3> QED BY <2>2, <3>1
    <2>5. ASSUME NEW u \in DOMAIN versions, FlipLive(u), versions[u].status = "building"
          PROVE  \E w \in Active' : w >= v
      <3>1. u \in Building /\ Active' = {u} BY <2>0, <2>5, LiveSets
      <3>2. u = Len(versions) BY <2>0, <3>1, OneBuilds
      <3> QED BY <2>1, <3>1, <3>2
    <2> QED BY <2>0, <2>3, <2>4, <2>5, KeptSteps
  <1> QED BY <1>1, Invariance, PTL DEF Spec, ServingMovesForward
=============================================================================
