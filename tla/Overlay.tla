------------------------------ MODULE Overlay ------------------------------
(***************************************************************************)
(* One key of the configuration that may change at run time.               *)
(*                                                                         *)
(*   migration 00008              config_entries, and NOTIFY by a trigger  *)
(*   internal/config/overlay.go   the cache of one process, and LISTEN     *)
(*   graph/config_helpers.go      the owner's mutation                     *)
(*                                                                         *)
(* Two goroutines fill the cache: the listener, for every notification,    *)
(* and the owner's request, for its own write.  Each reads the row first   *)
(* and takes the lock of the cache only then.                              *)
(***************************************************************************)
EXTENDS Naturals

CONSTANTS Client,    \* requests of the owner at a time
          Value      \* values of the key

VARIABLES
  stored,    \* the key's row, or what the file says when there is none
  cached,    \* volatile: Overlay.entries
  wire,      \* volatile: notifications sent and not yet received
  listening, \* volatile: the connection is up and has issued LISTEN
  listener,  \* volatile: the goroutine of listenLoop
  call,      \* volatile: the owner's requests
  missed     \* what has kept this process from acting on a write

overlay == <<stored, cached, wire, listening, listener, call, missed>>

Idle == [pc |-> "idle"]
Gone == [pc |-> "gone"]
Read(v) == [pc |-> "read", value |-> v]
Fire == [pc |-> "fire"]

Cause == {"unheard", "failed", "overtaken", "unhooked"}

OverlayTypeOK ==
  /\ stored \in Value /\ cached \in Value
  /\ wire \in Nat
  /\ listening \in BOOLEAN
  /\ listener \in {Gone, Idle, Fire} \cup {Read(v) : v \in Value}
  /\ call \in [Client -> {Idle, Fire} \cup {Read(v) : v \in Value}]
  /\ missed \subseteq Cause

OverlayInit ==
  /\ stored \in Value /\ cached = stored
  /\ wire = 0 /\ listening = FALSE
  /\ listener = Gone
  /\ call = [c \in Client |-> Idle]
  /\ missed = {}

Miss(cause, condition) == missed' = missed \cup (IF condition THEN {cause} ELSE {})

\* The row changes, and whoever listens is told.  A process that has not read the table
\* yet, whose cache is not loaded, has nothing to miss.
Stores(v, loaded) ==
  /\ stored' = v
  /\ wire' = IF listening THEN wire + 1 ELSE wire
  /\ Miss("unheard", loaded /\ ~listening)
  /\ UNCHANGED <<cached, listening, listener>>

\* Mutant: only the resolvers notify.
EditSilently(v, loaded) ==
  /\ stored' = v
  /\ UNCHANGED <<cached, wire, listening, listener, call, missed>>

\* A write by hand, or by another process.
Edit(v, loaded) == Stores(v, loaded) /\ UNCHANGED call

\* setConfigEntry or deleteConfigEntry: the write ...
SetEntry(c, v) ==
  /\ call[c] = Idle
  /\ Stores(v, TRUE)
  /\ call' = [call EXCEPT ![c] = Fire]

\* ... and Refresh, which reads the row ...
ReadEntry(c) ==
  /\ call[c] = Fire
  /\ call' = [call EXCEPT ![c] = Read(stored)]
  /\ UNCHANGED <<stored, cached, wire, listening, listener, missed>>

\* ... and takes what it has read for what there is, also when the listener has been
\* faster with a later write.
AssignEntry(c) ==
  /\ call[c].pc = "read"
  /\ cached' = call[c].value
  /\ call' = [call EXCEPT ![c] = Idle]
  /\ Miss("overtaken", call[c].value # stored /\ wire = 0 /\ listener.pc # "read")
  /\ UNCHANGED <<stored, wire, listening, listener>>

\* The request is cancelled, or its read fails.
AbandonEntry(c) ==
  /\ call[c] # Idle
  /\ call' = [call EXCEPT ![c] = Idle]
  /\ UNCHANGED <<stored, cached, wire, listening, listener, missed>>

\* Listen, at boot: it returns when LISTEN has been issued ...
Listen ==
  /\ listener = Gone
  /\ listener' = Idle /\ listening' = TRUE
  /\ UNCHANGED <<stored, cached, wire, call, missed>>

\* ... or when the first attempt has failed, and there will be no other.
ListenFails ==
  /\ listener = Gone
  /\ UNCHANGED <<stored, cached, wire, listening, listener, call, missed>>

\* The listener receives a notification, and reads the row ...
Hear ==
  /\ listener = Idle /\ wire > 0
  /\ wire' = wire - 1
  /\ listener' = Read(stored)
  /\ UNCHANGED <<stored, cached, listening, call, missed>>

\* ... in vain, and goes on to the next ...
HearFails ==
  /\ listener = Idle /\ wire > 0
  /\ wire' = wire - 1
  /\ Miss("failed", TRUE)
  /\ UNCHANGED <<stored, cached, listening, listener, call>>

\* ... or into the cache, and tells whoever has asked to be told.  What is up to date now
\* makes good for what was missed.
AssignHeard ==
  /\ listener.pc = "read"
  /\ cached' = listener.value
  /\ listener' = Fire
  /\ missed' = IF listener.value = stored THEN {} ELSE missed
  /\ UNCHANGED <<stored, wire, listening, call>>

\* listenOnce ends, and what it has not received is gone ...
Disconnect ==
  /\ listening
  /\ listening' = FALSE
  /\ wire' = 0
  /\ Miss("unheard", wire > 0)
  /\ UNCHANGED <<stored, cached, listener, call>>

\* ... and listenLoop starts it anew, without a look at the table.
Reconnect ==
  /\ ~listening /\ listener = Idle
  /\ listening' = TRUE
  /\ UNCHANGED <<stored, cached, wire, listener, call, missed>>

\* Overlay.Load, at boot.
Load ==
  /\ cached' = stored
  /\ missed' = {}
  /\ UNCHANGED <<stored, wire, listening, listener, call>>

\* The process dies.
LoseOverlay ==
  /\ listening' = FALSE /\ wire' = 0
  /\ listener' = Gone
  /\ call' = [c \in Client |-> Idle]
  /\ UNCHANGED <<stored, cached, missed>>
-----------------------------------------------------------------------------
(* Properties. *)

\* No write is on its way to the cache.
Settled == listener \in {Idle, Gone} /\ wire = 0 /\ \A c \in Client : call[c] = Idle

\* When nothing is on its way the cache holds what is stored, unless the last write was
\* not heard of, could not be read, or was overtaken by the refresh of an earlier request.
CacheAgrees(loaded) == loaded /\ Settled => cached = stored \/ missed # {}
=============================================================================
