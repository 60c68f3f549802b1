------------------------------ MODULE Realtime ------------------------------
(***************************************************************************)
(* How a change of a row reaches the owner's inbox while it is open.       *)
(*                                                                         *)
(*   db/migrations/00017_resolution_notify.sql  every change notifies      *)
(*   internal/realtime/dispatcher.go   LISTEN, a goroutine per notification *)
(*   internal/realtime/subscriber.go   a bounded buffer per subscription   *)
(*   graph/phase2_helpers.go           the pump of a subscription          *)
(*   apps/mobile/lib/core, lib/features/inbox   the client                 *)
(*                                                                         *)
(* One client, which subscribes to every change.  A subscription of it is a *)
(* Stream: a Subscriber, its pump and the resolver's channel.  An old one  *)
(* may still be winding up when the next is made.                          *)
(***************************************************************************)
EXTENDS Naturals, FiniteSets

CONSTANTS Stream,
          None,
          Capacity,     \* of the two channels of a subscription
          MaxUpdates,   \* bound: rows changed
          MaxBreaks     \* bound: connections dropped, statements failed

ASSUME RealtimeAssumption ==
  /\ None \notin Stream /\ Capacity \in Nat \ {0} /\ MaxUpdates \in Nat /\ MaxBreaks \in Nat

VARIABLES
  version,    \* rows changed so far
  listening,  \* Dispatcher.conn is there
  wire,       \* notifications on their way to it; their ids are not told apart
  loading,    \* goroutines that have yet to load their row
  owed,       \* how many of them have yet to come to a subscriber in their loop
  subs,       \* Dispatcher.subs
  buffer,     \* Subscriber.Out: how many events it holds
  quit,       \* Subscriber.Done is closed
  pump,       \* the pump's goroutine; "done" when both channels are closed
  out,        \* the resolver's channel and the socket: pushes on their way
  socket,     \* the client's websocket is connected
  once,       \* hasConnectedOnce
  current,    \* the client's subscription
  fetch,      \* its request for the first page of the feed
  got,        \* what the server has read for it is up to date
  shown,      \* what the feed shows is up to date
  lost,       \* ghost: why the client was not told, since that request was last read
  breaks

relay == <<version, listening, wire, loading>>
server == <<owed, subs, buffer, quit, pump, out>>
client == <<socket, once, current>>
firstPage == <<fetch, got, shown>>
realtimeVars == <<relay, server, client, firstPage, lost, breaks>>

RealtimeTypeOK ==
  /\ version \in 0 .. MaxUpdates /\ listening \in BOOLEAN
  /\ wire \in Nat /\ loading \in Nat /\ owed \in [Stream -> Nat] /\ subs \subseteq Stream
  /\ buffer \in [Stream -> 0 .. Capacity] /\ quit \in [Stream -> BOOLEAN]
  /\ pump \in [Stream -> {"select", "emit", "dereg", "close", "done"}]
  /\ out \in [Stream -> 0 .. Capacity]
  /\ socket \in BOOLEAN /\ once \in BOOLEAN /\ current \in Stream \cup {None}
  /\ fetch \in {"idle", "asked", "read", "error"}
  /\ got \in BOOLEAN /\ shown \in BOOLEAN
  /\ lost \subseteq {"gap", "load", "absent", "overflow"} /\ breaks \in 0 .. MaxBreaks

\* The app has been started: the feed is fetched and the socket connects, side by side.
RealtimeInit ==
  /\ version = 0 /\ listening = TRUE /\ wire = 0 /\ loading = 0
  /\ owed = [s \in Stream |-> 0] /\ subs = {}
  /\ buffer = [s \in Stream |-> 0] /\ quit = [s \in Stream |-> FALSE]
  /\ pump = [s \in Stream |-> "done"] /\ out = [s \in Stream |-> 0]
  /\ socket = FALSE /\ once = FALSE /\ current = None
  /\ fetch = "asked" /\ got = TRUE /\ shown = TRUE
  /\ lost = {} /\ breaks = 0
-----------------------------------------------------------------------------
(* The database and the dispatcher. *)

\* A loop that has yet to come to somebody holds the read lock.
ReadLocked == \E s \in Stream : owed[s] > 0

Miss(why) == lost' = lost \cup {why}

Fault == breaks < MaxBreaks /\ breaks' = breaks + 1

\* notify_event, at the commit of any change.
Commit ==
  /\ version < MaxUpdates
  /\ version' = version + 1
  /\ IF listening THEN wire' = wire + 1 /\ UNCHANGED lost ELSE Miss("gap") /\ UNCHANGED wire
  /\ got' = FALSE /\ shown' = FALSE
  /\ UNCHANGED <<listening, loading, server, client, fetch, breaks>>

\* Run: WaitForNotification yields one, a goroutine takes it.
Notify ==
  /\ wire > 0
  /\ wire' = wire - 1 /\ loading' = loading + 1
  /\ UNCHANGED <<version, listening, server, client, firstPage, lost, breaks>>

\* The connection fails: what is on the wire is gone, and nobody is told.
LoseListen ==
  /\ listening /\ Fault
  /\ listening' = FALSE /\ wire' = 0
  /\ IF wire > 0 THEN Miss("gap") ELSE UNCHANGED lost
  /\ UNCHANGED <<version, loading, server, client, firstPage>>

Reconnect ==
  /\ ~listening
  /\ listening' = TRUE
  /\ UNCHANGED <<version, wire, loading, server, client, firstPage, lost, breaks>>

\* dispatch: the row is loaded, then the read lock taken.
Dispatch ==
  /\ loading > 0
  /\ loading' = loading - 1
  /\ owed' = [s \in Stream |-> IF s \in subs THEN owed[s] + 1 ELSE owed[s]]
  /\ IF current \in subs THEN UNCHANGED lost ELSE Miss("absent")
  /\ UNCHANGED <<version, listening, wire, subs, buffer, quit, pump, out, client, firstPage,
                 breaks>>

\* loadByTopic fails: the event is dropped for everyone.
DispatchFails ==
  /\ loading > 0 /\ Fault
  /\ loading' = loading - 1
  /\ Miss("load")
  /\ UNCHANGED <<version, listening, wire, server, client, firstPage>>

\* One turn of a loop: a full buffer ends the subscriber.
Send(s) ==
  /\ owed[s] > 0
  /\ owed' = [owed EXCEPT ![s] = @ - 1]
  /\ IF buffer[s] < Capacity
     THEN buffer' = [buffer EXCEPT ![s] = @ + 1] /\ UNCHANGED quit
     ELSE quit' = [quit EXCEPT ![s] = TRUE] /\ UNCHANGED buffer
  /\ IF quit'[s] THEN Miss("overflow") ELSE UNCHANGED lost
  /\ UNCHANGED <<relay, subs, pump, out, client, firstPage, breaks>>
-----------------------------------------------------------------------------
(* The pump of a subscription, streamTaskEvents.  Its context is cancelled *)
(* when the client's socket drops.                                         *)

Cancelled(s) == s # current

\* Register, and the goroutine.
Subscribe(s) ==
  /\ socket /\ current = None /\ pump[s] = "done" /\ ~ReadLocked
  /\ subs' = subs \cup {s}
  /\ buffer' = [buffer EXCEPT ![s] = 0] /\ quit' = [quit EXCEPT ![s] = FALSE]
  /\ pump' = [pump EXCEPT ![s] = "select"] /\ out' = [out EXCEPT ![s] = 0]
  /\ current' = s
  /\ UNCHANGED <<relay, owed, socket, once, firstPage, lost, breaks>>

Take(s) ==
  /\ pump[s] = "select" /\ buffer[s] > 0
  /\ buffer' = [buffer EXCEPT ![s] = @ - 1]
  /\ pump' = [pump EXCEPT ![s] = "emit"]
  /\ UNCHANGED <<relay, owed, subs, quit, out, client, firstPage, lost, breaks>>

\* loadTaskForEnvelope fails: the pump goes on with the next event.
TakeFails(s) ==
  /\ pump[s] = "select" /\ buffer[s] > 0 /\ Fault
  /\ buffer' = [buffer EXCEPT ![s] = @ - 1]
  /\ Miss("load")
  /\ UNCHANGED <<relay, owed, subs, quit, pump, out, client, firstPage>>

Emit(s) ==
  /\ pump[s] = "emit" /\ out[s] < Capacity
  /\ out' = [out EXCEPT ![s] = @ + 1]
  /\ pump' = [pump EXCEPT ![s] = "select"]
  /\ UNCHANGED <<relay, owed, subs, buffer, quit, client, firstPage, lost, breaks>>

\* Either select sees Done or the context; with more than one case ready it takes any.
Quit(s) ==
  /\ pump[s] \in {"select", "emit"} /\ (quit[s] \/ Cancelled(s))
  /\ pump' = [pump EXCEPT ![s] = "dereg"]
  /\ UNCHANGED <<relay, owed, subs, buffer, quit, out, client, firstPage, lost, breaks>>

\* Mutant: the subscriber is taken out of the map without the lock.
DeregisterUnlocked(s) ==
  /\ pump[s] = "dereg"
  /\ subs' = subs \ {s}
  /\ pump' = [pump EXCEPT ![s] = "close"]
  /\ UNCHANGED <<relay, owed, buffer, quit, out, client, firstPage, lost, breaks>>

Deregister(s) ==
  /\ pump[s] = "dereg" /\ ~ReadLocked
  /\ subs' = subs \ {s}
  /\ pump' = [pump EXCEPT ![s] = "close"]
  /\ UNCHANGED <<relay, owed, buffer, quit, out, client, firstPage, lost, breaks>>

\* Out, and then the resolver's channel.
CloseChannels(s) ==
  /\ pump[s] = "close"
  /\ pump' = [pump EXCEPT ![s] = "done"]
  /\ UNCHANGED <<relay, owed, subs, buffer, quit, out, client, firstPage, lost, breaks>>
-----------------------------------------------------------------------------
(* The client. *)

\* A push: a tick, on which InboxFeedController.refresh drops the request there is.
Receive ==
  /\ current # None /\ out[current] > 0
  /\ out' = [out EXCEPT ![current] = @ - 1]
  /\ fetch' = "asked"
  /\ UNCHANGED <<relay, owed, subs, buffer, quit, pump, client, got, shown, lost, breaks>>

\* Mutant: the end of the stream is swallowed, and the client goes on waiting for it.
CompleteUnheard ==
  /\ current # None /\ pump[current] = "done" /\ out[current] = 0
  /\ UNCHANGED realtimeVars

\* The stream ends though the socket is up; _resilientTicks subscribes again later.
Complete ==
  /\ current # None /\ pump[current] = "done" /\ out[current] = 0
  /\ current' = None
  /\ UNCHANGED <<relay, server, socket, once, firstPage, lost, breaks>>

Drop ==
  /\ socket /\ Fault
  /\ socket' = FALSE /\ current' = None
  /\ UNCHANGED <<relay, server, once, firstPage, lost>>

\* Mutant: a connection that comes back is not told from the first.
ConnectQuietly ==
  /\ ~socket
  /\ socket' = TRUE /\ once' = TRUE
  /\ UNCHANGED <<relay, server, current, firstPage, lost, breaks>>

\* Connected again, the read models are reconciled; the first time, they are not.
Connect ==
  /\ ~socket
  /\ socket' = TRUE /\ once' = TRUE
  /\ fetch' = IF once THEN "asked" ELSE fetch
  /\ UNCHANGED <<relay, server, current, got, shown, lost, breaks>>

\* The app comes back to the foreground, or the owner refreshes.
Resume ==
  /\ fetch \in {"idle", "error"}
  /\ fetch' = "asked"
  /\ UNCHANGED <<relay, server, client, got, shown, lost, breaks>>

\* inboxFeed is read: whatever has been committed is in it.
ReadFeed ==
  /\ fetch = "asked"
  /\ fetch' = "read" /\ got' = TRUE /\ lost' = {}
  /\ UNCHANGED <<relay, server, client, shown, breaks>>

ShowFeed ==
  /\ fetch = "read"
  /\ fetch' = "idle" /\ shown' = got
  /\ UNCHANGED <<relay, server, client, got, lost, breaks>>

\* The feed shows the error.
FetchFails ==
  /\ fetch \in {"asked", "read"} /\ Fault
  /\ fetch' = "error"
  /\ UNCHANGED <<relay, server, client, got, shown, lost>>

DispatcherStep ==
  Reconnect \/ Notify \/ Dispatch \/ \E s \in Stream : Send(s)

PumpStep(s) == Take(s) \/ Emit(s) \/ Quit(s) \/ Deregister(s) \/ CloseChannels(s)

SubscriptionStep == Connect \/ Receive \/ Complete \/ \E s \in Stream : Subscribe(s)

FeedStep == ReadFeed \/ ShowFeed

RealtimeNext ==
  \/ Commit \/ DispatcherStep \/ SubscriptionStep \/ FeedStep \/ Resume
  \/ \E s \in Stream : PumpStep(s) \/ TakeFails(s)
  \/ DispatchFails \/ LoseListen \/ Drop \/ FetchFails

RealtimeSpec == RealtimeInit /\ [][RealtimeNext]_realtimeVars

\* Goroutines run, the client reads its socket, connects and subscribes for as long as it
\* takes.  Nobody has to change a row or bring the app to the foreground.
RealtimeFairSpec ==
  /\ RealtimeSpec
  /\ WF_realtimeVars(DispatcherStep)
  /\ WF_realtimeVars(SubscriptionStep) /\ WF_realtimeVars(FeedStep)
  /\ \A s \in Stream : WF_realtimeVars(PumpStep(s))
-----------------------------------------------------------------------------
(* Properties. *)

\* No goroutine sends on a channel that is closed, which would end the process: the lock
\* keeps a subscriber from being closed while a loop may still come to it.
NoSendOnClosed == \A s \in Stream : owed[s] > 0 => pump[s] \notin {"close", "done"}

AtRest ==
  /\ fetch = "idle" /\ socket /\ current # None
  /\ pump[current] = "select" /\ ~quit[current] /\ buffer[current] = 0 /\ out[current] = 0
  /\ wire = 0 /\ loading = 0 /\ ~ReadLocked

\* A connected client with nothing on its way shows every change, unless one of the four
\* causes kept it from being told: LISTEN was down, a row could not be loaded, it was not
\* subscribed yet, or its subscription was ended.
StaleIsExplained == AtRest => shown \/ lost # {}

Subscribed == current \in subs /\ ~quit[current]

\* A client whose subscription was ended, or whose socket dropped, is subscribed again.
SubscribedAgain == ~Subscribed ~> Subscribed
=============================================================================
