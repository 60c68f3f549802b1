-------------------------------- MODULE Inbox --------------------------------
(***************************************************************************)
(* The inbox: rows that wait for the owner, their projection, and a phone  *)
(* that scrolls through the ranked feed of them.                           *)
(*                                                                         *)
(*   migration 00018              the projection, kept by triggers         *)
(*   internal/inbox/reconcile.go  the sweep that repairs it                *)
(*   internal/inbox/inbox.go      one page of the feed, and its cursor     *)
(*   features/inbox/              the phone: pages, refresh, swipe         *)
(*                                                                         *)
(* Every row hangs off a task of its own and is addressed to the viewer.   *)
(***************************************************************************)
EXTENDS Naturals, Sequences, FiniteSets

CONSTANTS Message,    \* ids, which break ties of the ranking
          Kind,       \* [Message -> "decision", "feedback", "assignment" or "task"]
          Due,        \* [Message -> the date its task is due]
          PageLimit,  \* entries of a page
          MaxNow,     \* bound: the clock
          MaxScrolls, \* bound: first pages read
          MaxAsks,    \* bound: pages asked for
          MaxChanges, \* bound: writes to the rows and their tasks
          MaxFaults   \* bound: writes that bypass the trigger, requests that fail

ASSUME MessageAssumption == Message \subseteq Nat /\ IsFiniteSet(Message)

ASSUME RowAssumption ==
  /\ Kind \in [Message -> {"decision", "feedback", "assignment", "task"}]
  /\ Due \in [Message -> Nat]

ASSUME InboxBounds ==
  /\ PageLimit \in Nat \ {0} /\ MaxNow \in Nat /\ MaxScrolls \in Nat
  /\ MaxAsks \in Nat /\ MaxChanges \in Nat /\ MaxFaults \in Nat

VARIABLES
  source,    \* the row: of decisions, of assignments, or a task's state
  ended,     \* the row's task is done, dismissed or halted
  weight,    \* its priority
  created,
  projected, \* inbox_messages, by its resolved_at
  hidden,    \* its dismissed_at
  sweep,     \* the rows a reconciling statement is about to insert
  now,
  feed,      \* InboxFeedController.state
  build,     \* volatile: the first page that was asked for
  more,      \* volatile: further pages that were asked for
  swiping,   \* volatile: dismissals under way
  firm,      \* rows that have been in the feed, unchanged, since a first page was read
  swiped,    \* rows the owner has swiped away
  raced,     \* ... while a page was under way, or without the server's knowing
  scrolls, asks, changes, faults

rows == <<source, ended, weight, created>>
table == <<projected, hidden, sweep>>
phone == <<feed, build, more, swiping>>
ghosts == <<firm, swiped, raced>>
bounds == <<scrolls, asks, changes, faults>>
inboxVars == <<rows, table, now, phone, ghosts, bounds>>

Status == {"none", "open", "closed"}

\* The pinned clock, and the last entry's place in its order; or the beginning, or the end.
Cursor == [now : Nat, score : Nat, id : Message]
Start == [id |-> "start"]
End == [id |-> "end"]

Page == [entries : Seq(Message), next : Cursor \cup {End}, scroll : 0 .. MaxScrolls]
Feed == [entries : Seq(Message), next : Cursor \cup {End}, scroll : 0 .. MaxScrolls,
         loading : BOOLEAN]
Asked == [pc |-> "asked"]
Off == [pc |-> "off"]
Served == [pc : {"served"}, page : Page]

InboxTypeOK ==
  /\ source \in [Message -> Status]
  /\ ended \in [Message -> BOOLEAN]
  /\ weight \in [Message -> 0 .. 1]
  /\ created \in [Message -> 0 .. MaxNow]
  /\ projected \in [Message -> Status]
  /\ hidden \subseteq Message
  /\ sweep \subseteq Message \X {"open", "closed"}
  /\ now \in 0 .. MaxNow
  /\ feed \in Feed
  /\ build \in Served \cup {Asked, Off}
  /\ more \subseteq [base : Feed, answer : Served \cup {Asked}]
  /\ swiping \subseteq Message
  /\ firm \in [1 .. MaxScrolls -> SUBSET Message]
  /\ swiped \subseteq Message /\ raced \subseteq Message
  /\ scrolls \in 0 .. MaxScrolls /\ asks \in 0 .. MaxAsks
  /\ changes \in 0 .. MaxChanges /\ faults \in 0 .. MaxFaults

InboxInit ==
  /\ source \in [Message -> {"none", "open"}]
  /\ ended = [m \in Message |-> FALSE]
  /\ weight = [m \in Message |-> 0]
  /\ created = [m \in Message |-> 0]
  /\ projected = source
  /\ hidden = {} /\ sweep = {}
  /\ now = 0
  /\ feed = [entries |-> <<>>, next |-> End, scroll |-> 0, loading |-> FALSE]
  /\ build = Asked
  /\ more = {}
  /\ swiping = {}
  /\ firm = [n \in 1 .. MaxScrolls |-> {}]
  /\ swiped = {} /\ raced = {}
  /\ scrolls = 0 /\ asks = 0 /\ changes = 0 /\ faults = 0
-----------------------------------------------------------------------------
(* The feed: ListInboxFeed. *)

\* Mutant: what was dismissed is listed.
ListedAnyway(m) ==
  /\ projected[m] = "open"
  /\ Kind[m] \in {"decision", "assignment"} => ~ended[m]
  /\ Kind[m] = "task" => source[m] = "open"

Listed(m) ==
  /\ projected[m] = "open" /\ m \notin hidden
  /\ Kind[m] \in {"decision", "assignment"} => ~ended[m]
  /\ Kind[m] = "task" => source[m] = "open"

\* Priority, a date that has passed, and an age of one day at most.
Score(m, t) ==
  2 * weight[m] + (IF Due[m] < t THEN 2 ELSE 0) + (IF created[m] < t THEN 1 ELSE 0)

\* Mutant: every page is ranked by a clock of its own.
ClockUnpinned(c) == now

\* The clock a page is ranked by: the first page pins it.
Clock(c) == IF c = Start THEN now ELSE c.now

\* (score, id) < (score, id)
Below(m, c) ==
  c # Start =>
    \/ Score(m, Clock(c)) < c.score
    \/ Score(m, Clock(c)) = c.score /\ m < c.id

Above(n, m, t) ==
  Score(n, t) > Score(m, t) \/ (Score(n, t) = Score(m, t) /\ n > m)

\* The pages behind a cursor: what is found there, best first, as far as a page takes it.
\* One that is not full is the last.
PagesAfter(c, scroll) ==
  LET t == Clock(c)
      found == {m \in Message : Listed(m) /\ Below(m, c)}
      Best(e) ==
        /\ \A i, j \in DOMAIN e : i < j => Above(e[i], e[j], t)
        /\ \A m \in found :
             \/ \E i \in DOMAIN e : e[i] = m
             \/ Len(e) = PageLimit /\ Above(e[PageLimit], m, t)
      PageOf(e) ==
        [entries |-> e, scroll |-> scroll,
         next |-> IF Len(e) < PageLimit THEN End
                  ELSE [now |-> t, score |-> Score(e[PageLimit], t), id |-> e[PageLimit]]]
  IN  {PageOf(e) : e \in {e \in UNION {[1 .. n -> found] : n \in 0 .. PageLimit} : Best(e)}}

\* A row that changes is no longer what a scroll has begun with.
Loosen(m) == firm' = [n \in DOMAIN firm |-> firm[n] \ {m}]
-----------------------------------------------------------------------------
(* The rows, and the trigger that projects a write within its transaction. *)

Changes == changes < MaxChanges /\ changes' = changes + 1

\* trg_inbox_project; a write that bypasses it leaves the projection as it is.
Projects(m, status) ==
  \/ projected' = [projected EXCEPT ![m] = status] /\ UNCHANGED faults
  \/ faults < MaxFaults /\ faults' = faults + 1 /\ UNCHANGED projected

Insert(m) ==
  /\ source[m] = "none" /\ Changes
  /\ source' = [source EXCEPT ![m] = "open"]
  /\ created' = [created EXCEPT ![m] = now]
  /\ \E w \in 0 .. 1 : weight' = [weight EXCEPT ![m] = w]
  /\ Projects(m, "open")
  /\ UNCHANGED <<ended, hidden, sweep, now, phone, ghosts, scrolls, asks>>

\* A task that leaves PROPOSED only updates a row that is there; the others upsert.
CloseRow(m) ==
  /\ source[m] = "open" /\ Changes
  /\ source' = [source EXCEPT ![m] = "closed"]
  /\ Projects(m, IF Kind[m] = "task" /\ projected[m] = "none" THEN "none" ELSE "closed")
  /\ Loosen(m)
  /\ UNCHANGED <<ended, weight, created, hidden, sweep, now, phone, swiped, raced, scrolls,
                 asks>>

\* The task of a decision or an assignment ends, which touches neither row.
EndTask(m) ==
  /\ Kind[m] # "task" /\ ~ended[m] /\ Changes
  /\ ended' = [ended EXCEPT ![m] = TRUE]
  /\ Loosen(m)
  /\ UNCHANGED <<source, weight, created, table, now, phone, swiped, raced, scrolls, asks,
                 faults>>

\* updateTaskMetadata
Reprioritise(m) ==
  /\ source[m] = "open" /\ Changes
  /\ weight' = [weight EXCEPT ![m] = 1 - @]
  /\ Loosen(m)
  /\ UNCHANGED <<source, ended, created, table, now, phone, swiped, raced, scrolls, asks,
                 faults>>

Tick ==
  /\ now < MaxNow
  /\ now' = now + 1
  /\ UNCHANGED <<rows, table, phone, ghosts, bounds>>

\* Mutant: only decisions and assignments are inserted.
MissingDecisions ==
  {p \in Message \X {"open", "closed"} :
     source[p[1]] = p[2] /\ projected[p[1]] = "none" /\ Kind[p[1]] # "task"}

\* The rows without a projection, as ReconcileInboxMessages finds them ...
Missing ==
  {p \in Message \X {"open", "closed"} :
     /\ source[p[1]] = p[2] /\ projected[p[1]] = "none"
     /\ Kind[p[1]] = "task" => p[2] = "open"}

Reconcile ==
  /\ sweep = {} /\ Missing # {}
  /\ sweep' = Missing
  /\ UNCHANGED <<rows, projected, hidden, now, phone, ghosts, bounds>>

\* ... and inserts them: one that somebody else has projected meanwhile is left alone.
Repair ==
  /\ sweep # {}
  /\ projected' = [m \in Message |->
       IF projected[m] = "none" /\ (\E s \in Status : <<m, s>> \in sweep)
       THEN CHOOSE s \in Status : <<m, s>> \in sweep ELSE projected[m]]
  /\ sweep' = {}
  /\ UNCHANGED <<rows, hidden, now, phone, ghosts, bounds>>
-----------------------------------------------------------------------------
(* The phone. *)

\* A page that is asked for now may still list what is being dismissed.
Ask ==
  /\ asks < MaxAsks /\ asks' = asks + 1
  /\ raced' = raced \cup swiping

\* refresh: an arrival, a pull or a reconnection; a build under way is dropped.
Refresh ==
  /\ Ask
  /\ build' = Asked
  /\ UNCHANGED <<rows, table, now, feed, more, swiping, firm, swiped, scrolls, changes,
                 faults>>

ServeFirst ==
  /\ build = Asked /\ scrolls < MaxScrolls
  /\ scrolls' = scrolls + 1
  /\ \E page \in PagesAfter(Start, scrolls') : build' = [pc |-> "served", page |-> page]
  /\ firm' = [firm EXCEPT ![scrolls'] = {m \in Message : Listed(m)}]
  /\ UNCHANGED <<rows, table, now, feed, more, swiping, swiped, raced, asks, changes, faults>>

ShowFirst ==
  /\ build.pc = "served"
  /\ feed' = [entries |-> build.page.entries, next |-> build.page.next,
              scroll |-> build.page.scroll, loading |-> FALSE]
  /\ build' = Off
  /\ UNCHANGED <<rows, table, now, more, swiping, ghosts, bounds>>

\* loadMore keeps the list it has started from.
LoadMore ==
  /\ feed.next # End /\ ~feed.loading
  /\ Ask
  /\ more' = more \cup {[base |-> feed, answer |-> Asked]}
  /\ feed' = [feed EXCEPT !.loading = TRUE]
  /\ UNCHANGED <<rows, table, now, build, swiping, firm, swiped, scrolls, changes, faults>>

ServeMore(r) ==
  /\ r.answer = Asked
  /\ \E page \in PagesAfter(r.base.next, r.base.scroll) :
       more' = (more \ {r}) \cup
         {[base |-> r.base, answer |-> [pc |-> "served", page |-> page]]}
  /\ UNCHANGED <<rows, table, now, feed, build, swiping, ghosts, bounds>>

\* The page is appended to that list, whatever is shown by now.
ShowMore(r) ==
  /\ r.answer # Asked
  /\ feed' = [entries |-> r.base.entries \o r.answer.page.entries,
              next |-> r.answer.page.next, scroll |-> r.answer.page.scroll, loading |-> FALSE]
  /\ more' = more \ {r}
  /\ UNCHANGED <<rows, table, now, build, swiping, ghosts, bounds>>

FirstFails ==
  /\ build = Asked /\ faults < MaxFaults
  /\ faults' = faults + 1
  /\ build' = Off
  /\ UNCHANGED <<rows, table, now, feed, more, swiping, ghosts, scrolls, asks, changes>>

\* loadMore, the catch: back to the list it has started from.
MoreFails(r) ==
  /\ r.answer = Asked /\ faults < MaxFaults
  /\ faults' = faults + 1
  /\ feed' = r.base
  /\ more' = more \ {r}
  /\ UNCHANGED <<rows, table, now, build, swiping, ghosts, scrolls, asks, changes>>

\* The ways to number a set of positions from the first to the last.
Orders(S) ==
  {f \in [1 .. Cardinality(S) -> S] :
     \A i, j \in 1 .. Cardinality(S) : i < j => f[i] < f[j]}

\* removeEntry, and the dismissal that is sent after it.
Swipe(m) ==
  /\ \E i \in DOMAIN feed.entries : feed.entries[i] = m
  /\ m \notin swiping
  /\ \E f \in Orders({i \in DOMAIN feed.entries : feed.entries[i] # m}) :
       feed' = [feed EXCEPT !.entries = [k \in DOMAIN f |-> feed.entries[f[k]]]]
  /\ swiping' = swiping \cup {m}
  /\ swiped' = swiped \cup {m}
  /\ raced' = IF build = Off /\ more = {} THEN raced ELSE raced \cup {m}
  /\ UNCHANGED <<rows, table, now, build, more, firm, bounds>>

\* DismissInboxMessage
Dismiss(m) ==
  /\ m \in swiping
  /\ hidden' = hidden \cup {m}
  /\ swiping' = swiping \ {m}
  /\ Loosen(m)
  /\ UNCHANGED <<rows, projected, sweep, now, feed, build, more, swiped, raced, bounds>>

\* The phone is told that it has failed and does nothing about it.
DismissFails(m) ==
  /\ m \in swiping /\ faults < MaxFaults
  /\ faults' = faults + 1
  /\ swiping' = swiping \ {m}
  /\ raced' = raced \cup {m}
  /\ UNCHANGED <<rows, table, now, feed, build, more, firm, swiped, scrolls, asks, changes>>

RowStep(m) == Insert(m) \/ CloseRow(m) \/ EndTask(m) \/ Reprioritise(m)

InboxNext ==
  \/ \E m \in Message : RowStep(m) \/ Swipe(m) \/ Dismiss(m) \/ DismissFails(m)
  \/ Tick \/ Reconcile \/ Repair
  \/ Refresh \/ ServeFirst \/ ShowFirst \/ FirstFails \/ LoadMore
  \/ \E r \in more : ServeMore(r) \/ ShowMore(r) \/ MoreFails(r)

InboxSpec == InboxInit /\ [][InboxNext]_inboxVars

\* The schedule of the sweep.
InboxFairSpec == InboxSpec /\ WF_inboxVars(Reconcile) /\ WF_inboxVars(Repair)
-----------------------------------------------------------------------------
(* Properties. *)

\* The scroll has come past a row of this score at the clock it has begun with.
Passed(m, c) ==
  c # End => ~(Score(m, c.now) < c.score \/ (Score(m, c.now) = c.score /\ m < c.id))

Times(m) == Cardinality({i \in DOMAIN feed.entries : feed.entries[i] = m})

\* However many pages it is read in, and whatever arrives, ends, is dismissed or moves up
\* and down meanwhile, a scroll shows every row that has stayed as it was since the first
\* page exactly once as far as it has come, in the order of that page's clock.
ScrollIsWhole ==
  feed.scroll # 0 =>
    \A m \in firm[feed.scroll] :
      /\ Times(m) <= 1
      /\ m \notin swiped => (Times(m) = 1 <=> Passed(m, feed.next))

\* What the owner has swiped away stays away, unless a page was under way when he did,
\* or before the server knew, or the server has never been told.
SwipedStaysAway ==
  \A m \in swiped \ raced : Times(m) = 0

\* Whatever writes have bypassed the trigger, an open row gets into the feed.
OpenRowsAreListed ==
  \A m \in Message :
    source[m] = "open" /\ m \notin hidden /\ ~ended[m]
      ~> Listed(m) \/ source[m] # "open" \/ m \in hidden \/ ended[m]
=============================================================================
