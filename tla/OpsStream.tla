------------------------------ MODULE OpsStream ------------------------------
(***************************************************************************)
(* The event stream of the ops panel: publishers write events to the       *)
(* ops_events table and to a broadcast channel (src/src/ops.rs), and       *)
(* get_ops_stream (src/src/app_api.rs) serves them to a panel, which       *)
(* resumes after Last-Event-ID when its connection breaks.                 *)
(*                                                                         *)
(* The panel is the browser's EventSource as src/web/src/App.tsx uses it:  *)
(* it remembers the id of the last event of any kind and sends it when it  *)
(* connects again.  Panels share nothing but the table and the channel, in *)
(* which each has a place of its own, so one panel stands for all.         *)
(***************************************************************************)
EXTENDS Integers, Sequences, FiniteSets, Functions

CONSTANTS
  Publishers,   \* tasks that publish at the same time
  Window,       \* ops_sse_replay_window_seconds, in ticks of the clock
  Retention,    \* ops_log_retention_days, in ticks; 0 keeps every row
  Capacity,     \* what the broadcast channel keeps for a slow receiver (512)
  ReplayLimit,  \* the LIMIT of the replay query (2000)
  DbMayFail,    \* the database may refuse a statement
  MayCancel,    \* a publisher may be an HTTP handler that is dropped
  MaxEvents,    \* bound: events stored, see Room
  MaxClock      \* bound: ticks of the clock

ASSUME StreamAssumption ==
  /\ Window \in Nat \ {0} /\ Retention \in Nat
  /\ Capacity \in Nat \ {0} /\ ReplayLimit \in Nat \ {0}
  /\ DbMayFail \in BOOLEAN /\ MayCancel \in BOOLEAN
  /\ MaxEvents \in Nat /\ MaxClock \in Nat

VARIABLES
  clock,      \* the time, in ticks
  stamp,      \* the ts of every event ever stored; an event's id is its index
  rows,       \* ids of the rows in ops_events
  unsent,     \* ids of rows whose publisher was dropped: they are never sent
  pub,        \* what each publisher is doing
  resume,     \* the panel's Last-Event-ID
  conn,       \* the panel's connection
  got         \* history: what the connection has and has not been given

vars == <<clock, stamp, rows, unsent, pub, resume, conn, got>>

\* No id: an absent header or item.
NoId == -1

Publisher == [at : {"idle", "stamped", "dropped", "stored"}, ts : Nat, id : Nat]
Idle == [at |-> "idle", ts |-> 0, id |-> 0]

(***************************************************************************)
(* A connection: the handler has read the cursor ("opened"), found that    *)
(* the header can be resumed from ("checked"), knows what it will replay   *)
(* ("looked"), has subscribed and returned the stream ("live").            *)
(* outbox is the rest of the initial replay, buf what the channel keeps    *)
(* for the receiver, hello and metric the ids of items not yet received.   *)
(***************************************************************************)
Phases == {"closed", "opened", "checked", "looked", "live"}
Modes  == {"fresh", "resumed", "reset"}
Conn == [phase : Phases, mode : Modes, sent : Nat \cup {NoId}, cutoff : Int,
         hello : Nat \cup {NoId}, outbox : SUBSET Nat, buf : Seq(Nat),
         metric : Nat \cup {NoId}]
NoConn == [phase |-> "closed", mode |-> "fresh", sent |-> NoId, cutoff |-> 0,
           hello |-> NoId, outbox |-> {}, buf |-> << >>, metric |-> NoId]

(***************************************************************************)
(* The history of a connection: the newest id stored when the replay was   *)
(* read and the newest sent when the channel was joined, the stored event  *)
(* received last, all of them, the events the channel dropped, those the   *)
(* LIMIT cut off or the clean-up deleted after the header was checked,     *)
(* those deleted before that check, and whether the replay was refused.    *)
(***************************************************************************)
History == [read : Nat, joined : Nat, last : Nat, shown : SUBSET Nat,
            dropped : SUBSET Nat, cut : SUBSET Nat, gone : SUBSET Nat,
            refused : BOOLEAN]
Nothing == [read |-> 0, joined |-> 0, last |-> 0, shown |-> {},
            dropped |-> {}, cut |-> {}, gone |-> {}, refused |-> FALSE]

Stored == DOMAIN stamp
Newest == Len(stamp)

Init ==
  /\ clock = 0
  /\ stamp = << >>
  /\ rows = {}
  /\ unsent = {}
  /\ pub = [p \in Publishers |-> Idle]
  /\ resume = NoId
  /\ conn = NoConn
  /\ got = Nothing

-----------------------------------------------------------------------------
(***************************************************************************)
(* Publishers: publish_event_with_ts, and the clean-up of old rows.        *)
(***************************************************************************)

\* The bound: every publisher that has taken its time stamp can store its event.
Room == Newest + Cardinality({p \in Publishers : pub[p].at \in {"stamped", "dropped"}}) < MaxEvents

\* The time stamp is taken before the publish lock is asked for.
Stamp(p) ==
  /\ pub[p].at = "idle"
  /\ Room
  /\ pub' = [pub EXCEPT ![p] = [at |-> "stamped", ts |-> clock, id |-> 0]]
  /\ UNCHANGED <<clock, stamp, rows, unsent, resume, conn, got>>

\* Mutant: no publish lock.
StoreUnlocked(p) ==
  /\ pub[p].at = "stamped"
  /\ stamp' = Append(stamp, pub[p].ts)
  /\ rows' = rows \cup {Newest + 1}
  /\ pub' = [pub EXCEPT ![p] = [at |-> "stored", ts |-> 0, id |-> Newest + 1]]
  /\ UNCHANGED <<clock, unsent, resume, conn, got>>

\* Mutant: the id is handed out although the row was rolled back.
StoreRolledBack(p) ==
  /\ pub[p].at = "stamped"
  /\ \A q \in Publishers : pub[q].at # "stored"
  /\ rows' = rows \cup {Newest + 1}
  /\ pub' = [pub EXCEPT ![p] = [at |-> "stored", ts |-> 0, id |-> Newest + 1]]
  /\ UNCHANGED <<clock, stamp, unsent, resume, conn, got>>

\* The lock is free: the row is inserted under it.  Ids are never used again
\* (AUTOINCREMENT).
Store(p) ==
  /\ pub[p].at = "stamped"
  /\ \A q \in Publishers : pub[q].at # "stored"
  /\ stamp' = Append(stamp, pub[p].ts)
  /\ rows' = rows \cup {Newest + 1}
  /\ pub' = [pub EXCEPT ![p] = [at |-> "stored", ts |-> 0, id |-> Newest + 1]]
  /\ UNCHANGED <<clock, unsent, resume, conn, got>>

\* The INSERT is refused, or the publisher is dropped before it is sent to the
\* database.
Refuse(p) ==
  /\ DbMayFail \/ MayCancel
  /\ pub[p].at = "stamped"
  /\ pub' = [pub EXCEPT ![p] = Idle]
  /\ UNCHANGED <<clock, stamp, rows, unsent, resume, conn, got>>

\* Mutant: the receiver is made before the replay is read.
SubscribedEarly == conn.phase # "closed"

\* The handler has a receiver.
Subscribed == conn.phase = "live"

\* The channel keeps the newest Capacity events for a receiver; the one that
\* is overwritten is what Lagged stands for, which the stream ignores.
PushTo(id) ==
  IF Len(conn.buf) < Capacity
  THEN /\ conn' = [conn EXCEPT !.buf = Append(@, id)]
       /\ UNCHANGED got
  ELSE /\ conn' = [conn EXCEPT !.buf = Append(Tail(@), id)]
       /\ got' = [got EXCEPT !.dropped = @ \cup {Head(conn.buf)}]

\* tx.send, and the lock is released.
Send(p) ==
  /\ pub[p].at = "stored"
  /\ IF Subscribed THEN PushTo(pub[p].id) ELSE UNCHANGED <<conn, got>>
  /\ pub' = [pub EXCEPT ![p] = Idle]
  /\ UNCHANGED <<clock, stamp, rows, unsent, resume>>

\* The publisher is an HTTP handler whose client disconnects while it waits
\* for the INSERT: the lock is released at once.
Abandon(p) ==
  /\ MayCancel
  /\ pub[p].at = "stamped"
  /\ \A q \in Publishers : pub[q].at # "stored"
  /\ pub' = [pub EXCEPT ![p].at = "dropped"]
  /\ UNCHANGED <<clock, stamp, rows, unsent, resume, conn, got>>

\* The database still carries out the INSERT nobody waits for, whoever holds
\* the lock by now.
StoreAbandoned(p) ==
  /\ pub[p].at = "dropped"
  /\ stamp' = Append(stamp, pub[p].ts)
  /\ rows' = rows \cup {Newest + 1}
  /\ unsent' = unsent \cup {Newest + 1}
  /\ pub' = [pub EXCEPT ![p] = Idle]
  /\ UNCHANGED <<clock, resume, conn, got>>

\* cleanup_ops deletes the rows of events older than the retention.
Cleanup ==
  /\ Retention # 0
  /\ \E i \in rows : stamp[i] < clock - Retention
  /\ rows' = {i \in rows : stamp[i] >= clock - Retention}
  /\ got' = IF conn.phase = "checked"
            THEN [got EXCEPT !.cut = @ \cup (rows \ rows')]
            ELSE got
  /\ UNCHANGED <<clock, stamp, unsent, pub, resume, conn>>

Tick ==
  /\ clock < MaxClock
  /\ clock' = clock + 1
  /\ UNCHANGED <<stamp, rows, unsent, pub, resume, conn, got>>

-----------------------------------------------------------------------------
(***************************************************************************)
(* The handler, up to the stream it returns.                               *)
(***************************************************************************)

\* cursor_id: the greatest id in the table, 0 when it is empty or cannot be read.
IsCursor(m) ==
  \/ m \in rows \cup {0} /\ \A i \in rows : i <= m
  \/ m = 0 /\ DbMayFail

\* The cutoff of the replay window is computed, then the cursor is read.
Open ==
  /\ conn.phase = "closed"
  /\ \E m \in rows \cup {0} :
       /\ IsCursor(m)
       /\ conn' = [NoConn EXCEPT !.phase = "opened", !.sent = resume,
                                 !.cutoff = clock - Window, !.hello = m]
  /\ UNCHANGED <<clock, stamp, rows, unsent, pub, resume, got>>

\* Mutant: every positive id is resumed from.
ResumableAnyway == conn.sent > 0

\* min_replay_id_since: the oldest row in the window is not after the header's id.
Resumable == conn.sent > 0 /\ \E j \in rows : j <= conn.sent /\ stamp[j] >= conn.cutoff

\* The n smallest members of S (ORDER BY id ASC LIMIT n).
Oldest(S, n) == {i \in S : Cardinality({j \in S : j <= i}) <= n}

\* replay_since without its LIMIT.
Replayable == {i \in rows : i > conn.sent /\ stamp[i] >= conn.cutoff}

\* There is no header: nothing is replayed.
LookFresh ==
  /\ conn.phase = "opened"
  /\ conn.sent = NoId
  /\ conn' = [conn EXCEPT !.phase = "looked"]
  /\ UNCHANGED <<clock, stamp, rows, unsent, pub, resume, got>>

\* The header can be resumed from.
LookResumed ==
  /\ conn.phase = "opened"
  /\ Resumable
  /\ conn' = [conn EXCEPT !.phase = "checked", !.mode = "resumed"]
  /\ got' = [got EXCEPT !.gone = Stored \ rows]
  /\ UNCHANGED <<clock, stamp, rows, unsent, pub, resume>>

\* replay_since.  A query that fails replays nothing, and no reset says so.
ReadReplay ==
  /\ conn.phase = "checked"
  /\ \/ /\ conn' = [conn EXCEPT !.phase = "looked",
                                !.outbox = Oldest(Replayable, ReplayLimit)]
        /\ got' = [got EXCEPT !.read = Newest,
                              !.cut = @ \cup (Replayable \ Oldest(Replayable, ReplayLimit))]
     \/ /\ DbMayFail
        /\ conn' = [conn EXCEPT !.phase = "looked"]
        /\ got' = [got EXCEPT !.read = Newest, !.refused = TRUE]
  /\ UNCHANGED <<clock, stamp, rows, unsent, pub, resume>>

\* The header is not a positive id, or it is too old, or that cannot be told.
LookReset ==
  /\ conn.phase = "opened"
  /\ conn.sent # NoId
  /\ ~Resumable \/ DbMayFail
  /\ conn' = [conn EXCEPT !.phase = "looked", !.mode = "reset"]
  /\ UNCHANGED <<clock, stamp, rows, unsent, pub, resume, got>>

\* Stored events that are still to be sent.
InFlight == {pub[p].id : p \in {q \in Publishers : pub[q].at = "stored"}}

\* subscribe, and the response is returned.  An event in flight will reach the
\* new receiver, one that was sent will not.
Subscribe ==
  /\ conn.phase = "looked"
  /\ conn' = [conn EXCEPT !.phase = "live"]
  /\ \E j \in 0 .. Newest :
       /\ IF InFlight = {} THEN j = Newest ELSE j + 1 \in InFlight
       /\ got' = [got EXCEPT !.joined = j]
  /\ UNCHANGED <<clock, stamp, rows, unsent, pub, resume>>

-----------------------------------------------------------------------------
(***************************************************************************)
(* The panel receives the items of a live stream in the order the stream   *)
(* yields them: hello and the first metrics with the cursor's id, the      *)
(* reset or the replay, then the channel; metrics come in between.         *)
(***************************************************************************)

ReceiveHello ==
  /\ conn.phase = "live"
  /\ conn.hello # NoId
  /\ resume' = conn.hello
  /\ conn' = [conn EXCEPT !.hello = NoId]
  /\ UNCHANGED <<clock, stamp, rows, unsent, pub, got>>

Greeted == conn.phase = "live" /\ conn.hello = NoId

\* onReset: the panel closes the connection, loads a snapshot and makes a new
\* EventSource, which sends no header.
ReceiveReset ==
  /\ Greeted
  /\ conn.mode = "reset"
  /\ resume' = NoId
  /\ conn' = NoConn
  /\ got' = Nothing
  /\ UNCHANGED <<clock, stamp, rows, unsent, pub>>

Receive(i) ==
  /\ resume' = i
  /\ got' = [got EXCEPT !.last = i, !.shown = @ \cup {i}]
  /\ UNCHANGED <<clock, stamp, rows, unsent, pub>>

ReceiveReplay ==
  /\ Greeted
  /\ \E i \in conn.outbox :
       /\ \A j \in conn.outbox : i <= j
       /\ conn' = [conn EXCEPT !.outbox = @ \ {i}]
       /\ Receive(i)

ReceiveUpdate ==
  /\ Greeted
  /\ conn.mode # "reset"
  /\ conn.outbox = {}
  /\ conn.buf # << >>
  /\ conn' = [conn EXCEPT !.buf = Tail(@)]
  /\ Receive(Head(conn.buf))

\* Every five seconds the stream reads the cursor for a metrics event; other
\* items may be received before that event is.
ReadMetrics ==
  /\ Greeted
  /\ conn.metric = NoId
  /\ \E m \in rows \cup {0} : IsCursor(m) /\ conn' = [conn EXCEPT !.metric = m]
  /\ UNCHANGED <<clock, stamp, rows, unsent, pub, resume, got>>

ReceiveMetrics ==
  /\ Greeted
  /\ conn.metric # NoId
  /\ resume' = conn.metric
  /\ conn' = [conn EXCEPT !.metric = NoId]
  /\ UNCHANGED <<clock, stamp, rows, unsent, pub, got>>

\* The connection breaks, or the process restarts; EventSource will connect
\* again with the id it remembers.
Disconnect ==
  /\ conn.phase # "closed"
  /\ conn' = NoConn
  /\ got' = Nothing
  /\ UNCHANGED <<clock, stamp, rows, unsent, pub, resume>>

\* The page is loaded anew or the range changed: a new EventSource.
Reload ==
  /\ resume # NoId
  /\ resume' = NoId
  /\ conn' = NoConn
  /\ got' = Nothing
  /\ UNCHANGED <<clock, stamp, rows, unsent, pub>>

-----------------------------------------------------------------------------
Publish(p) ==
  \/ Stamp(p) \/ Store(p) \/ Refuse(p) \/ Send(p)
  \/ Abandon(p) \/ StoreAbandoned(p)

Handler ==
  \/ Open
  \/ LookFresh \/ LookResumed \/ ReadReplay \/ LookReset
  \/ Subscribe

Panel ==
  \/ ReceiveHello \/ ReceiveReset \/ ReceiveReplay \/ ReceiveUpdate
  \/ ReadMetrics \/ ReceiveMetrics
  \/ Disconnect \/ Reload

Next ==
  \/ \E p \in Publishers : Publish(p)
  \/ Cleanup \/ Tick
  \/ Handler
  \/ Panel

Spec == Init /\ [][Next]_vars
-----------------------------------------------------------------------------
(***************************************************************************)
(* Properties.                                                             *)
(***************************************************************************)

\* The variables hold values of the types the code declares (StoredOpsEvent,
\* the locals of publish_event_with_ts and get_ops_stream).
TypeOK ==
  /\ clock \in Nat
  /\ stamp \in Seq(Nat)
  /\ rows \subseteq Stored
  /\ unsent \subseteq Stored
  /\ pub \in [Publishers -> Publisher]
  /\ resume \in Nat \cup {NoId}
  /\ conn \in Conn
  /\ got \in History

\* The stored events of one connection arrive in the order of their ids, the
\* replay before the channel: the publish lock makes the order of the channel
\* that of the table.  Only a replayed row that its dropped publisher never sent
\* can be ahead of its turn: the event in flight at the time may have a smaller
\* id.
StoredEventsInOrder ==
  [][conn.phase = "live" /\ conn'.phase = "live" =>
       got'.last >= got.last \/ got.last \in unsent]_vars

\* At most one event comes twice on a connection: the one that was stored but
\* not yet sent when the handler subscribed.  Everything else the channel holds
\* is neither replayed nor received already.
OneRepeatAtMost ==
  conn.phase = "live" =>
    Range(conn.buf) \cap (conn.outbox \cup got.shown) \subseteq {got.joined + 1}

\* Where the connection begins: after the header's id when it was resumed,
\* else where the channel was joined.
From == IF conn.mode = "resumed" THEN conn.sent ELSE got.joined

\* What the channel has or will have for the handler's receiver.
Coming == Range(conn.buf) \cup InFlight

\* The panel was given a later event than i, but not i, and it is not coming.
Skipped(i) ==
  /\ From < i
  /\ \E j \in got.shown : i < j
  /\ i \notin got.shown \cup Coming

\* i was stamped before an event with a smaller id.
LateStore(i) == \E j \in 1 .. (i - 1) : stamp[j] > stamp[i]

\* i is not in the replay although it is after the header's id: its time stamp
\* is older than its place in the table, and outside the replay window or so
\* old that it had been deleted when the header was checked.
FellOut(i) == LateStore(i) /\ (stamp[i] < conn.cutoff \/ i \in got.gone)

\* An event a connection has skipped was sent between the read of the replay
\* and the subscription; was overwritten in the channel; was cut off by the
\* LIMIT or deleted between the check of the header and the replay; was never
\* sent; was stored before a replay query that the database refused, which
\* the handler takes for an empty replay; or fell out of the replay.  There is
\* no seventh way: a header too old for a whole replay is always answered with
\* a reset.
EveryLossExplained ==
  conn.phase = "live" =>
    \A i \in Stored : Skipped(i) =>
      \/ got.read < i /\ i <= got.joined
      \/ i \in got.dropped
      \/ i \in got.cut
      \/ i \in unsent
      \/ got.refused /\ i <= got.read
      \/ FellOut(i)

\* Delivery is at least once
\* (docs/specs/ynjyv-ops-collection-dashboard/contracts/events.md:6).
NoEventSkipped ==
  conn.phase = "live" /\ conn.mode = "resumed" => \A i \in Stored : ~Skipped(i)
=============================================================================
