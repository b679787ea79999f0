--------------------------- MODULE OpsStreamProofs ---------------------------
(***************************************************************************)
(* Proofs about the ops event stream, for any number of publishers, any    *)
(* window, retention, channel capacity and replay limit, with or without   *)
(* refused statements and dropped publishers.                              *)
(***************************************************************************)
EXTENDS OpsStream, TLAPS

\* A header that is resumed from is an id.
SentIsId == conn.phase = "checked" => conn.sent \in Nat

\* A publisher that has stored its event holds the publish lock: there is at
\* most one, and the events after its own are rows of dropped publishers.
OneWriter ==
  \A p \in Publishers : pub[p].at = "stored" =>
    /\ pub[p].id \in Stored \ unsent
    /\ \A i \in Stored : pub[p].id < i => i \in unsent
    /\ \A q \in Publishers : pub[q].at = "stored" => q = p

\* Nothing is in the channel or received before the handler has subscribed, and
\* nothing read before the header was checked.
Quiet ==
  /\ conn.phase # "live" =>
       conn.buf = << >> /\ got.shown = {} /\ got.last = 0 /\ got.dropped = {}
  /\ conn.phase \in {"closed", "opened"} => got.read = 0

Increasing(s) == \A i, j \in 1 .. Len(s) : i < j => s[i] < s[j]

\* What is coming is in order and was not sent before the handler subscribed.
InLine ==
  /\ Increasing(conn.buf)
  /\ \A x \in Range(conn.buf), y \in InFlight : x < y
  /\ \A y \in Coming : y \in Stored \ unsent /\ got.joined < y
  /\ got.joined \in Stored \cup {0}

\* What has been received or is left of the replay is before what is coming,
\* save for rows that were never sent, and for the event that was in flight
\* when the handler subscribed.
Behind ==
  \A y \in Coming, x \in conn.outbox \cup got.shown :
    x < y \/ x \in unsent \/ (x = y /\ y = got.joined + 1)

\* What has been received is before what is left of the replay.
ReplayInOrder ==
  /\ \A x \in got.shown, y \in conn.outbox : x < y
  /\ got.last \in got.shown \cup {0}

InPlace == InLine /\ Behind /\ ReplayInOrder

Ordered == conn.phase = "live" => InPlace

\* A deleted event is older than every row before it: the clean-up goes by
\* the time stamp.
DeletedAreOlder ==
  \A i \in Stored \ rows, j \in rows : j < i => stamp[j] > stamp[i]

\* Between the check of the header and the replay: an event of the window was
\* stored at or before the header's id, and what has been deleted after that id
\* was deleted since the check, or before it and had been stored late.
HeaderChecked ==
  conn.phase = "checked" =>
    /\ \E j \in Stored : j <= conn.sent /\ stamp[j] >= conn.cutoff
    /\ \A i \in Stored \ rows : conn.sent < i =>
         i \in got.cut \/ (LateStore(i) /\ i \in got.gone)

\* What was stored when the replay was read is in it, unless the query was
\* refused, the LIMIT cut it off, it was deleted meanwhile, or it fell out.
Replayed ==
  conn.mode = "resumed" =>
    /\ got.read <= Newest
    /\ \A i \in Stored : conn.sent < i /\ i <= got.read =>
         i \in conn.outbox \cup got.shown \cup got.cut \/ got.refused \/ FellOut(i)

\* What was stored after the newest event sent before the handler subscribed is
\* coming, received, overwritten, or never sent.
Forwarded ==
  conn.phase = "live" =>
    \A i \in Stored : got.joined < i =>
      i \in Coming \cup got.shown \cup got.dropped \cup unsent

Places == Quiet /\ conn.outbox \cup got.shown \subseteq Stored /\ Ordered

OrderInv == TypeOK /\ SentIsId /\ OneWriter /\ Places

LossInv == OrderInv /\ DeletedAreOlder /\ HeaderChecked /\ Replayed /\ Forwarded
-----------------------------------------------------------------------------
(***************************************************************************)
(* Sequences.                                                              *)
(***************************************************************************)

\* tx.send: the new event is at the end of what the channel holds.
LEMMA Appended ==
  ASSUME NEW s \in Seq(Nat), NEW x \in Nat
  PROVE  /\ Append(s, x) \in Seq(Nat)
         /\ Len(Append(s, x)) = Len(s) + 1
         /\ \A i \in 1 .. Len(s) : Append(s, x)[i] = s[i]
         /\ Range(Append(s, x)) = Range(s) \cup {x}
         /\ Increasing(s) /\ (\A y \in Range(s) : y < x) => Increasing(Append(s, x))
<1>1. /\ Append(s, x) \in Seq(Nat)
      /\ Len(Append(s, x)) = Len(s) + 1
      /\ DOMAIN Append(s, x) = 1 .. Len(s) + 1
      /\ \A i \in 1 .. Len(s) : Append(s, x)[i] = s[i]
      /\ Append(s, x)[Len(s) + 1] = x
      /\ DOMAIN s = 1 .. Len(s)
      /\ Len(s) \in Nat
      /\ \A i \in 1 .. Len(s) : s[i] \in Nat
  OBVIOUS
<1>2. Range(Append(s, x)) = Range(s) \cup {x}
  <2>1. \A y \in Range(Append(s, x)) : y \in Range(s) \cup {x}
    BY <1>1 DEF Range
  <2>2. \A y \in Range(s) : y \in Range(Append(s, x))
    BY <1>1 DEF Range
  <2>3. x \in Range(Append(s, x))
    <3>1. Len(s) + 1 \in DOMAIN Append(s, x)
      BY <1>1
    <3> QED BY <1>1, <3>1 DEF Range
  <2> QED BY <2>1, <2>2, <2>3
<1>3. ASSUME Increasing(s), \A y \in Range(s) : y < x PROVE Increasing(Append(s, x))
  <2>1. \A i \in 1 .. Len(s) : s[i] < x
    BY <1>1, <1>3 DEF Range
  <2> QED BY <1>1, <1>3, <2>1 DEF Increasing
<1> QED BY <1>1, <1>2, <1>3

\* rx.recv: what is taken is in front of what is left.
LEMMA Received ==
  ASSUME NEW s \in Seq(Nat), s # << >>
  PROVE  /\ Head(s) \in Nat
         /\ Tail(s) \in Seq(Nat)
         /\ Range(s) = Range(Tail(s)) \cup {Head(s)}
         /\ Increasing(s) => Increasing(Tail(s)) /\ \A y \in Range(Tail(s)) : Head(s) < y
<1>1. /\ Head(s) \in Nat
      /\ Tail(s) \in Seq(Nat)
      /\ Head(s) = s[1]
      /\ Len(s) \in Nat \ {0}
      /\ Len(Tail(s)) = Len(s) - 1
      /\ DOMAIN s = 1 .. Len(s)
      /\ DOMAIN Tail(s) = 1 .. Len(s) - 1
      /\ \A i \in 1 .. Len(s) - 1 : Tail(s)[i] = s[i + 1]
  OBVIOUS
<1>2. Range(s) = Range(Tail(s)) \cup {Head(s)}
  <2>1. \A y \in Range(Tail(s)) : y \in Range(s)
    BY <1>1 DEF Range
  <2>2. Head(s) \in Range(s)
    BY <1>1 DEF Range
  <2>3. ASSUME NEW y \in Range(s), y # Head(s) PROVE y \in Range(Tail(s))
    <3>1. PICK i \in 1 .. Len(s) : y = s[i]
      BY <1>1, <2>3 DEF Range
    <3>2. i - 1 \in 1 .. Len(s) - 1 /\ Tail(s)[i - 1] = y
      BY <1>1, <2>3, <3>1
    <3> QED BY <1>1, <3>2 DEF Range
  <2> QED BY <2>1, <2>2, <2>3
<1>3. ASSUME Increasing(s)
      PROVE  Increasing(Tail(s)) /\ \A y \in Range(Tail(s)) : Head(s) < y
  <2>1. Increasing(Tail(s))
    BY <1>1, <1>3 DEF Increasing
  <2>2. \A i \in 1 .. Len(s) - 1 : s[1] < s[i + 1]
    BY <1>1, <1>3 DEF Increasing
  <2> QED BY <1>1, <2>1, <2>2 DEF Range
<1> QED BY <1>1, <1>2, <1>3

\* The LIMIT keeps a part of what it is given.
LEMMA OldestIsPart == \A S, n : Oldest(S, n) \subseteq S
  BY DEF Oldest

-----------------------------------------------------------------------------
(***************************************************************************)
(* Types.                                                                  *)
(***************************************************************************)

LEMMA InitType == Init => TypeOK
  BY DEF Init, TypeOK, Publisher, Idle, Conn, NoConn, Phases, Modes, NoId, History, Nothing, Stored

\* What the channel holds after a push, whether it was full or not.
LEMMA Pushed ==
  ASSUME TypeOK, NEW id \in Nat, PushTo(id)
  PROVE  \E b \in Seq(Nat) :
           /\ conn' = [conn EXCEPT !.buf = Append(b, id)]
           /\ \/ b = conn.buf /\ got' = got
              \/ /\ conn.buf # << >> /\ b = Tail(conn.buf)
                 /\ got' = [got EXCEPT !.dropped = @ \cup {Head(conn.buf)}]
<1>1. conn.buf \in Seq(Nat)
  BY DEF TypeOK, Conn
<1>2. CASE Len(conn.buf) < Capacity
  BY <1>1, <1>2 DEF PushTo
<1>3. CASE ~(Len(conn.buf) < Capacity)
  <2>1. conn.buf # << >>
    BY <1>1, <1>3, StreamAssumption
  <2> QED BY <1>1, <1>3, <2>1, Received DEF PushTo
<1> QED BY <1>2, <1>3

LEMMA TypeStep == TypeOK /\ SentIsId /\ [Next]_vars => TypeOK'
<1> SUFFICES ASSUME TypeOK, SentIsId, [Next]_vars PROVE TypeOK'
  OBVIOUS
<1>0. conn \in Conn /\ got \in History /\ conn.buf \in Seq(Nat) /\ conn.hello \in Nat \cup {NoId}
  BY DEF TypeOK, Conn
<1>a. rows \subseteq Nat /\ Newest \in Nat
  BY DEF TypeOK, Stored, Newest
<1> USE DEF TypeOK, Stored
<1>1. ASSUME NEW p \in Publishers, Stamp(p) PROVE TypeOK'
  BY <1>1 DEF Stamp, Publisher
<1>2. ASSUME NEW p \in Publishers, Store(p) PROVE TypeOK'
  <2>1. stamp' = Append(stamp, pub[p].ts) /\ pub[p].ts \in Nat
    BY <1>2 DEF Store, Publisher
  <2>2. stamp' \in Seq(Nat) /\ Newest \in Nat /\ DOMAIN stamp' = DOMAIN stamp \cup {Newest + 1}
    BY <2>1, Appended DEF Newest
  <2>3. rows' \subseteq Stored' /\ unsent' \subseteq Stored'
    BY <1>2, <2>2 DEF Store
  <2>4. pub' \in [Publishers -> Publisher]
    BY <1>2, <2>2 DEF Store, Publisher
  <2> QED BY <1>2, <2>2, <2>3, <2>4 DEF Store
<1>3. ASSUME NEW p \in Publishers, Refuse(p) PROVE TypeOK'
  BY <1>3 DEF Refuse, Idle, Publisher
<1>4. ASSUME NEW p \in Publishers, Send(p) PROVE TypeOK'
  <2>1. pub' \in [Publishers -> Publisher]
    BY <1>4 DEF Send, Idle, Publisher
  <2>2. pub[p].id \in Nat
    BY DEF Publisher
  <2>3. CASE ~Subscribed
    BY <1>4, <2>1, <2>3 DEF Send
  <2>4. CASE Subscribed
    <3>1. PICK b \in Seq(Nat) :
            /\ conn' = [conn EXCEPT !.buf = Append(b, pub[p].id)]
            /\ \/ b = conn.buf /\ got' = got
               \/ /\ conn.buf # << >> /\ b = Tail(conn.buf)
                  /\ got' = [got EXCEPT !.dropped = @ \cup {Head(conn.buf)}]
      BY <1>4, <2>2, <2>4, Pushed DEF Send
    <3>2. Append(b, pub[p].id) \in Seq(Nat)
      BY <2>2, Appended
    <3>3. conn' \in Conn
      BY <1>0, <3>1, <3>2 DEF Conn
    <3>4. conn.buf # << >> => Head(conn.buf) \in Nat
      BY <1>0, Received
    <3>5. conn.buf # << >> => got.dropped \cup {Head(conn.buf)} \subseteq Nat
      BY <1>0, <3>4 DEF History
    <3>6. got' \in History
      BY <1>0, <3>1, <3>5 DEF History
    <3> QED BY <1>4, <2>1, <3>3, <3>6 DEF Send
  <2> QED BY <2>3, <2>4
<1>5. ASSUME NEW p \in Publishers, Abandon(p) PROVE TypeOK'
  BY <1>5 DEF Abandon, Publisher
<1>23. ASSUME NEW p \in Publishers, StoreAbandoned(p) PROVE TypeOK'
  <2>1. stamp' = Append(stamp, pub[p].ts) /\ pub[p].ts \in Nat
    BY <1>23 DEF StoreAbandoned, Publisher
  <2>2. stamp' \in Seq(Nat) /\ Newest \in Nat /\ DOMAIN stamp' = DOMAIN stamp \cup {Newest + 1}
    BY <2>1, Appended DEF Newest
  <2>3. rows' \subseteq Stored' /\ unsent' \subseteq Stored'
    BY <1>23, <2>2 DEF StoreAbandoned
  <2>4. pub' \in [Publishers -> Publisher]
    BY <1>23 DEF StoreAbandoned, Publisher, Idle
  <2> QED BY <1>23, <2>2, <2>3, <2>4 DEF StoreAbandoned
<1>6. ASSUME Cleanup PROVE TypeOK'
  <2>1. rows' \subseteq rows /\ rows \ rows' \subseteq Nat
    BY <1>a, <1>6 DEF Cleanup
  <2>2. got' \in History
    BY <1>0, <1>6, <2>1 DEF Cleanup, History
  <2> QED BY <1>6, <2>1, <2>2 DEF Cleanup
<1>7. ASSUME Tick PROVE TypeOK'
  BY <1>7 DEF Tick
<1>8. ASSUME Open PROVE TypeOK'
  <2>1. PICK m \in rows \cup {0} :
          conn' = [NoConn EXCEPT !.phase = "opened", !.sent = resume,
                                 !.cutoff = clock - Window, !.hello = m]
    BY <1>8 DEF Open
  <2>2. conn' = [phase |-> "opened", mode |-> "fresh", sent |-> resume,
                 cutoff |-> clock - Window, hello |-> m, outbox |-> {},
                 buf |-> << >>, metric |-> NoId]
    BY <2>1 DEF NoConn
  <2>3. m \in Nat /\ clock - Window \in Int /\ << >> \in Seq(Nat)
    BY <1>a, StreamAssumption
  <2>4. conn' \in Conn
    BY <2>2, <2>3 DEF Conn, Phases, Modes
  <2> QED BY <1>8, <2>4 DEF Open
<1>9. ASSUME LookFresh PROVE TypeOK'
  BY <1>0, <1>9 DEF LookFresh, Conn, Phases
<1>10. ASSUME LookResumed PROVE TypeOK'
  <2>1. Stored \ rows \subseteq Nat
    BY <1>0 DEF TypeOK, Stored
  <2>2. got' \in History
    BY <1>0, <1>10, <2>1 DEF LookResumed, History
  <2>3. conn' \in Conn
    BY <1>0, <1>10 DEF LookResumed, Conn, Phases, Modes
  <2> QED BY <1>0, <1>10, <2>2, <2>3 DEF LookResumed
<1>24. ASSUME ReadReplay PROVE TypeOK'
  <2>2. conn.sent \in Nat
    BY <1>24 DEF ReadReplay, SentIsId
  <2>1. Replayable \subseteq Nat /\ Oldest(Replayable, ReplayLimit) \subseteq Nat
    BY <1>a, OldestIsPart DEF Replayable
  <2>3. conn' \in Conn
    BY <1>0, <1>24, <2>1 DEF ReadReplay, Conn, Phases, Modes
  <2>4. got' \in History
    BY <1>0, <1>a, <1>24, <2>1, <2>2 DEF ReadReplay, History
  <2> QED BY <1>24, <2>3, <2>4 DEF ReadReplay
<1>11. ASSUME LookReset PROVE TypeOK'
  BY <1>0, <1>11 DEF LookReset, Conn, Phases, Modes
<1>12. ASSUME Subscribe PROVE TypeOK'
  <2>1. PICK j \in 0 .. Newest : got' = [got EXCEPT !.joined = j]
    BY <1>12 DEF Subscribe
  <2>3. j \in Nat
    BY <1>a
  <2>2. got' \in History
    BY <1>0, <2>1, <2>3 DEF History
  <2> QED BY <1>0, <1>12, <2>2 DEF Subscribe, Conn, Phases
<1>13. ASSUME ReceiveHello PROVE TypeOK'
  BY <1>0, <1>13 DEF ReceiveHello, Conn, NoId
<1>14. ASSUME conn' = NoConn, got' = Nothing, resume' \in {resume, NoId},
              UNCHANGED <<clock, stamp, rows, unsent, pub>>
       PROVE  TypeOK'
  BY <1>14 DEF Conn, NoConn, Phases, Modes, NoId, History, Nothing
<1>15. ASSUME ReceiveReplay PROVE TypeOK'
  <2>1. PICK i \in conn.outbox : conn' = [conn EXCEPT !.outbox = @ \ {i}] /\ Receive(i)
    BY <1>15 DEF ReceiveReplay
  <2>2. i \in Nat
    BY <1>0 DEF Conn
  <2> QED BY <1>0, <2>1, <2>2 DEF Receive, Conn, History
<1>16. ASSUME ReceiveUpdate PROVE TypeOK'
  <2>1. Head(conn.buf) \in Nat /\ Tail(conn.buf) \in Seq(Nat)
    BY <1>0, <1>16, Received DEF ReceiveUpdate
  <2> QED BY <1>0, <1>16, <2>1 DEF ReceiveUpdate, Receive, Conn, History
<1>17. ASSUME ReadMetrics PROVE TypeOK'
  <2>1. PICK m \in rows \cup {0} : conn' = [conn EXCEPT !.metric = m]
    BY <1>17 DEF ReadMetrics
  <2>2. m \in Nat
    BY <1>a
  <2>3. conn' \in Conn
    BY <1>0, <2>1, <2>2 DEF Conn
  <2> QED BY <1>17, <2>3 DEF ReadMetrics
<1>18. ASSUME ReceiveMetrics PROVE TypeOK'
  BY <1>0, <1>18 DEF ReceiveMetrics, Conn, NoId
<1>19. CASE UNCHANGED vars
  BY <1>19 DEF vars
<1>20. CASE \E p \in Publishers : Publish(p)
  BY <1>20, <1>1, <1>2, <1>3, <1>4, <1>5, <1>23 DEF Publish
<1>21. CASE Handler
  BY <1>21, <1>8, <1>9, <1>10, <1>11, <1>12, <1>24 DEF Handler
<1>22. CASE Panel
  BY <1>22, <1>13, <1>14, <1>15, <1>16, <1>17, <1>18
  DEF Panel, ReceiveReset, Disconnect, Reload
<1> QED BY <1>6, <1>7, <1>19, <1>20, <1>21, <1>22 DEF Next

LEMMA SentStep == TypeOK /\ SentIsId /\ [Next]_vars => SentIsId'
<1> SUFFICES ASSUME TypeOK, SentIsId, [Next]_vars, conn'.phase = "checked"
             PROVE  conn'.sent \in Nat
  BY DEF SentIsId
<1>0. conn \in Conn /\ conn.sent \in Nat \cup {NoId}
  BY DEF TypeOK, Conn
<1>1. CASE LookResumed
  BY <1>0, <1>1 DEF LookResumed, Resumable, Conn, NoId
<1>2. ~(Open \/ LookFresh \/ ReadReplay \/ LookReset \/ Subscribe)
  BY <1>0 DEF Open, NoConn, LookFresh, ReadReplay, LookReset, Subscribe, Conn
<1>3. conn' # NoConn
  BY DEF NoConn
<1>4. CASE conn'.phase = conn.phase /\ conn'.sent = conn.sent
  BY <1>4 DEF SentIsId
<1>5. ASSUME NEW p \in Publishers, Publish(p) PROVE conn'.phase = conn.phase /\ conn'.sent = conn.sent
  <2>1. CASE Send(p) /\ Subscribed
    BY <1>0, <2>1 DEF Send, PushTo, Conn
  <2>2. CASE ~(Send(p) /\ Subscribed)
    BY <1>5, <2>2 DEF Publish, Stamp, Store, Refuse, Send, Abandon, StoreAbandoned
  <2> QED BY <2>1, <2>2
<1>6. ASSUME ReceiveHello \/ ReceiveReplay \/ ReceiveUpdate \/ ReadMetrics \/ ReceiveMetrics
      PROVE  conn'.phase = conn.phase /\ conn'.sent = conn.sent
  BY <1>0, <1>6 DEF ReceiveHello, ReceiveReplay, ReceiveUpdate, ReadMetrics, ReceiveMetrics, Conn
<1>7. Cleanup \/ Tick \/ UNCHANGED vars => conn' = conn
  BY DEF Cleanup, Tick, vars
<1>8. ~(ReceiveReset \/ Disconnect \/ Reload)
  BY <1>3 DEF ReceiveReset, Disconnect, Reload
<1> QED BY <1>1, <1>2, <1>4, <1>5, <1>6, <1>7, <1>8 DEF Next, Handler, Panel

-----------------------------------------------------------------------------
(***************************************************************************)
(* The publish lock.                                                       *)
(***************************************************************************)

\* What each step of a publisher does to the log and to what is in flight.
LEMMA PublishEffect ==
  ASSUME TypeOK, OneWriter, NEW p \in Publishers
  PROVE  /\ Newest + 1 \notin Stored /\ \A i \in Stored : i \in Nat /\ 0 < i /\ i < Newest + 1
         /\ Stamp(p) \/ Refuse(p) \/ Abandon(p) =>
              Stored' = Stored /\ unsent' = unsent /\ InFlight' = InFlight
         /\ Store(p) =>
              /\ Stored' = Stored \cup {Newest + 1} /\ unsent' = unsent
              /\ InFlight = {} /\ InFlight' = {Newest + 1}
         /\ StoreAbandoned(p) =>
              /\ Stored' = Stored \cup {Newest + 1} /\ unsent' = unsent \cup {Newest + 1}
              /\ InFlight' = InFlight
         /\ Send(p) =>
              /\ Stored' = Stored /\ unsent' = unsent
              /\ InFlight = {pub[p].id} /\ InFlight' = {}
<1>0. pub \in [Publishers -> Publisher] /\ pub[p] \in Publisher /\ pub[p].ts \in Nat
  BY DEF TypeOK, Publisher
<1>1. Newest + 1 \notin Stored /\ \A i \in Stored : i \in Nat /\ 0 < i /\ i < Newest + 1
  BY DEF TypeOK, Stored, Newest
<1>2. ASSUME stamp' = Append(stamp, pub[p].ts) PROVE Stored' = Stored \cup {Newest + 1}
  BY <1>0, <1>2 DEF TypeOK, Stored, Newest
<1>3. ASSUME NEW q \in Publishers, pub[p].at # "stored", pub'[p].at # "stored",
             \A r \in Publishers : r # p => pub'[r] = pub[r]
      PROVE  InFlight' = InFlight
  BY <1>3 DEF InFlight
<1>4. ASSUME Stamp(p) \/ Refuse(p) \/ Abandon(p)
      PROVE  Stored' = Stored /\ unsent' = unsent /\ InFlight' = InFlight
  <2>1. /\ pub[p].at # "stored" /\ pub'[p].at # "stored"
        /\ \A r \in Publishers : r # p => pub'[r] = pub[r]
    BY <1>0, <1>4 DEF Stamp, Refuse, Abandon, Idle, Publisher
  <2> QED BY <1>3, <1>4, <2>1 DEF Stamp, Refuse, Abandon, Stored
<1>5. ASSUME Store(p)
      PROVE  /\ Stored' = Stored \cup {Newest + 1} /\ unsent' = unsent
             /\ InFlight = {} /\ InFlight' = {Newest + 1}
  <2>1. /\ pub' = [pub EXCEPT ![p] = [at |-> "stored", ts |-> 0, id |-> Newest + 1]]
        /\ \A q \in Publishers : pub[q].at # "stored"
    BY <1>5 DEF Store
  <2>2. InFlight = {}
    BY <2>1 DEF InFlight
  <2>3. InFlight' = {Newest + 1}
    <3>1. pub'[p].at = "stored" /\ pub'[p].id = Newest + 1
      BY <1>0, <2>1
    <3>2. \A q \in Publishers : pub'[q].at = "stored" => q = p
      BY <1>0, <2>1
    <3> QED BY <3>1, <3>2 DEF InFlight
  <2> QED BY <1>2, <1>5, <2>2, <2>3 DEF Store
<1>6. ASSUME StoreAbandoned(p)
      PROVE  /\ Stored' = Stored \cup {Newest + 1} /\ unsent' = unsent \cup {Newest + 1}
             /\ InFlight' = InFlight
  <2>1. /\ pub[p].at # "stored" /\ pub'[p].at # "stored"
        /\ \A r \in Publishers : r # p => pub'[r] = pub[r]
    BY <1>0, <1>6 DEF StoreAbandoned, Idle
  <2> QED BY <1>2, <1>3, <1>6, <2>1 DEF StoreAbandoned
<1>7. ASSUME Send(p)
      PROVE  /\ Stored' = Stored /\ unsent' = unsent
             /\ InFlight = {pub[p].id} /\ InFlight' = {}
  <2>1. pub[p].at = "stored" /\ pub' = [pub EXCEPT ![p] = Idle]
    BY <1>7 DEF Send
  <2>2. \A q \in Publishers : pub[q].at = "stored" => q = p
    BY <2>1 DEF OneWriter
  <2>3. InFlight = {pub[p].id}
    BY <2>1, <2>2 DEF InFlight
  <2>4. \A q \in Publishers : pub'[q].at # "stored"
    BY <1>0, <2>1, <2>2 DEF Idle
  <2>5. InFlight' = {}
    BY <2>4 DEF InFlight
  <2> QED BY <1>7, <2>3, <2>5 DEF Send, Stored
<1> QED BY <1>1, <1>4, <1>5, <1>6, <1>7

LEMMA WriterStep == TypeOK /\ OneWriter /\ [Next]_vars => OneWriter'
<1> SUFFICES ASSUME TypeOK, OneWriter, [Next]_vars PROVE OneWriter'
  OBVIOUS
<1>0. /\ pub \in [Publishers -> Publisher] /\ unsent \subseteq Stored
      /\ \A p \in Publishers : pub[p] = [at |-> pub[p].at, ts |-> pub[p].ts, id |-> pub[p].id]
  BY DEF TypeOK, Publisher
<1>1. ASSUME NEW p \in Publishers, Stamp(p) \/ Refuse(p) \/ Abandon(p) \/ Send(p)
      PROVE  OneWriter'
  <2>1. Stored' = Stored /\ unsent' = unsent
    BY <1>1, PublishEffect
  <2>2. pub'[p].at # "stored" /\ \A q \in Publishers : q # p => pub'[q] = pub[q]
    BY <1>0, <1>1 DEF Stamp, Refuse, Abandon, Send, Idle
  <2>3. \A q \in Publishers : pub'[q].at = "stored" => q # p /\ pub'[q] = pub[q]
    BY <2>2
  <2> QED BY <2>1, <2>3 DEF OneWriter
<1>2. ASSUME NEW p \in Publishers, Store(p) PROVE OneWriter'
  <2>1. /\ Stored' = Stored \cup {Newest + 1} /\ unsent' = unsent
        /\ Newest + 1 \notin Stored /\ \A i \in Stored : i \in Nat /\ i < Newest + 1
    BY <1>2, PublishEffect
  <2>2. /\ pub'[p].at = "stored" /\ pub'[p].id = Newest + 1
        /\ \A q \in Publishers : q # p => pub'[q].at # "stored"
    BY <1>0, <1>2 DEF Store
  <2>3. Newest \in Nat
    BY DEF TypeOK, Newest
  <2> QED BY <1>0, <2>1, <2>2, <2>3 DEF OneWriter
<1>3. ASSUME NEW p \in Publishers, StoreAbandoned(p) PROVE OneWriter'
  <2>1. /\ Stored' = Stored \cup {Newest + 1} /\ unsent' = unsent \cup {Newest + 1}
        /\ Newest + 1 \notin Stored
    BY <1>3, PublishEffect
  <2>2. pub'[p].at # "stored" /\ \A q \in Publishers : q # p => pub'[q] = pub[q]
    BY <1>0, <1>3 DEF StoreAbandoned, Idle
  <2> QED BY <2>1, <2>2 DEF OneWriter
<1>4. CASE UNCHANGED <<stamp, pub, unsent>>
  BY <1>4 DEF OneWriter, Stored
<1>5. CASE \E p \in Publishers : Publish(p)
  BY <1>1, <1>2, <1>3, <1>5 DEF Publish
<1>6. Cleanup \/ Tick \/ Handler \/ Panel => UNCHANGED <<stamp, pub, unsent>>
  BY DEF Cleanup, Tick, Handler, Open, LookFresh, LookResumed, ReadReplay, LookReset, Subscribe,
         Panel, ReceiveHello, ReceiveReset, ReceiveReplay, ReceiveUpdate, Receive,
         ReadMetrics, ReceiveMetrics, Disconnect, Reload
<1> QED BY <1>4, <1>5, <1>6 DEF Next, vars

-----------------------------------------------------------------------------
(***************************************************************************)
(* Order.                                                                  *)
(***************************************************************************)

\* A step that only lets the log grow leaves every place where it is.
LEMMA LogGrows ==
  ASSUME OrderInv, UNCHANGED <<conn, got>>,
         Stored \subseteq Stored', unsent \subseteq unsent', unsent' \cap Stored \subseteq unsent,
         \A y \in InFlight' \ InFlight :
           y \in Nat /\ 0 < y /\ y \in Stored' \ unsent' /\ \A i \in Stored : i < y
  PROVE  Places'
<1>1. Quiet'
  BY DEF OrderInv, Places, Quiet
<1>2. (conn.outbox \cup got.shown \subseteq Stored)'
  BY DEF OrderInv, Places
<1>3. ASSUME conn.phase = "live" PROVE InPlace'
  <2>1. InLine /\ Behind /\ ReplayInOrder
    BY <1>3 DEF OrderInv, Places, Ordered, InPlace
  <2>2. Coming \subseteq Stored /\ conn.outbox \cup got.shown \subseteq Stored
    BY <2>1 DEF InLine, OrderInv, Places
  <2>3. \A y \in Coming' : y \in Coming \/ y \in InFlight' \ InFlight
    BY DEF Coming
  <2>4. InLine'
    <3>1. \A x \in Range(conn.buf), y \in InFlight' : x < y
      BY <2>1, <2>2 DEF InLine, Coming
    <3>2. ASSUME NEW y \in Coming' PROVE y \in Stored' \ unsent' /\ got.joined < y
      <4>1. CASE y \in Coming
        BY <2>1, <4>1 DEF InLine
      <4>2. CASE y \in InFlight' \ InFlight
        BY <2>1, <4>2 DEF InLine
      <4> QED BY <2>3, <4>1, <4>2
    <3> QED BY <2>1, <3>1, <3>2 DEF InLine
  <2>5. Behind'
    BY <2>1, <2>2, <2>3 DEF Behind
  <2> QED BY <2>1, <2>4, <2>5 DEF InPlace, ReplayInOrder
<1> QED BY <1>1, <1>2, <1>3 DEF Places, Ordered

\* What is sent goes behind everything that was sent before it.
LEMMA SendKeepsPlaces ==
  ASSUME OrderInv, NEW p \in Publishers, Send(p)
  PROVE  Places'
<1>0. /\ got \in History /\ conn \in Conn /\ conn.buf \in Seq(Nat) /\ pub[p].id \in Nat
      /\ Stored' = Stored /\ unsent' = unsent
      /\ InFlight = {pub[p].id} /\ InFlight' = {}
  BY PublishEffect DEF OrderInv, TypeOK, Conn, Publisher
<1>1. CASE ~Subscribed
  BY <1>0, <1>1, LogGrows DEF Send
<1>2. CASE Subscribed
  <2> DEFINE id == pub[p].id
  <2>1. PICK b \in Seq(Nat) :
          /\ conn' = [conn EXCEPT !.buf = Append(b, id)]
          /\ \/ b = conn.buf /\ got' = got
             \/ /\ conn.buf # << >> /\ b = Tail(conn.buf)
                /\ got' = [got EXCEPT !.dropped = @ \cup {Head(conn.buf)}]
    BY <1>0, <1>2, Pushed DEF Send, OrderInv
  <2>2. /\ conn'.phase = "live" /\ conn'.buf = Append(b, id) /\ conn'.outbox = conn.outbox
        /\ got'.last = got.last /\ got'.shown = got.shown /\ got'.joined = got.joined
    BY <1>0, <1>2, <2>1 DEF Subscribed, Conn, History
  <2>3. InLine /\ Behind /\ ReplayInOrder
    BY <1>2 DEF Subscribed, OrderInv, Places, Ordered, InPlace
  <2>4. Increasing(b) /\ Range(b) \subseteq Range(conn.buf)
    <3>1. Increasing(conn.buf)
      BY <2>3 DEF InLine
    <3>2. CASE b = conn.buf
      BY <3>1, <3>2
    <3>3. CASE conn.buf # << >> /\ b = Tail(conn.buf)
      BY <1>0, <3>1, <3>3, Received
    <3> QED BY <2>1, <3>2, <3>3
  <2>5. \A x \in Range(b) : x < id
    BY <1>0, <2>3, <2>4 DEF InLine
  <2>6. Increasing(conn'.buf) /\ Range(conn'.buf) = Range(b) \cup {id}
    BY <1>0, <2>2, <2>4, <2>5, Appended
  <2>7. Coming' \subseteq Coming
    BY <1>0, <2>4, <2>6 DEF Coming
  <2>8. InLine'
    BY <1>0, <2>2, <2>3, <2>6, <2>7 DEF InLine
  <2>9. Behind' /\ ReplayInOrder'
    BY <1>0, <2>2, <2>3, <2>7 DEF Behind, ReplayInOrder
  <2>10. (conn.outbox \cup got.shown \subseteq Stored)'
    BY <1>0, <2>2 DEF OrderInv, Places
  <2> QED BY <2>2, <2>8, <2>9, <2>10 DEF Places, Quiet, Ordered, InPlace
<1> QED BY <1>1, <1>2

\* The step of the replay.
LEMMA ReplayKeepsPlaces ==
  ASSUME OrderInv, ReceiveReplay
  PROVE  Places' /\ got'.last >= got.last
<1>1. PICK i \in conn.outbox :
        /\ \A j \in conn.outbox : i <= j
        /\ conn' = [conn EXCEPT !.outbox = @ \ {i}]
        /\ Receive(i)
  BY DEF ReceiveReplay
<1>2. /\ got \in History /\ conn \in Conn /\ conn.phase = "live"
      /\ conn.outbox \cup got.shown \subseteq Stored
      /\ InLine /\ Behind /\ ReplayInOrder
  BY DEF OrderInv, TypeOK, ReceiveReplay, Greeted, Places, Ordered, InPlace
<1>3. /\ conn'.phase = "live" /\ conn'.buf = conn.buf /\ conn'.outbox = conn.outbox \ {i}
      /\ got'.last = i /\ got'.shown = got.shown \cup {i} /\ got'.joined = got.joined
  BY <1>1, <1>2 DEF Receive, Conn, History
<1>4. InFlight' = InFlight /\ Stored' = Stored /\ unsent' = unsent
  BY <1>1 DEF Receive, InFlight, Stored
<1>5. Coming' = Coming
  BY <1>3, <1>4 DEF Coming
<1>6. conn.outbox \subseteq Nat /\ got.shown \subseteq Nat /\ got.last \in Nat
  BY <1>2 DEF Conn, History
<1>7. InLine'
  BY <1>2, <1>3, <1>4, <1>5 DEF InLine
<1>8. Behind'
  BY <1>2, <1>3, <1>4, <1>5 DEF Behind
<1>9. ReplayInOrder'
  BY <1>1, <1>2, <1>3, <1>6 DEF ReplayInOrder
<1>10. got'.last >= got.last
  BY <1>1, <1>2, <1>3, <1>6 DEF ReplayInOrder
<1> QED BY <1>2, <1>3, <1>4, <1>7, <1>8, <1>9, <1>10 DEF Places, Quiet, Ordered, InPlace

\* The step of the channel.
LEMMA UpdateKeepsPlaces ==
  ASSUME OrderInv, ReceiveUpdate
  PROVE  Places' /\ (got'.last >= got.last \/ got.last \in unsent)
<1> DEFINE i == Head(conn.buf)
<1>1. /\ got \in History /\ conn \in Conn /\ conn.phase = "live"
      /\ conn.outbox \cup got.shown \subseteq Stored
      /\ InLine /\ Behind /\ ReplayInOrder
      /\ conn.buf \in Seq(Nat) /\ conn.buf # << >> /\ conn.outbox = {}
  BY DEF OrderInv, TypeOK, ReceiveUpdate, Greeted, Places, Ordered, InPlace, Conn
<1>2. /\ i \in Nat /\ Range(conn.buf) = Range(Tail(conn.buf)) \cup {i}
      /\ Increasing(Tail(conn.buf)) /\ \A x \in Range(Tail(conn.buf)) : i < x
  BY <1>1, Received DEF InLine
<1>3. /\ conn'.phase = "live" /\ conn'.buf = Tail(conn.buf) /\ conn'.outbox = {}
      /\ got'.last = i /\ got'.shown = got.shown \cup {i} /\ got'.joined = got.joined
  BY <1>1 DEF ReceiveUpdate, Receive, Conn, History
<1>4. InFlight' = InFlight /\ Stored' = Stored /\ unsent' = unsent
  BY DEF ReceiveUpdate, Receive, InFlight, Stored
<1>5. i \in Coming /\ Coming' \subseteq Coming /\ \A y \in Coming' : i < y
  BY <1>1, <1>2, <1>3, <1>4 DEF Coming, InLine
<1>6. InLine'
  BY <1>1, <1>2, <1>3, <1>4, <1>5 DEF InLine
<1>7. Behind'
  BY <1>1, <1>3, <1>4, <1>5 DEF Behind
<1>8. ReplayInOrder'
  BY <1>3 DEF ReplayInOrder
<1>9. i \in Stored
  BY <1>1, <1>5 DEF InLine
<1>10. got.last \in Nat
  BY <1>1 DEF History
<1>11. got'.last >= got.last \/ got.last \in unsent
  <2>1. CASE got.last = 0
    BY <1>2, <1>3, <2>1
  <2>2. CASE got.last \in got.shown
    <3>1. got.last < i \/ got.last \in unsent \/ got.last = i
      BY <1>1, <1>5, <2>2 DEF Behind
    <3> QED BY <1>2, <1>3, <1>10, <3>1
  <2> QED BY <1>1, <2>1, <2>2 DEF ReplayInOrder
<1> QED BY <1>1, <1>3, <1>4, <1>6, <1>7, <1>8, <1>9, <1>11 DEF Places, Quiet, Ordered, InPlace

\* Where a new receiver stands: behind everything that was sent.
LEMMA SubscribeKeepsPlaces ==
  ASSUME OrderInv, Subscribe
  PROVE  Places'
<1>1. /\ got \in History /\ conn \in Conn /\ conn.outbox \subseteq Stored
      /\ conn.buf = << >> /\ got.shown = {} /\ got.last = 0
  BY DEF OrderInv, TypeOK, Places, Quiet, Subscribe
<1>2. PICK j \in 0 .. Newest :
        /\ IF InFlight = {} THEN j = Newest ELSE j + 1 \in InFlight
        /\ got' = [got EXCEPT !.joined = j]
  BY DEF Subscribe
<1>3. /\ conn'.phase = "live" /\ conn'.buf = << >> /\ conn'.outbox = conn.outbox
      /\ got'.last = 0 /\ got'.shown = {} /\ got'.joined = j
  BY <1>1, <1>2 DEF Subscribe, Conn, History
<1>4. InFlight' = InFlight /\ Stored' = Stored /\ unsent' = unsent
  BY DEF Subscribe, InFlight, Stored
<1>5. Range(<< >>) = {} /\ Increasing(<< >>)
  BY DEF Range, Increasing
<1>6. Coming' = InFlight
  BY <1>3, <1>4, <1>5 DEF Coming
<1>7. /\ \A y \in InFlight : y = j + 1 /\ y \in Stored \ unsent
      /\ \A y \in InFlight, x \in Stored : y < x => x \in unsent
  BY <1>2 DEF OrderInv, OneWriter, InFlight
<1>8. j \in Nat /\ j \in Stored \cup {0} /\ Stored \subseteq Nat
  BY <1>2 DEF OrderInv, TypeOK, Stored, Newest
<1>9. InLine'
  BY <1>3, <1>4, <1>5, <1>6, <1>7, <1>8 DEF InLine
<1>10. Behind'
  <2> SUFFICES ASSUME NEW y \in InFlight, NEW x \in conn.outbox
               PROVE  x < y \/ x \in unsent \/ (x = y /\ y = j + 1)
    BY <1>3, <1>4, <1>6 DEF Behind
  <2>1. x \in Stored /\ x \in Nat /\ y = j + 1 /\ (y < x => x \in unsent)
    BY <1>1, <1>7, <1>8
  <2> QED BY <1>8, <2>1
<1>11. ReplayInOrder'
  BY <1>3 DEF ReplayInOrder
<1> QED BY <1>1, <1>3, <1>4, <1>9, <1>10, <1>11 DEF Places, Quiet, Ordered, InPlace

\* An item without a stored event leaves every place where it is.
LEMMA ItemKeepsPlaces ==
  ASSUME OrderInv, ReceiveHello \/ ReadMetrics \/ ReceiveMetrics
  PROVE  Places'
<1>1. /\ conn'.phase = conn.phase /\ conn'.buf = conn.buf /\ conn'.outbox = conn.outbox
      /\ got' = got
  BY DEF OrderInv, TypeOK, Conn, ReceiveHello, ReadMetrics, ReceiveMetrics
<1>2. InFlight' = InFlight /\ Stored' = Stored /\ unsent' = unsent
  BY DEF ReceiveHello, ReadMetrics, ReceiveMetrics, InFlight, Stored
<1>3. Coming' = Coming
  BY <1>1, <1>2 DEF Coming
<1> QED BY <1>1, <1>2, <1>3
        DEF OrderInv, Places, Quiet, Ordered, InPlace, InLine, Behind, ReplayInOrder

\* Until the handler has subscribed nothing is in the channel or received.
LEMMA LookKeepsPlaces ==
  ASSUME OrderInv, Open \/ LookFresh \/ LookResumed \/ ReadReplay \/ LookReset
  PROVE  Places'
<1>1. conn \in Conn /\ got \in History /\ rows \subseteq Stored
  BY DEF OrderInv, TypeOK
<1>2. conn.phase # "live" /\ Stored' = Stored
  BY DEF Open, LookFresh, LookResumed, ReadReplay, LookReset, Stored
<1>3. conn.buf = << >> /\ got.shown = {} /\ got.last = 0 /\ got.dropped = {}
  BY <1>2 DEF OrderInv, Places, Quiet
<1>4. CASE Open
  <2>1. conn'.phase = "opened" /\ conn'.buf = << >> /\ conn'.outbox = {} /\ got' = got
    BY <1>4 DEF Open, NoConn
  <2>2. got.read = 0
    BY <1>4 DEF Open, OrderInv, Places, Quiet
  <2> QED BY <1>3, <2>1, <2>2 DEF Places, Quiet, Ordered
<1>5. CASE LookFresh \/ LookResumed \/ LookReset
  <2>1. /\ conn'.phase \in {"checked", "looked"} /\ conn'.buf = conn.buf
        /\ conn'.outbox = conn.outbox /\ got'.shown = got.shown
        /\ got'.last = got.last /\ got'.dropped = got.dropped
    BY <1>1, <1>5 DEF LookFresh, LookResumed, LookReset, Conn, History
  <2> QED BY <1>2, <1>3, <2>1 DEF OrderInv, Places, Quiet, Ordered
<1>6. CASE ReadReplay
  <2>1. /\ conn'.phase = "looked" /\ conn'.buf = conn.buf
        /\ conn'.outbox \in {conn.outbox, Oldest(Replayable, ReplayLimit)}
        /\ got'.shown = got.shown /\ got'.last = got.last /\ got'.dropped = got.dropped
    BY <1>1, <1>6 DEF ReadReplay, Conn, History
  <2>2. Oldest(Replayable, ReplayLimit) \subseteq Stored
    BY <1>1, OldestIsPart DEF Replayable
  <2> QED BY <1>2, <1>3, <2>1, <2>2 DEF OrderInv, Places, Quiet, Ordered
<1> QED BY <1>4, <1>5, <1>6

\* A closed connection holds nothing.
LEMMA CloseKeepsPlaces == conn' = NoConn /\ got' = Nothing => Places'
  BY DEF NoConn, Nothing, Places, Quiet, Ordered

LEMMA PlacesStep ==
  ASSUME OrderInv, [Next]_vars
  PROVE  Places'
<1>0. TypeOK /\ OneWriter /\ unsent \subseteq Stored /\ Newest \in Nat
  BY DEF OrderInv, TypeOK, Newest
<1>1. ASSUME NEW p \in Publishers, Stamp(p) \/ Refuse(p) \/ Abandon(p) PROVE Places'
  <2>1. UNCHANGED <<conn, got>>
    BY <1>1 DEF Stamp, Refuse, Abandon
  <2>2. Stored' = Stored /\ unsent' = unsent /\ InFlight' = InFlight
    BY <1>0, <1>1, PublishEffect
  <2> QED BY <2>1, <2>2, LogGrows
<1>2. ASSUME NEW p \in Publishers, Store(p) PROVE Places'
  <2>1. UNCHANGED <<conn, got>>
    BY <1>2 DEF Store
  <2>2. /\ Stored' = Stored \cup {Newest + 1} /\ unsent' = unsent
        /\ InFlight' = {Newest + 1}
        /\ Newest + 1 \notin Stored /\ \A i \in Stored : i < Newest + 1
    BY <1>0, <1>2, PublishEffect
  <2> QED BY <1>0, <2>1, <2>2, LogGrows
<1>3. ASSUME NEW p \in Publishers, StoreAbandoned(p) PROVE Places'
  <2>1. UNCHANGED <<conn, got>>
    BY <1>3 DEF StoreAbandoned
  <2>2. /\ Stored' = Stored \cup {Newest + 1} /\ unsent' = unsent \cup {Newest + 1}
        /\ InFlight' = InFlight /\ Newest + 1 \notin Stored
    BY <1>0, <1>3, PublishEffect
  <2> QED BY <1>0, <2>1, <2>2, LogGrows
<1>4. ASSUME Tick \/ UNCHANGED vars PROVE Places'
  <2>1. UNCHANGED <<conn, got, stamp, pub, unsent>>
    BY <1>4 DEF Tick, vars
  <2>2. InFlight' = InFlight /\ Stored' = Stored
    BY <2>1 DEF InFlight, Stored
  <2> QED BY <2>1, <2>2, LogGrows
<1>8. CASE Cleanup
  <2>1. /\ UNCHANGED <<conn, stamp, pub, unsent>>
        /\ got'.shown = got.shown /\ got'.last = got.last /\ got'.joined = got.joined
        /\ got'.dropped = got.dropped /\ got'.read = got.read
    BY <1>0, <1>8 DEF Cleanup, TypeOK, History
  <2>2. InFlight' = InFlight /\ Stored' = Stored
    BY <2>1 DEF InFlight, Stored
  <2>3. Coming' = Coming
    BY <2>1, <2>2 DEF Coming
  <2> QED BY <2>1, <2>2, <2>3
          DEF OrderInv, Places, Quiet, Ordered, InPlace, InLine, Behind, ReplayInOrder
<1>5. CASE Handler
  BY <1>5, LookKeepsPlaces, SubscribeKeepsPlaces DEF Handler
<1>6. CASE Panel
  BY <1>6, ItemKeepsPlaces, ReplayKeepsPlaces, UpdateKeepsPlaces, CloseKeepsPlaces
  DEF Panel, ReceiveReset, Disconnect, Reload
<1>7. CASE \E p \in Publishers : Publish(p)
  BY <1>1, <1>2, <1>3, <1>7, SendKeepsPlaces DEF Publish
<1> QED BY <1>4, <1>5, <1>6, <1>7, <1>8 DEF Next

LEMMA InitOrder == Init => OrderInv
<1> SUFFICES ASSUME Init PROVE OrderInv
  OBVIOUS
<1>1. OneWriter
  BY DEF Init, OneWriter, Idle
<1>2. Places
  BY DEF Init, NoConn, Nothing, Places, Quiet, Ordered
<1>3. SentIsId
  BY DEF Init, NoConn, SentIsId
<1> QED BY <1>1, <1>2, <1>3, InitType DEF OrderInv

LEMMA OrderStep == OrderInv /\ [Next]_vars => OrderInv'
  BY TypeStep, SentStep, WriterStep, PlacesStep DEF OrderInv

LEMMA OrderAlways == Spec => []OrderInv
  BY InitOrder, OrderStep, PTL DEF Spec

\* The variables always hold values of their types.
THEOREM TypeCorrect == Spec => []TypeOK
<1>1. OrderInv => TypeOK
  BY DEF OrderInv
<1> QED BY <1>1, OrderAlways, PTL

\* At most one event comes twice on a connection, the one that was in flight
\* when the handler subscribed, whatever the channel drops and the LIMIT cuts.
THEOREM RepeatsAreBounded == Spec => []OneRepeatAtMost
<1>1. OrderInv => OneRepeatAtMost
  <2> SUFFICES ASSUME OrderInv, conn.phase = "live",
                      NEW x \in Range(conn.buf), x \in conn.outbox \cup got.shown
               PROVE  x = got.joined + 1
    BY DEF OneRepeatAtMost
  <2>1. InLine /\ Behind
    BY DEF OrderInv, Places, Ordered, InPlace
  <2>2. x \in Coming /\ x \in Nat
    BY DEF Coming, Range, OrderInv, TypeOK, Conn
  <2>3. x \notin unsent
    BY <2>1, <2>2 DEF InLine
  <2> QED BY <2>1, <2>2, <2>3 DEF Behind
<1> QED BY <1>1, OrderAlways, PTL

\* The stored events of one connection arrive in the order of their ids, save
\* for the row of a dropped publisher that comes ahead of its turn.
THEOREM DeliveryIsOrdered == Spec => StoredEventsInOrder
<1>1. OrderInv /\ [Next]_vars =>
        [conn.phase = "live" /\ conn'.phase = "live" =>
           got'.last >= got.last \/ got.last \in unsent]_vars
  <2> SUFFICES ASSUME OrderInv, Next, conn.phase = "live", conn'.phase = "live"
               PROVE  got'.last >= got.last \/ got.last \in unsent
    BY DEF vars
  <2>0. got \in History /\ got.last \in Nat
    BY DEF OrderInv, TypeOK, History
  <2>1. ASSUME NEW p \in Publishers, Publish(p) PROVE got'.last = got.last
    <3>1. CASE Send(p) /\ Subscribed
      BY <2>0, <3>1 DEF Send, PushTo, History
    <3>2. CASE ~(Send(p) /\ Subscribed)
      BY <2>1, <3>2 DEF Publish, Stamp, Store, Refuse, Send, Abandon, StoreAbandoned
    <3> QED BY <3>1, <3>2
  <2>2. CASE ReceiveReplay \/ ReceiveUpdate
    BY <2>2, ReplayKeepsPlaces, UpdateKeepsPlaces
  <2>3. Cleanup \/ Tick \/ ReceiveHello \/ ReadMetrics \/ ReceiveMetrics => got' = got
    BY DEF Cleanup, Tick, ReceiveHello, ReadMetrics, ReceiveMetrics
  <2>4. ~Handler
    BY DEF Handler, Open, LookFresh, LookResumed, ReadReplay, LookReset, Subscribe
  <2>5. ~(ReceiveReset \/ Disconnect \/ Reload)
    BY DEF ReceiveReset, Disconnect, Reload, NoConn
  <2> QED BY <2>0, <2>1, <2>2, <2>3, <2>4, <2>5 DEF Next, Panel
<1> QED BY <1>1, OrderAlways, PTL DEF Spec, StoredEventsInOrder

-----------------------------------------------------------------------------
(***************************************************************************)
(* Losses.                                                                 *)
(***************************************************************************)

\* Events get no new earlier ones: a late store stays one, and only that.
LEMMA LateStoreStable ==
  ASSUME TypeOK, NEW ts \in Nat, stamp' = Append(stamp, ts) \/ stamp' = stamp
  PROVE  /\ \A i \in Stored : i \in Stored' /\ stamp'[i] = stamp[i]
         /\ \A i \in Stored : LateStore(i) => LateStore(i)'
         /\ \A i \in Stored' \ Stored : i = Newest + 1 /\ stamp' = Append(stamp, ts)
<1>1. \A i \in Stored : i \in Stored' /\ stamp'[i] = stamp[i]
  BY Appended DEF TypeOK, Stored
<1>2. ASSUME NEW i \in Stored, LateStore(i) PROVE LateStore(i)'
  <2>1. PICK j \in 1 .. (i - 1) : stamp[j] > stamp[i]
    BY <1>2 DEF LateStore
  <2>2. j \in Stored
    BY DEF TypeOK, Stored
  <2> QED BY <1>1, <2>1, <2>2 DEF LateStore
<1>3. \A i \in Stored' \ Stored : i = Newest + 1 /\ stamp' = Append(stamp, ts)
  BY Appended DEF TypeOK, Stored, Newest
<1> QED BY <1>1, <1>2, <1>3

\* stamp grows by at most one event in a step.
LEMMA LogStep ==
  ASSUME TypeOK, [Next]_vars
  PROVE  \E ts \in Nat : stamp' = Append(stamp, ts) \/ stamp' = stamp
<1>1. ASSUME NEW p \in Publishers, Store(p) \/ StoreAbandoned(p)
      PROVE  pub[p].ts \in Nat /\ stamp' = Append(stamp, pub[p].ts)
  BY <1>1 DEF Store, StoreAbandoned, TypeOK, Publisher
<1>2. CASE \E p \in Publishers : Store(p) \/ StoreAbandoned(p)
  BY <1>1, <1>2
<1>3. CASE ~\E p \in Publishers : Store(p) \/ StoreAbandoned(p)
  <2>1. stamp' = stamp
    BY <1>3 DEF Next, vars, Publish, Stamp, Refuse, Send, Abandon, Cleanup, Tick, Handler, Panel,
       Open, LookFresh, LookResumed, ReadReplay, LookReset, Subscribe, ReceiveHello, ReceiveReset, ReceiveReplay,
       ReceiveUpdate, Receive, ReadMetrics, ReceiveMetrics, Disconnect, Reload
  <2> QED BY <2>1
<1> QED BY <1>2, <1>3

LEMMA DeletedStep ==
  ASSUME TypeOK, TypeOK', DeletedAreOlder, [Next]_vars
  PROVE  DeletedAreOlder'
<1>0. /\ clock \in Nat /\ rows \subseteq Stored /\ Stored \subseteq Nat
      /\ \A i \in Stored : stamp[i] \in Nat
  BY DEF TypeOK, Stored
<1>1. CASE Cleanup
  <2>1. stamp' = stamp /\ Stored' = Stored
    BY <1>1 DEF Cleanup, Stored
  <2> SUFFICES ASSUME NEW i \in Stored \ rows', NEW j \in rows', j < i
               PROVE  stamp[j] > stamp[i]
    BY <2>1 DEF DeletedAreOlder
  <2>2. j \in rows /\ stamp[j] >= clock - Retention
    BY <1>1 DEF Cleanup
  <2>3. CASE i \in rows
    <3>1. stamp[i] < clock - Retention
      BY <1>0, <1>1, <2>3, StreamAssumption DEF Cleanup
    <3> QED BY <1>0, <2>2, <2>3, <3>1, StreamAssumption
  <2> QED BY <2>2, <2>3 DEF DeletedAreOlder
<1>2. ASSUME NEW p \in Publishers, Store(p) \/ StoreAbandoned(p) PROVE DeletedAreOlder'
  <2>1. rows' = rows \cup {Newest + 1} /\ pub[p].ts \in Nat /\ stamp' = Append(stamp, pub[p].ts)
    BY <1>2 DEF Store, StoreAbandoned, TypeOK, Publisher
  <2>2. /\ \A i \in Stored : stamp'[i] = stamp[i]
        /\ \A i \in Stored' \ Stored : i = Newest + 1
    BY <2>1, LateStoreStable
  <2>3. \A i \in Stored : i < Newest + 1
    BY DEF TypeOK, Stored, Newest
  <2>4. ASSUME NEW i \in Stored' \ rows', NEW j \in rows', j < i PROVE stamp'[j] > stamp'[i]
    <3>1. i \in Stored \ rows
      BY <2>1, <2>2, <2>4
    <3>2. j # Newest + 1 /\ j \in rows
      BY <1>0, <2>1, <2>3, <2>4, <3>1 DEF TypeOK, Newest
    <3> QED BY <1>0, <2>2, <2>4, <3>1, <3>2 DEF DeletedAreOlder
  <2> QED BY <2>4 DEF DeletedAreOlder
<1>3. CASE ~Cleanup /\ ~\E p \in Publishers : Store(p) \/ StoreAbandoned(p)
  <2>1. stamp' = stamp /\ rows' = rows
    BY <1>3 DEF Next, vars, Publish, Stamp, Refuse, Send, Abandon, Tick, Handler, Panel,
       Open, LookFresh, LookResumed, ReadReplay, LookReset, Subscribe, ReceiveHello, ReceiveReset, ReceiveReplay,
       ReceiveUpdate, Receive, ReadMetrics, ReceiveMetrics, Disconnect, Reload
  <2> QED BY <2>1 DEF DeletedAreOlder, Stored
<1> QED BY <1>1, <1>2, <1>3

\* While the header is checked, what is deleted is noted.
LEMMA DeletedIsCut ==
  ASSUME TypeOK, [Next]_vars, conn' = conn, conn.phase = "checked"
  PROVE  /\ got.cut \subseteq got'.cut /\ got'.gone = got.gone
         /\ \A i \in Stored' \ rows' : i \in Stored \ rows \/ i \in got'.cut
<1>0. conn \in Conn /\ got \in History /\ Newest \in Nat /\ Stored = 1 .. Newest
  BY DEF TypeOK, Stored, Newest
<1>1. CASE Cleanup
  <2>1. got'.cut = got.cut \cup (rows \ rows') /\ got'.gone = got.gone /\ Stored' = Stored
    BY <1>0, <1>1 DEF Cleanup, History, Stored
  <2> QED BY <2>1
<1>2. ASSUME NEW p \in Publishers, Store(p) \/ StoreAbandoned(p)
      PROVE  /\ got.cut \subseteq got'.cut /\ got'.gone = got.gone
             /\ \A i \in Stored' \ rows' : i \in Stored \ rows \/ i \in got'.cut
  <2>1. rows' = rows \cup {Newest + 1} /\ got' = got /\ pub[p].ts \in Nat /\ stamp' = Append(stamp, pub[p].ts)
    BY <1>2 DEF Store, StoreAbandoned, TypeOK, Publisher
  <2>2. \A i \in Stored' \ Stored : i = Newest + 1
    BY <2>1, LateStoreStable
  <2> QED BY <2>1, <2>2
<1>3. CASE ~Cleanup /\ ~\E p \in Publishers : Store(p) \/ StoreAbandoned(p)
  <2>1. stamp' = stamp /\ rows' = rows
    BY <1>3 DEF Next, vars, Publish, Stamp, Refuse, Send, Abandon, Tick, Handler, Panel,
       Open, LookFresh, LookResumed, ReadReplay, LookReset, Subscribe, ReceiveHello, ReceiveReset,
       ReceiveReplay, ReceiveUpdate, Receive, ReadMetrics, ReceiveMetrics, Disconnect, Reload
  <2>2. ASSUME Handler PROVE got' = got
    <3>1. ~ReadReplay /\ ~LookResumed
      BY <1>0 DEF ReadReplay, LookResumed, Conn
    <3> QED BY <2>2, <3>1 DEF Handler, Open, LookFresh, LookReset, Subscribe
  <2>3. ASSUME Panel PROVE got' = got
    <3>1. conn' # NoConn
      BY DEF NoConn
    <3> QED BY <2>3, <3>1
         DEF Panel, ReceiveHello, ReceiveReset, ReceiveReplay, ReceiveUpdate, ReadMetrics,
             ReceiveMetrics, Disconnect, Reload, Greeted
  <2>4. ASSUME \E p \in Publishers : Publish(p) PROVE got' = got
    <3>1. PICK p \in Publishers : Publish(p)
      BY <2>4
    <3> QED BY <1>3, <3>1 DEF Publish, Stamp, Refuse, Send, Subscribed, Abandon
  <2>5. ASSUME Tick \/ UNCHANGED vars PROVE got' = got
    BY <2>5 DEF Tick, vars
  <2>6. got' = got
    <3>1. \/ \E p \in Publishers : Publish(p)
          \/ Tick \/ UNCHANGED vars
          \/ Handler
          \/ Panel
      BY <1>3 DEF Next
    <3> QED BY <2>2, <2>3, <2>4, <2>5, <3>1
  <2> QED BY <2>1, <2>6 DEF Stored
<1> QED BY <1>1, <1>2, <1>3

\* A step that takes nothing back keeps the replay complete.
LEMMA ReplayedKept ==
  ASSUME TypeOK, TypeOK', Replayed, [Next]_vars,
         conn'.mode = conn.mode, conn'.sent = conn.sent,
         conn'.cutoff = conn.cutoff, got'.read = got.read, got'.cut = got.cut,
         got'.gone = got.gone, got'.refused = got.refused,
         conn.outbox \cup got.shown \subseteq conn'.outbox \cup got'.shown
  PROVE  Replayed'
<1>a. conn.sent \in Int /\ got.read \in Nat
  BY DEF TypeOK, Conn, History, NoId
<1>b. Newest \in Nat /\ Stored \subseteq Nat
  BY DEF TypeOK, Newest, Stored
<1>0. conn.sent \in Int /\ got.read \in Nat /\ Newest \in Nat /\ Stored \subseteq Nat
  BY <1>a, <1>b
<1>1. PICK ts \in Nat : stamp' = Append(stamp, ts) \/ stamp' = stamp
  BY LogStep
<1>2. /\ \A i \in Stored : LateStore(i) => LateStore(i)'
      /\ \A i \in Stored : stamp'[i] = stamp[i]
      /\ \A i \in Stored' \ Stored : i = Newest + 1
  BY <1>1, LateStoreStable
<1>3. Newest <= Newest'
  BY <1>0, <1>1, Appended DEF TypeOK, Newest
<1> SUFFICES ASSUME conn.mode = "resumed"
             PROVE  /\ got.read <= Newest'
                    /\ \A i \in Stored' : conn.sent < i /\ i <= got.read =>
                         \/ i \in conn'.outbox \cup got'.shown \cup got.cut
                         \/ got.refused \/ FellOut(i)'
  BY DEF Replayed
<1>4. got.read <= Newest
  BY DEF Replayed
<1>5. got.read <= Newest'
  BY <1>0, <1>3, <1>4 DEF TypeOK, Newest
<1>6. ASSUME NEW i \in Stored', conn.sent < i, i <= got.read
      PROVE  \/ i \in conn'.outbox \cup got'.shown \cup got.cut
             \/ got.refused \/ FellOut(i)'
  <2>1. i \in Stored
    BY <1>0, <1>2, <1>4, <1>6
  <2>2. i \in conn.outbox \cup got.shown \cup got.cut \/ got.refused \/ FellOut(i)
    BY <1>6, <2>1 DEF Replayed
  <2>3. FellOut(i) => FellOut(i)'
    BY <1>2, <2>1 DEF FellOut
  <2> QED BY <2>2, <2>3
<1> QED BY <1>5, <1>6

LEMMA HeaderStep ==
  ASSUME LossInv, TypeOK', [Next]_vars
  PROVE  HeaderChecked'
<1> SUFFICES ASSUME conn'.phase = "checked"
             PROVE  /\ \E j \in Stored' : j <= conn'.sent /\ stamp'[j] >= conn'.cutoff
                    /\ \A i \in Stored' \ rows' : conn'.sent < i =>
                         i \in got'.cut \/ (LateStore(i)' /\ i \in got'.gone)
  BY DEF HeaderChecked
<1>0. /\ conn \in Conn /\ got \in History /\ TypeOK /\ rows \subseteq Stored
      /\ Stored = 1 .. Newest /\ Newest \in Nat /\ \A i \in Stored : stamp[i] \in Nat
  BY DEF LossInv, OrderInv, TypeOK, Stored, Newest
<1>1. CASE LookResumed
  <2>1. /\ conn'.sent = conn.sent /\ conn'.cutoff = conn.cutoff
        /\ UNCHANGED <<stamp, rows>> /\ conn.cutoff \in Int
        /\ conn.sent \in Nat
    BY <1>0, <1>1 DEF LookResumed, Resumable, Conn, NoId
  <2>2. PICK j \in rows : j <= conn.sent /\ stamp[j] >= conn.cutoff
    BY <1>1 DEF LookResumed, Resumable
  <2>3. ASSUME NEW i \in Stored \ rows, conn.sent < i PROVE LateStore(i)
    <3>1. j \in 1 .. (i - 1)
      BY <1>0, <2>1, <2>2, <2>3
    <3>2. stamp[j] > stamp[i]
      BY <1>0, <2>2, <2>3, <3>1 DEF LossInv, DeletedAreOlder
    <3> QED BY <3>1, <3>2 DEF LateStore
  <2>4. got'.gone = Stored \ rows
    BY <1>0, <1>1 DEF LookResumed, History
  <2> QED BY <1>0, <2>1, <2>2, <2>3, <2>4 DEF Stored, LateStore
<1>2. ASSUME conn' = conn PROVE HeaderChecked'
  <2>1. /\ \E j \in Stored : j <= conn.sent /\ stamp[j] >= conn.cutoff
        /\ \A i \in Stored \ rows : conn.sent < i =>
             i \in got.cut \/ (LateStore(i) /\ i \in got.gone)
    BY <1>2 DEF LossInv, HeaderChecked
  <2>2. PICK ts \in Nat : stamp' = Append(stamp, ts) \/ stamp' = stamp
    BY <1>0, LogStep
  <2>3. /\ \A i \in Stored : i \in Stored' /\ stamp'[i] = stamp[i]
        /\ \A i \in Stored : LateStore(i) => LateStore(i)'
    BY <1>0, <2>2, LateStoreStable
  <2>4. /\ got.cut \subseteq got'.cut /\ got'.gone = got.gone
        /\ \A i \in Stored' \ rows' : i \in Stored \ rows \/ i \in got'.cut
    BY <1>0, <1>2, DeletedIsCut
  <2> QED BY <1>2, <2>1, <2>3, <2>4 DEF HeaderChecked
<1>3. CASE Open \/ LookFresh \/ ReadReplay \/ LookReset \/ Subscribe \/ conn' = NoConn
  <2>1. conn' = NoConn => conn'.phase = "closed"
    BY DEF NoConn
  <2>2. Open => conn'.phase = "opened"
    BY DEF Open, NoConn
  <2>3. LookFresh \/ ReadReplay \/ LookReset \/ Subscribe => conn'.phase \in {"looked", "live"}
    BY <1>0 DEF LookFresh, ReadReplay, LookReset, Subscribe, Conn
  <2> QED BY <1>3, <2>1, <2>2, <2>3
<1>4. CASE conn.phase = "live" /\ conn'.phase = conn.phase
  BY <1>4
<1>5. ASSUME NEW p \in Publishers, Publish(p) PROVE conn' = conn \/ (conn.phase = "live" /\ conn'.phase = conn.phase)
  <2>1. CASE Send(p) /\ Subscribed
    BY <1>0, <2>1 DEF Send, PushTo, Subscribed, Conn
  <2>2. CASE ~(Send(p) /\ Subscribed)
    BY <1>5, <2>2 DEF Publish, Stamp, Store, Refuse, Send, Abandon, StoreAbandoned
  <2> QED BY <2>1, <2>2
<1>6. ASSUME ReceiveHello \/ ReceiveReplay \/ ReceiveUpdate \/ ReadMetrics \/ ReceiveMetrics
      PROVE  conn.phase = "live" /\ conn'.phase = conn.phase
  BY <1>0, <1>6
  DEF ReceiveHello, ReceiveReplay, ReceiveUpdate, ReadMetrics, ReceiveMetrics, Greeted, Conn
<1>7. Cleanup \/ Tick \/ UNCHANGED vars => conn' = conn
  BY DEF Cleanup, Tick, vars
<1>8. CASE ReceiveReset \/ Disconnect \/ Reload
  BY <1>3, <1>8 DEF ReceiveReset, Disconnect, Reload
<1>9. CASE conn' = conn
  BY <1>2, <1>9 DEF HeaderChecked
<1> QED BY <1>1, <1>3, <1>4, <1>5, <1>6, <1>7, <1>8, <1>9 DEF Next, Handler, Panel

\* The replay that is read is complete: an event of the window is at or before
\* the header's id, so an event after it that is not in the window was stored
\* late.
LEMMA ReadIsComplete ==
  ASSUME LossInv, ReadReplay
  PROVE  Replayed'
<1>a. /\ conn \in Conn /\ got \in History /\ conn.sent \in Nat /\ conn.cutoff \in Int
  BY DEF LossInv, OrderInv, TypeOK, SentIsId, Conn, ReadReplay
<1>b. /\ Newest \in Nat /\ rows \subseteq Stored /\ Stored = 1 .. Newest
      /\ \A i \in Stored : stamp[i] \in Nat
  BY DEF LossInv, OrderInv, TypeOK, Newest, Stored
<1>1. conn'.sent = conn.sent
  BY <1>a DEF ReadReplay, Conn
<1>2. Stored' = Stored /\ Newest' = Newest /\ \A i : LateStore(i)' <=> LateStore(i)
  BY DEF ReadReplay, Stored, Newest, LateStore
<1>3. CASE got' = [got EXCEPT !.read = Newest, !.refused = TRUE]
  <2>1. got'.read = Newest /\ got'.refused
    BY <1>a, <1>3 DEF History
  <2> QED BY <1>b, <1>2, <2>1 DEF Replayed
<1>4. CASE /\ conn' = [conn EXCEPT !.phase = "looked",
                                    !.outbox = Oldest(Replayable, ReplayLimit)]
           /\ got' = [got EXCEPT !.read = Newest,
                                 !.cut = @ \cup (Replayable \ Oldest(Replayable, ReplayLimit))]
  <2>1. /\ conn'.outbox = Oldest(Replayable, ReplayLimit) /\ got'.read = Newest
        /\ got'.cut = got.cut \cup (Replayable \ Oldest(Replayable, ReplayLimit))
        /\ got'.gone = got.gone /\ conn'.cutoff = conn.cutoff /\ stamp' = stamp
    BY <1>a, <1>4 DEF Conn, History, ReadReplay
  <2>2. PICK j \in Stored : j <= conn.sent /\ stamp[j] >= conn.cutoff
    BY DEF LossInv, HeaderChecked, ReadReplay
  <2>3. ASSUME NEW i \in Stored, conn.sent < i
        PROVE  i \in conn'.outbox \cup got'.shown \cup got'.cut \/ FellOut(i)'
    <3>1. CASE i \in Replayable
      BY <2>1, <3>1
    <3>2. CASE i \notin rows
      <4>1. i \in got.cut \/ (LateStore(i) /\ i \in got.gone)
        BY <2>3, <3>2 DEF LossInv, HeaderChecked, ReadReplay
      <4> QED BY <1>2, <2>1, <2>3, <4>1 DEF FellOut
    <3>3. CASE i \in rows /\ i \notin Replayable
      <4>1. stamp[i] < conn.cutoff
        BY <1>a, <1>b, <2>3, <3>3 DEF Replayable
      <4>2. j \in 1 .. (i - 1) /\ stamp[j] > stamp[i]
        BY <1>a, <1>b, <2>2, <2>3, <4>1
      <4>3. LateStore(i)
        BY <4>2 DEF LateStore
      <4> QED BY <1>2, <2>1, <2>3, <4>1, <4>3 DEF FellOut
    <3> QED BY <3>1, <3>2, <3>3
  <2> QED BY <1>b, <1>1, <1>2, <2>1, <2>3 DEF Replayed
<1> QED BY <1>3, <1>4 DEF ReadReplay

LEMMA ReplayedStep ==
  ASSUME LossInv, TypeOK', [Next]_vars
  PROVE  Replayed'
<1>0. TypeOK /\ Replayed /\ conn \in Conn /\ got \in History
  BY DEF LossInv, OrderInv, TypeOK
<1>1. CASE UNCHANGED <<conn, got>>
  BY <1>0, <1>1, ReplayedKept
<1>2. ASSUME NEW p \in Publishers, Send(p) PROVE Replayed'
  <2>1. CASE ~Subscribed
    BY <1>1, <1>2, <2>1 DEF Send
  <2>2. CASE Subscribed
    <3>1. /\ conn'.mode = conn.mode /\ conn'.sent = conn.sent /\ conn'.outbox = conn.outbox
          /\ conn'.cutoff = conn.cutoff /\ got'.gone = got.gone /\ got'.refused = got.refused
          /\ got'.read = got.read /\ got'.cut = got.cut /\ got'.shown = got.shown
      BY <1>0, <1>2, <2>2 DEF Send, PushTo, Conn, History
    <3> QED BY <1>0, <3>1, ReplayedKept
  <2> QED BY <2>1, <2>2
<1>3. CASE LookFresh \/ Subscribe \/ ReceiveHello \/ ReadMetrics \/ ReceiveMetrics
  <2>1. /\ conn'.mode = conn.mode /\ conn'.sent = conn.sent /\ conn'.outbox = conn.outbox
        /\ conn'.cutoff = conn.cutoff /\ got'.gone = got.gone /\ got'.refused = got.refused
        /\ got'.read = got.read /\ got'.cut = got.cut /\ got'.shown = got.shown
    BY <1>0, <1>3
    DEF LookFresh, Subscribe, ReceiveHello, ReadMetrics, ReceiveMetrics, Conn, History
  <2> QED BY <1>0, <2>1, ReplayedKept
<1>4. CASE ReceiveReplay
  <2>1. PICK i \in conn.outbox : conn' = [conn EXCEPT !.outbox = @ \ {i}] /\ Receive(i)
    BY <1>4 DEF ReceiveReplay
  <2>2. /\ conn'.mode = conn.mode /\ conn'.sent = conn.sent /\ conn'.outbox = conn.outbox \ {i}
        /\ conn'.cutoff = conn.cutoff /\ got'.gone = got.gone /\ got'.refused = got.refused
        /\ got'.read = got.read /\ got'.cut = got.cut /\ got'.shown = got.shown \cup {i}
    BY <1>0, <2>1 DEF Receive, Conn, History
  <2> QED BY <1>0, <2>2, ReplayedKept
<1>5. CASE ReceiveUpdate
  <2>1. /\ conn'.mode = conn.mode /\ conn'.sent = conn.sent /\ conn'.outbox = conn.outbox
        /\ conn'.cutoff = conn.cutoff /\ got'.gone = got.gone /\ got'.refused = got.refused
        /\ got'.read = got.read /\ got'.cut = got.cut
        /\ got'.shown = got.shown \cup {Head(conn.buf)}
    BY <1>0, <1>5 DEF ReceiveUpdate, Receive, Conn, History
  <2> QED BY <1>0, <2>1, ReplayedKept
<1>6. CASE Open \/ LookReset \/ conn' = NoConn
  <2>1. conn' = NoConn => conn'.mode = "fresh"
    BY DEF NoConn
  <2>3. Open => conn'.mode = "fresh"
    BY DEF Open, NoConn
  <2>2. LookReset => conn'.mode = "reset"
    BY <1>0 DEF LookReset, Conn
  <2> QED BY <1>6, <2>1, <2>2, <2>3 DEF Replayed
<1>7. CASE LookResumed
  <2>1. conn'.sent = conn.sent /\ got'.read = got.read /\ conn'.mode = "resumed"
    BY <1>0, <1>7 DEF LookResumed, Conn, History
  <2>2. got.read = 0
    BY <1>7 DEF LossInv, OrderInv, Places, Quiet, LookResumed
  <2>3. Newest' \in Nat /\ Stored' \subseteq Nat \ {0} /\ conn.sent \in Nat
    BY <1>0, <1>7 DEF TypeOK, Newest, Stored, LookResumed, Resumable, Conn, NoId
  <2> QED BY <2>1, <2>2, <2>3 DEF Replayed
<1>12. CASE ReadReplay
  BY <1>12, ReadIsComplete
<1>8. CASE \E p \in Publishers : Publish(p)
  BY <1>1, <1>2, <1>8 DEF Publish, Stamp, Store, Refuse, Abandon, StoreAbandoned
<1>9. CASE Handler
  BY <1>3, <1>6, <1>7, <1>9, <1>12 DEF Handler
<1>10. CASE Panel
  BY <1>3, <1>4, <1>5, <1>6, <1>10 DEF Panel, ReceiveReset, Disconnect, Reload
<1>11. CASE Tick \/ UNCHANGED vars
  BY <1>1, <1>11 DEF Tick, vars
<1>13. CASE Cleanup
  <2>1. /\ conn' = conn /\ stamp' = stamp /\ got'.read = got.read /\ got'.shown = got.shown
        /\ got.cut \subseteq got'.cut /\ got'.gone = got.gone /\ got'.refused = got.refused
    BY <1>0, <1>13 DEF Cleanup, History
  <2> QED BY <1>0, <2>1 DEF Replayed, Stored, Newest, LateStore, FellOut
<1> QED BY <1>8, <1>9, <1>10, <1>11, <1>13 DEF Next

\* The event that is sent joins those that the receiver will get, or pushes one
\* of them out.
LEMMA SendForwards ==
  ASSUME LossInv, NEW p \in Publishers, Send(p), Subscribed
  PROVE  Forwarded'
<1>0. /\ got \in History /\ conn \in Conn /\ conn.buf \in Seq(Nat) /\ pub[p].id \in Nat
      /\ Stored' = Stored /\ unsent' = unsent
      /\ InFlight = {pub[p].id} /\ InFlight' = {}
  BY PublishEffect DEF LossInv, OrderInv, TypeOK, Conn, Publisher
<1>1. PICK b \in Seq(Nat) :
        /\ conn' = [conn EXCEPT !.buf = Append(b, pub[p].id)]
        /\ \/ b = conn.buf /\ got' = got
           \/ /\ conn.buf # << >> /\ b = Tail(conn.buf)
              /\ got' = [got EXCEPT !.dropped = @ \cup {Head(conn.buf)}]
  BY <1>0, Pushed DEF Send, LossInv, OrderInv
<1>2. Range(conn'.buf) = Range(b) \cup {pub[p].id}
  BY <1>0, <1>1, Appended DEF Conn
<1>3. Range(conn.buf) \cup got.dropped \subseteq Range(b) \cup got'.dropped
  <2>1. CASE b = conn.buf /\ got' = got
    BY <2>1
  <2>2. CASE /\ conn.buf # << >> /\ b = Tail(conn.buf)
             /\ got' = [got EXCEPT !.dropped = @ \cup {Head(conn.buf)}]
    <3>1. got'.dropped = got.dropped \cup {Head(conn.buf)}
      BY <1>0, <2>2 DEF History
    <3> QED BY <1>0, <2>2, <3>1, Received
  <2> QED BY <1>1, <2>1, <2>2
<1>4. got'.joined = got.joined /\ got'.shown = got.shown /\ conn.phase = "live"
  BY <1>0, <1>1 DEF History, Subscribed
<1>5. Coming \cup got.dropped \subseteq Coming' \cup got'.dropped
  BY <1>0, <1>2, <1>3 DEF Coming
<1> QED BY <1>0, <1>4, <1>5 DEF LossInv, Forwarded

LEMMA ForwardedStep ==
  ASSUME LossInv, TypeOK', [Next]_vars
  PROVE  Forwarded'
<1>0. /\ conn \in Conn /\ got \in History /\ TypeOK /\ OneWriter /\ Forwarded
      /\ Stored = 1 .. Newest /\ Newest \in Nat
  BY DEF LossInv, OrderInv, TypeOK, Stored, Newest
<1>1. ASSUME conn'.phase = conn.phase, got'.joined = got.joined,
             Coming \cup got.shown \cup got.dropped \cup unsent
               \subseteq Coming' \cup got'.shown \cup got'.dropped \cup unsent',
             Stored' \subseteq Stored \cup InFlight' \cup unsent'
      PROVE  Forwarded'
  <2>1. InFlight' \subseteq Coming'
    BY DEF Coming
  <2> QED BY <1>0, <1>1, <2>1 DEF Forwarded
<1>2. ASSUME NEW p \in Publishers,
             Stamp(p) \/ Refuse(p) \/ Abandon(p) \/ Store(p) \/ StoreAbandoned(p)
      PROVE  Forwarded'
  <2>1. UNCHANGED <<conn, got>>
    BY <1>2 DEF Stamp, Refuse, Abandon, Store, StoreAbandoned
  <2>2. /\ InFlight \subseteq InFlight' /\ unsent \subseteq unsent'
        /\ Stored' \subseteq Stored \cup InFlight' \cup unsent'
    BY <1>0, <1>2, PublishEffect
  <2>3. Coming \subseteq Coming'
    BY <2>1, <2>2 DEF Coming
  <2> QED BY <1>1, <2>1, <2>2, <2>3
<1>4. ASSUME NEW p \in Publishers, Send(p) PROVE Forwarded'
  <2>1. CASE Subscribed
    BY <1>4, <2>1, SendForwards
  <2>2. CASE ~Subscribed
    BY <1>4, <2>2 DEF Send, Subscribed, Forwarded
  <2> QED BY <2>1, <2>2
<1>6. CASE Open \/ LookFresh \/ LookResumed \/ ReadReplay \/ LookReset \/ conn' = NoConn
  <2>1. conn' = NoConn => conn'.phase = "closed"
    BY DEF NoConn
  <2>2. Open => conn'.phase = "opened"
    BY DEF Open, NoConn
  <2>3. LookFresh \/ LookResumed \/ ReadReplay \/ LookReset => conn'.phase \in {"checked", "looked"}
    BY <1>0 DEF LookFresh, LookResumed, ReadReplay, LookReset, Conn
  <2> QED BY <1>6, <2>1, <2>2, <2>3 DEF Forwarded
<1>7. CASE Subscribe
  <2>1. PICK j \in 0 .. Newest :
          /\ IF InFlight = {} THEN j = Newest ELSE j + 1 \in InFlight
          /\ got' = [got EXCEPT !.joined = j]
    BY <1>7 DEF Subscribe
  <2>2. got'.joined = j
    BY <1>0, <2>1 DEF History
  <2>3. InFlight' = InFlight /\ Stored' = Stored /\ unsent' = unsent
    BY <1>7 DEF Subscribe, InFlight, Stored
  <2>4. ASSUME NEW i \in Stored, j < i PROVE i \in InFlight \cup unsent
    <3>1. CASE InFlight = {}
      BY <1>0, <2>1, <2>4, <3>1
    <3>2. CASE InFlight # {}
      <4>1. PICK p \in Publishers : pub[p].at = "stored" /\ pub[p].id = j + 1
        BY <2>1, <3>2 DEF InFlight
      <4>2. i = j + 1 \/ j + 1 < i
        BY <1>0, <2>4
      <4> QED BY <1>0, <2>1, <3>2, <4>1, <4>2 DEF OneWriter
    <3> QED BY <3>1, <3>2
  <2> QED BY <2>2, <2>3, <2>4 DEF Forwarded, Coming
<1>8. ASSUME UNCHANGED <<stamp, pub, unsent>>, conn'.phase = conn.phase, got'.joined = got.joined,
             Range(conn.buf) \cup got.shown \cup got.dropped
               \subseteq Range(conn'.buf) \cup got'.shown \cup got'.dropped
      PROVE  Forwarded'
  <2>1. InFlight' = InFlight /\ Stored' = Stored
    BY <1>8 DEF InFlight, Stored
  <2> QED BY <1>1, <1>8, <2>1 DEF Coming
<1>5. CASE Tick \/ UNCHANGED vars
  BY <1>5, <1>8 DEF Tick, vars
<1>15. CASE Cleanup
  <2>1. got'.joined = got.joined /\ got'.shown = got.shown /\ got'.dropped = got.dropped
    BY <1>0, <1>15 DEF Cleanup, History
  <2> QED BY <1>8, <1>15, <2>1 DEF Cleanup
<1>9. CASE ReceiveHello \/ ReadMetrics \/ ReceiveMetrics
  <2>1. conn'.phase = conn.phase /\ conn'.buf = conn.buf /\ got' = got
    BY <1>0, <1>9 DEF ReceiveHello, ReadMetrics, ReceiveMetrics, Conn
  <2> QED BY <1>8, <1>9, <2>1 DEF ReceiveHello, ReadMetrics, ReceiveMetrics
<1>10. CASE ReceiveReplay
  <2>1. PICK i \in conn.outbox : conn' = [conn EXCEPT !.outbox = @ \ {i}] /\ Receive(i)
    BY <1>10 DEF ReceiveReplay
  <2>2. /\ conn'.phase = conn.phase /\ conn'.buf = conn.buf /\ got'.joined = got.joined
        /\ got'.shown = got.shown \cup {i} /\ got'.dropped = got.dropped
    BY <1>0, <2>1 DEF Receive, Conn, History
  <2> QED BY <1>8, <2>1, <2>2 DEF Receive
<1>11. CASE ReceiveUpdate
  <2>1. conn.buf \in Seq(Nat) /\ conn.buf # << >>
    BY <1>0, <1>11 DEF ReceiveUpdate, Conn
  <2>2. /\ conn'.phase = conn.phase /\ conn'.buf = Tail(conn.buf) /\ got'.joined = got.joined
        /\ got'.shown = got.shown \cup {Head(conn.buf)} /\ got'.dropped = got.dropped
    BY <1>0, <1>11 DEF ReceiveUpdate, Receive, Conn, History
  <2>3. Range(conn.buf) = Range(Tail(conn.buf)) \cup {Head(conn.buf)}
    BY <2>1, Received
  <2> QED BY <1>8, <1>11, <2>2, <2>3 DEF ReceiveUpdate, Receive
<1>12. CASE \E p \in Publishers : Publish(p)
  BY <1>2, <1>4, <1>12 DEF Publish
<1>13. CASE Handler
  BY <1>6, <1>7, <1>13 DEF Handler
<1>14. CASE Panel
  BY <1>6, <1>9, <1>10, <1>11, <1>14 DEF Panel, ReceiveReset, Disconnect, Reload
<1> QED BY <1>5, <1>12, <1>13, <1>14, <1>15 DEF Next

LEMMA LossAlways == Spec => []LossInv
<1>1. Init => LossInv
  <2>1. Init => DeletedAreOlder /\ HeaderChecked /\ Replayed /\ Forwarded
    BY DEF Init, NoConn, DeletedAreOlder, HeaderChecked, Replayed, Forwarded, Stored
  <2> QED BY <2>1, InitOrder DEF LossInv
<1>2. LossInv /\ [Next]_vars => LossInv'
  <2> SUFFICES ASSUME LossInv, [Next]_vars PROVE LossInv'
    OBVIOUS
  <2>1. OrderInv'
    BY OrderStep DEF LossInv
  <2>2. TypeOK /\ TypeOK'
    BY <2>1 DEF LossInv, OrderInv
  <2> QED BY <2>1, <2>2, DeletedStep, HeaderStep, ReplayedStep, ForwardedStep DEF LossInv
<1> QED BY <1>1, <1>2, PTL DEF Spec

\* The six ways in which a connection skips an event, a refused replay query
\* among them, are the only ones (get_ops_stream, publish_event_with_ts).
THEOREM LossesAreExplained == Spec => []EveryLossExplained
<1>1. LossInv => EveryLossExplained
  <2> SUFFICES ASSUME LossInv, conn.phase = "live", NEW i \in Stored, Skipped(i),
                      ~(got.read < i /\ i <= got.joined), i \notin got.dropped,
                      i \notin got.cut, i \notin unsent,
                      ~(got.refused /\ i <= got.read), ~FellOut(i)
               PROVE  FALSE
    BY DEF EveryLossExplained
  <2>1. InLine /\ Behind /\ ReplayInOrder /\ Stored \subseteq Nat
    BY DEF LossInv, OrderInv, Places, Ordered, InPlace, TypeOK, Stored
  <2>2. /\ got.joined \in Nat /\ got.read \in Nat /\ conn.sent \in Int
        /\ got.shown \subseteq Stored
    BY DEF LossInv, OrderInv, TypeOK, Conn, History, NoId, Places
  <2>3. From < i /\ i \notin got.shown \cup Coming
    BY DEF Skipped
  <2>4. PICK j \in got.shown : i < j
    BY DEF Skipped
  <2>5. ~(got.joined < i)
    BY <2>3 DEF LossInv, Forwarded
  <2>6. CASE conn.mode = "resumed"
    <3>1. i <= got.read
      BY <2>1, <2>2, <2>5
    <3>2. i \in conn.outbox
      BY <2>3, <2>6, <3>1 DEF LossInv, Replayed, From
    <3>3. j < i /\ i \in Nat /\ j \in Nat
      BY <2>1, <2>2, <2>4, <3>2 DEF ReplayInOrder
    <3> QED BY <2>4, <3>3
  <2>7. CASE conn.mode # "resumed"
    BY <2>3, <2>5, <2>7 DEF From
  <2> QED BY <2>6, <2>7
<1> QED BY <1>1, LossAlways, PTL
=============================================================================
