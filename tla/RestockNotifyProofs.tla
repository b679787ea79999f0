-------------------------- MODULE RestockNotifyProofs --------------------------
(***************************************************************************)
(* Proofs about who is told of a config, for every set of configs, users,  *)
(* chats and subscriptions and every number of faults; and, at the end,    *)
(* that the pages of the records are read whole, for every finite set of   *)
(* times and ids, every size of a page and every clean-up (RecordFeed).    *)
(***************************************************************************)
EXTENDS MC_RestockNotify, FiniteSetTheorems, TLAPS

-----------------------------------------------------------------------------
(***************************************************************************)
(* Types.                                                                  *)
(***************************************************************************)

RunType == [phase : {"none", "fetch", "applied", "telling", "wedged"}, waiters : SUBSET Users,
            event : SUBSET Configs, listed : SUBSET Configs, gone : SUBSET Configs, empty : SUBSET Configs]

HeardType == [restock : 0..2, added : 0..2, news : {"none", "added", "removed"}]

ExcusedType == [raced : SUBSET (Users \X Configs), relisted : SUBSET (Users \X Configs),
                missed : SUBSET (Users \X Configs), cut : SUBSET (Users \X Configs),
                silent : SUBSET (Users \X Configs)]

\* What a sender has to tell, and where it is.
SendType == [todo : SUBSET Messages, record : {NoRecord} \cup Records]

RowOK == row \in [Configs -> Rows]
RunOK == run \in RunType
PollOK == /\ poll \in {NoPoll} \cup Polls
          /\ poll # NoPoll => poll.ids \subseteq DOMAIN poll.old /\ {poll.user} \X DOMAIN poll.old \subseteq Watches
SendOK == send \in [Senders -> SendType]
HistoryOK == first \subseteq Configs /\ heard \in [Users \X Configs -> HeardType] /\ excused \in ExcusedType
FaultsOK == faults \in 0..MaxFaults

Types == RowOK /\ RunOK /\ PollOK /\ SendOK /\ HistoryOK /\ FaultsOK

LEMMA TypesImply == Types => TypeOK
<1> SUFFICES ASSUME Types PROVE TypeOK
  OBVIOUS
<1>1. \A s \in Senders : send[s].todo \subseteq Messages /\ (send[s].record = NoRecord \/ send[s].record \in Records)
  BY DEF Types, SendOK, SendType
<1>2. \A e \in DOMAIN NoExcuse : excused[e] \subseteq Users \X Configs
  <2>1. DOMAIN NoExcuse = {"raced", "relisted", "missed", "cut", "silent"}
    BY DEF NoExcuse
  <2> QED
    BY <2>1 DEF Types, HistoryOK, ExcusedType
<1> QED
  BY <1>1, <1>2 DEF Types, TypeOK, RowOK, RunOK, RunType, PollOK, HistoryOK, HeardType, FaultsOK

LEMMA QuietType == Quiet \in SendType /\ NoRun \in RunType
  BY DEF Quiet, SendType, NoRun, RunType

\* A page lists some of the configs.
LEMMA PageType ==
  ASSUME NEW page \in Pages
  PROVE  DOMAIN page \subseteq Configs /\ \A c \in DOMAIN page : page[c] \in 0..1
  BY DEF Pages

LEMMA EmptyPage == NoPage \in Pages /\ DOMAIN NoPage = {}
  BY DEF NoPage, Pages

\* What a page leaves of the rows.
LEMMA AppliedRows ==
  ASSUME RowOK, NEW page \in Pages, NEW c \in Configs
  PROVE  /\ Applied(page) \in [Configs -> Rows]
         /\ c \in DOMAIN page =>
              Applied(page)[c] = [state |-> "active", qty |-> page[c], marked |-> page[c] > 0 \/ (c \in Prev /\ row[c].marked)]
         /\ c \in Prev \ DOMAIN page => Applied(page)[c] = [row[c] EXCEPT !.state = "delisted", !.marked = FALSE]
         /\ c \notin Prev \cup DOMAIN page => Applied(page)[c] = row[c]
<1> DEFINE new(d) == CASE d \in DOMAIN page ->
                            [state |-> "active", qty |-> page[d],
                             marked |-> page[d] > 0 \/ (d \in Prev /\ row[d].marked)]
                       [] d \in Prev \ DOMAIN page -> [row[d] EXCEPT !.state = "delisted", !.marked = FALSE]
                       [] OTHER -> row[d]
<1>1. Applied(page) = [d \in Configs |-> new(d)]
  BY DEF Applied
<1>2. \A d \in DOMAIN page : new(d) = [state |-> "active", qty |-> page[d],
                                      marked |-> page[d] > 0 \/ (d \in Prev /\ row[d].marked)]
  OBVIOUS
<1>3. \A d \in Prev \ DOMAIN page : new(d) = [row[d] EXCEPT !.state = "delisted", !.marked = FALSE]
  OBVIOUS
<1>4. \A d \in Configs \ (Prev \cup DOMAIN page) : new(d) = row[d]
  OBVIOUS
<1> HIDE DEF new
<1>5. ASSUME NEW d \in Configs PROVE new(d) \in Rows
  <2>0. row[d] \in Rows
    BY DEF RowOK
  <2>1. CASE d \in DOMAIN page
    <3>1. page[d] \in 0..1
      BY <2>1, PageType
    <3> DEFINE marked == page[d] > 0 \/ (d \in Prev /\ row[d].marked)
    <3>2. marked \in BOOLEAN
      OBVIOUS
    <3>3. new(d) = [state |-> "active", qty |-> page[d], marked |-> marked]
      BY <1>2, <2>1
    <3> HIDE DEF marked
    <3> QED
      BY <3>1, <3>2, <3>3 DEF Rows
  <2>2. CASE d \in Prev \ DOMAIN page
    <3>1. [row[d] EXCEPT !.state = "delisted", !.marked = FALSE] \in Rows
      BY <2>0 DEF Rows
    <3> QED
      BY <1>3, <2>2, <3>1
  <2>3. CASE d \notin Prev \cup DOMAIN page
    BY <1>4, <2>0, <2>3
  <2> QED
    BY <2>1, <2>2, <2>3
<1> QED
  BY <1>1, <1>2, <1>3, <1>4, <1>5

LEMMA PrevRows == RowOK => Prev \subseteq Configs
  BY DEF Prev

\* What is told after a page.
LEMMA HeardRows ==
  ASSUME HistoryOK, NEW page \in Pages, NEW p \in Users \X Configs
  PROVE  /\ Heard(page) \in [Users \X Configs -> HeardType]
         /\ Heard(page)[p].news = heard[p].news
         /\ Heard(page)[p].restock = IF p[2] \in Stays(page) THEN heard[p].restock ELSE 0
         /\ Heard(page)[p].added = IF p[2] \in Prev \cap DOMAIN page THEN heard[p].added ELSE 0
<1> DEFINE r(q) == IF q[2] \in Stays(page) THEN heard[q] ELSE [heard[q] EXCEPT !.restock = 0]
           n(q) == IF q[2] \in Prev \cap DOMAIN page THEN r(q) ELSE [r(q) EXCEPT !.added = 0]
<1>1. Heard(page) = [q \in Users \X Configs |-> n(q)]
  BY DEF Heard
<1>2. ASSUME NEW q \in Users \X Configs
      PROVE  /\ r(q) \in HeardType /\ r(q).news = heard[q].news /\ r(q).added = heard[q].added
             /\ r(q).restock = IF q[2] \in Stays(page) THEN heard[q].restock ELSE 0
  <2>1. heard[q] \in HeardType
    BY DEF HistoryOK
  <2> QED
    BY <2>1 DEF HeardType
<1> HIDE DEF r
<1>3. ASSUME NEW q \in Users \X Configs
      PROVE  /\ n(q) \in HeardType /\ n(q).news = heard[q].news
             /\ n(q).added = IF q[2] \in Prev \cap DOMAIN page THEN heard[q].added ELSE 0
             /\ n(q).restock = IF q[2] \in Stays(page) THEN heard[q].restock ELSE 0
  BY <1>2 DEF HeardType
<1> HIDE DEF n
<1> QED
  BY <1>1, <1>3

LEMMA ForgivenIs ==
  ASSUME NEW page
  PROVE  /\ Forgiven(page).raced = {p \in excused.raced : p[2] \in Stays(page)}
         /\ Forgiven(page).relisted = {p \in excused.relisted : p[2] \in Stays(page)}
         /\ Forgiven(page).missed = {p \in excused.missed : p[2] \in Stays(page)}
         /\ Forgiven(page).cut = {p \in excused.cut : p[2] \in Prev <=> p[2] \in DOMAIN page}
         /\ Forgiven(page).silent = {p \in excused.silent : p[2] \in Prev <=> p[2] \in DOMAIN page}
         /\ Forgiven(page) = [raced |-> Forgiven(page).raced, relisted |-> Forgiven(page).relisted,
                              missed |-> Forgiven(page).missed, cut |-> Forgiven(page).cut,
                              silent |-> Forgiven(page).silent]
<1> DEFINE still(pairs) == {p \in pairs : p[2] \in Stays(page)}
           kept(pairs) == {p \in pairs : p[2] \in Prev <=> p[2] \in DOMAIN page}
<1>1. Forgiven(page) = [raced |-> still(excused.raced), relisted |-> still(excused.relisted),
                        missed |-> still(excused.missed), cut |-> kept(excused.cut),
                        silent |-> kept(excused.silent)]
  BY DEF Forgiven
<1> HIDE DEF still, kept
<1>2. /\ Forgiven(page).raced = still(excused.raced) /\ Forgiven(page).relisted = still(excused.relisted)
      /\ Forgiven(page).missed = still(excused.missed) /\ Forgiven(page).cut = kept(excused.cut)
      /\ Forgiven(page).silent = kept(excused.silent)
  BY <1>1
<1>3. Forgiven(page) = [raced |-> Forgiven(page).raced, relisted |-> Forgiven(page).relisted,
                        missed |-> Forgiven(page).missed, cut |-> Forgiven(page).cut,
                        silent |-> Forgiven(page).silent]
  BY <1>1, <1>2
<1> QED
  BY <1>2, <1>3 DEF still, kept

LEMMA ForgivenType ==
  ASSUME HistoryOK, NEW page
  PROVE  Forgiven(page) \in ExcusedType
<1>1. excused \in ExcusedType
  BY DEF HistoryOK
<1>2. /\ Forgiven(page).raced \subseteq Users \X Configs /\ Forgiven(page).relisted \subseteq Users \X Configs
      /\ Forgiven(page).missed \subseteq Users \X Configs /\ Forgiven(page).cut \subseteq Users \X Configs
      /\ Forgiven(page).silent \subseteq Users \X Configs
  BY <1>1, ForgivenIs DEF ExcusedType
<1> DEFINE f == Forgiven(page)
<1>3. f = [raced |-> f.raced, relisted |-> f.relisted, missed |-> f.missed, cut |-> f.cut, silent |-> f.silent]
  BY ForgivenIs
<1> HIDE DEF f
<1>4. f \in ExcusedType
  BY <1>2, <1>3 DEF ExcusedType, f
<1> QED
  BY <1>4 DEF f

\* What the refresh adds to the excuses.
LEMMA SilencedIs ==
  ASSUME Types, NEW page \in Pages
  PROVE  /\ Silenced(page) \in ExcusedType
         /\ Silenced(page).raced = {p \in excused.raced : p[2] \in Stays(page)} \cup Overtaken
         /\ Silenced(page).relisted = {p \in excused.relisted : p[2] \in Stays(page)}
         /\ Silenced(page).missed = {p \in excused.missed : p[2] \in Stays(page)} \cup (Users \X Event(page))
         /\ Silenced(page).cut = excused.cut
         /\ Silenced(page).silent = excused.silent \cup (Users \X Untold(page))
<1>1. Silenced(page) = [raced |-> Forgiven(page).raced \cup Overtaken, relisted |-> Forgiven(page).relisted,
                        missed |-> Forgiven(page).missed \cup (Users \X Event(page)), cut |-> excused.cut,
                        silent |-> excused.silent \cup (Users \X Untold(page))]
  BY DEF Silenced
<1>2. excused \in ExcusedType /\ Forgiven(page) \in ExcusedType
  BY ForgivenType DEF Types, HistoryOK
<1>3. Event(page) \subseteq Configs /\ Untold(page) \subseteq Configs
  BY PageType, PrevRows DEF Event, Untold, Types
<1>4. Overtaken \subseteq Users \X Configs
  BY DEF Overtaken, Types, RunOK, RunType
<1>5. /\ Forgiven(page).raced \cup Overtaken \in SUBSET (Users \X Configs)
      /\ Forgiven(page).relisted \in SUBSET (Users \X Configs)
      /\ Forgiven(page).missed \cup (Users \X Event(page)) \in SUBSET (Users \X Configs)
      /\ excused.cut \in SUBSET (Users \X Configs)
      /\ excused.silent \cup (Users \X Untold(page)) \in SUBSET (Users \X Configs)
  BY <1>2, <1>3, <1>4 DEF ExcusedType
<1>6. Silenced(page) \in ExcusedType
  BY <1>1, <1>5 DEF ExcusedType
<1>7. /\ Silenced(page).raced = Forgiven(page).raced \cup Overtaken
      /\ Silenced(page).relisted = Forgiven(page).relisted
      /\ Silenced(page).missed = Forgiven(page).missed \cup (Users \X Event(page))
      /\ Silenced(page).cut = excused.cut
      /\ Silenced(page).silent = excused.silent \cup (Users \X Untold(page))
  BY <1>1
<1> QED
  BY <1>6, <1>7, ForgivenIs

LEMMA InitTypes == Init => Types
<1> SUFFICES ASSUME Init PROVE Types
  OBVIOUS
<1>1. RowOK /\ RunOK /\ SendOK
  BY QuietType DEF Init, RowOK, Rows, RunOK, SendOK
<1>2. PollOK
  BY DEF Init, PollOK
<1>3. HistoryOK
  <2>1. excused \in ExcusedType
    BY DEF Init, NoExcuse, ExcusedType
  <2>2. Nothing \in HeardType
    BY DEF Nothing, HeardType
  <2> QED
    BY <2>1, <2>2 DEF Init, HistoryOK
<1>4. FaultsOK
  BY NotifyAssumption DEF Init, FaultsOK
<1> QED
  BY <1>1, <1>2, <1>3, <1>4 DEF Types

\* What a run is going to tell is a set of messages.
LEMMA ToldTypes ==
  ASSUME RunOK
  PROVE  Fallback(run.waiters) \cup Changes \subseteq Messages
<1>1. run.event \subseteq Configs /\ run.gone \subseteq Configs
  BY DEF RunOK, RunType
<1>2. Watches \subseteq Users \X Configs /\ Followers \subseteq Users
  BY NotifyAssumption
<1>3. Fallback(run.waiters) \subseteq Messages
  BY <1>1, <1>2 DEF Fallback, Messages, Kinds
<1>4. Changes \subseteq Messages
  BY <1>1, <1>2 DEF Changes, Messages, Kinds
<1> QED
  BY <1>3, <1>4

LEMMA StatusTypes ==
  ASSUME NEW u \in Users
  PROVE  /\ Outcomes(u) \subseteq {"success", "partial_success", "error"}
         /\ PushOutcomes(u) \subseteq {"success", "error", "skipped"}
         /\ \A s \in Senders : Opened(s, u) \in Records /\ Opened(s, u).user = u
<1>1. Outcomes(u) \subseteq {"success", "partial_success", "error"}
  BY DEF Outcomes, Aggregate
<1>2. PushOutcomes(u) \subseteq {"success", "error", "skipped"}
  BY DEF PushOutcomes
<1>3. ASSUME NEW s \in Senders PROVE Opened(s, u) \in Records /\ Opened(s, u).user = u
  <2> DEFINE tg == IF u \in Telegram THEN "pending" ELSE "skipped"
             wp == IF u \in WebPush /\ s = "run" THEN "pending" ELSE "skipped"
  <2>1. tg \in Statuses /\ wp \in Statuses
    BY DEF Statuses
  <2>2. Opened(s, u) = [user |-> u, got |-> "pending", step |-> "telegram", tg |-> tg, wp |-> wp]
    BY DEF Opened
  <2> HIDE DEF tg, wp
  <2> QED
    BY <2>1, <2>2 DEF Records, Statuses
<1> QED
  BY <1>1, <1>2, <1>3

LEMMA ToldType ==
  ASSUME NEW h \in HeardType, NEW kind \in Kinds
  PROVE  Told(h, kind) \in HeardType
<1>1. CASE kind = "restock"
  BY <1>1 DEF Told, HeardType
<1>2. CASE kind = "added"
  <2> DEFINE n == IF h.added < 2 THEN h.added + 1 ELSE 2
  <2>1. n \in 0..2
    BY DEF HeardType
  <2>2. Told(h, kind) = [h EXCEPT !.added = n, !.news = "added"]
    BY <1>2 DEF Told
  <2> HIDE DEF n
  <2> QED
    BY <2>1, <2>2 DEF HeardType
<1>3. CASE kind = "removed"
  BY <1>3 DEF Told, HeardType
<1> QED
  BY <1>1, <1>2, <1>3 DEF Kinds

LEMMA LostTypes ==
  ASSUME RowOK, HistoryOK, NEW told \in SUBSET (Users \X Configs),
         NEW polled \in SUBSET (Users \X Configs), Lost(told, polled)
  PROVE  (RowOK /\ HistoryOK)'
<1>1. excused' \in ExcusedType
  BY DEF Lost, HistoryOK, ExcusedType
<1> QED
  BY <1>1 DEF Lost, RowOK, HistoryOK

LEMMA FaultTypes ==
  ASSUME RowOK, HistoryOK, FaultsOK, NEW told \in SUBSET (Users \X Configs),
         NEW polled \in SUBSET (Users \X Configs), Fault(told, polled)
  PROVE  (RowOK /\ HistoryOK /\ FaultsOK)'
<1>1. faults' \in 0..MaxFaults
  BY NotifyAssumption DEF Fault, FaultsOK
<1> QED
  BY <1>1, LostTypes DEF Fault, FaultsOK

LEMMA PairsLost ==
  ASSUME RunOK, PollOK
  PROVE  RunLost \subseteq Users \X Configs /\ PollLost \subseteq Users \X Configs
<1>1. RunLost \subseteq Users \X Configs
  BY DEF RunLost, RunOK, RunType
<1>2. PollLost \subseteq Users \X Configs
  <2>1. CASE poll = NoPoll
    BY <2>1 DEF PollLost, NoPoll
  <2>2. CASE poll \in Polls
    BY <2>2 DEF PollLost, Polls
  <2> QED
    BY <2>1, <2>2 DEF PollOK
<1> QED
  BY <1>1, <1>2

LEMMA PollIsOne ==
  ASSUME PollOK, poll.phase # "idle"
  PROVE  /\ poll \in Polls /\ poll # NoPoll /\ poll.ids \subseteq DOMAIN poll.old
         /\ {poll.user} \X DOMAIN poll.old \subseteq Watches /\ poll.user \in Users
<1>1. poll # NoPoll
  BY DEF NoPoll
<1> QED
  BY <1>1 DEF PollOK, Polls

LEMMA PollFields ==
  ASSUME NEW p \in Polls
  PROVE  /\ p # NoPoll
         /\ \A x \in {"read", "wait", "compare"} : [p EXCEPT !.phase = x] \in Polls
         /\ \A b \in 0..2 : [p EXCEPT !.behind = b] \in Polls
         /\ \A i \in SUBSET Configs : [p EXCEPT !.ids = i] \in Polls
         /\ \A x : /\ [p EXCEPT !.phase = x].ids = p.ids /\ [p EXCEPT !.phase = x].old = p.old
                   /\ [p EXCEPT !.phase = x].user = p.user /\ [p EXCEPT !.phase = x].phase = x
         /\ \A x : /\ [p EXCEPT !.behind = x].ids = p.ids /\ [p EXCEPT !.behind = x].old = p.old
                   /\ [p EXCEPT !.behind = x].user = p.user /\ [p EXCEPT !.behind = x].phase = p.phase
         /\ \A x : /\ [p EXCEPT !.ids = x].ids = x /\ [p EXCEPT !.ids = x].old = p.old
                   /\ [p EXCEPT !.ids = x].user = p.user /\ [p EXCEPT !.ids = x].phase = p.phase
<1> DEFINE olds == UNION {[read -> 0..1] : read \in SUBSET Configs}
<1>1. Polls = [phase : {"read", "wait", "compare"}, user : Users, ids : SUBSET Configs, old : olds, behind : 0..2]
  BY DEF Polls
<1> HIDE DEF olds
<1>2. p.phase # "idle"
  BY <1>1
<1>3. p # NoPoll
  BY <1>2 DEF NoPoll
<1> QED
  BY <1>1, <1>3

\* A page changes what a poll read only by its age.
LEMMA BehindIs ==
  ASSUME PollOK, poll' = Behind
  PROVE  /\ PollOK'
         /\ poll'.phase = poll.phase /\ poll'.ids = poll.ids /\ poll'.old = poll.old /\ poll'.user = poll.user
         /\ poll.phase # "idle" => poll'.behind # 0 /\ (poll'.behind = 1 => poll.behind = 0)
<1>1. CASE poll.phase = "idle"
  BY <1>1 DEF Behind, PollOK
<1>2. CASE poll.phase # "idle"
  <2> DEFINE b == IF poll.behind < 2 THEN poll.behind + 1 ELSE 2
  <2>1. poll' = [poll EXCEPT !.behind = b]
    BY <1>2 DEF Behind
  <2>2. poll \in Polls /\ poll.behind \in 0..2
    BY <1>2, PollIsOne DEF Polls
  <2>3. b \in 0..2 /\ b # 0 /\ (b = 1 => poll.behind = 0)
    BY <2>2
  <2> HIDE DEF b
  <2>4. /\ poll'.phase = poll.phase /\ poll'.ids = poll.ids /\ poll'.old = poll.old /\ poll'.user = poll.user
        /\ poll'.behind = b
    BY <2>1, <2>2, PollFields
  <2>5. poll' \in Polls
    BY <2>1, <2>2, <2>3, PollFields
  <2> QED
    BY <1>2, <2>3, <2>4, <2>5, PollIsOne DEF PollOK
<1> QED
  BY <1>1, <1>2

\* What a page, or the refresh, leaves of rows and histories is of their types.
LEMMA PageTypes ==
  ASSUME Types, NEW page \in Pages
  PROVE  /\ Applied(page) \in [Configs -> Rows]
         /\ First(page) \subseteq Configs
         /\ Heard(page) \in [Users \X Configs -> HeardType]
<1> USE DEF Types
<1>1. Applied(page) \in [Configs -> Rows]
  <2>1. CASE Configs = {}
    BY <2>1 DEF Applied
  <2>2. CASE Configs # {}
    BY <2>2, AppliedRows
  <2> QED
    BY <2>1, <2>2
<1>2. First(page) \subseteq Configs
  BY PageType DEF First, Event, HistoryOK
<1>3. Heard(page) \in [Users \X Configs -> HeardType]
  <2>1. CASE Users \X Configs = {}
    BY <2>1 DEF Heard
  <2>2. CASE Users \X Configs # {}
    BY <2>2, HeardRows
  <2> QED
    BY <2>1, <2>2
<1> QED
  BY <1>1, <1>2, <1>3

\* The task of the page keeps the types.
LEMMA RunTypes ==
  ASSUME Types, Enqueue \/ RunApplies \/ RunReadsWaiters \/ RunEnds
  PROVE  Types'
<1> USE DEF Types, history
<1>1. CASE Enqueue
  <2>1. run' \in RunType
    BY <1>1, QuietType DEF Enqueue, RunType
  <2> QED
    BY <1>1, <2>1 DEF Enqueue, RowOK, RunOK, PollOK, SendOK, HistoryOK, FaultsOK
<1>2. CASE RunApplies
  <2>1. PICK page \in Pages :
          /\ row' = Applied(page)
          /\ run' = [run EXCEPT !.phase = "applied", !.event = Event(page),
                          !.listed = DOMAIN page \ Prev, !.gone = Prev \ DOMAIN page]
          /\ poll' = Behind
          /\ first' = First(page)
          /\ heard' = Heard(page)
          /\ excused' = Forgiven(page)
          /\ UNCHANGED <<send, faults>>
    BY <1>2 DEF RunApplies
  <2>2. RowOK'
    BY <2>1, PageTypes DEF RowOK
  <2>3. RunOK'
    <3>1. DOMAIN page \subseteq Configs /\ Prev \subseteq Configs /\ Event(page) \subseteq Configs
      BY PageType, PrevRows DEF Event
    <3> QED
      BY <2>1, <3>1 DEF RunOK, RunType
  <2>4. PollOK'
    BY <2>1, BehindIs
  <2>5. HistoryOK'
    BY <2>1, PageTypes, ForgivenType DEF HistoryOK
  <2> QED
    BY <2>1, <2>2, <2>3, <2>4, <2>5 DEF SendOK, FaultsOK
<1>3. CASE RunReadsWaiters
  <2>1. RunOK'
    <3> DEFINE empty == {c \in run.event : row[c].qty = 0}
    <3>1. run' = [run EXCEPT !.phase = "telling", !.empty = empty]
      BY <1>3 DEF RunReadsWaiters
    <3>2. empty \subseteq Configs
      BY DEF RunOK, RunType
    <3> HIDE DEF empty
    <3> QED
      BY <3>1, <3>2 DEF RunOK, RunType
  <2>2. SendOK'
    <3>1. [send["run"] EXCEPT !.todo = Fallback(run.waiters) \cup Changes] \in SendType
      BY ToldTypes DEF SendOK, SendType, Senders
    <3>2. send' = [send EXCEPT !["run"] = [send["run"] EXCEPT !.todo = Fallback(run.waiters) \cup Changes]]
      BY <1>3 DEF RunReadsWaiters, SendOK, Senders
    <3> QED
      BY <3>1, <3>2 DEF SendOK, Senders
  <2>3. excused' \in ExcusedType
    <3>1. Raced \subseteq Users \X Configs /\ Relisted \subseteq Users \X Configs
      BY NotifyAssumption DEF Raced, Relisted
    <3> QED
      BY <1>3, <3>1 DEF RunReadsWaiters, HistoryOK, ExcusedType
  <2> QED
    BY <1>3, <2>1, <2>2, <2>3 DEF RunReadsWaiters, RowOK, PollOK, HistoryOK, FaultsOK
<1>4. CASE RunEnds
  <2>1. RunOK'
    BY <1>4, QuietType DEF RunEnds, RunOK
  <2>2. PollOK'
    <3>1. poll' = Answered
      BY <1>4 DEF RunEnds
    <3>2. CASE poll.phase = "wait"
      <4>1. poll' = [poll EXCEPT !.phase = "compare"]
        BY <3>1, <3>2 DEF Answered
      <4>2. poll' \in Polls /\ poll'.ids = poll.ids /\ poll'.old = poll.old /\ poll'.user = poll.user
        BY <3>2, <4>1, PollIsOne, PollFields
      <4> QED
        BY <3>2, <4>2, PollIsOne DEF PollOK
    <3>3. CASE poll.phase # "wait"
      BY <3>1, <3>3 DEF Answered, PollOK
    <3> QED
      BY <3>2, <3>3
  <2> QED
    BY <1>4, <2>1, <2>2 DEF RunEnds, RowOK, SendOK, HistoryOK, FaultsOK
<1> QED
  BY <1>1, <1>2, <1>3, <1>4

\* The poller keeps the types.
LEMMA PollTypes ==
  ASSUME Types, (\E u \in Users : PollReads(u)) \/ PollJoins \/ PollCompares \/ PollEnds
  PROVE  Types'
<1> USE DEF Types, history
<1>1. CASE \E u \in Users : PollReads(u)
  <2>1. PICK u \in Users : PollReads(u)
    BY <1>1
  <2> DEFINE ids == Monitored(u)
             old == [c \in ids |-> row[c].qty]
  <2>2. poll' = [phase |-> "read", user |-> u, ids |-> ids, old |-> old, behind |-> 0]
    BY <2>1 DEF PollReads
  <2>3. ids \subseteq Configs /\ \A c \in ids : <<u, c>> \in Watches
    BY DEF Monitored
  <2> HIDE DEF ids
  <2>4. old \in [ids -> 0..1]
    BY <2>3 DEF RowOK, Rows
  <2>5. old \in UNION {[read -> 0..1] : read \in SUBSET Configs} /\ DOMAIN old = ids
    BY <2>3, <2>4
  <2> HIDE DEF old
  <2>6. poll' \in Polls
    BY <2>2, <2>3, <2>5 DEF Polls
  <2>7. poll'.ids = ids /\ poll'.old = old /\ poll'.user = u
    BY <2>2
  <2>8. PollOK'
    BY <2>3, <2>5, <2>6, <2>7 DEF PollOK
  <2> QED
    BY <2>1, <2>8 DEF PollReads, RowOK, RunOK, SendOK, HistoryOK, FaultsOK
<1>2. CASE PollJoins
  <2>1. poll \in Polls /\ poll.user \in Users
    BY <1>2, PollIsOne DEF PollJoins
  <2>2. poll' = [poll EXCEPT !.phase = "wait"]
    BY <1>2 DEF PollJoins
  <2>3. poll' \in Polls /\ poll'.ids = poll.ids /\ poll'.old = poll.old /\ poll'.user = poll.user
    BY <2>1, <2>2, PollFields
  <2>4. PollOK'
    BY <1>2, <2>3, PollIsOne DEF PollOK, PollJoins
  <2>5. RunOK'
    BY <1>2, <2>1 DEF PollJoins, RunOK, RunType
  <2> QED
    BY <1>2, <2>4, <2>5 DEF PollJoins, RowOK, SendOK, HistoryOK, FaultsOK
<1>3. CASE PollCompares
  <2>1. PICK c \in poll.ids :
          /\ poll' = [poll EXCEPT !.ids = @ \ {c}]
          /\ send' = [send EXCEPT !["poll"].todo =
               IF Restocked(c) THEN {[user |-> poll.user, config |-> c, kind |-> "restock"]} ELSE {}]
    BY <1>3 DEF PollCompares
  <2>2. poll \in Polls /\ poll.user \in Users /\ poll.ids \subseteq Configs
    BY <1>3, PollIsOne DEF PollCompares, Polls
  <2>3. PollOK'
    <3>1. poll' \in Polls /\ poll'.ids = poll.ids \ {c} /\ poll'.old = poll.old /\ poll'.user = poll.user
      BY <2>1, <2>2, PollFields
    <3> QED
      BY <1>3, <3>1, PollIsOne DEF PollOK, PollCompares
  <2>4. SendOK'
    <3> DEFINE todo == IF Restocked(c) THEN {[user |-> poll.user, config |-> c, kind |-> "restock"]} ELSE {}
    <3>1. todo \subseteq Messages
      BY <2>1, <2>2 DEF Messages, Kinds
    <3>2. send' = [send EXCEPT !["poll"] = [send["poll"] EXCEPT !.todo = todo]]
      BY <2>1 DEF SendOK, Senders
    <3> HIDE DEF todo
    <3>3. [send["poll"] EXCEPT !.todo = todo] \in SendType
      BY <3>1 DEF SendOK, SendType, Senders
    <3> QED
      BY <3>2, <3>3 DEF SendOK, Senders
  <2> QED
    BY <1>3, <2>3, <2>4 DEF PollCompares, RowOK, RunOK, HistoryOK, FaultsOK
<1>4. CASE PollEnds
  BY <1>4 DEF PollEnds, PollOK, RowOK, RunOK, SendOK, HistoryOK, FaultsOK
<1> QED
  BY <1>1, <1>2, <1>3, <1>4

\* A record that goes on.
LEMMA AdvanceTypes ==
  ASSUME Types, NEW s \in Senders, NEW r \in {NoRecord} \cup Records, Advance(s, r)
  PROVE  Types'
<1>1. [send[s] EXCEPT !.record = r] \in SendType
  BY DEF Types, SendOK, SendType
<1>2. send' = [send EXCEPT ![s] = [send[s] EXCEPT !.record = r]]
  BY DEF Advance, Types, SendOK
<1>3. SendOK'
  BY <1>1, <1>2 DEF Types, SendOK
<1> QED
  BY <1>3 DEF Advance, Types, RowOK, RunOK, PollOK, HistoryOK, FaultsOK, history

\* A record at a step of its delivery, and what it may become.
LEMMA RecordFields ==
  ASSUME Types, NEW s \in Senders,
         NEW step \in {"telegram", "written", "push", "pushed", "done"}, AtStep(s, step)
  PROVE  /\ send[s].record \in Records /\ send[s].record.user \in Users
         /\ \A x \in {"telegram", "written", "push", "pushed", "done"}, o \in Statuses :
              LET r == send[s].record IN
              /\ [r EXCEPT !.step = x] \in Records
              /\ [r EXCEPT !.got = o, !.step = x] \in Records
              /\ [r EXCEPT !.tg = r.got, !.got = "pending", !.step = x] \in Records
              /\ [r EXCEPT !.wp = r.got, !.got = "pending", !.step = x] \in Records
<1>1. send[s].record \in {NoRecord} \cup Records
  BY DEF Types, SendOK, SendType
<1>2. send[s].record # NoRecord
  BY DEF AtStep, NoRecord
<1> QED
  BY <1>1, <1>2 DEF Records, Statuses

\* A message keeps the types.
LEMMA DeliverTypes ==
  ASSUME Types, NEW s \in Senders, Deliver(s)
  PROVE  Types'
<1>1. CASE Record(s)
  <2>1. PICK m \in send[s].todo :
          /\ send' = [send EXCEPT ![s] = [todo |-> send[s].todo \ {m}, record |-> Opened(s, m.user)]]
          /\ heard' = [heard EXCEPT ![<<m.user, m.config>>] = Told(heard[<<m.user, m.config>>], m.kind)]
          /\ excused' = [excused EXCEPT !.raced =
               IF s = "poll" /\ run.phase = "applied" THEN @ \cup {<<m.user, m.config>>} ELSE @]
    BY <1>1 DEF Record, Types, SendOK, HistoryOK
  <2>2. send[s] \in SendType /\ m \in Messages /\ m.user \in Users /\ m.config \in Configs /\ m.kind \in Kinds
    BY <2>1 DEF Types, SendOK, SendType, Messages
  <2>3. [todo |-> send[s].todo \ {m}, record |-> Opened(s, m.user)] \in SendType
    BY <2>2, StatusTypes DEF SendType
  <2>4. SendOK'
    BY <2>1, <2>3 DEF Types, SendOK
  <2> DEFINE p == <<m.user, m.config>>
  <2>5. p \in Users \X Configs
    BY <2>2
  <2> HIDE DEF p
  <2>6. heard' \in [Users \X Configs -> HeardType]
    <3>1. Told(heard[p], m.kind) \in HeardType
      BY <2>2, <2>5, ToldType DEF Types, HistoryOK
    <3>2. heard' = [heard EXCEPT ![p] = Told(heard[p], m.kind)]
      BY <2>1 DEF p
    <3> QED
      BY <2>5, <3>1, <3>2 DEF Types, HistoryOK
  <2>7. excused' \in ExcusedType
    <3> DEFINE raced == IF s = "poll" /\ run.phase = "applied" THEN excused.raced \cup {p} ELSE excused.raced
    <3>1. excused' = [excused EXCEPT !.raced = raced]
      BY <2>1 DEF p, Types, HistoryOK, ExcusedType
    <3>2. raced \in SUBSET (Users \X Configs)
      BY <2>5 DEF Types, HistoryOK, ExcusedType
    <3> HIDE DEF raced
    <3> QED
      BY <3>1, <3>2 DEF Types, HistoryOK, ExcusedType
  <2> QED
    BY <1>1, <2>4, <2>6, <2>7 DEF Record, Types, RowOK, RunOK, PollOK, HistoryOK, FaultsOK
<1>2. CASE TelegramSent(s)
  <2>1. AtStep(s, "telegram")
    BY <1>2 DEF TelegramSent
  <2>2. CASE send[s].record.tg = "skipped"
    BY <1>2, <2>1, <2>2, RecordFields, AdvanceTypes DEF TelegramSent, Statuses
  <2>3. CASE send[s].record.tg # "skipped"
    <3>1. PICK o \in Outcomes(send[s].record.user) : Advance(s, [send[s].record EXCEPT !.got = o, !.step = "written"])
      BY <1>2, <2>3 DEF TelegramSent
    <3>2. o \in Statuses
      BY <2>1, <3>1, RecordFields, StatusTypes DEF Statuses
    <3> QED
      BY <2>1, <3>1, <3>2, RecordFields, AdvanceTypes
  <2> QED
    BY <2>2, <2>3
<1>3. CASE TelegramWritten(s)
  BY <1>3, RecordFields, AdvanceTypes DEF TelegramWritten, Statuses
<1>4. CASE PushSent(s)
  <2>1. AtStep(s, "push")
    BY <1>4 DEF PushSent
  <2>2. CASE send[s].record.wp = "skipped"
    BY <1>4, <2>1, <2>2, RecordFields, AdvanceTypes DEF PushSent, Statuses
  <2>3. CASE send[s].record.wp # "skipped"
    <3>1. PICK o \in PushOutcomes(send[s].record.user) : Advance(s, [send[s].record EXCEPT !.got = o, !.step = "pushed"])
      BY <1>4, <2>3 DEF PushSent
    <3>2. o \in Statuses
      BY <2>1, <3>1, RecordFields, StatusTypes DEF Statuses
    <3> QED
      BY <2>1, <3>1, <3>2, RecordFields, AdvanceTypes
  <2> QED
    BY <2>2, <2>3
<1>5. CASE PushWritten(s)
  BY <1>5, RecordFields, AdvanceTypes DEF PushWritten, Statuses
<1>6. CASE Rests(s)
  BY <1>6, AdvanceTypes DEF Rests
<1> QED
  BY <1>1, <1>2, <1>3, <1>4, <1>5, <1>6 DEF Deliver

\* The refresh keeps the types.
LEMMA RefreshTypes ==
  ASSUME Types, PrefetchApplies \/ Retires
  PROVE  Types'
<1> USE DEF Types
<1>1. ASSUME NEW page \in Pages, TellsNobody(page), row' \in [Configs -> Rows] PROVE Types'
  <2>1. PollOK'
    BY <1>1, BehindIs DEF TellsNobody
  <2>2. HistoryOK'
    BY <1>1, PageTypes, SilencedIs DEF TellsNobody, HistoryOK
  <2>3. FaultsOK'
    BY <1>1, NotifyAssumption DEF TellsNobody, FaultsOK
  <2> QED
    BY <1>1, <2>1, <2>2, <2>3 DEF TellsNobody, RowOK, RunOK, SendOK
<1>2. CASE PrefetchApplies
  BY <1>1, <1>2, PageTypes DEF PrefetchApplies
<1>3. CASE Retires
  <2>1. row' \in [Configs -> Rows]
    <3> DEFINE new(c) == IF c \in Prev THEN [row[c] EXCEPT !.state = "delisted"] ELSE row[c]
    <3>1. ASSUME NEW c \in Configs PROVE new(c) \in Rows
      BY DEF RowOK, Rows
    <3>2. row' = [c \in Configs |-> new(c)]
      BY <1>3 DEF Retires
    <3> HIDE DEF new
    <3> QED
      BY <3>1, <3>2
  <2> QED
    BY <1>1, <1>3, <2>1, EmptyPage DEF Retires
<1> QED
  BY <1>2, <1>3

\* Refusals, restarts and panics keep the types.
LEMMA LossTypes ==
  ASSUME Types, RunRefused \/ PollRefused \/ Restart \/ RunPanics
  PROVE  Types'
<1> USE DEF Types
<1>0. RunLost \subseteq Users \X Configs /\ PollLost \subseteq Users \X Configs
  BY PairsLost
<1>1. CASE RunRefused
  <2>1. (RowOK /\ HistoryOK /\ FaultsOK)'
    BY <1>0, <1>1, FaultTypes DEF RunRefused
  <2>2. RunOK'
    BY <1>1 DEF RunRefused, RunOK, RunType
  <2>3. SendOK'
    BY <1>1, QuietType DEF RunRefused, SendOK
  <2> QED
    BY <1>1, <2>1, <2>2, <2>3 DEF RunRefused, PollOK
<1>2. CASE PollRefused
  <2>1. (RowOK /\ HistoryOK /\ FaultsOK)'
    BY <1>0, <1>2, FaultTypes DEF PollRefused
  <2>2. SendOK'
    BY <1>2, QuietType DEF PollRefused, SendOK
  <2> QED
    BY <1>2, <2>1, <2>2 DEF PollRefused, PollOK, RunOK
<1>3. CASE Restart
  <2>1. (RowOK /\ HistoryOK /\ FaultsOK)'
    BY <1>0, <1>3, FaultTypes DEF Restart
  <2> QED
    BY <1>3, <2>1, QuietType DEF Restart, PollOK, SendOK, RunOK
<1>4. CASE RunPanics
  <2>1. (RowOK /\ HistoryOK)'
    BY <1>0, <1>4, LostTypes DEF RunPanics
  <2>2. RunOK'
    BY <1>4 DEF RunPanics, RunOK, RunType
  <2>3. SendOK'
    BY <1>4, QuietType DEF RunPanics, SendOK
  <2> QED
    BY <1>4, <2>1, <2>2, <2>3 DEF RunPanics, PollOK, FaultsOK
<1> QED
  BY <1>1, <1>2, <1>3, <1>4

LEMMA NextTypes == Types /\ [Next]_vars => Types'
<1> SUFFICES ASSUME Types, [Next]_vars PROVE Types'
  OBVIOUS
<1>1. CASE UNCHANGED vars
  BY <1>1 DEF vars, history, Types, RowOK, RunOK, PollOK, SendOK, HistoryOK, FaultsOK
<1>2. CASE Next
  BY <1>2, RunTypes, PollTypes, DeliverTypes, RefreshTypes, LossTypes DEF Next
<1> QED
  BY <1>1, <1>2

\* Every row, task, poll, record and history is of its kind (ops.rs, poller.rs).
THEOREM Typed == Spec => []TypeOK
<1>1. Init => Types
  BY InitTypes
<1>2. Types /\ [Next]_vars => Types'
  BY NextTypes
<1>3. Types => TypeOK
  BY TypesImply
<1> QED
  BY <1>1, <1>2, <1>3, PTL DEF Spec

-----------------------------------------------------------------------------
(***************************************************************************)
(* Records: what each channel says at each step of the delivery.           *)
(***************************************************************************)

TelegramOpen(r) == r.tg = IF r.user \in Telegram THEN "pending" ELSE "skipped"

TelegramClosed(r) == IF r.user \in Telegram THEN r.tg \in Outcomes(r.user) ELSE r.tg = "skipped"

PushOpen(s, r) == r.wp = IF r.user \in WebPush /\ s = "run" THEN "pending" ELSE "skipped"

PushClosed(s, r) == IF r.user \in WebPush /\ s = "run" THEN r.wp \in PushOutcomes(r.user) ELSE r.wp = "skipped"

OnItsWay(s, r) ==
  /\ r.step = "telegram" => TelegramOpen(r) /\ PushOpen(s, r)
  /\ r.step = "written" => r.user \in Telegram /\ r.got \in Outcomes(r.user) /\ PushOpen(s, r)
  /\ r.step = "push" => TelegramClosed(r) /\ PushOpen(s, r)
  /\ r.step = "pushed" => /\ TelegramClosed(r)
                          /\ r.user \in WebPush /\ s = "run" /\ r.got \in PushOutcomes(r.user)
  /\ r.step = "done" => TelegramClosed(r) /\ PushClosed(s, r)

Settling == \A s \in Senders : OnItsWay(s, send[s].record)

\* A user with one target, or none, is reached or not.
LEMMA OneTarget ==
  ASSUME NEW u \in Users, Cardinality(Chats[u]) < 2
  PROVE  "partial_success" \notin Outcomes(u)
<1>1. IsFiniteSet(Chats[u])
  BY NotifyAssumption
<1>2. CASE Chats[u] = {}
  BY <1>2 DEF Outcomes
<1>3. CASE Chats[u] # {}
  <2>1. Cardinality(Chats[u]) = 1
    BY <1>1, <1>3, FS_CardinalityType, FS_EmptySet
  <2>2. PICK t : Chats[u] = {t}
    BY <1>1, <2>1, FS_Singleton
  <2>3. ASSUME NEW got \in [Chats[u] -> {"success", "error"}]
        PROVE  Aggregate({got[x] : x \in Chats[u]}) # "partial_success"
    <3>1. {got[x] : x \in Chats[u]} = {got[t]} /\ got[t] \in {"success", "error"}
      BY <2>2
    <3> QED
      BY <3>1 DEF Aggregate
  <2> QED
    BY <1>3, <2>3 DEF Outcomes
<1> QED
  BY <1>2, <1>3

\* A record whose delivery is over says how it went.
LEMMA DoneIsSeenThrough ==
  ASSUME Types, Settling, NEW s \in Senders, AtStep(s, "done")
  PROVE  SeenThrough(s, send[s].record)
<1> DEFINE r == send[s].record
<1>1. r.step = "done" /\ r.user \in Users
  BY RecordFields DEF AtStep
<1>2. TelegramClosed(r) /\ PushClosed(s, r)
  BY DEF Settling, OnItsWay, AtStep
<1> HIDE DEF r
<1>3. Outcomes(r.user) \subseteq {"success", "partial_success", "error"}
  BY <1>1, StatusTypes
<1>4. r.tg # "pending" /\ (r.tg = "skipped" <=> r.user \notin Telegram)
  BY <1>2, <1>3 DEF TelegramClosed
<1>5. /\ r.wp # "pending"
      /\ s = "poll" \/ r.user \notin WebPush => r.wp = "skipped"
      /\ r.wp = "skipped" /\ s = "run" => r.user \notin WebPush \cap Subscribed
      /\ r.wp = "success" => s = "run" /\ r.user \in WebPush \cap Subscribed
  BY <1>2 DEF PushClosed, PushOutcomes, Senders
<1>6. r.user \in Telegram /\ Cardinality(Chats[r.user]) < 2 => r.tg # "partial_success"
  BY <1>1, <1>2, OneTarget DEF TelegramClosed
<1>7. SeenThrough(s, r)
  BY <1>1, <1>4, <1>5, <1>6 DEF SeenThrough
<1> QED
  BY <1>7 DEF r

\* A record that goes on stays on its way when what it becomes is.
LEMMA AdvanceSettles ==
  ASSUME Types, Settling, NEW s \in Senders, NEW r, OnItsWay(s, r), Advance(s, r)
  PROVE  Settling'
<1>1. send' = [send EXCEPT ![s] = [send[s] EXCEPT !.record = r]]
  BY DEF Advance, Types, SendOK
<1>2. send'[s].record = r
  BY <1>1 DEF Types, SendOK, SendType
<1>3. \A t \in Senders \ {s} : send'[t] = send[t]
  BY <1>1 DEF Types, SendOK
<1>4. \A t \in Senders : OnItsWay(t, send'[t].record)
  BY <1>2, <1>3 DEF Settling
<1> QED
  BY <1>4 DEF Settling, OnItsWay, TelegramOpen, TelegramClosed, PushOpen, PushClosed

\* The fields of a record that goes on.
LEMMA RecordBecomes ==
  ASSUME NEW r \in Records
  PROVE  /\ \A x : LET n == [r EXCEPT !.step = x] IN
              n.step = x /\ n.user = r.user /\ n.tg = r.tg /\ n.wp = r.wp
         /\ \A x, o : LET n == [r EXCEPT !.got = o, !.step = x] IN
              n.step = x /\ n.user = r.user /\ n.tg = r.tg /\ n.wp = r.wp /\ n.got = o
         /\ \A x : LET n == [r EXCEPT !.tg = r.got, !.got = "pending", !.step = x] IN
              n.step = x /\ n.user = r.user /\ n.tg = r.got /\ n.wp = r.wp
         /\ \A x : LET n == [r EXCEPT !.wp = r.got, !.got = "pending", !.step = x] IN
              n.step = x /\ n.user = r.user /\ n.tg = r.tg /\ n.wp = r.got
  BY DEF Records

LEMMA DeliverSettles ==
  ASSUME Types, Settling, NEW s \in Senders, Deliver(s)
  PROVE  Settling'
<1> DEFINE r == send[s].record
<1>0. OnItsWay(s, r)
  BY DEF Settling
<1>1. CASE Record(s)
  <2>1. PICK m \in send[s].todo :
          send' = [send EXCEPT ![s] = [todo |-> send[s].todo \ {m}, record |-> Opened(s, m.user)]]
    BY <1>1 DEF Record, Types, SendOK
  <2>2. m.user \in Users
    BY <2>1 DEF Types, SendOK, SendType, Messages
  <2> DEFINE o == Opened(s, m.user)
  <2>3. OnItsWay(s, o)
    <3>1. o.step = "telegram" /\ o.user = m.user
      BY DEF Opened
    <3>2. o.tg = IF m.user \in Telegram THEN "pending" ELSE "skipped"
      BY DEF Opened
    <3>3. o.wp = IF m.user \in WebPush /\ s = "run" THEN "pending" ELSE "skipped"
      BY DEF Opened
    <3> HIDE DEF o
    <3> QED
      BY <3>1, <3>2, <3>3 DEF OnItsWay, TelegramOpen, PushOpen
  <2>4. send'[s].record = o
    BY <2>1 DEF Types, SendOK
  <2> HIDE DEF o
  <2>5. \A t \in Senders \ {s} : send'[t] = send[t]
    BY <2>1 DEF Types, SendOK
  <2>6. \A t \in Senders : OnItsWay(t, send'[t].record)
    BY <2>3, <2>4, <2>5 DEF Settling
  <2> QED
    BY <2>6 DEF Settling, OnItsWay, TelegramOpen, TelegramClosed, PushOpen, PushClosed
<1>2. ASSUME NEW step \in {"telegram", "written", "push", "pushed", "done"}, AtStep(s, step)
      PROVE  r \in Records /\ r.step = step /\ r.user \in Users
  BY <1>2, RecordFields DEF AtStep
<1> HIDE DEF r
<1>3. CASE TelegramSent(s)
  <2>1. r \in Records /\ r.step = "telegram" /\ r.user \in Users
    BY <1>2, <1>3 DEF TelegramSent
  <2>2. TelegramOpen(r) /\ PushOpen(s, r)
    BY <1>0, <2>1 DEF OnItsWay
  <2>3. CASE r.tg = "skipped"
    <3> DEFINE n == [r EXCEPT !.step = "push"]
    <3>1. n.step = "push" /\ n.user = r.user /\ n.tg = r.tg /\ n.wp = r.wp
      BY <2>1, RecordBecomes
    <3>2. Advance(s, n)
      BY <1>3, <2>3 DEF TelegramSent, r
    <3> HIDE DEF n
    <3>3. OnItsWay(s, n)
      BY <2>2, <2>3, <3>1 DEF OnItsWay, TelegramOpen, TelegramClosed, PushOpen
    <3> QED
      BY <3>2, <3>3, AdvanceSettles
  <2>4. CASE r.tg # "skipped"
    <3>1. PICK o \in Outcomes(r.user) : Advance(s, [r EXCEPT !.got = o, !.step = "written"])
      BY <1>3, <2>4 DEF TelegramSent, r
    <3> DEFINE n == [r EXCEPT !.got = o, !.step = "written"]
    <3>2. n.step = "written" /\ n.user = r.user /\ n.tg = r.tg /\ n.wp = r.wp /\ n.got = o
      BY <2>1, RecordBecomes
    <3>3. Advance(s, n)
      BY <3>1
    <3> HIDE DEF n
    <3>4. OnItsWay(s, n)
      BY <2>2, <2>4, <3>1, <3>2 DEF OnItsWay, TelegramOpen, PushOpen
    <3> QED
      BY <3>3, <3>4, AdvanceSettles
  <2> QED
    BY <2>3, <2>4
<1>4. CASE TelegramWritten(s)
  <2>1. r \in Records /\ r.step = "written" /\ r.user \in Users
    BY <1>2, <1>4 DEF TelegramWritten
  <2> DEFINE n == [r EXCEPT !.tg = r.got, !.got = "pending", !.step = "push"]
  <2>2. n.step = "push" /\ n.user = r.user /\ n.tg = r.got /\ n.wp = r.wp
    BY <2>1, RecordBecomes
  <2>3. Advance(s, n)
    BY <1>4 DEF TelegramWritten, r
  <2> HIDE DEF n
  <2>4. OnItsWay(s, n)
    BY <1>0, <2>1, <2>2 DEF OnItsWay, TelegramClosed, PushOpen
  <2> QED
    BY <2>3, <2>4, AdvanceSettles
<1>5. CASE PushSent(s)
  <2>1. r \in Records /\ r.step = "push" /\ r.user \in Users
    BY <1>2, <1>5 DEF PushSent
  <2>2. TelegramClosed(r) /\ PushOpen(s, r)
    BY <1>0, <2>1 DEF OnItsWay
  <2>3. CASE r.wp = "skipped"
    <3> DEFINE n == [r EXCEPT !.step = "done"]
    <3>1. n.step = "done" /\ n.user = r.user /\ n.tg = r.tg /\ n.wp = r.wp
      BY <2>1, RecordBecomes
    <3>2. Advance(s, n)
      BY <1>5, <2>3 DEF PushSent, r
    <3> HIDE DEF n
    <3>3. OnItsWay(s, n)
      BY <2>2, <2>3, <3>1 DEF OnItsWay, TelegramClosed, PushOpen, PushClosed
    <3> QED
      BY <3>2, <3>3, AdvanceSettles
  <2>4. CASE r.wp # "skipped"
    <3>1. PICK o \in PushOutcomes(r.user) : Advance(s, [r EXCEPT !.got = o, !.step = "pushed"])
      BY <1>5, <2>4 DEF PushSent, r
    <3> DEFINE n == [r EXCEPT !.got = o, !.step = "pushed"]
    <3>2. n.step = "pushed" /\ n.user = r.user /\ n.tg = r.tg /\ n.wp = r.wp /\ n.got = o
      BY <2>1, RecordBecomes
    <3>3. Advance(s, n)
      BY <3>1
    <3> HIDE DEF n
    <3>4. OnItsWay(s, n)
      BY <2>2, <2>4, <3>1, <3>2 DEF OnItsWay, TelegramClosed, PushOpen
    <3> QED
      BY <3>3, <3>4, AdvanceSettles
  <2> QED
    BY <2>3, <2>4
<1>6. CASE PushWritten(s)
  <2>1. r \in Records /\ r.step = "pushed" /\ r.user \in Users
    BY <1>2, <1>6 DEF PushWritten
  <2> DEFINE n == [r EXCEPT !.wp = r.got, !.got = "pending", !.step = "done"]
  <2>2. n.step = "done" /\ n.user = r.user /\ n.tg = r.tg /\ n.wp = r.got
    BY <2>1, RecordBecomes
  <2>3. Advance(s, n)
    BY <1>6 DEF PushWritten, r
  <2> HIDE DEF n
  <2>4. OnItsWay(s, n)
    BY <1>0, <2>1, <2>2 DEF OnItsWay, TelegramClosed, PushClosed
  <2> QED
    BY <2>3, <2>4, AdvanceSettles
<1>7. CASE Rests(s)
  <2>1. OnItsWay(s, NoRecord)
    BY DEF OnItsWay, NoRecord
  <2> QED
    BY <1>7, <2>1, AdvanceSettles DEF Rests
<1> QED
  BY <1>1, <1>3, <1>4, <1>5, <1>6, <1>7 DEF Deliver

\* Nothing else touches a record, but to forget it.
LEMMA NextSettles ==
  ASSUME Types, Settling, [Next]_vars
  PROVE  Settling'
<1>1. SUFFICES (\E s \in Senders : Deliver(s))
               \/ \A s \in Senders : send'[s].record \in {send[s].record, NoRecord}
  <2>1. CASE \E s \in Senders : Deliver(s)
    BY <2>1, DeliverSettles
  <2>2. CASE \A s \in Senders : send'[s].record \in {send[s].record, NoRecord}
    <3>1. \A s \in Senders : OnItsWay(s, NoRecord)
      BY DEF OnItsWay, NoRecord
    <3>2. \A s \in Senders : OnItsWay(s, send'[s].record)
      BY <2>2, <3>1 DEF Settling
    <3> QED
      BY <3>2 DEF Settling, OnItsWay, TelegramOpen, TelegramClosed, PushOpen, PushClosed
  <2> QED
    BY <2>1, <2>2
<1>2. send \in [Senders -> SendType] /\ \A s \in Senders : DOMAIN send[s] = {"todo", "record"}
  BY DEF Types, SendOK, SendType
<1>3. CASE RunReadsWaiters
  BY <1>2, <1>3 DEF RunReadsWaiters, Senders
<1>4. CASE PollCompares
  BY <1>2, <1>4 DEF PollCompares, Senders
<1>5. CASE RunRefused
  BY <1>2, <1>5 DEF RunRefused, Quiet, Senders
<1>6. CASE PollRefused
  BY <1>2, <1>6 DEF PollRefused, Quiet, Senders
<1>7. CASE Restart
  BY <1>7 DEF Restart, Quiet
<1>8. CASE Enqueue \/ RunApplies \/ RunEnds \/ (\E u \in Users : PollReads(u)) \/ PollJoins \/ PollEnds
           \/ PrefetchApplies \/ Retires \/ UNCHANGED vars
  <2>1. send' = send
    BY <1>8 DEF Enqueue, RunApplies, RunEnds, PollReads, PollJoins, PollEnds, PrefetchApplies, Retires,
                TellsNobody, vars
  <2> QED
    BY <2>1
<1>9. CASE RunPanics
  BY <1>2, <1>9 DEF RunPanics, Quiet, Senders
<1> QED
  BY <1>3, <1>4, <1>5, <1>6, <1>7, <1>8, <1>9 DEF Next

\* A record that stays, or goes on, is not left.
LEMMA StaysWith ==
  ASSUME NEW s \in Senders,
         \/ send'[s].record = send[s].record
         \/ send'[s].record.step \in {"written", "push", "pushed", "done"}
  PROVE  ~Leaves(s)
<1>1. NoRecord.step = "none"
  BY DEF NoRecord
<1> QED
  BY <1>1 DEF Leaves, AtStep

\* A delivery leaves the record of its sender only at the end, and no other.
LEMMA DeliverLeaves ==
  ASSUME Types, NEW s \in Senders, Deliver(s), NEW t \in Senders, Leaves(t)
  PROVE  t = s /\ AtStep(s, "done")
<1> USE DEF Types
<1>1. CASE Record(s)
  <2>1. PICK m \in send[s].todo :
          send' = [send EXCEPT ![s] = [todo |-> send[s].todo \ {m}, record |-> Opened(s, m.user)]]
    BY <1>1 DEF Record, SendOK
  <2>2. \A x \in Senders \ {s} : send'[x] = send[x]
    BY <2>1 DEF SendOK
  <2>3. t = s
    BY <2>2, StaysWith
  <2>4. send[s].record # NoRecord /\ send[s].record \in {NoRecord} \cup Records
    BY <2>3 DEF Leaves, SendOK, SendType
  <2>5. send[s].record.step # "none"
    BY <2>4 DEF Records
  <2> QED
    BY <1>1, <2>3, <2>5 DEF Record, AtStep
<1>2. ASSUME NEW r, Advance(s, r) PROVE send'[s].record = r /\ \A x \in Senders \ {s} : send'[x] = send[x]
  BY <1>2 DEF Advance, SendOK, SendType
<1>3. ASSUME NEW r, Advance(s, r), r.step \in {"written", "push", "pushed", "done"} PROVE FALSE
  BY <1>2, <1>3, StaysWith
<1> DEFINE r == send[s].record
<1>4. ASSUME r \in Records,
             \/ \E x \in {"push", "done"} : Advance(s, [r EXCEPT !.step = x])
             \/ \E x \in {"written", "pushed"} : \E o : Advance(s, [r EXCEPT !.got = o, !.step = x])
             \/ Advance(s, [r EXCEPT !.tg = r.got, !.got = "pending", !.step = "push"])
             \/ Advance(s, [r EXCEPT !.wp = r.got, !.got = "pending", !.step = "done"])
      PROVE  FALSE
  <2>0. r \in Records
    BY <1>4
  <2> HIDE DEF r
  <2>1. CASE \E x \in {"push", "done"} : Advance(s, [r EXCEPT !.step = x])
    <3>1. PICK x \in {"push", "done"} : Advance(s, [r EXCEPT !.step = x])
      BY <2>1
    <3>2. [r EXCEPT !.step = x].step = x
      BY <2>0, RecordBecomes
    <3> QED
      BY <1>3, <3>1, <3>2
  <2>2. CASE \E x \in {"written", "pushed"} : \E o : Advance(s, [r EXCEPT !.got = o, !.step = x])
    <3>1. PICK x \in {"written", "pushed"} : \E o : Advance(s, [r EXCEPT !.got = o, !.step = x])
      BY <2>2
    <3>2. PICK o : Advance(s, [r EXCEPT !.got = o, !.step = x])
      BY <3>1
    <3>3. [r EXCEPT !.got = o, !.step = x].step = x
      BY <2>0, RecordBecomes
    <3> QED
      BY <1>3, <3>2, <3>3
  <2>3. CASE Advance(s, [r EXCEPT !.tg = r.got, !.got = "pending", !.step = "push"])
    <3>1. [r EXCEPT !.tg = r.got, !.got = "pending", !.step = "push"].step = "push"
      BY <2>0, RecordBecomes
    <3> QED
      BY <1>3, <2>3, <3>1
  <2>4. CASE Advance(s, [r EXCEPT !.wp = r.got, !.got = "pending", !.step = "done"])
    <3>1. [r EXCEPT !.wp = r.got, !.got = "pending", !.step = "done"].step = "done"
      BY <2>0, RecordBecomes
    <3> QED
      BY <1>3, <2>4, <3>1
  <2> QED
    BY <1>4, <2>1, <2>2, <2>3, <2>4
<1>5. CASE TelegramSent(s) \/ TelegramWritten(s)
  <2>1. r \in Records
    BY <1>5, RecordFields DEF TelegramSent, TelegramWritten
  <2> QED
    BY <1>4, <1>5, <2>1 DEF TelegramSent, TelegramWritten
<1>6. CASE PushSent(s) \/ PushWritten(s)
  <2>1. r \in Records
    BY <1>6, RecordFields DEF PushSent, PushWritten
  <2> QED
    BY <1>4, <1>6, <2>1 DEF PushSent, PushWritten
<1>8. CASE Rests(s)
  <2>1. \A x \in Senders \ {s} : send'[x] = send[x]
    BY <1>2, <1>8 DEF Rests
  <2> QED
    BY <1>8, <2>1, StaysWith DEF Rests
<1> QED
  BY <1>1, <1>5, <1>6, <1>8 DEF Deliver

\* Who leaves a record has seen it through, but for a refusal or a restart.
LEMMA NextLeaves ==
  ASSUME Types, Settling, [Next]_vars, NEW s \in Senders, Leaves(s), faults' = faults
  PROVE  SeenThrough(s, send[s].record)
<1> USE DEF Types
<1>1. SUFFICES AtStep(s, "done")
  BY DoneIsSeenThrough
<1>2. send \in [Senders -> SendType] /\ \A t \in Senders : DOMAIN send[t] = {"todo", "record"}
  BY DEF SendOK, SendType
<1>3. send'[s].record # send[s].record
  BY StaysWith
<1>4. CASE \E t \in Senders : Deliver(t)
  BY <1>4, DeliverLeaves
<1>5. CASE RunPanics
  <2>1. \A t \in Senders \ {"run"} : send'[t] = send[t]
    BY <1>2, <1>5 DEF RunPanics
  <2>2. s = "run"
    BY <1>3, <2>1
  <2>3. send["run"].record \in {NoRecord} \cup Records /\ send["run"].record # NoRecord
    BY <1>2, <2>2 DEF SendType, Leaves
  <2>4. send["run"].record.step # "none"
    BY <2>3 DEF Records
  <2> QED
    BY <1>5, <2>2, <2>4 DEF RunPanics, AtStep
<1>6. ~RunRefused /\ ~PollRefused /\ ~Restart
  <2>1. \A told, polled : ~Fault(told, polled)
    BY NotifyAssumption DEF Fault, FaultsOK
  <2> QED
    BY <2>1 DEF RunRefused, PollRefused, Restart
<1>7. ~RunReadsWaiters /\ ~PollCompares
  BY <1>2, <1>3 DEF RunReadsWaiters, PollCompares, Senders
<1>8. send' # send
  BY <1>3
<1> QED
  BY <1>4, <1>5, <1>6, <1>7, <1>8
  DEF Next, Enqueue, RunApplies, RunEnds, PollReads, PollJoins, PollEnds, PrefetchApplies, Retires,
      TellsNobody, vars

\* A record is left only when each of its channels says how it went, and says
\* nothing of a channel that is off, but for a refused statement or a restart
\* (ops.rs 819-1000, poller.rs 1061-1200).
THEOREM Settles == Spec => RecordsSettled
<1>1. Init => Types /\ Settling
  BY InitTypes DEF Init, Quiet, NoRecord, Settling, OnItsWay
<1>2. Types /\ Settling /\ [Next]_vars => (Types /\ Settling)'
  BY NextTypes, NextSettles
<1>3. Types /\ Settling /\ [Next]_vars =>
        [\A s \in Senders : Leaves(s) /\ faults' = faults => SeenThrough(s, send[s].record)]_vars
  BY NextLeaves
<1> QED
  BY <1>1, <1>2, <1>3, PTL DEF Spec, RecordsSettled

-----------------------------------------------------------------------------
(***************************************************************************)
(* Followers: what the run of the page has told, is telling or will tell.  *)
(***************************************************************************)

Telling == run.phase \in {"applied", "telling"}

Pending(p, kind) == [user |-> p[1], config |-> p[2], kind |-> kind] \in send["run"].todo

\* Only the run tells of listings and removals, and only of what it applied.
RunAlone ==
  /\ run.phase # "telling" => send["run"] = Quiet
  /\ \A m \in send["poll"].todo : m.kind = "restock"

\* What it is going to tell holds of the rows, unless the refresh wrote them since.
EventRows ==
  Telling => \A p \in Users \X run.event :
               p \in excused.silent \/ (row[p[2]].state = "active" /\ row[p[2]].marked)

Owed ==
  \A p \in Users \X Configs :
    /\ Pending(p, "added") => /\ p[2] \in run.event /\ p \notin Watches
                              /\ p \in excused.silent \/ heard[p].added = 0
    /\ Pending(p, "removed") => p[2] \in run.gone

\* What a follower heard, or is about to hear, of what the refresh did not write.
Current(p) ==
  LET h == heard[p]
      r == row[p[2]]
  IN /\ h.added < 2
     /\ r.state = "active" /\ ~r.marked => h.added = 0
     /\ run.phase = "applied" /\ p[2] \in run.event => h.added = 0
     /\ p \notin excused.cut =>
          /\ r.state = "delisted" =>
               h.news = "removed" \/ (run.phase = "applied" /\ p[2] \in run.gone) \/ Pending(p, "removed")
          /\ r.state = "active" /\ r.marked /\ p \notin Watches =>
               h.added = 1 \/ (run.phase = "applied" /\ p[2] \in run.event) \/ Pending(p, "added")

InTime(p) ==
  /\ p \in Watches => heard[p].added = 0
  /\ p \notin excused.silent => Current(p)

News == RunAlone /\ EventRows /\ Owed /\ \A p \in Followers \X Configs : InTime(p)

LEMMA FollowersAre == Followers \X Configs \subseteq Users \X Configs
  BY NotifyAssumption

LEMMA QuietOwes ==
  ASSUME send["run"] = Quiet
  PROVE  \A p, kind : ~Pending(p, kind)
  BY DEF Pending, Quiet

LEMMA NewsImplies == News => FollowersUpToDate
<1> SUFFICES ASSUME News, NEW p \in Followers \X Configs
             PROVE  LET h == heard[p]
                        r == row[p[2]]
                    IN /\ p \in Watches => h.added = 0
                       /\ p \notin excused.silent =>
                            /\ h.added < 2
                            /\ r.state = "active" /\ ~r.marked => h.added = 0
                            /\ run.phase \notin {"applied", "telling"} /\ p \notin excused.cut =>
                                 /\ r.state = "delisted" => h.news = "removed"
                                 /\ r.state = "active" /\ r.marked /\ p \notin Watches => h.added = 1
  BY DEF FollowersUpToDate
<1>1. InTime(p)
  BY DEF News
<1>2. ASSUME run.phase \notin {"applied", "telling"} PROVE \A kind : ~Pending(p, kind)
  BY <1>2, QuietOwes DEF News, RunAlone
<1> QED
  BY <1>1, <1>2 DEF InTime, Current

LEMMA InitNews == Init => News
<1> SUFFICES ASSUME Init PROVE News
  OBVIOUS
<1>1. send["run"] = Quiet /\ send["poll"] = Quiet /\ run.phase = "none" /\ Quiet.todo = {}
  BY DEF Init, Senders, Quiet, NoRun
<1>2. RunAlone /\ EventRows /\ Owed
  BY <1>1, QuietOwes DEF RunAlone, EventRows, Owed, Telling
<1>3. ASSUME NEW p \in Followers \X Configs PROVE InTime(p)
  <2>1. p \in Users \X Configs
    BY FollowersAre
  <2>2. heard[p] = Nothing /\ row[p[2]].state = "none"
    BY <2>1 DEF Init
  <2>3. Nothing.added = 0
    BY DEF Nothing
  <2> QED
    BY <1>1, <2>2, <2>3 DEF InTime, Current
<1> QED
  BY <1>2, <1>3 DEF News

\* What is told, rows and excuses stay, and the run neither applies nor starts
\* to tell: so does the news.
LEMMA NewsKept ==
  ASSUME News, UNCHANGED <<row, heard, excused>>,
         \/ run'.phase = run.phase /\ run'.event = run.event /\ run'.gone = run.gone
         \/ run.phase # "applied" /\ send["run"] = Quiet /\ ~Telling',
         send'["run"].todo = send["run"].todo, run'.phase # "telling" => send'["run"] = Quiet,
         \A m \in send'["poll"].todo : m.kind = "restock"
  PROVE  News'
<1>1. RunAlone'
  BY DEF RunAlone
<1>2. EventRows'
  BY DEF News, EventRows, Telling
<1>3. \A p, kind : Pending(p, kind)' <=> Pending(p, kind)
  BY DEF Pending
<1>4. Owed'
  <2>1. CASE run'.event = run.event /\ run'.gone = run.gone
    BY <1>3, <2>1 DEF News, Owed
  <2>2. CASE send["run"] = Quiet
    BY <1>3, <2>2, QuietOwes DEF Owed
  <2> QED
    BY <2>1, <2>2
<1>5. ASSUME NEW p \in Followers \X Configs PROVE InTime(p)'
  <2>1. InTime(p)
    BY DEF News
  <2>2. /\ run'.phase = "applied" <=> run.phase = "applied"
        /\ run.phase = "applied" => run'.event = run.event /\ run'.gone = run.gone
    BY DEF Telling
  <2>3. /\ Pending(p, "removed")' <=> Pending(p, "removed")
        /\ Pending(p, "added")' <=> Pending(p, "added")
    BY <1>3
  <2> QED
    BY <2>1, <2>2, <2>3 DEF InTime, Current
<1> QED
  BY <1>1, <1>2, <1>4, <1>5 DEF News

LEMMA ApplyNews ==
  ASSUME Types, News, RunApplies
  PROVE  News'
<1>1. PICK page \in Pages :
        /\ run.phase = "fetch"
        /\ row' = Applied(page)
        /\ run' = [run EXCEPT !.phase = "applied", !.event = Event(page),
                        !.listed = DOMAIN page \ Prev, !.gone = Prev \ DOMAIN page]
        /\ heard' = Heard(page)
        /\ excused' = Forgiven(page)
        /\ send' = send
  BY DEF RunApplies
<1> USE DEF Types
<1>2. run'.phase = "applied" /\ run'.event = Event(page) /\ run'.gone = Prev \ DOMAIN page
  BY <1>1 DEF RunOK, RunType
<1>3. send["run"] = Quiet
  BY <1>1 DEF News, RunAlone
<1>4. \A p, kind : ~Pending(p, kind) /\ ~Pending(p, kind)'
  BY <1>1, <1>3, QuietOwes DEF Pending
<1>5. RunAlone'
  BY <1>1, <1>3 DEF News, RunAlone
<1>6. Owed'
  BY <1>4 DEF Owed
<1>7. ASSUME NEW c \in Configs
      PROVE  /\ c \in DOMAIN page => /\ row'[c].state = "active"
                                     /\ row'[c].marked <=> page[c] > 0 \/ (c \in Prev /\ row[c].marked)
             /\ c \in Prev \ DOMAIN page => row'[c].state = "delisted" /\ ~row'[c].marked
             /\ c \notin Prev \cup DOMAIN page => row'[c] = row[c]
  <2>1. row[c] \in Rows
    BY DEF RowOK
  <2>2. CASE c \in DOMAIN page
    <3> DEFINE marked == page[c] > 0 \/ (c \in Prev /\ row[c].marked)
    <3>1. row'[c] = [state |-> "active", qty |-> page[c], marked |-> marked]
      BY <1>1, <2>2, AppliedRows
    <3> HIDE DEF marked
    <3>2. row'[c].state = "active" /\ row'[c].marked = marked
      BY <3>1
    <3> USE DEF marked
    <3> QED
      BY <2>2, <3>2
  <2>3. CASE c \in Prev \ DOMAIN page
    <3>1. row'[c] = [row[c] EXCEPT !.state = "delisted", !.marked = FALSE]
      BY <1>1, <2>3, AppliedRows
    <3> QED
      BY <2>1, <2>3, <3>1 DEF Rows
  <2>4. CASE c \notin Prev \cup DOMAIN page
    BY <1>1, <2>4, AppliedRows
  <2> QED
    BY <2>2, <2>3, <2>4
<1>8. \A c \in Configs : c \in Prev <=> row[c].state = "active"
  BY DEF Prev
<1>9. DOMAIN page \subseteq Configs /\ Prev \subseteq Configs /\ Event(page) \subseteq DOMAIN page
  BY PageType, PrevRows DEF Event
<1>10. \A c \in DOMAIN page : c \in Event(page) <=> page[c] > 0 /\ (c \in Prev => ~row[c].marked)
  BY DEF Event
<1>11. EventRows'
  BY <1>2, <1>7, <1>9, <1>10 DEF EventRows, Telling
<1>12. ASSUME NEW p \in Followers \X Configs PROVE InTime(p)'
  <2> DEFINE c == p[2]
  <2>1. p \in Users \X Configs /\ c \in Configs
    BY FollowersAre
  <2>2. /\ heard'[p].news = heard[p].news
        /\ heard'[p].added = IF c \in Prev \cap DOMAIN page THEN heard[p].added ELSE 0
    BY <1>1, <2>1, HeardRows
  <2>3. /\ p \in excused'.cut <=> p \in excused.cut /\ (c \in Prev <=> c \in DOMAIN page)
        /\ p \in excused'.silent <=> p \in excused.silent /\ (c \in Prev <=> c \in DOMAIN page)
    BY <1>1, ForgivenIs
  <2>4. /\ p \in Watches => heard[p].added = 0
        /\ p \notin excused.silent =>
             /\ heard[p].added < 2
             /\ row[c].state = "active" /\ ~row[c].marked => heard[p].added = 0
             /\ p \notin excused.cut =>
                  /\ row[c].state = "delisted" => heard[p].news = "removed"
                  /\ row[c].state = "active" /\ row[c].marked /\ p \notin Watches => heard[p].added = 1
    BY <1>1, <1>4 DEF News, InTime, Current
  <2>5. /\ c \in DOMAIN page => /\ row'[c].state = "active"
                                /\ row'[c].marked <=> page[c] > 0 \/ (c \in Prev /\ row[c].marked)
        /\ c \in Prev \ DOMAIN page => row'[c].state = "delisted" /\ ~row'[c].marked
        /\ c \notin Prev \cup DOMAIN page => row'[c] = row[c]
    BY <1>7, <2>1
  <2>6. c \in Prev <=> row[c].state = "active"
    BY <1>8, <2>1
  <2>7. p \in Watches => heard'[p].added = 0
    BY <2>2, <2>4
  <2>8. ASSUME p \notin excused'.silent PROVE Current(p)'
    <3>1. heard'[p].added < 2
      BY <2>2, <2>3, <2>4, <2>8
    <3>2. row'[c].state = "active" /\ ~row'[c].marked => heard'[p].added = 0
      BY <2>2, <2>3, <2>4, <2>5, <2>6, <2>8
    <3>3. c \in run'.event => heard'[p].added = 0
      BY <1>2, <1>9, <1>10, <2>2, <2>3, <2>4, <2>6, <2>8
    <3>4. ASSUME p \notin excused'.cut, row'[c].state = "delisted"
          PROVE  heard'[p].news = "removed" \/ c \in run'.gone
      BY <1>2, <2>2, <2>3, <2>4, <2>5, <2>6, <2>8, <3>4
    <3>5. ASSUME p \notin excused'.cut, row'[c].state = "active", row'[c].marked, p \notin Watches
          PROVE  heard'[p].added = 1 \/ c \in run'.event
      BY <1>2, <1>10, <2>2, <2>3, <2>4, <2>5, <2>6, <2>8, <3>5
    <3> HIDE DEF c
    <3>6. c = p[2]
      BY DEF c
    <3> QED
      BY <1>2, <3>1, <3>2, <3>3, <3>4, <3>5, <3>6 DEF Current
  <2> QED
    BY <2>7, <2>8 DEF InTime
<1> QED
  BY <1>5, <1>6, <1>11, <1>12 DEF News

LEMMA ReadNews ==
  ASSUME Types, News, RunReadsWaiters
  PROVE  News'
<1> USE DEF Types
<1>1. /\ run.phase = "applied" /\ run'.phase = "telling"
      /\ run'.event = run.event /\ run'.gone = run.gone
  BY DEF RunReadsWaiters, RunOK, RunType
<1>2. /\ send'["run"].todo = Fallback(run.waiters) \cup Changes
      /\ send'["poll"] = send["poll"]
  BY DEF RunReadsWaiters, SendOK, SendType, Senders
<1>3. row' = row /\ heard' = heard /\ excused'.cut = excused.cut /\ excused'.silent = excused.silent
  BY DEF RunReadsWaiters, HistoryOK, ExcusedType
<1>4. send["run"] = Quiet
  BY <1>1 DEF News, RunAlone
<1>5. \A p, kind : ~Pending(p, kind)
  BY <1>4, QuietOwes
<1>6. run.event \subseteq Configs /\ run.gone \subseteq Configs /\ Followers \subseteq Users
  BY NotifyAssumption DEF RunOK, RunType
<1>7. ASSUME NEW p \in Users \X Configs
      PROVE  /\ Pending(p, "added")' <=> p[1] \in Followers /\ p[2] \in run.event /\ p \notin Watches
             /\ Pending(p, "removed")' <=> p[1] \in Followers /\ p[2] \in run.gone
  <2>1. p = <<p[1], p[2]>>
    OBVIOUS
  <2>2. \A kind : Pending(p, kind)' <=>
          [user |-> p[1], config |-> p[2], kind |-> kind] \in Fallback(run.waiters) \cup Changes
    BY <1>2 DEF Pending
  <2>3. ASSUME NEW m \in Fallback(run.waiters) PROVE m.kind = "restock"
    BY <2>3 DEF Fallback
  <2> DEFINE told(w, kind) == [user |-> w[1], config |-> w[2], kind |-> kind]
             fresh == {w \in Followers \X run.event : w \notin Watches}
  <2>4. Changes = {told(w, "added") : w \in fresh} \cup {told(w, "removed") : w \in Followers \X run.gone}
    BY DEF Changes
  <2>5. ASSUME NEW w \in Users \X Configs, NEW k, NEW l, told(p, k) = told(w, l) PROVE p = w /\ k = l
    BY <2>1, <2>5
  <2> HIDE DEF told
  <2>6. fresh \subseteq Users \X Configs /\ Followers \X run.gone \subseteq Users \X Configs
    BY <1>6
  <2>7. told(p, "added") \in Changes <=> p \in fresh
    BY <2>4, <2>5, <2>6
  <2>8. told(p, "removed") \in Changes <=> p \in Followers \X run.gone
    BY <2>4, <2>5, <2>6
  <2>9. /\ p \in fresh <=> p[1] \in Followers /\ p[2] \in run.event /\ p \notin Watches
        /\ p \in Followers \X run.gone <=> p[1] \in Followers /\ p[2] \in run.gone
    BY <2>1
  <2>10. \A kind \in {"added", "removed"} : told(p, kind) \notin Fallback(run.waiters)
    BY <2>3 DEF told
  <2>11. \A kind : Pending(p, kind)' <=> told(p, kind) \in Fallback(run.waiters) \cup Changes
    BY <2>2 DEF told
  <2> QED
    BY <2>7, <2>8, <2>9, <2>10, <2>11
<1>8. ASSUME NEW p \in Users \X Configs, Pending(p, "added")'
      PROVE  p \in excused.silent \/ heard[p].added = 0
  <2>1. p \in Followers \X Configs /\ p[2] \in run.event
    BY <1>7, <1>8
  <2> QED
    BY <1>1, <2>1 DEF News, InTime, Current
<1>9. RunAlone'
  BY <1>1, <1>2 DEF News, RunAlone
<1>10. EventRows'
  BY <1>1, <1>3 DEF News, EventRows, Telling
<1>11. Owed'
  BY <1>1, <1>3, <1>7, <1>8 DEF Owed
<1>12. ASSUME NEW p \in Followers \X Configs PROVE InTime(p)'
  <2>1. InTime(p)
    BY DEF News
  <2>2. /\ Pending(p, "added")' <=> p[2] \in run.event /\ p \notin Watches
        /\ Pending(p, "removed")' <=> p[2] \in run.gone
    BY <1>7, FollowersAre
  <2>3. ~Pending(p, "added") /\ ~Pending(p, "removed")
    BY <1>5
  <2> QED
    BY <1>1, <1>3, <2>1, <2>2, <2>3 DEF InTime, Current
<1> QED
  BY <1>9, <1>10, <1>11, <1>12 DEF News

\* A message the run tells, told.
LEMMA RecordNews ==
  ASSUME Types, News, NEW s \in Senders, Record(s)
  PROVE  News'
<1> USE DEF Types
<1>1. PICK m \in send[s].todo :
        /\ send' = [send EXCEPT ![s] = [todo |-> send[s].todo \ {m}, record |-> Opened(s, m.user)]]
        /\ heard' = [heard EXCEPT ![<<m.user, m.config>>] = Told(heard[<<m.user, m.config>>], m.kind)]
        /\ excused' = [excused EXCEPT !.raced =
             IF s = "poll" /\ run.phase = "applied" THEN @ \cup {<<m.user, m.config>>} ELSE @]
        /\ row' = row /\ run' = run
  BY DEF Record, SendOK, HistoryOK
<1>2. m \in Messages /\ m.user \in Users /\ m.config \in Configs /\ m.kind \in Kinds
  BY <1>1 DEF SendOK, SendType, Messages
<1>3. m = [user |-> m.user, config |-> m.config, kind |-> m.kind]
  BY <1>2 DEF Messages
<1>4. excused'.cut = excused.cut /\ excused'.silent = excused.silent
  BY <1>1 DEF HistoryOK, ExcusedType
<1> DEFINE q == <<m.user, m.config>>
<1>5. q \in Users \X Configs /\ q[1] = m.user /\ q[2] = m.config
  BY <1>2
<1>6. /\ heard'[q] = Told(heard[q], m.kind) /\ heard[q] \in HeardType
      /\ \A p \in Users \X Configs : p # q => heard'[p] = heard[p]
  BY <1>1, <1>5 DEF HistoryOK
<1>7. /\ m.kind = "restock" => heard'[q].added = heard[q].added /\ heard'[q].news = heard[q].news
      /\ m.kind = "added" => heard'[q].added = (IF heard[q].added < 2 THEN heard[q].added + 1 ELSE 2)
      /\ m.kind = "removed" => heard'[q].added = heard[q].added /\ heard'[q].news = "removed"
  BY <1>6 DEF Told, HeardType
<1>8. /\ send'[s].todo = send[s].todo \ {m} /\ \A t \in Senders \ {s} : send'[t] = send[t]
  BY <1>1 DEF SendOK
<1>9. s = "run" => run.phase = "telling"
  BY <1>1 DEF News, RunAlone, Quiet
<1>10. s = "poll" => m.kind = "restock"
  BY <1>1 DEF News, RunAlone
<1>11. RunAlone'
  BY <1>1, <1>8, <1>9 DEF News, RunAlone, Senders
<1>12. EventRows'
  BY <1>1, <1>4 DEF News, EventRows, Telling
<1>13. ASSUME NEW p \in Users \X Configs, NEW kind \in {"added", "removed"}
       PROVE  /\ Pending(p, kind)' => Pending(p, kind) /\ (p # q \/ m.kind # kind)
              /\ Pending(p, kind) => Pending(p, kind)' \/ (p = q /\ m.kind = kind /\ s = "run")
  <2> DEFINE n == [user |-> p[1], config |-> p[2], kind |-> kind]
  <2>1. n = m <=> p = q /\ m.kind = kind
    BY <1>3
  <2>2. n.kind # "restock"
    OBVIOUS
  <2>3. Pending(p, kind) <=> n \in send["run"].todo
    BY DEF Pending
  <2>4. Pending(p, kind)' <=> n \in send'["run"].todo
    BY DEF Pending
  <2> HIDE DEF n, q
  <2>5. CASE s = "run"
    BY <1>8, <2>1, <2>3, <2>4, <2>5
  <2>6. CASE s = "poll"
    <3>1. send'["run"] = send["run"]
      BY <1>8, <2>6 DEF Senders
    <3>2. m.kind = "restock"
      BY <1>10, <2>6
    <3> QED
      BY <2>2, <2>3, <2>4, <3>1, <3>2
  <2> QED
    BY <2>5, <2>6 DEF Senders
<1>14. m.kind \in {"added", "removed"} => s = "run" /\ Pending(q, m.kind)
  <2>1. m.kind \in {"added", "removed"} => s = "run"
    BY <1>10 DEF Senders
  <2> QED
    BY <1>1, <1>3, <1>5, <2>1 DEF Pending
<1> HIDE DEF q
<1>15. Kinds = {"restock", "added", "removed"}
  BY DEF Kinds
<1>16. Owed'
  <2> SUFFICES \A p \in Users \X Configs :
                 /\ Pending(p, "added")' => /\ p[2] \in run'.event /\ p \notin Watches
                                            /\ p \in excused'.silent \/ heard'[p].added = 0
                 /\ Pending(p, "removed")' => p[2] \in run'.gone
    BY DEF Owed
  <2> TAKE p \in Users \X Configs
  <2>1. /\ Pending(p, "added") => /\ p[2] \in run.event /\ p \notin Watches
                                  /\ p \in excused.silent \/ heard[p].added = 0
        /\ Pending(p, "removed") => p[2] \in run.gone
    BY DEF News, Owed
  <2>2. p # q \/ m.kind # "added" => heard'[p].added = heard[p].added
    BY <1>2, <1>6, <1>7, <1>15
  <2>3. /\ Pending(p, "added")' => Pending(p, "added") /\ (p # q \/ m.kind # "added")
        /\ Pending(p, "removed")' => Pending(p, "removed")
    BY <1>13
  <2>4. run'.event = run.event /\ run'.gone = run.gone /\ excused'.silent = excused.silent
    BY <1>1, <1>4
  <2> QED
    BY <2>1, <2>2, <2>3, <2>4
<1>17. ASSUME NEW p \in Followers \X Configs PROVE InTime(p)'
  <2>1. p \in Users \X Configs /\ InTime(p)
    BY FollowersAre DEF News
  <2>2. CASE p # q
    <3>1. heard'[p] = heard[p]
      BY <1>6, <2>1, <2>2
    <3>2. /\ Pending(p, "added") => Pending(p, "added")'
          /\ Pending(p, "removed") => Pending(p, "removed")'
      BY <1>13, <2>1, <2>2
    <3> QED
      BY <1>1, <1>4, <2>1, <3>1, <3>2 DEF InTime, Current
  <2>3. CASE p = q /\ m.kind = "restock"
    <3>1. heard'[p].added = heard[p].added /\ heard'[p].news = heard[p].news
      BY <1>7, <2>3
    <3>2. /\ Pending(p, "added") => Pending(p, "added")'
          /\ Pending(p, "removed") => Pending(p, "removed")'
      BY <1>13, <2>1, <2>3
    <3> QED
      BY <1>1, <1>4, <2>1, <3>1, <3>2 DEF InTime, Current
  <2>4. CASE p = q /\ m.kind = "added"
    <3>1. /\ p[2] \in run.event /\ p \notin Watches /\ run.phase = "telling"
          /\ p \in excused.silent \/ heard[p].added = 0
      BY <1>9, <1>14, <2>1, <2>4 DEF News, Owed
    <3>2. p \in excused.silent \/ heard'[p].added = 1
      BY <1>7, <2>4, <3>1
    <3>3. p \in excused.silent \/ (row[p[2]].state = "active" /\ row[p[2]].marked)
      <4>1. p \in Users \X run.event
        BY <2>1, <3>1
      <4> QED
        BY <3>1, <4>1 DEF News, EventRows, Telling
    <3> QED
      BY <1>1, <1>4, <3>1, <3>2, <3>3 DEF InTime, Current
  <2>5. CASE p = q /\ m.kind = "removed"
    <3>1. p[2] \in run.gone /\ run.phase = "telling"
      BY <1>9, <1>14, <2>1, <2>5 DEF News, Owed
    <3>2. heard'[p].added = heard[p].added /\ heard'[p].news = "removed"
      BY <1>7, <2>5
    <3>3. Pending(p, "added") => Pending(p, "added")'
      BY <1>13, <2>1, <2>5
    <3> QED
      BY <1>1, <1>4, <2>1, <3>1, <3>2, <3>3 DEF InTime, Current
  <2> QED
    BY <1>2, <1>15, <2>2, <2>3, <2>4, <2>5
<1> QED
  BY <1>11, <1>12, <1>16, <1>17 DEF News

\* Lost with a refusal, a panic or a restart: the run owes nothing any more.
LEMMA LostNews ==
  ASSUME Types, News, Telling' => Telling, run'.event = run.event \/ ~Telling', run'.gone = run.gone \/ ~Telling',
         run'.phase # "applied", send'["run"] = Quiet,
         \A m \in send'["poll"].todo : m.kind = "restock",
         NEW polled, Lost(RunLost, polled)
  PROVE  News'
<1>1. row' = row /\ heard' = heard
  BY DEF Lost
<1>2. excused'.cut = excused.cut \cup RunLost /\ excused'.silent = excused.silent
  BY DEF Lost, Types, HistoryOK, ExcusedType
<1>3. \A p, kind : ~Pending(p, kind)'
  BY DEF Pending, Quiet
<1>4. RunAlone' /\ EventRows' /\ Owed'
  BY <1>1, <1>2, <1>3 DEF News, RunAlone, EventRows, Telling, Owed
<1>5. ASSUME NEW p \in Followers \X Configs PROVE InTime(p)'
  <2>1. InTime(p) /\ p \in Users \X Configs
    BY FollowersAre DEF News
  <2>2. ASSUME p \notin excused'.cut
        PROVE  ~(run.phase = "applied" /\ p[2] \in run.gone \cup run.event)
               /\ ~Pending(p, "removed") /\ ~Pending(p, "added")
    <3>1. CASE Telling
      <4>1. p \notin Users \X (run.event \cup run.gone)
        BY <1>2, <2>2, <3>1 DEF RunLost, Telling
      <4>2. p[2] \notin run.event \cup run.gone
        BY <2>1, <4>1
      <4> QED
        BY <2>1, <4>2 DEF News, Owed
    <3>2. CASE ~Telling
      BY <3>2, QuietOwes DEF News, RunAlone, Telling
    <3> QED
      BY <3>1, <3>2
  <2>3. ~Pending(p, "removed")' /\ ~Pending(p, "added")'
    BY <1>3
  <2> QED
    BY <1>1, <1>2, <2>1, <2>2, <2>3 DEF InTime, Current
<1> QED
  BY <1>4, <1>5 DEF News

\* What the refresh leaves of a row, by a page or by none.
Written(page, c) ==
  /\ c \in DOMAIN page => /\ row'[c].state = "active" /\ row'[c].qty = page[c]
                          /\ row'[c].marked <=> page[c] > 0 \/ (c \in Prev /\ row[c].marked)
                          /\ InStock(row'[c]) <=> InStock(Applied(page)[c])
  /\ c \in Prev \ DOMAIN page => row'[c].state = "delisted" /\ ~InStock(Applied(page)[c])
  /\ c \notin Prev \cup DOMAIN page => row'[c] = row[c] /\ Applied(page)[c] = row[c]

\* The refresh writes the rows and tells nobody: of what it does not list anew
\* or delist the news is as before.
LEMMA SilentNews ==
  ASSUME Types, News, NEW page \in Pages, TellsNobody(page),
         \A c \in Configs : Written(page, c)
  PROVE  News'
<1> USE DEF Types
<1>1. run' = run /\ send' = send /\ heard' = Heard(page)
  BY DEF TellsNobody
<1>2. excused'.cut = excused.cut /\ excused'.silent = excused.silent \cup (Users \X Untold(page))
  BY SilencedIs DEF TellsNobody
<1>3. \A p, kind : Pending(p, kind)' <=> Pending(p, kind)
  BY <1>1 DEF Pending
<1>4. RunAlone'
  BY <1>1 DEF News, RunAlone
<1>5. ASSUME NEW p \in Users \X Configs, p \notin excused'.silent
      PROVE  /\ p \notin excused.silent /\ p[2] \in Configs /\ (p[2] \in Prev <=> row[p[2]].state = "active")
             /\ p[2] \in Prev => /\ p[2] \in DOMAIN page /\ row'[p[2]].state = "active"
                                 /\ row'[p[2]].marked <=> row[p[2]].marked
             /\ p[2] \in DOMAIN page \ Prev => row'[p[2]].state = "active" /\ ~row'[p[2]].marked
             /\ p[2] \notin Prev \cup DOMAIN page => row'[p[2]] = row[p[2]]
  <2>1. p \notin excused.silent /\ p[2] \notin Untold(page) /\ p[2] \in Configs
    BY <1>2, <1>5
  <2>2. p[2] \in Prev <=> row[p[2]].state = "active"
    BY <2>1 DEF Prev
  <2>3. p[2] \in DOMAIN page => page[p[2]] \in 0..1
    BY PageType
  <2>4. /\ p[2] \in Prev => p[2] \in DOMAIN page
        /\ p[2] \in DOMAIN page => ~(page[p[2]] > 0 /\ (p[2] \in Prev => ~row[p[2]].marked))
    BY <2>1 DEF Untold, Event
  <2>5. Written(page, p[2])
    BY <2>1
  <2>6. ASSUME p[2] \in DOMAIN page
        PROVE  /\ row'[p[2]].state = "active"
               /\ row'[p[2]].marked <=> page[p[2]] > 0 \/ (p[2] \in Prev /\ row[p[2]].marked)
    BY <2>5, <2>6, Zenon DEF Written
  <2>7. ASSUME p[2] \in Prev
        PROVE  p[2] \in DOMAIN page /\ (row'[p[2]].marked <=> row[p[2]].marked)
    BY <2>4, <2>6, <2>7, Zenon
  <2>8. ASSUME p[2] \in DOMAIN page \ Prev
        PROVE  ~row'[p[2]].marked
    BY <2>4, <2>6, <2>8, Zenon
  <2>9. p[2] \notin Prev \cup DOMAIN page => row'[p[2]] = row[p[2]]
    BY <2>5, Zenon DEF Written
  <2>10. p[2] \in Prev => row'[p[2]].state = "active"
    BY <2>4, <2>6, Zenon
  <2>11. p[2] \in DOMAIN page \ Prev => row'[p[2]].state = "active"
    BY <2>6, Zenon
  <2> QED
    BY <2>1, <2>2, <2>7, <2>8, <2>9, <2>10, <2>11, Zenon
<1>6. ASSUME NEW p \in Users \X Configs
      PROVE  /\ heard'[p].news = heard[p].news
             /\ heard'[p].added = IF p[2] \in Prev \cap DOMAIN page THEN heard[p].added ELSE 0
  BY <1>1, <1>6, HeardRows
<1>7. run.event \subseteq Configs
  BY DEF RunOK, RunType
<1>8. EventRows'
  <2> SUFFICES ASSUME Telling, NEW p \in Users \X run.event, p \notin excused'.silent
               PROVE  row'[p[2]].state = "active" /\ row'[p[2]].marked
    BY <1>1 DEF EventRows, Telling
  <2>1. p \in Users \X Configs
    BY <1>7
  <2>2. row[p[2]].state = "active" /\ row[p[2]].marked
    BY <1>5, <2>1 DEF News, EventRows
  <2> QED
    BY <1>5, <2>1, <2>2
<1>9. Owed'
  <2> SUFFICES ASSUME NEW p \in Users \X Configs
               PROVE  /\ Pending(p, "added") => /\ p[2] \in run.event /\ p \notin Watches
                                                /\ p \in excused'.silent \/ heard'[p].added = 0
                      /\ Pending(p, "removed") => p[2] \in run.gone
    BY <1>1, <1>3 DEF Owed
  <2>1. /\ Pending(p, "added") => /\ p[2] \in run.event /\ p \notin Watches
                                  /\ p \in excused.silent \/ heard[p].added = 0
        /\ Pending(p, "removed") => p[2] \in run.gone
    BY DEF News, Owed
  <2> QED
    BY <1>2, <1>6, <2>1
<1>10. ASSUME NEW p \in Followers \X Configs PROVE InTime(p)'
  <2>1. InTime(p) /\ p \in Users \X Configs
    BY FollowersAre DEF News
  <2>2. p \in Watches => heard'[p].added = 0
    BY <1>6, <2>1 DEF InTime
  <2>3. ASSUME p \notin excused'.silent PROVE Current(p)'
    <3>1. Current(p)
      BY <1>5, <2>1, <2>3 DEF InTime
    <3>2. /\ Pending(p, "removed")' <=> Pending(p, "removed")
          /\ Pending(p, "added")' <=> Pending(p, "added")
      BY <1>3
    <3>3. CASE p[2] \in Prev
      <4>1. /\ row[p[2]].state = "active" /\ row'[p[2]].state = "active"
            /\ row'[p[2]].marked <=> row[p[2]].marked
            /\ p[2] \in DOMAIN page
        BY <1>5, <2>1, <2>3, <3>3
      <4>2. heard'[p].added = heard[p].added
        BY <1>6, <2>1, <3>3, <4>1
      <4> QED
        BY <1>1, <1>2, <3>1, <3>2, <4>1, <4>2 DEF Current
    <3>4. CASE p[2] \in DOMAIN page \ Prev
      BY <1>1, <1>5, <1>6, <2>1, <2>3, <3>4 DEF Current
    <3>5. CASE p[2] \notin Prev \cup DOMAIN page
      BY <1>1, <1>2, <1>5, <1>6, <2>1, <2>3, <3>1, <3>2, <3>5 DEF Current
    <3> QED
      BY <3>3, <3>4, <3>5
  <2> QED
    BY <2>2, <2>3 DEF InTime
<1> QED
  BY <1>4, <1>8, <1>9, <1>10 DEF News

\* What both writers of the refresh do to a row.
LEMMA SilentRows ==
  ASSUME Types, PrefetchApplies \/ Retires
  PROVE  \E page \in Pages :
           /\ TellsNobody(page)
           /\ \A c \in Configs : Written(page, c)
<1> USE DEF Types
<1>1. ASSUME NEW page \in Pages, NEW c \in Configs
      PROVE  /\ c \in DOMAIN page =>
                  /\ Applied(page)[c].state = "active" /\ Applied(page)[c].qty = page[c]
                  /\ Applied(page)[c].marked <=> page[c] > 0 \/ (c \in Prev /\ row[c].marked)
             /\ c \in Prev \ DOMAIN page => Applied(page)[c].state = "delisted"
             /\ c \notin Prev \cup DOMAIN page => Applied(page)[c] = row[c]
  <2>1. row[c] \in Rows
    BY DEF RowOK
  <2>2. CASE c \in DOMAIN page
    <3> DEFINE marked == page[c] > 0 \/ (c \in Prev /\ row[c].marked)
    <3>1. Applied(page)[c] = [state |-> "active", qty |-> page[c], marked |-> marked]
      BY <2>2, AppliedRows
    <3> HIDE DEF marked
    <3>2. /\ Applied(page)[c].state = "active" /\ Applied(page)[c].qty = page[c]
          /\ Applied(page)[c].marked = marked
      BY <3>1
    <3> USE DEF marked
    <3> QED
      BY <2>2, <3>2
  <2>3. CASE c \in Prev \ DOMAIN page
    <3>1. Applied(page)[c] = [row[c] EXCEPT !.state = "delisted", !.marked = FALSE]
      BY <2>3, AppliedRows
    <3> QED
      BY <2>1, <2>3, <3>1 DEF Rows
  <2>4. CASE c \notin Prev \cup DOMAIN page
    BY <2>4, AppliedRows
  <2> QED
    BY <2>2, <2>3, <2>4
<1>2. CASE PrefetchApplies
  <2>1. PICK page \in Pages : row' = Applied(page) /\ TellsNobody(page)
    BY <1>2 DEF PrefetchApplies
  <2>2. ASSUME NEW c \in Configs PROVE Written(page, c)
    <3>0. row'[c] = Applied(page)[c]
      BY <2>1
    <3>1. CASE c \in DOMAIN page
      <4>1. /\ row'[c].state = "active" /\ row'[c].qty = page[c]
            /\ row'[c].marked <=> page[c] > 0 \/ (c \in Prev /\ row[c].marked)
        BY <1>1, <3>0, <3>1
      <4> QED
        BY <3>0, <3>1, <4>1, Zenon DEF Written
    <3>2. CASE c \in Prev \ DOMAIN page
      BY <1>1, <2>1, <3>2 DEF Written, InStock
    <3>3. CASE c \notin Prev \cup DOMAIN page
      BY <1>1, <2>1, <3>3 DEF Written
    <3> QED
      BY <3>1, <3>2, <3>3
  <2> QED
    BY <2>1, <2>2
<1>3. CASE Retires
  <2>1. TellsNobody(NoPage) /\ NoPage \in Pages /\ DOMAIN NoPage = {}
    BY <1>3, EmptyPage DEF Retires
  <2>2. ASSUME NEW c \in Configs
        PROVE  row'[c] = IF c \in Prev THEN [row[c] EXCEPT !.state = "delisted"] ELSE row[c]
    BY <1>3, <2>2 DEF Retires
  <2>3. ASSUME NEW c \in Configs
        PROVE  /\ c \in Prev => row'[c].state = "delisted" /\ ~InStock(Applied(NoPage)[c])
               /\ c \notin Prev => row'[c] = row[c] /\ Applied(NoPage)[c] = row[c]
    <3>1. row[c] \in Rows
      BY DEF RowOK
    <3>2. [row[c] EXCEPT !.state = "delisted"].state = "delisted"
      BY <3>1 DEF Rows
    <3> QED
      BY <1>1, <2>1, <2>2, <3>2 DEF InStock
  <2>4. \A c \in Configs : Written(NoPage, c)
    BY <2>1, <2>3 DEF Written
  <2> QED
    BY <2>1, <2>4
<1> QED
  BY <1>2, <1>3

LEMMA NextNews ==
  ASSUME Types, News, [Next]_vars
  PROVE  News'
<1> USE DEF Types
<1>0. /\ run.phase # "telling" => send["run"] = Quiet
      /\ \A m \in send["poll"].todo : m.kind = "restock"
  BY DEF News, RunAlone
<1>1. CASE Enqueue \/ RunEnds \/ (\E u \in Users : PollReads(u)) \/ PollJoins \/ PollEnds \/ UNCHANGED vars
  <2>1. UNCHANGED <<row, heard, excused, send>>
    BY <1>1 DEF Enqueue, RunEnds, PollReads, PollJoins, PollEnds, vars, history
  <2>2. \/ run'.phase = run.phase /\ run'.event = run.event /\ run'.gone = run.gone
        \/ run.phase # "applied" /\ send["run"] = Quiet /\ run'.phase \in {"none", "fetch"}
    <3>1. CASE Enqueue
      BY <1>0, <3>1 DEF Enqueue, NoRun
    <3>2. CASE RunEnds
      BY <1>0, <3>2 DEF RunEnds, NoRun
    <3>3. CASE PollJoins
      <4>1. /\ run'.phase = (IF run.phase = "none" THEN "fetch" ELSE run.phase)
            /\ run'.event = run.event /\ run'.gone = run.gone
        BY <3>3 DEF PollJoins, RunOK, RunType
      <4> QED
        BY <1>0, <4>1
    <3>4. CASE (\E u \in Users : PollReads(u)) \/ PollEnds \/ UNCHANGED vars
      BY <3>4 DEF PollReads, PollEnds, vars
    <3> QED
      BY <1>1, <3>1, <3>2, <3>3, <3>4
  <2>3. \/ run'.phase = run.phase /\ run'.event = run.event /\ run'.gone = run.gone
        \/ run.phase # "applied" /\ send["run"] = Quiet /\ ~Telling'
    BY <2>2 DEF Telling
  <2>4. run'.phase # "telling" => send'["run"] = Quiet
    BY <1>0, <2>1, <2>2
  <2> QED
    BY <1>0, <2>1, <2>3, <2>4, NewsKept
<1>2. CASE RunApplies
  BY <1>2, ApplyNews
<1>3. CASE RunReadsWaiters
  BY <1>3, ReadNews
<1>4. CASE PollCompares
  <2>1. UNCHANGED <<row, heard, excused, run>> /\ send'["run"] = send["run"]
    BY <1>4 DEF PollCompares, SendOK, Senders, history
  <2>2. \A m \in send'["poll"].todo : m.kind = "restock"
    BY <1>4 DEF PollCompares, SendOK, SendType, Senders
  <2> QED
    BY <1>0, <2>1, <2>2, NewsKept
<1>5. CASE \E s \in Senders : Deliver(s)
  <2>1. PICK s \in Senders : Deliver(s)
    BY <1>5
  <2>2. CASE Record(s)
    BY <2>2, RecordNews
  <2>3. CASE TelegramSent(s) \/ TelegramWritten(s) \/ PushSent(s) \/ PushWritten(s) \/ Rests(s)
    <3>1. PICK r : Advance(s, r) /\ send[s].record.step # "none"
      BY <2>3 DEF TelegramSent, TelegramWritten, PushSent, PushWritten, Rests, AtStep
    <3>2. UNCHANGED <<row, heard, excused, run>>
      BY <3>1 DEF Advance, history
    <3>3. \A t \in Senders : send'[t].todo = send[t].todo /\ (t # s => send'[t] = send[t])
      BY <3>1 DEF Advance, SendOK, SendType
    <3>4. s = "run" => run.phase = "telling"
      BY <1>0, <3>1 DEF Quiet, NoRecord
    <3>5. run'.phase # "telling" => send'["run"] = Quiet
      BY <1>0, <3>2, <3>3, <3>4 DEF Senders
    <3>6. \A m \in send'["poll"].todo : m.kind = "restock"
      BY <1>0, <3>3 DEF Senders
    <3>7. send'["run"].todo = send["run"].todo
      BY <3>3 DEF Senders
    <3> QED
      BY <3>2, <3>5, <3>6, <3>7, NewsKept
  <2> QED
    BY <2>1, <2>2, <2>3 DEF Deliver
<1>6. CASE RunRefused
  <2>1. /\ Telling /\ run'.event = run.event /\ run'.gone = run.gone /\ run'.phase = "telling"
        /\ Lost(RunLost, {})
    BY <1>6 DEF RunRefused, Fault, Telling, RunOK, RunType
  <2>2. send'["run"] = Quiet /\ \A m \in send'["poll"].todo : m.kind = "restock"
    BY <1>0, <1>6 DEF RunRefused, SendOK, Senders
  <2> QED
    BY <2>1, <2>2, LostNews
<1>7. CASE PollRefused
  <2>1. UNCHANGED <<row, heard, run>> /\ send'["run"] = send["run"] /\ send'["poll"].todo = {}
    BY <1>7 DEF PollRefused, Fault, Lost, SendOK, Senders, Quiet
  <2>2. excused'.cut = excused.cut /\ excused'.silent = excused.silent
    BY <1>7 DEF PollRefused, Fault, Lost, HistoryOK, ExcusedType
  <2>3. EventRows' /\ RunAlone'
    BY <1>0, <2>1, <2>2 DEF News, EventRows, RunAlone, Telling
  <2>4. \A p, kind : Pending(p, kind)' <=> Pending(p, kind)
    BY <2>1 DEF Pending
  <2>5. Owed'
    BY <2>1, <2>2, <2>4 DEF News, Owed
  <2>6. ASSUME NEW p \in Followers \X Configs PROVE InTime(p)'
    <3>1. InTime(p)
      BY DEF News
    <3>2. /\ Pending(p, "removed")' <=> Pending(p, "removed")
          /\ Pending(p, "added")' <=> Pending(p, "added")
      BY <2>4
    <3> QED
      BY <2>1, <2>2, <3>1, <3>2 DEF InTime, Current
  <2> QED
    BY <2>3, <2>5, <2>6 DEF News
<1>8. CASE Restart
  <2>1. run'.phase = "none" /\ send'["run"] = Quiet /\ send'["poll"].todo = {} /\ Lost(RunLost, PollLost)
    BY <1>8 DEF Restart, Fault, NoRun, Senders, Quiet
  <2>2. ~Telling'
    BY <2>1 DEF Telling
  <2> QED
    BY <2>1, <2>2, LostNews
<1>9. CASE RunPanics
  <2>1. Telling /\ run'.phase = "wedged" /\ Lost(RunLost, {})
    BY <1>9 DEF RunPanics, Telling, RunOK, RunType
  <2>2. send'["run"] = Quiet /\ \A m \in send'["poll"].todo : m.kind = "restock"
    BY <1>0, <1>9 DEF RunPanics, SendOK, Senders
  <2>3. ~Telling'
    BY <2>1 DEF Telling
  <2> QED
    BY <2>1, <2>2, <2>3, LostNews
<1>10. CASE PrefetchApplies \/ Retires
  <2>1. PICK page \in Pages :
          /\ TellsNobody(page)
          /\ \A c \in Configs : Written(page, c)
    BY <1>10, SilentRows
  <2> QED
    BY <2>1, SilentNews
<1> QED
  BY <1>1, <1>2, <1>3, <1>4, <1>5, <1>6, <1>7, <1>8, <1>9, <1>10 DEF Next

\* A follower hears of each listing that a run finds once, once it has stock, and
\* of its end (ops.rs 2165-2380), until the topology refresh lists or delists the
\* config without a word (db.rs 3056, poller.rs 359); one who monitors the config
\* hears only of its stock.
THEOREM UpToDate == Spec => []FollowersUpToDate
<1>1. Init => Types /\ News
  BY InitTypes, InitNews
<1>2. Types /\ News /\ [Next]_vars => (Types /\ News)'
  BY NextTypes, NextNews
<1>3. News => FollowersUpToDate
  BY NewsImplies
<1> QED
  BY <1>1, <1>2, <1>3, PTL DEF Spec
-----------------------------------------------------------------------------
(***************************************************************************)
(* Restocks: the run and the poll of a user may both find the same stock.  *)
(***************************************************************************)

\* The poll is about to tell p's user of a restock.
PollPending(p) == [user |-> p[1], config |-> p[2], kind |-> "restock"] \in send["poll"].todo

\* The poll read p's config without stock and is yet to compare it.
Awaits(p) ==
  /\ poll.phase # "idle" /\ poll.user = p[1]
  /\ p[2] \in poll.ids /\ poll.old[p[2]] = 0

\* The poll tells of what it has compared, and only of what a page changed.
PollAlone ==
  /\ poll.phase # "compare" => send["poll"] = Quiet
  /\ \A m \in send["poll"].todo :
       /\ m.user = poll.user /\ m.config \in DOMAIN poll.old \ poll.ids
       /\ poll.behind # 0

\* The poll and the task it joined know of each other.
Joined ==
  /\ poll.phase \in {"read", "wait"} => poll.ids = DOMAIN poll.old
  /\ poll.phase = "wait" => run.phase # "none" /\ run.waiters = {poll.user}
  /\ poll.phase # "wait" => run.waiters = {}

\* What a poll read is what the rows say until a page is applied,
Fresh ==
  poll.phase # "idle" /\ poll.behind = 0 =>
    /\ \A c \in DOMAIN poll.old : poll.old[c] = row[c].qty
    /\ Monitored(poll.user) \subseteq DOMAIN poll.old

\* and what that page replaced until the next.
Late ==
  run.phase = "applied" /\ poll.phase # "idle" /\ poll.behind = 1 =>
    \A c \in run.event \ run.listed :
      <<poll.user, c>> \in Watches =>
        <<poll.user, c>> \in excused.raced \/ (c \in DOMAIN poll.old /\ poll.old[c] = 0)

\* Stock leaves its mark; first restocks are of what is in stock, and so are
\* events unless the refresh wrote the rows since.
StockRows ==
  /\ \A c \in Configs : InStock(row[c]) => row[c].marked
  /\ Telling => \A p \in Users \X run.event : p \in excused.raced \/ InStock(row[p[2]])
  /\ \A c \in first : InStock(row[c])

RestockOwed == \A p \in Watches : Pending(p, "restock") => Telling /\ p[2] \in run.event

Course == PollAlone /\ Joined /\ Fresh /\ Late /\ StockRows /\ RestockOwed

\* Who is about to tell p's user is alone with it, and tells news.
Once(p) ==
  /\ heard[p].restock < 2
  /\ heard[p].restock > 0 => ~PollPending(p) /\ ~(Awaits(p) /\ row[p[2]].qty > 0)
  /\ run.phase = "applied" /\ p[2] \in run.event => heard[p].restock = 0
  /\ Pending(p, "restock") => heard[p].restock = 0 /\ ~PollPending(p) /\ ~Awaits(p)

\* p's user was told, or somebody is on the way.
Reached(p) ==
  \/ heard[p].restock > 0
  \/ run.phase = "applied" /\ p[2] \in run.event
  \/ Pending(p, "restock")
  \/ PollPending(p)
  \/ Awaits(p) /\ poll.phase \in {"wait", "compare"}

TellsOnce == \A p \in Watches \ (excused.raced \cup excused.relisted) : Once(p)

TellsAll == \A p \in Watches \ (excused.raced \cup excused.missed) : p[2] \in first => Reached(p)

Restocks == Course /\ TellsOnce /\ TellsAll

LEMMA WatchesAre == \A p \in Watches : p \in Users \X Configs /\ p[1] \in Users /\ p[2] \in Configs
  BY NotifyAssumption

LEMMA PollFacts ==
  ASSUME PollOK, poll.phase # "idle"
  PROVE  /\ poll.user \in Users /\ poll.ids \subseteq DOMAIN poll.old /\ poll.behind \in 0..2
         /\ \A c \in DOMAIN poll.old :
              c \in Configs /\ poll.old[c] \in 0..1 /\ <<poll.user, c>> \in Watches
<1>1. poll \in Polls /\ {poll.user} \X DOMAIN poll.old \subseteq Watches
  BY PollIsOne
<1>2. poll.old \in UNION {[read -> 0..1] : read \in SUBSET Configs} /\ poll.behind \in 0..2
  BY <1>1 DEF Polls
<1> QED
  BY <1>1, <1>2, PollIsOne

\* A row is in stock after a page that lists it with stock, and is marked then.
LEMMA StockOf ==
  ASSUME RowOK, StockRows, NEW page \in Pages, NEW c \in Configs
  PROVE  /\ InStock(Applied(page)[c]) => Applied(page)[c].marked
         /\ c \in Event(page) => /\ InStock(Applied(page)[c]) /\ c \notin Stays(page)
                                 /\ c \in Prev => row[c].qty = 0
<1>0. row[c] \in Rows
  BY DEF RowOK
<1>1. CASE c \in DOMAIN page
  <2>1. page[c] \in 0..1
    BY <1>1, PageType
  <2>2. /\ Applied(page)[c].state = "active" /\ Applied(page)[c].qty = page[c]
        /\ Applied(page)[c].marked <=> page[c] > 0 \/ (c \in Prev /\ row[c].marked)
    <3> DEFINE marked == page[c] > 0 \/ (c \in Prev /\ row[c].marked)
    <3>1. Applied(page)[c] = [state |-> "active", qty |-> page[c], marked |-> marked]
      BY <1>1, AppliedRows
    <3> HIDE DEF marked
    <3>2. Applied(page)[c].state = "active" /\ Applied(page)[c].qty = page[c] /\ Applied(page)[c].marked = marked
      BY <3>1
    <3> USE DEF marked
    <3> QED
      BY <3>2
  <2>3. c \in Event(page) => page[c] > 0 /\ (c \in Prev => ~row[c].marked)
    BY DEF Event
  <2>4. InStock(row[c]) => c \in Prev /\ row[c].marked
    BY DEF InStock, Prev, StockRows
  <2>5. c \in Event(page) => ~InStock(row[c])
    BY <2>3, <2>4
  <2>6. c \in Event(page) /\ c \in Prev => row[c].qty = 0
    BY <1>0, <2>5 DEF InStock, Prev, Rows
  <2> QED
    BY <2>2, <2>3, <2>5, <2>6 DEF InStock, Stays
<1>2. CASE c \in Prev \ DOMAIN page
  <2>1. Applied(page)[c] = [row[c] EXCEPT !.state = "delisted", !.marked = FALSE]
    BY <1>2, AppliedRows
  <2>2. Applied(page)[c].state = "delisted"
    BY <1>0, <2>1 DEF Rows
  <2> QED
    BY <1>2, <2>2 DEF InStock, Event
<1>3. CASE c \notin Prev \cup DOMAIN page
  <2>1. Applied(page)[c].state # "active"
    BY <1>3, AppliedRows DEF Prev
  <2> QED
    BY <1>3, <2>1 DEF InStock, Event
<1> QED
  BY <1>1, <1>2, <1>3

LEMMA ApplyFacts ==
  ASSUME Types, News, RunApplies
  PROVE  \E page \in Pages :
           /\ run.phase = "fetch" /\ run'.phase = "applied" /\ run'.waiters = run.waiters
           /\ run'.event = Event(page) /\ run'.listed = DOMAIN page \ Prev
           /\ row' = Applied(page) /\ first' = First(page)
           /\ heard' = Heard(page) /\ excused' = Forgiven(page) /\ send' = send
           /\ poll'.phase = poll.phase /\ poll'.ids = poll.ids /\ poll'.old = poll.old /\ poll'.user = poll.user
           /\ poll.phase # "idle" => poll'.behind # 0 /\ (poll'.behind = 1 => poll.behind = 0)
<1>1. PICK page \in Pages :
        /\ run.phase = "fetch"
        /\ row' = Applied(page)
        /\ run' = [run EXCEPT !.phase = "applied", !.event = Event(page),
                        !.listed = DOMAIN page \ Prev, !.gone = Prev \ DOMAIN page]
        /\ poll' = Behind
        /\ first' = First(page)
        /\ heard' = Heard(page)
        /\ excused' = Forgiven(page)
        /\ send' = send
  BY DEF RunApplies
<1>2. /\ run'.phase = "applied" /\ run'.waiters = run.waiters
      /\ run'.event = Event(page) /\ run'.listed = DOMAIN page \ Prev
  BY <1>1 DEF Types, RunOK, RunType
<1>3. /\ poll'.phase = poll.phase /\ poll'.ids = poll.ids /\ poll'.old = poll.old /\ poll'.user = poll.user
      /\ poll.phase # "idle" => poll'.behind # 0 /\ (poll'.behind = 1 => poll.behind = 0)
  BY <1>1, BehindIs DEF Types
<1> QED
  BY <1>1, <1>2, <1>3

LEMMA ApplyRestocks ==
  ASSUME Types, News, Restocks, RunApplies
  PROVE  Restocks'
<1>1. PICK page \in Pages :
        /\ run.phase = "fetch" /\ run'.phase = "applied" /\ run'.waiters = run.waiters
        /\ run'.event = Event(page) /\ run'.listed = DOMAIN page \ Prev
        /\ row' = Applied(page) /\ first' = First(page)
        /\ heard' = Heard(page) /\ excused' = Forgiven(page) /\ send' = send
        /\ poll'.phase = poll.phase /\ poll'.ids = poll.ids /\ poll'.old = poll.old /\ poll'.user = poll.user
        /\ poll.phase # "idle" => poll'.behind # 0 /\ (poll'.behind = 1 => poll.behind = 0)
  BY ApplyFacts
<1> USE DEF Types
<1>2. send["run"] = Quiet
  BY <1>1 DEF News, RunAlone
<1>3. \A p : ~Pending(p, "restock") /\ ~Pending(p, "restock")'
  BY <1>1, <1>2, QuietOwes DEF Pending
<1>4. \A p : (PollPending(p)' <=> PollPending(p)) /\ (Awaits(p)' <=> Awaits(p))
  BY <1>1 DEF PollPending, Awaits
<1>5. ASSUME NEW c \in Configs
      PROVE  /\ InStock(row'[c]) => row'[c].marked
             /\ c \in Event(page) => InStock(row'[c]) /\ c \notin Stays(page) /\ (c \in Prev => row[c].qty = 0)
  BY <1>1, StockOf DEF Restocks, Course
<1>6. Event(page) \subseteq DOMAIN page /\ Event(page) \subseteq Configs /\ Prev \subseteq Configs
  BY PageType, PrevRows DEF Event
<1>7. \A c \in Stays(page) : c \in Configs /\ InStock(row[c]) /\ InStock(row'[c])
  BY <1>1 DEF Stays
<1>8. PollAlone' /\ Joined' /\ Fresh'
  <2>1. \A m \in send["poll"].todo : poll.phase # "idle"
    BY DEF Restocks, Course, PollAlone, Quiet
  <2>2. PollAlone'
    BY <1>1, <2>1 DEF Restocks, Course, PollAlone
  <2> QED
    BY <1>1, <2>2 DEF Restocks, Course, Joined, Fresh
<1>9. Late'
  <2> SUFFICES ASSUME poll'.phase # "idle", poll'.behind = 1,
                      NEW c \in run'.event \ run'.listed, <<poll'.user, c>> \in Watches
               PROVE  c \in DOMAIN poll'.old /\ poll'.old[c] = 0
    BY DEF Late
  <2>1. c \in Prev /\ c \in Configs /\ row[c].qty = 0
    BY <1>1, <1>5, <1>6
  <2>2. c \in Monitored(poll.user)
    BY <1>1, <2>1 DEF Monitored, Prev
  <2>3. poll.phase # "idle" /\ poll.behind = 0
    BY <1>1
  <2> QED
    BY <1>1, <2>1, <2>2, <2>3 DEF Restocks, Course, Fresh
<1>10. StockRows'
  <2>1. \A c \in first' : c \in Event(page) \/ c \in Stays(page)
    BY <1>1 DEF First
  <2> QED
    BY <1>1, <1>5, <1>6, <1>7, <2>1 DEF StockRows
<1>11. RestockOwed'
  BY <1>3 DEF RestockOwed
<1>12. ASSUME NEW p \in Watches
       PROVE  heard'[p].restock = IF p[2] \in Stays(page) THEN heard[p].restock ELSE 0
  BY <1>1, WatchesAre, HeardRows
<1>13. ASSUME NEW p \in Watches, p \notin excused'.raced \cup excused'.relisted PROVE Once(p)'
  <2>1. CASE p[2] \in Stays(page)
    <3>1. Once(p)
      BY <1>1, <1>13, <2>1, ForgivenIs DEF Restocks, TellsOnce
    <3>2. row[p[2]].qty > 0 /\ p[2] \notin Event(page)
      BY <1>5, <1>7, <2>1 DEF InStock
    <3>3. heard'[p].restock = heard[p].restock
      BY <1>12, <2>1
    <3> QED
      BY <1>1, <1>3, <1>4, <3>1, <3>2, <3>3 DEF Once
  <2>2. CASE p[2] \notin Stays(page)
    <3>1. heard'[p].restock = 0
      BY <1>12, <2>2
    <3> QED
      BY <1>3, <3>1 DEF Once
  <2> QED
    BY <2>1, <2>2
<1>14. ASSUME NEW p \in Watches, p \notin excused'.raced \cup excused'.missed, p[2] \in first' PROVE Reached(p)'
  <2>1. CASE p[2] \in Event(page)
    BY <1>1, <2>1 DEF Reached
  <2>2. CASE p[2] \in first \cap Stays(page)
    <3>1. Reached(p)
      BY <1>1, <1>14, <2>2, ForgivenIs DEF Restocks, TellsAll
    <3>2. heard'[p].restock = heard[p].restock
      BY <1>12, <2>2
    <3> QED
      BY <1>1, <1>3, <1>4, <3>1, <3>2 DEF Reached
  <2> QED
    BY <1>1, <1>14, <2>1, <2>2 DEF First
<1>15. TellsOnce' /\ TellsAll'
  BY <1>13, <1>14 DEF TellsOnce, TellsAll
<1> QED
  BY <1>8, <1>9, <1>10, <1>11, <1>15 DEF Restocks, Course

\* The run leaves out those whose poll is sure to tell.
LEMMA ReadRestocks ==
  ASSUME Types, News, Restocks, RunReadsWaiters
  PROVE  Restocks'
<1> USE DEF Types
<1>1. /\ run.phase = "applied" /\ run'.phase = "telling" /\ run'.waiters = run.waiters
      /\ run'.event = run.event /\ run'.listed = run.listed
      /\ send'["run"].todo = Fallback(run.waiters) \cup Changes /\ send'["poll"] = send["poll"]
      /\ excused'.raced = excused.raced \cup Raced /\ excused'.relisted = excused.relisted \cup Relisted
      /\ excused'.missed = excused.missed
      /\ UNCHANGED <<row, poll, heard, first>>
  BY DEF RunReadsWaiters, RunOK, RunType, SendOK, SendType, Senders, HistoryOK, ExcusedType
<1>2. \A p : ~Pending(p, "restock")
  BY <1>1, QuietOwes DEF News, RunAlone
<1>3. \A p : (PollPending(p)' <=> PollPending(p)) /\ (Awaits(p)' <=> Awaits(p))
  BY <1>1 DEF PollPending, Awaits
<1>4. ASSUME NEW p \in Watches
      PROVE  Pending(p, "restock")' <=> p[2] \in run.event /\ (p[1] \in run.waiters => p[2] \in run.listed)
  <2> DEFINE told(w) == [user |-> w[1], config |-> w[2], kind |-> "restock"]
             owed == {w \in Watches : w[2] \in run.event /\ (w[1] \in run.waiters => w[2] \in run.listed)}
  <2>1. Pending(p, "restock")' <=> told(p) \in Fallback(run.waiters) \cup Changes
    BY <1>1 DEF Pending
  <2>2. told(p) \notin Changes
    BY DEF Changes
  <2>3. Fallback(run.waiters) = {told(w) : w \in owed}
    BY DEF Fallback
  <2>4. ASSUME NEW w \in Watches, told(p) = told(w) PROVE p = w
    <3>1. p = <<p[1], p[2]>> /\ w = <<w[1], w[2]>>
      BY WatchesAre
    <3>2. p[1] = w[1] /\ p[2] = w[2]
      BY <2>4
    <3> QED
      BY <3>1, <3>2
  <2> HIDE DEF told
  <2>5. told(p) \in Fallback(run.waiters) <=> p \in owed
    BY <2>3, <2>4
  <2> QED
    BY <2>1, <2>2, <2>5
<1>5. Course'
  <2>1. PollAlone' /\ Joined' /\ Fresh'
    BY <1>1 DEF Restocks, Course, PollAlone, Joined, Fresh, Monitored
  <2>2. Late' /\ StockRows'
    BY <1>1 DEF Restocks, Course, Late, StockRows, Telling
  <2>3. RestockOwed'
    BY <1>1, <1>4 DEF RestockOwed, Telling
  <2> QED
    BY <2>1, <2>2, <2>3 DEF Course
<1>6. ASSUME NEW p \in Watches, p[2] \in run.event, p[1] \in run.waiters => p[2] \in run.listed,
             p \notin excused.raced \cup Raced \cup Relisted
      PROVE  ~PollPending(p) /\ ~Awaits(p)
  <2>1. ~(poll.phase # "idle" /\ p[1] = poll.user /\ poll.behind # IF p[1] \in run.waiters THEN 1 ELSE 0)
    BY <1>6 DEF Raced
  <2>2. ~PollPending(p)
    <3> SUFFICES ASSUME PollPending(p) PROVE FALSE
      OBVIOUS
    <3>1. poll.phase = "compare" /\ p[1] = poll.user /\ poll.behind # 0
      BY DEF PollPending, Restocks, Course, PollAlone, Quiet
    <3>2. p[1] \notin run.waiters
      BY <3>1 DEF Restocks, Course, Joined
    <3> QED
      BY <2>1, <3>1, <3>2
  <2>3. ~Awaits(p)
    <3> SUFFICES ASSUME Awaits(p) PROVE FALSE
      OBVIOUS
    <3>1. poll.phase # "idle" /\ poll.user = p[1] /\ p[2] \in poll.ids /\ poll.old[p[2]] = 0
      BY DEF Awaits
    <3>2. CASE p[1] \notin run.waiters
      <4>1. poll.behind = 0 /\ p[2] \in DOMAIN poll.old
        BY <2>1, <3>1, <3>2, PollFacts
      <4>2. row[p[2]].qty = 0
        BY <3>1, <4>1 DEF Restocks, Course, Fresh
      <4>3. row[p[2]].qty > 0
        <5>1. p \in Users \X run.event
          BY <1>6, WatchesAre
        <5> QED
          BY <1>1, <1>6, <5>1 DEF Restocks, Course, StockRows, InStock, Telling
      <4> QED
        BY <4>2, <4>3
    <3>3. CASE p[1] \in run.waiters
      <4>1. p \in Relisted
        BY <1>6, <3>1, <3>3 DEF Relisted
      <4> QED
        BY <1>6, <4>1
    <3> QED
      BY <3>2, <3>3
  <2> QED
    BY <2>2, <2>3
<1>7. ASSUME NEW p \in Watches, p \notin excused'.raced \cup excused'.relisted PROVE Once(p)'
  <2>1. Once(p)
    BY <1>1, <1>7 DEF Restocks, TellsOnce
  <2>2. Pending(p, "restock")' => p[2] \in run.event /\ ~PollPending(p) /\ ~Awaits(p)
    BY <1>1, <1>4, <1>6, <1>7
  <2> QED
    BY <1>1, <1>3, <2>1, <2>2 DEF Once
<1>8. ASSUME NEW p \in Watches, p \notin excused'.raced \cup excused'.missed, p[2] \in first' PROVE Reached(p)'
  <2>1. Reached(p)
    BY <1>1, <1>8 DEF Restocks, TellsAll
  <2>2. CASE p[2] \in run.event /\ ~Pending(p, "restock")'
    <3>1. p[1] \in run.waiters /\ p[2] \in run.event \ run.listed
      BY <1>4, <2>2
    <3>2. poll.phase = "wait" /\ p[1] = poll.user /\ poll.ids = DOMAIN poll.old
      BY <3>1 DEF Restocks, Course, Joined
    <3>3. poll.behind = 1
      BY <1>1, <1>8, <2>2, <3>1, <3>2 DEF Raced
    <3>4. p = <<poll.user, p[2]>>
      BY <3>2, WatchesAre
    <3>5. p[2] \in DOMAIN poll.old /\ poll.old[p[2]] = 0
      BY <1>1, <1>8, <3>1, <3>2, <3>3, <3>4 DEF Restocks, Course, Late
    <3>6. Awaits(p)
      BY <3>2, <3>5 DEF Awaits
    <3> QED
      BY <1>1, <1>3, <3>2, <3>6 DEF Reached
  <2>3. CASE p[2] \notin run.event \/ Pending(p, "restock")'
    BY <1>1, <1>2, <1>3, <2>1, <2>3 DEF Reached
  <2> QED
    BY <2>2, <2>3
<1> QED
  BY <1>5, <1>7, <1>8 DEF Restocks, TellsOnce, TellsAll

\* What is told is told by one of them.
LEMMA RecordRestocks ==
  ASSUME Types, News, Restocks, NEW s \in Senders, Record(s)
  PROVE  Restocks'
<1> USE DEF Types
<1>1. PICK m \in send[s].todo :
        /\ send' = [send EXCEPT ![s] = [todo |-> send[s].todo \ {m}, record |-> Opened(s, m.user)]]
        /\ heard' = [heard EXCEPT ![<<m.user, m.config>>] = Told(heard[<<m.user, m.config>>], m.kind)]
        /\ excused' = [excused EXCEPT !.raced =
             IF s = "poll" /\ run.phase = "applied" THEN excused.raced \cup {<<m.user, m.config>>} ELSE excused.raced]
        /\ UNCHANGED <<row, run, poll, first>>
  BY DEF Record, SendOK, HistoryOK, ExcusedType
<1>2. m \in Messages /\ m.user \in Users /\ m.config \in Configs /\ m.kind \in Kinds
  BY <1>1 DEF SendOK, SendType, Messages
<1>3. m = [user |-> m.user, config |-> m.config, kind |-> m.kind]
  BY <1>2 DEF Messages
<1> DEFINE q == <<m.user, m.config>>
<1>4. q \in Users \X Configs /\ q[1] = m.user /\ q[2] = m.config
  BY <1>2
<1>5. /\ excused'.relisted = excused.relisted /\ excused'.missed = excused.missed
      /\ excused.raced \subseteq excused'.raced
      /\ s = "poll" /\ run.phase = "applied" => q \in excused'.raced
  <2> DEFINE raced == IF s = "poll" /\ run.phase = "applied" THEN excused.raced \cup {q} ELSE excused.raced
  <2>1. excused' = [excused EXCEPT !.raced = raced]
    BY <1>1
  <2>2. excused.raced \subseteq raced /\ (s = "poll" /\ run.phase = "applied" => q \in raced)
    OBVIOUS
  <2> HIDE DEF raced
  <2> QED
    BY <2>1, <2>2 DEF HistoryOK, ExcusedType
<1>6. heard'[q] = Told(heard[q], m.kind) /\ heard[q] \in HeardType
  BY <1>1, <1>4 DEF HistoryOK
<1>7. \A p \in Users \X Configs : p # q => heard'[p] = heard[p]
  BY <1>1, <1>4 DEF HistoryOK
<1>8. heard'[q].restock = IF m.kind = "restock" /\ heard[q].restock < 2 THEN heard[q].restock + 1 ELSE heard[q].restock
  <2>1. CASE m.kind = "restock"
    <3>1. heard[q].restock \in 0..2
      BY <1>6 DEF HeardType
    <3>2. Told(heard[q], m.kind).restock = IF heard[q].restock < 2 THEN heard[q].restock + 1 ELSE 2
      BY <1>6, <2>1 DEF Told, HeardType
    <3> QED
      BY <1>6, <2>1, <3>1, <3>2
  <2>2. CASE m.kind = "added"
    BY <1>6, <2>2 DEF Told, HeardType
  <2>3. CASE m.kind = "removed"
    BY <1>6, <2>3 DEF Told, HeardType
  <2> QED
    BY <1>2, <2>1, <2>2, <2>3 DEF Kinds
<1>9. /\ send'[s].todo = send[s].todo \ {m} /\ \A t \in Senders \ {s} : send'[t] = send[t]
  BY <1>1 DEF SendOK
<1>10. s = "run" => run.phase = "telling"
  BY <1>1 DEF News, RunAlone, Quiet
<1>11. s = "poll" => poll.phase = "compare" /\ m.kind = "restock"
  BY <1>1 DEF News, RunAlone, Restocks, Course, PollAlone, Quiet
<1>12. \A t \in Senders : send'[t].todo \subseteq send[t].todo
  BY <1>9
<1>13. ASSUME NEW p \in Watches
       PROVE  /\ Pending(p, "restock")' <=> Pending(p, "restock") /\ ~(s = "run" /\ p = q /\ m.kind = "restock")
              /\ PollPending(p)' <=> PollPending(p) /\ ~(s = "poll" /\ p = q)
              /\ Awaits(p)' <=> Awaits(p)
  <2> DEFINE n == [user |-> p[1], config |-> p[2], kind |-> "restock"]
  <2>0. p = <<p[1], p[2]>>
    BY WatchesAre
  <2>1. n = m <=> p = q /\ m.kind = "restock"
    BY <1>3, <2>0
  <2>2. /\ Pending(p, "restock") <=> n \in send["run"].todo
        /\ Pending(p, "restock")' <=> n \in send'["run"].todo
        /\ PollPending(p) <=> n \in send["poll"].todo
        /\ PollPending(p)' <=> n \in send'["poll"].todo
    BY DEF Pending, PollPending
  <2>3. Awaits(p)' <=> Awaits(p)
    BY <1>1 DEF Awaits
  <2> HIDE DEF n, q
  <2>4. CASE s = "run"
    BY <1>9, <2>1, <2>2, <2>3, <2>4 DEF Senders
  <2>5. CASE s = "poll"
    BY <1>9, <1>11, <2>1, <2>2, <2>3, <2>5 DEF Senders
  <2> QED
    BY <2>4, <2>5 DEF Senders
<1>14. /\ s = "run" /\ m.kind = "restock" => Pending(q, "restock")
       /\ s = "poll" => PollPending(q) /\ ~Awaits(q)
  <2>1. s = "run" /\ m.kind = "restock" => Pending(q, "restock")
    BY <1>1, <1>3, <1>4 DEF Pending
  <2>2. s = "poll" => PollPending(q)
    BY <1>1, <1>3, <1>4, <1>11 DEF PollPending
  <2>3. s = "poll" => m.config \notin poll.ids
    BY <1>1 DEF Restocks, Course, PollAlone
  <2> QED
    BY <1>4, <2>1, <2>2, <2>3 DEF Awaits
<1> HIDE DEF q
<1>15. Course'
  <2>1. PollAlone'
    <3>1. poll.phase # "compare" => send'["poll"] = Quiet
      BY <1>9, <1>11 DEF Restocks, Course, PollAlone, Senders
    <3> QED
      BY <1>1, <1>12, <3>1 DEF Restocks, Course, PollAlone, Senders
  <2>2. Joined' /\ Fresh' /\ Late' /\ StockRows'
    BY <1>1, <1>5 DEF Restocks, Course, Joined, Fresh, Monitored, Late, StockRows, Telling
  <2>3. RestockOwed'
    BY <1>1, <1>13 DEF Restocks, Course, RestockOwed, Telling
  <2> QED
    BY <2>1, <2>2, <2>3 DEF Course
<1>16. ASSUME NEW p \in Watches, p \notin excused'.raced \cup excused'.relisted PROVE Once(p)'
  <2>1. Once(p)
    BY <1>5, <1>16 DEF Restocks, TellsOnce
  <2>2. CASE p # q \/ m.kind # "restock"
    <3>1. heard'[p].restock = heard[p].restock
      BY <1>7, <1>8, <2>2, WatchesAre
    <3>2. s = "poll" => p # q
      BY <1>11, <2>2
    <3> QED
      BY <1>1, <1>13, <2>1, <3>1, <3>2 DEF Once
  <2>3. CASE p = q /\ m.kind = "restock"
    <3>1. heard[p].restock = 0
      BY <1>6, <1>14, <2>1, <2>3 DEF Once, HeardType, Senders
    <3>2. heard'[p].restock = 1
      BY <1>8, <2>3, <3>1
    <3>3. run.phase = "applied" => FALSE
      BY <1>5, <1>10, <1>16, <2>3 DEF Senders
    <3>4. ~Pending(p, "restock")' /\ ~PollPending(p)' /\ ~Awaits(p)'
      <4>1. CASE s = "run"
        BY <1>13, <1>14, <2>1, <2>3, <4>1 DEF Once
      <4>2. CASE s = "poll"
        BY <1>13, <1>14, <2>1, <2>3, <4>2 DEF Once
      <4> QED
        BY <4>1, <4>2 DEF Senders
    <3> QED
      BY <1>1, <3>2, <3>3, <3>4 DEF Once
  <2> QED
    BY <2>2, <2>3
<1>17. ASSUME NEW p \in Watches, p \notin excused'.raced \cup excused'.missed, p[2] \in first' PROVE Reached(p)'
  <2>1. Reached(p)
    BY <1>1, <1>5, <1>17 DEF Restocks, TellsAll
  <2>2. CASE p # q \/ m.kind # "restock"
    <3>1. heard'[p].restock = heard[p].restock
      BY <1>7, <1>8, <2>2, WatchesAre
    <3>2. s = "poll" => p # q
      BY <1>11, <2>2
    <3> QED
      BY <1>1, <1>13, <2>1, <2>2, <3>1, <3>2 DEF Reached
  <2>3. CASE p = q /\ m.kind = "restock"
    <3>1. heard[p].restock \in 0..2
      BY <1>6, <2>3 DEF HeardType
    <3>2. heard'[p].restock > 0
      BY <1>8, <2>3, <3>1
    <3> QED
      BY <3>2 DEF Reached
  <2> QED
    BY <2>2, <2>3
<1> QED
  BY <1>15, <1>16, <1>17 DEF Restocks, TellsOnce, TellsAll

\* Rows, what is told and what is owed stay, and so do the poll, the event and
\* who waits, unless a task that owes nothing starts or ends: so do restocks.
LEMMA RestocksKept ==
  ASSUME Restocks, UNCHANGED <<row, first, heard, excused>>,
         \A s \in Senders : send'[s].todo = send[s].todo,
         poll.phase # "compare" => send'["poll"] = Quiet,
         poll'.phase = poll.phase \/ (poll.phase = "wait" /\ poll'.phase = "compare"),
         poll'.ids = poll.ids, poll'.old = poll.old, poll'.user = poll.user, poll'.behind = poll.behind,
         \/ UNCHANGED <<run, poll>>
         \/ ~Telling' /\ run.phase # "applied" /\ run'.waiters = {} /\ poll'.phase # "wait"
            /\ \A p : ~Pending(p, "restock")
  PROVE  Restocks'
<1>1. \A p : /\ Pending(p, "restock")' <=> Pending(p, "restock")
             /\ PollPending(p)' <=> PollPending(p)
             /\ Awaits(p)' <=> Awaits(p)
  BY DEF Pending, PollPending, Awaits, Senders
<1>2. run'.phase = "applied" => run.phase = "applied" /\ run' = run
  BY DEF Telling
<1>3. run.phase = "applied" => run' = run
  OBVIOUS
<1>4. PollAlone'
  BY DEF Restocks, Course, PollAlone, Senders
<1>5. Joined' /\ Fresh' /\ Late' /\ StockRows'
  BY DEF Restocks, Course, Joined, Fresh, Monitored, Late, StockRows, Telling
<1>6. RestockOwed'
  BY <1>1 DEF Restocks, Course, RestockOwed, Telling
<1>7. ASSUME NEW p \in Watches, Once(p) PROVE Once(p)'
  BY <1>1, <1>2, <1>7 DEF Once
<1>8. ASSUME NEW p \in Watches, Reached(p) PROVE Reached(p)'
  BY <1>1, <1>3, <1>8 DEF Reached
<1> QED
  BY <1>4, <1>5, <1>6, <1>7, <1>8 DEF Restocks, Course, TellsOnce, TellsAll

\* A poll reads no stock but what the rows lack, and then joins the task.
LEMMA PollReadRestocks ==
  ASSUME Types, News, Restocks, NEW u \in Users, PollReads(u)
  PROVE  Restocks'
<1> DEFINE ids == Monitored(u)
           old == [c \in ids |-> row[c].qty]
<1>1. /\ poll.phase = "idle" /\ poll' = [phase |-> "read", user |-> u, ids |-> ids, old |-> old, behind |-> 0]
      /\ UNCHANGED <<row, run, send, first, heard, excused>>
  BY DEF PollReads, history
<1>2. DOMAIN old = ids /\ \A c \in ids : old[c] = row[c].qty
  OBVIOUS
<1> HIDE DEF old
<1>3. poll'.phase = "read" /\ poll'.user = u /\ poll'.ids = ids /\ poll'.old = old /\ poll'.behind = 0
  BY <1>1
<1>4. send["poll"] = Quiet
  BY <1>1 DEF Restocks, Course, PollAlone
<1>5. \A p : ~PollPending(p) /\ ~PollPending(p)' /\ ~Awaits(p)
  BY <1>1, <1>4 DEF PollPending, Quiet, Awaits
<1>6. \A p : Pending(p, "restock")' <=> Pending(p, "restock")
  BY <1>1 DEF Pending
<1>7. \A p : Awaits(p)' => row[p[2]].qty = 0
  BY <1>2, <1>3 DEF Awaits
<1>8. Course'
  <2>1. PollAlone'
    BY <1>1, <1>4 DEF PollAlone, Quiet
  <2>2. Joined'
    BY <1>1, <1>2, <1>3 DEF Restocks, Course, Joined
  <2>3. Fresh'
    <3>1. Monitored(u)' = Monitored(u)
      BY <1>1 DEF Monitored
    <3> QED
      BY <1>1, <1>2, <1>3, <3>1 DEF Fresh, Monitored
  <2>4. Late' /\ StockRows' /\ RestockOwed'
    BY <1>1, <1>3, <1>6 DEF Restocks, Course, Late, StockRows, RestockOwed, Telling
  <2> QED
    BY <2>1, <2>2, <2>3, <2>4 DEF Course
<1> HIDE DEF ids
<1>9. ASSUME NEW p \in Watches, p \notin excused'.raced \cup excused'.relisted PROVE Once(p)'
  <2>1. Once(p)
    BY <1>1, <1>9 DEF Restocks, TellsOnce
  <2>2. ASSUME Pending(p, "restock") PROVE p \in excused.raced \/ row[p[2]].qty > 0
    <3>1. Telling /\ p \in Users \X run.event
      BY <2>2, WatchesAre DEF Restocks, Course, RestockOwed
    <3> QED
      BY <3>1 DEF Restocks, Course, StockRows, InStock
  <2>3. Awaits(p)' => row[p[2]].qty = 0 /\ ~Pending(p, "restock")
    BY <1>1, <1>7, <1>9, <2>2
  <2> QED
    BY <1>1, <1>5, <1>6, <2>1, <2>3 DEF Once
<1>10. ASSUME NEW p \in Watches, p \notin excused'.raced \cup excused'.missed, p[2] \in first' PROVE Reached(p)'
  <2>1. Reached(p)
    BY <1>1, <1>10 DEF Restocks, TellsAll
  <2> QED
    BY <1>1, <1>5, <1>6, <2>1 DEF Reached
<1> QED
  BY <1>8, <1>9, <1>10 DEF Restocks, TellsOnce, TellsAll

LEMMA PollJoinRestocks ==
  ASSUME Types, News, Restocks, PollJoins
  PROVE  Restocks'
<1>1. poll.phase = "read" /\ UNCHANGED <<row, send, first, heard, excused>>
  BY DEF PollJoins, history
<1>2. /\ poll'.phase = "wait" /\ poll'.user = poll.user /\ poll'.ids = poll.ids /\ poll'.old = poll.old
      /\ poll'.behind = poll.behind
  <2>1. poll \in Polls /\ poll' = [poll EXCEPT !.phase = "wait"]
    BY <1>1, PollIsOne DEF PollJoins, Types
  <2> QED
    BY <2>1 DEF Polls
<1>3. /\ run'.phase = (IF run.phase = "none" THEN "fetch" ELSE run.phase)
      /\ run'.waiters = run.waiters \cup {poll.user} /\ run'.event = run.event /\ run'.listed = run.listed
  BY DEF PollJoins, Types, RunOK, RunType
<1>4. run.waiters = {} /\ poll.ids = DOMAIN poll.old /\ send["poll"] = Quiet
  BY <1>1 DEF Restocks, Course, Joined, PollAlone
<1>5. \A p : /\ Pending(p, "restock")' <=> Pending(p, "restock")
             /\ ~PollPending(p) /\ ~PollPending(p)'
             /\ Awaits(p)' <=> Awaits(p)
  BY <1>1, <1>2, <1>4 DEF Pending, PollPending, Awaits, Quiet
<1>6. (run'.phase = "applied" <=> run.phase = "applied") /\ (Telling' <=> Telling)
  BY <1>3 DEF Telling
<1>7. Course'
  <2>1. PollAlone'
    BY <1>1, <1>4 DEF PollAlone, Quiet
  <2>2. Joined'
    BY <1>2, <1>3, <1>4 DEF Joined
  <2>3. Fresh' /\ Late'
    BY <1>1, <1>2, <1>3, <1>6 DEF Restocks, Course, Fresh, Monitored, Late
  <2>4. StockRows' /\ RestockOwed'
    BY <1>1, <1>3, <1>5, <1>6 DEF Restocks, Course, StockRows, RestockOwed
  <2> QED
    BY <2>1, <2>2, <2>3, <2>4 DEF Course
<1>8. ASSUME NEW p, Once(p) PROVE Once(p)'
  BY <1>1, <1>3, <1>5, <1>6, <1>8 DEF Once
<1>9. ASSUME NEW p, Reached(p) PROVE Reached(p)'
  BY <1>1, <1>3, <1>5, <1>6, <1>9 DEF Reached
<1> QED
  BY <1>1, <1>7, <1>8, <1>9 DEF Restocks, TellsOnce, TellsAll

\* A poll tells of what it awaited, and awaits it no more.
LEMMA CompareRestocks ==
  ASSUME Types, News, Restocks, PollCompares
  PROVE  Restocks'
<1> USE DEF Types
<1>1. PICK c \in poll.ids :
        /\ poll' = [poll EXCEPT !.ids = @ \ {c}]
        /\ send' = [send EXCEPT !["poll"].todo =
             IF Restocked(c) THEN {[user |-> poll.user, config |-> c, kind |-> "restock"]} ELSE {}]
  BY DEF PollCompares
<1>2. poll.phase = "compare" /\ send["poll"] = Quiet /\ UNCHANGED <<row, run, first, heard, excused>>
  BY DEF PollCompares, history
<1>3. /\ poll'.phase = "compare" /\ poll'.user = poll.user /\ poll'.ids = poll.ids \ {c}
      /\ poll'.old = poll.old /\ poll'.behind = poll.behind
  <2>1. poll \in Polls
    BY <1>2, PollIsOne
  <2> QED
    BY <1>1, <1>2, <2>1 DEF Polls
<1> DEFINE q == <<poll.user, c>>
           msg == [user |-> poll.user, config |-> c, kind |-> "restock"]
<1>4. c \in DOMAIN poll.old /\ c \in Configs /\ q \in Watches
  BY <1>1, <1>2, PollFacts
<1>5. /\ send'["run"] = send["run"]
      /\ Restocked(c) => send'["poll"].todo = {msg}
      /\ ~Restocked(c) => send'["poll"].todo = {}
  BY <1>1 DEF SendOK, SendType, Senders
<1>6. \A p \in Watches : p = <<p[1], p[2]>>
  BY WatchesAre
<1>7. ASSUME NEW p \in Watches
      PROVE  /\ ~PollPending(p) /\ (PollPending(p)' <=> Restocked(c) /\ p = q)
             /\ Awaits(p)' <=> Awaits(p) /\ p # q
  <2>1. ~PollPending(p)
    BY <1>2 DEF PollPending, Quiet
  <2>2. [user |-> p[1], config |-> p[2], kind |-> "restock"] = msg <=> p = q
    BY <1>6
  <2>3. PollPending(p)' <=> Restocked(c) /\ p = q
    BY <1>5, <2>2 DEF PollPending
  <2>4. Awaits(p)' <=> Awaits(p) /\ p # q
    BY <1>2, <1>3, <1>6 DEF Awaits
  <2> QED
    BY <2>1, <2>3, <2>4
<1>8. Restocked(c) => Awaits(q) /\ row[q[2]].qty > 0
  BY <1>1, <1>2 DEF Restocked, Awaits
<1>9. \A p : Pending(p, "restock")' <=> Pending(p, "restock")
  BY <1>5 DEF Pending
<1>10. Course'
  <2>1. Restocked(c) => poll.behind # 0
    BY <1>2, <1>4 DEF Restocked, Restocks, Course, Fresh
  <2>2. PollAlone'
    BY <1>2, <1>3, <1>4, <1>5, <2>1 DEF PollAlone
  <2>3. Joined' /\ Fresh' /\ Late'
    BY <1>2, <1>3 DEF Restocks, Course, Joined, Fresh, Monitored, Late
  <2>4. StockRows' /\ RestockOwed'
    BY <1>2, <1>9 DEF Restocks, Course, StockRows, RestockOwed, Telling
  <2> QED
    BY <2>2, <2>3, <2>4 DEF Course
<1>11. ASSUME NEW p \in Watches, Once(p) PROVE Once(p)'
  <2>1. PollPending(p)' => Awaits(p) /\ row[p[2]].qty > 0
    BY <1>7, <1>8
  <2> HIDE DEF q
  <2>2. Awaits(p)' => Awaits(p)
    BY <1>7
  <2> QED
    BY <1>2, <1>9, <1>11, <2>1, <2>2 DEF Once
<1>12. ASSUME NEW p \in Watches, Reached(p), p[2] \in first PROVE Reached(p)'
  <2>1. CASE Awaits(p) /\ p = q
    <3>1. row[c].qty > 0
      BY <1>12, <2>1 DEF Restocks, Course, StockRows, InStock
    <3>2. Restocked(c)
      BY <2>1, <3>1 DEF Restocked, Awaits
    <3>3. PollPending(p)'
      BY <1>7, <2>1, <3>2
    <3> QED
      BY <3>3 DEF Reached
  <2>2. CASE ~(Awaits(p) /\ p = q)
    <3>1. Awaits(p)' <=> Awaits(p)
      BY <1>7, <2>2
    <3> QED
      BY <1>2, <1>3, <1>7, <1>9, <1>12, <3>1 DEF Reached
  <2> QED
    BY <2>1, <2>2
<1> QED
  BY <1>2, <1>10, <1>11, <1>12 DEF Restocks, TellsOnce, TellsAll

\* A poll that is gone awaits nothing; its news is missed unless it had told all.
LEMMA PollGoneRestocks ==
  ASSUME Types, Restocks, UNCHANGED <<row, first, heard>>,
         excused'.raced = excused.raced, excused'.relisted = excused.relisted,
         excused.missed \subseteq excused'.missed,
         poll' = NoPoll, send'["poll"].todo = {}, send'["poll"] = Quiet,
         \A p \in Watches : p \notin excused'.missed =>
           ~PollPending(p) /\ ~(Awaits(p) /\ poll.phase \in {"wait", "compare"}),
         \/ run' = run /\ poll.phase # "wait" /\ send'["run"] = send["run"]
         \/ /\ run' = NoRun /\ send'["run"] = Quiet
            /\ \A p \in Watches : p \notin excused'.missed => ~(Telling /\ p[2] \in run.event)
  PROVE  Restocks'
<1>1. poll'.phase = "idle" /\ \A p : ~Awaits(p)' /\ ~PollPending(p)'
  BY DEF NoPoll, Awaits, PollPending
<1>2. \A p : Pending(p, "restock")' => Pending(p, "restock") /\ run' = run
  BY DEF Pending, Quiet
<1>3. NoRun.phase = "none" /\ NoRun.waiters = {}
  BY DEF NoRun
<1>4. Course'
  <2>1. PollAlone' /\ Joined' /\ Fresh' /\ Late'
    BY <1>1, <1>3 DEF Restocks, Course, PollAlone, Joined, Fresh, Late
  <2>2. StockRows' /\ RestockOwed'
    BY <1>2, <1>3 DEF Restocks, Course, StockRows, RestockOwed, Telling
  <2> QED
    BY <2>1, <2>2 DEF Course
<1>5. ASSUME NEW p \in Watches, Once(p) PROVE Once(p)'
  BY <1>1, <1>2, <1>3, <1>5 DEF Once
<1>6. ASSUME NEW p \in Watches, p \notin excused'.raced \cup excused'.missed, p[2] \in first' PROVE Reached(p)'
  <2>1. Reached(p)
    BY <1>6 DEF Restocks, TellsAll
  <2>2. heard[p].restock > 0 \/ (run.phase = "applied" /\ p[2] \in run.event) \/ Pending(p, "restock")
    BY <1>6, <2>1 DEF Reached
  <2>3. CASE run' = run /\ send'["run"] = send["run"]
    BY <2>2, <2>3 DEF Reached, Pending
  <2>4. CASE ~(Telling /\ p[2] \in run.event)
    <3>1. heard[p].restock > 0
      BY <2>2, <2>4 DEF Telling, Restocks, Course, RestockOwed
    <3> QED
      BY <3>1 DEF Reached
  <2> QED
    BY <1>6, <2>3, <2>4
<1> QED
  BY <1>4, <1>5, <1>6 DEF Restocks, TellsOnce, TellsAll

\* What a fault adds to the excuses.
LEMMA FaultFacts ==
  ASSUME Types, NEW told, NEW polled, Lost(told, polled)
  PROVE  /\ UNCHANGED <<row, first, heard>>
         /\ excused'.raced = excused.raced /\ excused'.relisted = excused.relisted
         /\ excused'.missed = excused.missed \cup told \cup polled
  BY DEF Lost, Types, HistoryOK, ExcusedType

LEMMA RunLostFacts ==
  ASSUME Telling, NEW p \in Watches, p[2] \in run.event
  PROVE  p \in RunLost
<1>1. p = <<p[1], p[2]>> /\ p[1] \in Users
  BY WatchesAre
<1>2. RunLost = Users \X (run.event \cup run.gone)
  BY DEF RunLost, Telling
<1> QED
  BY <1>1, <1>2

LEMMA PollLostFacts ==
  ASSUME Types, Restocks, NEW p \in Watches,
         PollPending(p) \/ (Awaits(p) /\ poll.phase \in {"wait", "compare"})
  PROVE  p \in PollLost
<1>1. p = <<p[1], p[2]>> /\ p[2] \in Configs
  BY WatchesAre
<1>2. poll.phase \in {"wait", "compare"} /\ p[1] = poll.user
  BY DEF PollPending, Awaits, Restocks, Course, PollAlone, Quiet
<1> QED
  BY <1>1, <1>2 DEF PollLost

LEMMA FaultRestocks ==
  ASSUME Types, News, Restocks, RunRefused \/ RunPanics \/ PollRefused \/ Restart
  PROVE  Restocks'
<1> USE DEF Types
<1>1. CASE RunRefused \/ RunPanics
  <2>1. /\ Telling /\ run'.phase \in {"telling", "wedged"} /\ run'.waiters = run.waiters /\ run'.event = run.event
        /\ send'["run"] = Quiet /\ send'["poll"] = send["poll"] /\ poll' = poll
        /\ Lost(RunLost, {})
    <3>1. CASE RunRefused
      BY <3>1 DEF RunRefused, Fault, Telling, RunOK, RunType, SendOK, Senders
    <3>2. CASE RunPanics
      BY <3>2 DEF RunPanics, Telling, RunOK, RunType, SendOK, Senders
    <3> QED
      BY <1>1, <3>1, <3>2
  <2>2. /\ UNCHANGED <<row, first, heard>>
        /\ excused'.raced = excused.raced /\ excused'.relisted = excused.relisted
        /\ excused'.missed = excused.missed \cup RunLost
    BY <2>1, FaultFacts
  <2>3. \A p : /\ ~Pending(p, "restock")'
               /\ PollPending(p)' <=> PollPending(p)
               /\ Awaits(p)' <=> Awaits(p)
    BY <2>1 DEF Pending, Quiet, PollPending, Awaits
  <2>4. Course'
    <3>1. PollAlone' /\ Joined' /\ Fresh' /\ Late'
      BY <2>1, <2>2 DEF Restocks, Course, PollAlone, Joined, Fresh, Monitored, Late, Telling
    <3>2. StockRows' /\ RestockOwed'
      BY <2>1, <2>2, <2>3 DEF Restocks, Course, StockRows, RestockOwed, Telling
    <3> QED
      BY <3>1, <3>2 DEF Course
  <2>5. ASSUME NEW p \in Watches, Once(p) PROVE Once(p)'
    BY <2>1, <2>2, <2>3, <2>5 DEF Once
  <2>6. ASSUME NEW p \in Watches, p \notin excused'.missed, Reached(p) PROVE Reached(p)'
    <3>1. p[2] \notin run.event
      BY <2>1, <2>2, <2>6, RunLostFacts
    <3>2. ~Pending(p, "restock")
      BY <3>1 DEF Restocks, Course, RestockOwed
    <3> QED
      BY <2>1, <2>2, <2>3, <2>6, <3>1, <3>2 DEF Reached
  <2> QED
    BY <2>2, <2>4, <2>5, <2>6 DEF Restocks, TellsOnce, TellsAll
<1>2. CASE PollRefused
  <2>1. /\ poll.phase # "wait" /\ poll' = NoPoll /\ run' = run
        /\ send'["poll"] = Quiet /\ send'["run"] = send["run"] /\ Quiet.todo = {}
        /\ Lost({}, PollLost)
    BY <1>2 DEF PollRefused, Fault, SendOK, Senders, Quiet
  <2>2. /\ UNCHANGED <<row, first, heard>>
        /\ excused'.raced = excused.raced /\ excused'.relisted = excused.relisted
        /\ excused'.missed = excused.missed \cup PollLost
    BY <2>1, FaultFacts
  <2> QED
    BY <2>1, <2>2, PollLostFacts, PollGoneRestocks
<1>3. CASE Restart
  <2>1. /\ poll' = NoPoll /\ run' = NoRun
        /\ send'["poll"] = Quiet /\ send'["run"] = Quiet /\ Quiet.todo = {}
        /\ Lost(RunLost, PollLost)
    BY <1>3 DEF Restart, Fault, Senders, Quiet
  <2>2. /\ UNCHANGED <<row, first, heard>>
        /\ excused'.raced = excused.raced /\ excused'.relisted = excused.relisted
        /\ excused'.missed = excused.missed \cup RunLost \cup PollLost
    BY <2>1, FaultFacts
  <2> QED
    BY <2>1, <2>2, RunLostFacts, PollLostFacts, PollGoneRestocks
<1> QED
  BY <1>1, <1>2, <1>3

\* The refresh excuses what the run has yet to tell and what it finds itself.
LEMMA SilentRestocks ==
  ASSUME Types, Restocks, PrefetchApplies \/ Retires
  PROVE  Restocks'
<1> USE DEF Types
<1>1. PICK page \in Pages :
        /\ TellsNobody(page)
        /\ \A c \in Configs : Written(page, c)
  BY SilentRows
<1>2. UNCHANGED <<run, send>> /\ poll' = Behind /\ first' = First(page) /\ heard' = Heard(page)
  BY <1>1 DEF TellsNobody
<1>3. /\ excused'.raced = {p \in excused.raced : p[2] \in Stays(page)} \cup Overtaken
      /\ excused'.relisted = {p \in excused.relisted : p[2] \in Stays(page)}
      /\ excused'.missed = {p \in excused.missed : p[2] \in Stays(page)} \cup (Users \X Event(page))
  BY <1>1, SilencedIs DEF TellsNobody
<1>4. /\ poll'.phase = poll.phase /\ poll'.ids = poll.ids /\ poll'.old = poll.old /\ poll'.user = poll.user
      /\ poll.phase # "idle" => poll'.behind # 0 /\ (poll'.behind = 1 => poll.behind = 0)
  BY <1>2, BehindIs
<1>5. \A p : /\ Pending(p, "restock")' <=> Pending(p, "restock")
             /\ PollPending(p)' <=> PollPending(p)
             /\ Awaits(p)' <=> Awaits(p)
  BY <1>2, <1>4 DEF Pending, PollPending, Awaits
<1>6. ASSUME NEW c \in Configs
      PROVE  /\ InStock(row'[c]) <=> InStock(Applied(page)[c])
             /\ InStock(row'[c]) => row'[c].marked
  <2>1. CASE c \in DOMAIN page
    <3>0. Written(page, c)
      BY <1>1
    <3>1. /\ row'[c].qty = page[c] /\ (InStock(row'[c]) <=> InStock(Applied(page)[c]))
          /\ row'[c].marked <=> page[c] > 0 \/ (c \in Prev /\ row[c].marked)
      BY <2>1, <3>0, Zenon DEF Written
    <3> QED
      BY <3>1 DEF InStock
  <2>2. CASE c \in Prev \ DOMAIN page
    <3>1. row'[c].state = "delisted" /\ ~InStock(Applied(page)[c])
      BY <1>1, <2>2 DEF Written
    <3> QED
      BY <3>1 DEF InStock
  <2>3. CASE c \notin Prev \cup DOMAIN page
    <3>1. row'[c] = row[c] /\ Applied(page)[c] = row[c]
      BY <1>1, <2>3 DEF Written
    <3> QED
      BY <3>1 DEF Restocks, Course, StockRows
  <2> QED
    BY <2>1, <2>2, <2>3
<1>7. \A c \in Configs : InStock(row'[c]) => row'[c].marked
  BY <1>6
<1>8. \A c \in Stays(page) : c \in Configs /\ InStock(row[c]) /\ InStock(row'[c])
  BY <1>6 DEF Stays
<1>9. \A c \in Event(page) : c \in Configs /\ InStock(row'[c])
  BY <1>6, PageType, StockOf DEF Event, Restocks, Course
<1>10. Telling => Users \X run.event \subseteq excused'.raced
  BY <1>3 DEF Overtaken, Telling
<1>11. ASSUME NEW p \in Watches, p \notin excused'.raced PROVE ~(Telling /\ p[2] \in run.event)
  BY <1>10, <1>11, WatchesAre
<1>12. Course'
  <2>1. \A m \in send["poll"].todo : poll.phase # "idle"
    BY DEF Restocks, Course, PollAlone, Quiet
  <2>2. PollAlone'
    BY <1>2, <1>4, <2>1 DEF Restocks, Course, PollAlone
  <2>3. Joined' /\ Fresh'
    BY <1>2, <1>4 DEF Restocks, Course, Joined, Fresh
  <2>4. Late'
    <3> SUFFICES ASSUME run'.phase = "applied", NEW c \in run'.event, <<poll'.user, c>> \in Watches
                 PROVE  <<poll'.user, c>> \in excused'.raced
      BY DEF Late
    <3> QED
      BY <1>2, <1>11 DEF Telling
  <2>5. StockRows'
    <3>1. \A c \in first' : InStock(row'[c])
      BY <1>2, <1>8, <1>9 DEF First
    <3> QED
      BY <1>2, <1>7, <1>10, <3>1 DEF StockRows, Telling
  <2>6. RestockOwed'
    BY <1>2, <1>5 DEF Restocks, Course, RestockOwed, Telling
  <2> QED
    BY <2>2, <2>3, <2>4, <2>5, <2>6 DEF Course
<1>13. ASSUME NEW p \in Watches
       PROVE  heard'[p].restock = IF p[2] \in Stays(page) THEN heard[p].restock ELSE 0
  BY <1>2, WatchesAre, HeardRows
<1>14. ASSUME NEW p \in Watches, p \notin excused'.raced \cup excused'.relisted PROVE Once(p)'
  <2>1. CASE p[2] \in Stays(page)
    <3>1. Once(p)
      BY <1>3, <1>14, <2>1 DEF Restocks, TellsOnce
    <3>2. row[p[2]].qty > 0
      BY <1>8, <2>1 DEF InStock
    <3>3. heard'[p].restock = heard[p].restock
      BY <1>13, <2>1
    <3> QED
      BY <1>2, <1>5, <3>1, <3>2, <3>3 DEF Once
  <2>2. CASE p[2] \notin Stays(page)
    <3>1. heard'[p].restock = 0
      BY <1>13, <2>2
    <3>2. ~Pending(p, "restock")
      BY <1>11, <1>14 DEF Restocks, Course, RestockOwed
    <3> QED
      BY <1>5, <3>1, <3>2 DEF Once
  <2> QED
    BY <2>1, <2>2
<1>15. ASSUME NEW p \in Watches, p \notin excused'.raced \cup excused'.missed, p[2] \in first' PROVE Reached(p)'
  <2>1. p \notin Users \X Event(page)
    BY <1>3, <1>15
  <2>2. p[2] \in first \cap Stays(page)
    BY <1>2, <1>15, <2>1, WatchesAre DEF First
  <2>3. Reached(p)
    BY <1>3, <1>15, <2>2 DEF Restocks, TellsAll
  <2>4. heard'[p].restock = heard[p].restock
    BY <1>13, <2>2
  <2> QED
    BY <1>2, <1>4, <1>5, <2>3, <2>4 DEF Reached
<1> QED
  BY <1>12, <1>14, <1>15 DEF Restocks, TellsOnce, TellsAll

LEMMA NextRestocks ==
  ASSUME Types, News, Restocks, [Next]_vars
  PROVE  Restocks'
<1> USE DEF Types
<1>0. /\ run.phase # "telling" => send["run"] = Quiet /\ \A p : ~Pending(p, "restock")
      /\ poll.phase # "compare" => send["poll"] = Quiet
  BY QuietOwes DEF News, RunAlone, Restocks, Course, PollAlone
<1>1. CASE Enqueue
  <2>1. run.phase = "none" /\ run' = [NoRun EXCEPT !.phase = "fetch"]
        /\ UNCHANGED <<row, poll, send, first, heard, excused>>
    BY <1>1 DEF Enqueue, history
  <2>2. run'.phase = "fetch" /\ run'.waiters = {}
    BY <2>1 DEF NoRun
  <2>3. poll.phase # "wait"
    BY <2>1 DEF Restocks, Course, Joined
  <2> QED
    BY <1>0, <2>1, <2>2, <2>3, RestocksKept DEF Telling
<1>2. CASE RunEnds
  <2>1. /\ run.phase \in {"fetch", "telling"} /\ send["run"] = Quiet
        /\ run' = NoRun /\ poll' = Answered
        /\ UNCHANGED <<row, send, first, heard, excused>>
    BY <1>0, <1>2 DEF RunEnds, history
  <2>2. /\ poll'.ids = poll.ids /\ poll'.old = poll.old /\ poll'.user = poll.user /\ poll'.behind = poll.behind
        /\ poll'.phase = (IF poll.phase = "wait" THEN "compare" ELSE poll.phase)
    <3>1. CASE poll.phase = "wait"
      <4>1. poll \in Polls /\ poll' = [poll EXCEPT !.phase = "compare"]
        BY <2>1, <3>1, PollIsOne DEF Answered
      <4> QED
        BY <3>1, <4>1 DEF Polls
    <3>2. CASE poll.phase # "wait"
      BY <2>1, <3>2 DEF Answered
    <3> QED
      BY <3>1, <3>2
  <2>3. \A p : ~Pending(p, "restock")
    BY <2>1, QuietOwes
  <2>4. run'.waiters = {} /\ ~Telling' /\ run.phase # "applied" /\ poll'.phase # "wait"
    BY <2>1, <2>2 DEF NoRun, Telling
  <2>5. poll'.phase = poll.phase \/ (poll.phase = "wait" /\ poll'.phase = "compare")
    BY <2>2
  <2>6. /\ poll.phase # "compare" => send'["poll"] = Quiet
        /\ \A s \in Senders : send'[s].todo = send[s].todo
    BY <1>0, <2>1
  <2> HIDE DEF Types
  <2> QED
    BY <2>1, <2>2, <2>3, <2>4, <2>5, <2>6, RestocksKept
<1>3. CASE PollEnds
  <2>1. /\ poll.phase = "compare" /\ poll.ids = {} /\ send["poll"] = Quiet /\ poll' = NoPoll
        /\ UNCHANGED <<row, run, send, first, heard, excused>>
    BY <1>3 DEF PollEnds, history
  <2>2. Quiet.todo = {} /\ \A p : ~PollPending(p) /\ ~Awaits(p)
    BY <2>1 DEF Quiet, PollPending, Awaits
  <2> QED
    BY <2>1, <2>2, PollGoneRestocks
<1>4. CASE \E s \in Senders : Deliver(s)
  <2>1. PICK s \in Senders : Deliver(s)
    BY <1>4
  <2>2. CASE Record(s)
    BY <2>2, RecordRestocks
  <2>3. CASE TelegramSent(s) \/ TelegramWritten(s) \/ PushSent(s) \/ PushWritten(s) \/ Rests(s)
    <3>1. PICK r : Advance(s, r) /\ send[s].record.step # "none"
      BY <2>3 DEF TelegramSent, TelegramWritten, PushSent, PushWritten, Rests, AtStep
    <3>2. UNCHANGED <<row, run, poll, first, heard, excused>>
      BY <3>1 DEF Advance, history
    <3>3. \A t \in Senders : send'[t].todo = send[t].todo /\ (t # s => send'[t] = send[t])
      BY <3>1 DEF Advance, SendOK, SendType
    <3>4. s = "poll" => poll.phase = "compare"
      BY <1>0, <3>1 DEF Quiet, NoRecord
    <3>5. poll.phase # "compare" => send'["poll"] = Quiet
      BY <1>0, <3>3, <3>4 DEF Senders
    <3> QED
      BY <3>2, <3>3, <3>5, RestocksKept
  <2> QED
    BY <2>1, <2>2, <2>3 DEF Deliver
<1>5. CASE UNCHANGED vars
  BY <1>0, <1>5, RestocksKept DEF vars, history
<1> QED
  BY <1>1, <1>2, <1>3, <1>4, <1>5, ApplyRestocks, ReadRestocks, PollReadRestocks, PollJoinRestocks,
     CompareRestocks, FaultRestocks, SilentRestocks DEF Next

LEMMA InitRestocks == Init => Restocks
<1> SUFFICES ASSUME Init PROVE Restocks
  OBVIOUS
<1>1. /\ send["run"] = Quiet /\ send["poll"] = Quiet /\ Quiet.todo = {}
      /\ run.phase = "none" /\ run.waiters = {} /\ poll.phase = "idle"
  BY DEF Init, Senders, Quiet, NoRun, NoPoll
<1>2. \A p : ~Pending(p, "restock") /\ ~PollPending(p) /\ ~Awaits(p)
  BY <1>1 DEF Pending, PollPending, Awaits
<1>3. first = {} /\ (\A c \in Configs : row[c].state = "none") /\ \A p \in Watches : heard[p].restock = 0
  BY WatchesAre DEF Init, Nothing
<1>4. Course
  BY <1>1, <1>2, <1>3 DEF Course, PollAlone, Joined, Fresh, Late, StockRows, InStock, Telling, RestockOwed
<1> QED
  BY <1>1, <1>2, <1>3, <1>4 DEF Restocks, TellsOnce, Once, TellsAll

\* No one is told twice of one stay in stock, by the run and by a poll of
\* theirs (ops.rs 2306, poller.rs 993), but where the poll or the topology
\* refresh raced the run and where a row listed anew kept a quantity of zero.
THEOREM ToldOnce == Spec => []NotToldTwice
<1>1. Init => Types /\ News /\ Restocks
  BY InitTypes, InitNews, InitRestocks
<1>2. Types /\ News /\ Restocks /\ [Next]_vars => (Types /\ News /\ Restocks)'
  BY NextTypes, NextNews, NextRestocks
<1>3. Restocks => NotToldTwice
  BY DEF Restocks, TellsOnce, Once, NotToldTwice
<1> QED
  BY <1>1, <1>2, <1>3, PTL DEF Spec

\* Everyone who monitors a config that has its first stock since it was listed
\* has been told of it once the run and a poll of theirs are over (ops.rs 2165,
\* 2306, poller.rs 993), unless the poll raced the apply, the topology refresh
\* wrote the row, or something failed.
THEOREM Reaches == Spec => []RestockReaches
<1>1. Init => Types /\ News /\ Restocks
  BY InitTypes, InitNews, InitRestocks
<1>2. Types /\ News /\ Restocks /\ [Next]_vars => (Types /\ News /\ Restocks)'
  BY NextTypes, NextNews, NextRestocks
<1>3. ASSUME Types, News, Restocks PROVE RestockReaches
  <2> SUFFICES ASSUME NEW p \in Watches \ (excused.raced \cup excused.missed), Settled(p), p[2] \in first
               PROVE  heard[p].restock > 0
    BY DEF RestockReaches
  <2>1. Reached(p)
    BY <1>3 DEF Restocks, TellsAll
  <2>2. ~Pending(p, "restock") /\ run.phase # "applied"
    BY <1>3, QuietOwes DEF Settled, News, RunAlone
  <2>3. ~PollPending(p)
    BY <1>3 DEF Settled, PollPending, Restocks, Course, PollAlone, Quiet
  <2>4. ~Awaits(p)
    BY DEF Settled, Awaits
  <2> QED
    BY <2>1, <2>2, <2>3, <2>4 DEF Reached
<1> QED
  BY <1>1, <1>2, <1>3, PTL DEF Spec

-----------------------------------------------------------------------------
(***************************************************************************)
(* The pages of the records.  PagesFrom is recursive; induction over the   *)
(* rows that are left is done with least elements: the least               *)
(* counterexample has a smaller one.                                       *)
(***************************************************************************)

LEMMA Smallest ==
  ASSUME NEW F, F # {}, \A t \in F : IsFiniteSet(t)
  PROVE  \E t \in F : \A u \in F : u \subseteq t => u = t
<1> DEFINE S == UNION F
<1>0. \A t \in F : t \subseteq S
  OBVIOUS
<1> HIDE DEF S
<1>1. IsWellFoundedOn(StrictSubsetOrdering(S), FiniteSubsetsOf(S))
  BY FS_StrictSubsetOrderingWellFounded
<1>2. F \subseteq FiniteSubsetsOf(S)
  BY <1>0 DEF FiniteSubsetsOf
<1>3. \E t \in F : \A u \in F : <<u, t>> \notin StrictSubsetOrdering(S)
  BY <1>1, <1>2, WFMin
<1> QED
  BY <1>0, <1>3 DEF StrictSubsetOrdering

LEMMA Least ==
  ASSUME NEW T \in SUBSET Nat, T # {}
  PROVE  \E n \in T : \A m \in T : n <= m
<1> DEFINE R == {p \in Nat \X Nat : p[1] < p[2]}
<1>1. IsWellFoundedOn(R, Nat)
  BY NatLessThanWellFounded DEF OpToRel
<1>2. \A n, m \in T : <<m, n>> \in R <=> m < n
  OBVIOUS
<1> HIDE DEF R
<1>3. \E n \in T : \A m \in T : ~(<<m, n>> \in R)
  BY <1>1, WFMin
<1>4. \A n, m \in T : ~(m < n) => n <= m
  OBVIOUS
<1> QED
  BY <1>2, <1>3, <1>4

\* What holds at zero, and of a number if it holds of the one before.
LEMMA Climb ==
  ASSUME NEW S \in SUBSET Nat, 0 \in S, \A n \in S : n + 1 \in S
  PROVE  S = Nat
<1> SUFFICES ASSUME Nat \ S # {} PROVE FALSE
  OBVIOUS
<1>1. PICK n \in Nat \ S : \A m \in Nat \ S : n <= m
  BY Least
<1>2. n # 0 /\ n - 1 \in Nat /\ n - 1 < n /\ (n - 1) + 1 = n
  BY <1>1
<1>3. n - 1 \in S
  BY <1>1, <1>2
<1> QED
  BY <1>1, <1>2, <1>3

-----------------------------------------------------------------------------
(***************************************************************************)
(* The order of the list.                                                  *)
(***************************************************************************)

Spots == Nat \X Nat

\* q comes no later in the list than r.
NotBelow(q, r) == r[1] < q[1] \/ (r[1] = q[1] /\ r[2] <= q[2])

LEMMA Order ==
  /\ \A a, b \in Spots : NotBelow(a, b) <=> ~Below(a, b)
  /\ \A a, b \in Spots : NotBelow(a, b) /\ NotBelow(b, a) <=> a = b
  /\ \A a, b, c \in Spots : NotBelow(a, b) /\ NotBelow(b, c) => NotBelow(a, c)
  /\ \A a, b, c \in Spots : Below(a, b) /\ NotBelow(c, b) => Below(a, c)
<1>1. \A a \in Spots : a[1] \in Nat /\ a[2] \in Nat /\ a = <<a[1], a[2]>>
  BY DEF Spots
<1>2. \A a, b \in Spots : a = b <=> a[1] = b[1] /\ a[2] = b[2]
  BY <1>1
<1> QED
  BY <1>1, <1>2 DEF Below, NotBelow

\* A set of records has a first and a last one.
LEMMA Ends ==
  ASSUME NEW rows \in SUBSET Spots, IsFiniteSet(rows), rows # {}
  PROVE  /\ \E g \in rows : \A q \in rows : NotBelow(g, q)
         /\ \E l \in rows : \A q \in rows : NotBelow(q, l)
<1> DEFINE up(r) == {q \in rows : NotBelow(q, r)}
           down(r) == {q \in rows : NotBelow(r, q)}
<1>1. PICK g \in rows : \A q \in rows : up(q) \subseteq up(g) => up(q) = up(g)
  <2> DEFINE F == {up(r) : r \in rows}
  <2>1. \A r \in rows : IsFiniteSet(up(r))
    <3> TAKE r \in rows
    <3>1. up(r) \in SUBSET rows
      OBVIOUS
    <3> HIDE DEF up
    <3> QED
      BY <3>1, FS_Subset
  <2> HIDE DEF up
  <2>2. F # {} /\ (\A t \in F : IsFiniteSet(t)) /\ (\A t \in F : \E r \in rows : t = up(r))
    BY <2>1
  <2>3. \A r \in rows : up(r) \in F
    OBVIOUS
  <2> HIDE DEF F
  <2>4. PICK t \in F : \A u \in F : u \subseteq t => u = t
    BY <2>2, Smallest
  <2> QED
    BY <2>2, <2>3, <2>4
<1>2. PICK l \in rows : \A q \in rows : down(q) \subseteq down(l) => down(q) = down(l)
  <2> DEFINE F == {down(r) : r \in rows}
  <2>1. \A r \in rows : IsFiniteSet(down(r))
    <3> TAKE r \in rows
    <3>1. down(r) \in SUBSET rows
      OBVIOUS
    <3> HIDE DEF down
    <3> QED
      BY <3>1, FS_Subset
  <2> HIDE DEF down
  <2>2. F # {} /\ (\A t \in F : IsFiniteSet(t)) /\ (\A t \in F : \E r \in rows : t = down(r))
    BY <2>1
  <2>3. \A r \in rows : down(r) \in F
    OBVIOUS
  <2> HIDE DEF F
  <2>4. PICK t \in F : \A u \in F : u \subseteq t => u = t
    BY <2>2, Smallest
  <2> QED
    BY <2>2, <2>3, <2>4
<1>3. ASSUME NEW q \in rows, ~NotBelow(g, q) PROVE FALSE
  <2>1. NotBelow(q, g) /\ q # g
    BY <1>3, Order DEF Below, NotBelow, Spots
  <2>2. up(q) \subseteq up(g)
    BY <2>1, Order
  <2>3. g \in up(g) /\ g \notin up(q)
    BY <1>3, Order
  <2> QED
    BY <1>1, <2>2, <2>3
<1>4. ASSUME NEW q \in rows, ~NotBelow(q, l) PROVE FALSE
  <2>1. NotBelow(l, q) /\ q # l
    BY <1>4, Order DEF Below, NotBelow, Spots
  <2>2. down(q) \subseteq down(l)
    BY <2>1, Order
  <2>3. l \in down(l) /\ l \notin down(q)
    BY <1>4, Order
  <2> QED
    BY <1>2, <2>2, <2>3
<1> QED
  BY <1>3, <1>4
-----------------------------------------------------------------------------
(***************************************************************************)
(* A page.                                                                 *)
(***************************************************************************)

LEMMA Places ==
  ASSUME NEW rows \in SUBSET Spots, IsFiniteSet(rows)
  PROVE  /\ \A r \in rows : Place(r, rows) \in Nat /\ Place(r, rows) <= Cardinality(rows)
         /\ \A r \in rows : Place(r, rows) = Cardinality(rows) <=> \A q \in rows : NotBelow(q, r)
         /\ \A q, r \in rows : NotBelow(q, r) => Place(q, rows) <= Place(r, rows)
         /\ \A r \in rows : (\A q \in rows : NotBelow(r, q)) => Place(r, rows) = 1
<1> DEFINE up(r) == {q \in rows : NotBelow(q, r)}
<1>1. \A r : Place(r, rows) = Cardinality(up(r))
  BY DEF Place, NotBelow
<1>2. \A r : up(r) \in SUBSET rows
  OBVIOUS
<1>3. \A r \in rows : up(r) = rows <=> \A q \in rows : NotBelow(q, r)
  OBVIOUS
<1>4. \A q, r \in rows : NotBelow(q, r) => up(q) \subseteq up(r)
  BY Order
<1>5. \A r \in rows : (\A q \in rows : NotBelow(r, q)) => up(r) = {r}
  BY Order
<1> HIDE DEF up
<1>6. \A r : IsFiniteSet(up(r)) /\ Cardinality(up(r)) <= Cardinality(rows) /\ (Cardinality(rows) = Cardinality(up(r)) => rows = up(r))
  BY <1>2, FS_Subset
<1>7. \A r : Cardinality(up(r)) \in Nat
  BY <1>6, FS_CardinalityType
<1>8. ASSUME NEW q \in rows, NEW r \in rows, NotBelow(q, r) PROVE Place(q, rows) <= Place(r, rows)
  <2>1. up(q) \in SUBSET up(r) /\ IsFiniteSet(up(r))
    BY <1>4, <1>6, <1>8
  <2>2. Cardinality(up(q)) <= Cardinality(up(r))
    BY <2>1, FS_Subset
  <2> QED
    BY <1>1, <2>2
<1>9. ASSUME NEW r \in rows, \A q \in rows : NotBelow(r, q) PROVE Place(r, rows) = 1
  <2>1. up(r) = {r}
    BY <1>5, <1>9
  <2> QED
    BY <1>1, <2>1, FS_Singleton
<1>10. \A r \in rows : Place(r, rows) = Cardinality(rows) <=> \A q \in rows : NotBelow(q, r)
  BY <1>1, <1>3, <1>6
<1> QED
  BY <1>1, <1>6, <1>7, <1>8, <1>9, <1>10

\* A page is the first part of what is below the cursor, and where there is more,
\* it goes on with the last record of the page.
LEMMA Page ==
  ASSUME NEW records \in SUBSET Spots, IsFiniteSet(records), NEW cursor \in Spots, NEW limit \in Nat \ {0}
  PROVE  LET page == Visible(records, cursor, limit)
             next == NextCursor(page)
         IN
         /\ page \subseteq RowsBelow(records, cursor)
         /\ ~HasMore(records, cursor, limit) => page = RowsBelow(records, cursor)
         /\ HasMore(records, cursor, limit) =>
              /\ next \in page /\ \A r \in page : NotBelow(r, next)
              /\ RowsBelow(records, cursor) = page \cup RowsBelow(records, next)
<1> DEFINE rows == RowsBelow(records, cursor)
           page == Visible(records, cursor, limit)
           next == NextCursor(page)
<1>0. rows \in SUBSET records /\ rows \in SUBSET Spots
  BY DEF RowsBelow
<1>1. IsFiniteSet(rows)
  BY <1>0, FS_Subset
<1>2. page = {r \in rows : Place(r, rows) <= limit}
  BY DEF Visible
<1>3. Cardinality(rows) \in Nat
  BY <1>1, FS_CardinalityType
<1>4. HasMore(records, cursor, limit) <=> Cardinality(rows) > limit
  BY DEF HasMore
<1> HIDE DEF rows, page
<1>5. page \in SUBSET rows /\ page \in SUBSET Spots
  BY <1>0, <1>2
<1>6. IsFiniteSet(page)
  BY <1>1, <1>5, FS_Subset
<1>7. \A r \in rows : Place(r, rows) \in Nat /\ Place(r, rows) <= Cardinality(rows)
  BY <1>0, <1>1, Places
<1>8. ASSUME ~HasMore(records, cursor, limit) PROVE page = rows
  BY <1>2, <1>3, <1>4, <1>7, <1>8
<1>9. ASSUME HasMore(records, cursor, limit)
      PROVE  /\ next \in page /\ \A r \in page : NotBelow(r, next)
             /\ rows = page \cup RowsBelow(records, next)
  <2>1. rows # {}
    BY <1>3, <1>4, <1>9, FS_EmptySet
  <2>2. PICK g \in rows : \A q \in rows : NotBelow(g, q)
    BY <1>0, <1>1, <2>1, Ends
  <2>3. Place(g, rows) = 1
    BY <1>0, <1>1, <2>2, Places
  <2>4. g \in page
    BY <1>2, <2>2, <2>3
  <2>5. \A r \in page : Place(r, page) = Cardinality(page) <=> \A q \in page : NotBelow(q, r)
    BY <1>5, <1>6, Places
  <2>6. \E l \in page : \A q \in page : NotBelow(q, l)
    BY <1>5, <1>6, <2>4, Ends
  <2>7. next = CHOOSE r \in page : Place(r, page) = Cardinality(page)
    BY DEF NextCursor
  <2>8. next \in page /\ Place(next, page) = Cardinality(page)
    BY <2>5, <2>6, <2>7
  <2>9. \A r \in page : NotBelow(r, next)
    BY <2>5, <2>8
  <2> HIDE DEF next
  <2>10. ASSUME NEW q \in rows, q \notin page PROVE q \in RowsBelow(records, next)
    <3>1. ~NotBelow(q, next)
      <4>1. NotBelow(q, next) => Place(q, rows) <= Place(next, rows)
        BY <1>0, <1>1, <1>5, <2>8, <2>10, Places
      <4>2. Place(next, rows) <= limit
        BY <1>2, <2>8
      <4>3. ~(Place(q, rows) <= limit)
        BY <1>2, <2>10
      <4>4. Place(next, rows) \in Nat /\ Place(q, rows) \in Nat
        BY <1>5, <1>7, <2>8, <2>10
      <4> QED
        BY <4>1, <4>2, <4>3, <4>4
    <3>2. Below(q, next)
      BY <1>0, <1>5, <2>8, <2>10, <3>1, Order
    <3> QED
      BY <1>0, <2>10, <3>2 DEF RowsBelow
  <2>11. ASSUME NEW q \in RowsBelow(records, next) PROVE q \in rows
    <3>1. q \in records /\ Below(q, next)
      BY <2>11 DEF RowsBelow
    <3>2. next \in records /\ Below(next, cursor)
      BY <1>5, <2>8 DEF rows, RowsBelow
    <3>3. Below(q, cursor)
      <4>1. NotBelow(cursor, next)
        BY <3>2, Order DEF Below, NotBelow, Spots
      <4> QED
        BY <3>1, <3>2, <4>1, Order
    <3> QED
      BY <3>1, <3>3 DEF rows, RowsBelow
  <2> QED
    BY <1>5, <2>8, <2>9, <2>10, <2>11
<1> QED
  BY <1>5, <1>8, <1>9 DEF rows, page
-----------------------------------------------------------------------------
(***************************************************************************)
(* The pages from a cursor on.  Every page but the last leaves fewer rows  *)
(* below its cursor, so the recursion ends.                                *)
(***************************************************************************)

HowMany(records, c) == Cardinality(RowsBelow(records, c))

LEMMA Fewer ==
  ASSUME NEW records \in SUBSET Spots, IsFiniteSet(records), NEW c \in Spots, NEW limit \in Nat \ {0},
         HasMore(records, c, limit)
  PROVE  LET next == NextCursor(Visible(records, c, limit)) IN
         /\ next \in records /\ next \in Spots
         /\ HowMany(records, c) \in Nat /\ HowMany(records, next) \in Nat /\ HowMany(records, next) < HowMany(records, c)
<1> DEFINE next == NextCursor(Visible(records, c, limit))
           rows == RowsBelow(records, c)
           rest == RowsBelow(records, next)
<1>1. next \in rows /\ rest \subseteq rows
  BY Page
<1>2. rows \in SUBSET records /\ next \notin rest
  <2>1. next \in Spots
    BY <1>1 DEF RowsBelow
  <2> QED
    BY <2>1, Order DEF RowsBelow
<1> HIDE DEF next, rows, rest
<1>3. IsFiniteSet(rows)
  BY <1>2, FS_Subset
<1>4. IsFiniteSet(rest) /\ Cardinality(rest) <= Cardinality(rows) /\ Cardinality(rest) # Cardinality(rows)
  BY <1>1, <1>2, <1>3, FS_Subset
<1>5. Cardinality(rows) \in Nat /\ Cardinality(rest) \in Nat
  BY <1>3, <1>4, FS_CardinalityType
<1> QED
  BY <1>1, <1>2, <1>4, <1>5 DEF HowMany, next, rows, rest

\* What PagesFrom asks of a function: at c, and everywhere.
Unfolded(f, records, limit, c) ==
  LET page == Visible(records, c, limit)
  IN  IF HasMore(records, c, limit) THEN <<page>> \o f[NextCursor(page)] ELSE <<page>>

\* There is such a function: one that unfolds rightly where few rows are left
\* gives one that does so where one more is.
LEMMA Unfolds ==
  ASSUME NEW records \in SUBSET Spots, IsFiniteSet(records), NEW limit \in Nat \ {0}
  PROVE  \E f : f = [c \in Spots |-> Unfolded(f, records, limit, c)]
<1> DEFINE Good(n) == \E f : /\ f = [c \in Spots |-> f[c]]
                             /\ \A c \in Spots : HowMany(records, c) < n => f[c] = Unfolded(f, records, limit, c)
           S == {n \in Nat : Good(n)}
<1>0. \A c \in Spots : HowMany(records, c) \in Nat /\ HowMany(records, c) <= Cardinality(records)
  <2> TAKE c \in Spots
  <2>1. RowsBelow(records, c) \in SUBSET records
    BY DEF RowsBelow
  <2>2. IsFiniteSet(RowsBelow(records, c)) /\ Cardinality(RowsBelow(records, c)) <= Cardinality(records)
    BY <2>1, FS_Subset
  <2>3. Cardinality(RowsBelow(records, c)) \in Nat
    BY <2>2, FS_CardinalityType
  <2> QED
    BY <2>2, <2>3 DEF HowMany
<1>1. Good(0)
  <2> DEFINE f == [c \in Spots |-> <<>>]
  <2>1. f = [c \in Spots |-> f[c]] /\ \A c \in Spots : ~(HowMany(records, c) < 0)
    BY <1>0
  <2> HIDE DEF f
  <2> QED
    BY <2>1
<1>2. ASSUME NEW n \in Nat, Good(n) PROVE Good(n + 1)
  <2>1. PICK f : /\ f = [c \in Spots |-> f[c]]
                 /\ \A c \in Spots : HowMany(records, c) < n => f[c] = Unfolded(f, records, limit, c)
    BY <1>2
  <2> DEFINE g == [c \in Spots |-> Unfolded(f, records, limit, c)]
  <2>2. g = [c \in Spots |-> g[c]] /\ \A c \in Spots : g[c] = Unfolded(f, records, limit, c)
    OBVIOUS
  <2> HIDE DEF g
  <2>3. ASSUME NEW c \in Spots, HowMany(records, c) < n + 1 PROVE g[c] = Unfolded(g, records, limit, c)
    <3>1. CASE ~HasMore(records, c, limit)
      BY <2>2, <3>1 DEF Unfolded
    <3>2. CASE HasMore(records, c, limit)
      <4> DEFINE next == NextCursor(Visible(records, c, limit))
      <4>1. next \in Spots /\ HowMany(records, next) < n
        BY <2>3, <3>2, Fewer
      <4>2. g[next] = f[next]
        BY <2>1, <2>2, <4>1
      <4> QED
        BY <2>2, <4>2 DEF Unfolded
    <3> QED
      BY <3>1, <3>2
  <2> QED
    BY <2>2, <2>3
<1>3. S = Nat
  <2>1. 0 \in S /\ \A n \in S : n + 1 \in S
    BY <1>1, <1>2
  <2>2. S \in SUBSET Nat
    OBVIOUS
  <2> HIDE DEF S
  <2> QED
    BY <2>1, <2>2, Climb
<1>4. Cardinality(records) + 1 \in Nat
  BY FS_CardinalityType
<1>5. Good(Cardinality(records) + 1)
  BY <1>3, <1>4
<1>6. PICK f : /\ f = [c \in Spots |-> f[c]]
               /\ \A c \in Spots : HowMany(records, c) < Cardinality(records) + 1 => f[c] = Unfolded(f, records, limit, c)
  BY <1>5
<1>7. \A c \in Spots : f[c] = Unfolded(f, records, limit, c)
  <2>1. \A c \in Spots : HowMany(records, c) < Cardinality(records) + 1
    BY <1>0, FS_CardinalityType
  <2> QED
    BY <1>6, <2>1
<1>8. f = [c \in Spots |-> Unfolded(f, records, limit, c)]
  BY <1>6, <1>7
<1> QED
  BY <1>8

\* So the pages from a cursor are the page there and those from the next cursor.
LEMMA PagesUnfold ==
  ASSUME NEW records \in SUBSET Spots, IsFiniteSet(records), NEW limit \in Nat \ {0}, NEW c \in Spots
  PROVE  LET page == Visible(records, c, limit) IN
         PagesFrom(records, c, limit) =
           IF HasMore(records, c, limit) THEN <<page>> \o PagesFrom(records, NextCursor(page), limit) ELSE <<page>>
<1> DEFINE step(f, d) == LET page == Visible(records, d, limit)
                         IN  IF HasMore(records, d, limit) THEN <<page>> \o f[NextCursor(page)] ELSE <<page>>
           pages == CHOOSE f : f = [d \in Nat \X Nat |-> step(f, d)]
<1>1. \E f : f = [d \in Nat \X Nat |-> step(f, d)]
  BY Unfolds DEF Unfolded, Spots
<1>2. pages = [d \in Nat \X Nat |-> step(pages, d)]
  BY <1>1
<1>3. \A d : PagesFrom(records, d, limit) = pages[d]
  BY DEF PagesFrom
<1> HIDE DEF pages
<1>4. pages[c] = step(pages, c)
  BY <1>2 DEF Spots
<1> DEFINE page == Visible(records, c, limit)
           next == NextCursor(page)
<1>5. pages[c] = IF HasMore(records, c, limit) THEN <<page>> \o pages[next] ELSE <<page>>
  BY <1>4
<1>6. pages[c] = PagesFrom(records, c, limit) /\ pages[next] = PagesFrom(records, next, limit)
  BY <1>3
<1> HIDE DEF page, next
<1>7. PagesFrom(records, c, limit) = IF HasMore(records, c, limit) THEN <<page>> \o PagesFrom(records, next, limit) ELSE <<page>>
  BY <1>5, <1>6
<1> QED
  BY <1>7 DEF page, next

-----------------------------------------------------------------------------
(***************************************************************************)
(* What the pages show.                                                    *)
(***************************************************************************)

\* Pages that show these rows and no other, in order.
Shows(pages, rows) ==
  /\ pages \in Seq(SUBSET Spots)
  /\ \A r \in Spots : r \in rows <=> \E i \in 1 .. Len(pages) : r \in pages[i]
  /\ \A i, j \in 1 .. Len(pages) : i < j => \A r \in pages[i], q \in pages[j] : Below(q, r)

LEMMA ShowsOne ==
  ASSUME NEW page \in SUBSET Spots
  PROVE  Shows(<<page>>, page)
<1>1. <<page>> \in Seq(SUBSET Spots) /\ Len(<<page>>) = 1 /\ <<page>>[1] = page
  OBVIOUS
<1> QED
  BY <1>1 DEF Shows

LEMMA ShowsMore ==
  ASSUME NEW page \in SUBSET Spots, NEW rows \in SUBSET Spots, NEW rest, Shows(rest, rows),
         \A r \in page, q \in rows : Below(q, r)
  PROVE  Shows(<<page>> \o rest, page \cup rows)
<1> DEFINE all == <<page>> \o rest
<1>1. rest \in Seq(SUBSET Spots) /\ <<page>> \in Seq(SUBSET Spots)
  BY DEF Shows
<1>2. /\ all \in Seq(SUBSET Spots) /\ Len(rest) \in Nat /\ Len(all) = 1 + Len(rest) /\ all[1] = page
      /\ \A i \in 1 .. Len(rest) : all[1 + i] = rest[i]
  BY <1>1
<1> HIDE DEF all
<1>3. \A i \in 1 .. Len(all) : i = 1 \/ (i - 1 \in 1 .. Len(rest) /\ all[i] = rest[i - 1])
  BY <1>2
<1>4. \A i \in 1 .. Len(rest) : 1 + i \in 1 .. Len(all)
  BY <1>2
<1>5. 1 \in 1 .. Len(all)
  BY <1>2
<1>6. ASSUME NEW r \in Spots PROVE r \in page \cup rows <=> \E i \in 1 .. Len(all) : r \in all[i]
  BY <1>2, <1>3, <1>4, <1>5 DEF Shows
<1>7. ASSUME NEW i \in 1 .. Len(all), NEW j \in 1 .. Len(all), i < j, NEW r \in all[i], NEW q \in all[j]
      PROVE  Below(q, r)
  <2>1. j - 1 \in 1 .. Len(rest) /\ q \in rest[j - 1]
    BY <1>2, <1>3, <1>7
  <2>2. CASE i = 1
    <3>1. r \in page
      BY <1>2, <1>7, <2>2
    <3>2. q \in Spots /\ q \in rows
      BY <1>1, <2>1 DEF Shows
    <3> QED
      BY <3>1, <3>2
  <2>3. CASE i # 1
    <3>1. i - 1 \in 1 .. Len(rest) /\ r \in rest[i - 1] /\ i - 1 < j - 1
      BY <1>2, <1>3, <1>7, <2>3
    <3> QED
      BY <2>1, <3>1 DEF Shows
  <2> QED
    BY <2>2, <2>3
<1> QED
  BY <1>2, <1>6, <1>7 DEF Shows, all

\* The pages from a cursor show what is below it.
LEMMA PagesShow ==
  ASSUME NEW records \in SUBSET Spots, IsFiniteSet(records), NEW limit \in Nat \ {0}
  PROVE  \A c \in Spots : Shows(PagesFrom(records, c, limit), RowsBelow(records, c))
<1> DEFINE Wrong == {n \in Nat : \E c \in Spots : HowMany(records, c) = n /\ ~Shows(PagesFrom(records, c, limit), RowsBelow(records, c))}
<1>1. \A c \in Spots : HowMany(records, c) \in Nat
  <2> TAKE c \in Spots
  <2>1. RowsBelow(records, c) \in SUBSET records
    BY DEF RowsBelow
  <2>2. IsFiniteSet(RowsBelow(records, c))
    BY <2>1, FS_Subset
  <2> QED
    BY <2>2, FS_CardinalityType DEF HowMany
<1> SUFFICES ASSUME Wrong # {} PROVE FALSE
  BY <1>1
<1>2. PICK n \in Wrong : \A m \in Wrong : n <= m
  <2>1. Wrong \in SUBSET Nat
    OBVIOUS
  <2> HIDE DEF Wrong
  <2> QED
    BY <2>1, Least
<1>3. PICK c \in Spots : HowMany(records, c) = n /\ ~Shows(PagesFrom(records, c, limit), RowsBelow(records, c))
  OBVIOUS
<1> DEFINE page == Visible(records, c, limit)
           next == NextCursor(page)
<1>4. page \in SUBSET Spots /\ RowsBelow(records, c) \in SUBSET Spots
  BY Page DEF RowsBelow
<1>5. CASE ~HasMore(records, c, limit)
  <2>1. PagesFrom(records, c, limit) = <<page>> /\ RowsBelow(records, c) = page
    BY <1>5, Page, PagesUnfold
  <2> QED
    BY <1>3, <1>4, <2>1, ShowsOne
<1>6. CASE HasMore(records, c, limit)
  <2>1. /\ next \in Spots /\ HowMany(records, next) \in Nat /\ HowMany(records, next) < n
    BY <1>3, <1>6, Fewer
  <2>2. Shows(PagesFrom(records, next, limit), RowsBelow(records, next))
    <3>1. HowMany(records, next) \notin Wrong
      BY <1>2, <2>1
    <3> QED
      BY <2>1, <3>1
  <2>3. \A r \in page : NotBelow(r, next)
    BY <1>6, Page
  <2>4. RowsBelow(records, c) = page \cup RowsBelow(records, next)
    BY <1>6, Page
  <2>5. PagesFrom(records, c, limit) = <<page>> \o PagesFrom(records, next, limit)
    BY <1>6, PagesUnfold
  <2> HIDE DEF page, next
  <2>6. \A r \in page, q \in RowsBelow(records, next) : Below(q, r)
    BY <1>4, <2>1, <2>3, Order DEF RowsBelow
  <2>7. RowsBelow(records, next) \in SUBSET Spots
    BY DEF RowsBelow
  <2> QED
    BY <1>3, <1>4, <2>2, <2>4, <2>5, <2>6, <2>7, ShowsMore
<1> QED
  BY <1>5, <1>6
-----------------------------------------------------------------------------
(***************************************************************************)
(* A reader who takes the first page before the records change.            *)
(***************************************************************************)

LEMMA FeedFinite == Feed \in SUBSET Spots /\ \A records \in SUBSET Feed : IsFiniteSet(records)
<1>1. Times \subseteq Nat /\ IsFiniteSet(Times) /\ Ids \subseteq Nat /\ IsFiniteSet(Ids)
  BY FeedAssumption
<1>2. IsFiniteSet(Feed)
  BY <1>1, FS_Product DEF Feed
<1>3. \A records \in SUBSET Feed : IsFiniteSet(records)
  BY <1>2, FS_Subset
<1> QED
  BY <1>1, <1>3 DEF Feed, Spots

\* A list without a cursor starts above every record.
LEMMA AtTop ==
  ASSUME Times # {}
  PROVE  Top \in Spots /\ \A records \in SUBSET Feed : RowsBelow(records, Top) = records
<1> DEFINE later(t) == {u \in Times : t <= u}
           F == {later(t) : t \in Times}
<1>1. Times \subseteq Nat /\ IsFiniteSet(Times) /\ Ids \subseteq Nat
  BY FeedAssumption
<1>2. \A t \in Times : IsFiniteSet(later(t))
  <2> TAKE t \in Times
  <2>1. later(t) \in SUBSET Times
    OBVIOUS
  <2> HIDE DEF later
  <2> QED
    BY <1>1, <2>1, FS_Subset
<1>3. ASSUME NEW t \in Times, NEW u \in Times, u < t
      PROVE  u \in later(u) /\ u \notin later(t) /\ later(t) \subseteq later(u)
  <2>1. t \in Nat /\ u \in Nat
    BY <1>1
  <2>2. \A x \in Times : x \in Nat /\ (t <= x => u <= x)
    BY <1>1, <1>3, <2>1
  <2>3. u <= u /\ ~(t <= u)
    BY <1>3, <2>1
  <2> QED
    BY <2>2, <2>3
<1>4. PICK last \in Times : \A u \in Times : later(u) \subseteq later(last) => later(u) = later(last)
  <2> HIDE DEF later
  <2>1. F # {} /\ (\A s \in F : IsFiniteSet(s)) /\ (\A s \in F : \E t \in Times : s = later(t)) /\ (\A t \in Times : later(t) \in F)
    BY <1>2
  <2> HIDE DEF F
  <2>2. PICK s \in F : \A r \in F : r \subseteq s => r = s
    BY <2>1, Smallest
  <2> QED
    BY <2>1, <2>2
<1> HIDE DEF later, F
<1>5. \A u \in Times : ~(last < u)
  BY <1>3, <1>4
<1>6. \A u \in Times : u <= last
  BY <1>1, <1>5
<1> DEFINE m == CHOOSE t \in Times : \A u \in Times : u <= t
<1>7. m \in Times /\ \A u \in Times : u <= m
  BY <1>6
<1>8. Top = <<1 + m, 0>>
  BY DEF Top
<1> HIDE DEF m
<1>9. m \in Nat /\ Top \in Spots /\ Top[1] = 1 + m
  BY <1>1, <1>7, <1>8 DEF Spots
<1>10. ASSUME NEW r \in Feed PROVE Below(r, Top)
  <2>1. r[1] \in Times
    BY <1>10 DEF Feed
  <2>2. r[1] \in Nat /\ r[1] <= m
    BY <1>1, <1>7, <2>1
  <2> QED
    BY <1>9, <2>2 DEF Below
<1> QED
  BY <1>9, <1>10 DEF RowsBelow

\* The pages read show, in order, what is below the first cursor when they are
\* read: of what was there all the time they miss nothing.
LEMMA ReadsAll ==
  ASSUME NEW before \in SUBSET Feed, NEW after \in SUBSET Feed, NEW limit \in Nat \ {0}, Times # {}
  PROVE  LET pages == PagesRead(before, after, limit) IN
         /\ pages \in Seq(SUBSET Spots)
         /\ \A r \in before \cap after : \E i \in 1 .. Len(pages) : r \in pages[i]
         /\ \A i, j \in 1 .. Len(pages) : i < j => \A r \in pages[i], q \in pages[j] : Below(q, r)
<1> DEFINE page == Visible(before, Top, limit)
           next == NextCursor(page)
           pages == PagesRead(before, after, limit)
           rest == PagesFrom(after, next, limit)
<1>0. /\ before \in SUBSET Spots /\ IsFiniteSet(before) /\ after \in SUBSET Spots /\ IsFiniteSet(after)
      /\ Top \in Spots /\ RowsBelow(before, Top) = before
  BY FeedFinite, AtTop
<1>1. /\ page \subseteq before
      /\ ~HasMore(before, Top, limit) => page = before
      /\ HasMore(before, Top, limit) => /\ next \in page /\ \A r \in page : NotBelow(r, next)
                                        /\ before = page \cup RowsBelow(before, next)
  BY <1>0, Page
<1>2. pages = IF HasMore(before, Top, limit) THEN <<page>> \o rest ELSE <<page>>
  BY DEF PagesRead
<1>3. page \in SUBSET Spots
  BY <1>0, <1>1
<1>4. CASE ~HasMore(before, Top, limit)
  <2>1. pages = <<page>> /\ page = before
    BY <1>1, <1>2, <1>4
  <2> HIDE DEF pages, page
  <2>2. Shows(pages, before)
    BY <1>3, <2>1, ShowsOne
  <2> QED
    BY <1>0, <2>2 DEF Shows, pages
<1>5. CASE HasMore(before, Top, limit)
  <2>1. pages = <<page>> \o rest
    BY <1>2, <1>5
  <2>2. next \in Spots
    BY <1>1, <1>3, <1>5
  <2>3. Shows(rest, RowsBelow(after, next))
    BY <1>0, <2>2, PagesShow
  <2>4. \A r \in page, q \in RowsBelow(after, next) : Below(q, r)
    <3> SUFFICES ASSUME NEW r \in page, NEW q \in RowsBelow(after, next) PROVE Below(q, r)
      OBVIOUS
    <3>1. NotBelow(r, next) /\ r \in Spots /\ q \in Spots /\ Below(q, next)
      BY <1>0, <1>1, <1>3, <1>5 DEF RowsBelow
    <3> QED
      BY <2>2, <3>1, Order
  <2>5. RowsBelow(after, next) \in SUBSET Spots
    BY <1>0 DEF RowsBelow
  <2>6. \A r \in before \cap after : r \in page \cup RowsBelow(after, next)
    BY <1>1, <1>5 DEF RowsBelow
  <2> HIDE DEF pages, page, next, rest
  <2>7. Shows(pages, page \cup RowsBelow(after, next))
    BY <1>3, <2>1, <2>3, <2>4, <2>5, ShowsMore
  <2> QED
    BY <1>0, <2>6, <2>7 DEF Shows, pages
<1> QED
  BY <1>4, <1>5

\* No reading misses a record, shows one twice or out of order.
LEMMA NothingMisread == Misread = {}
<1> SUFFICES ASSUME NEW c \in [before : SUBSET Feed, new : SUBSET Feed, cutoff : Times, max : MaxRows, limit : PageSizes]
             PROVE  LET after == Cleaned(c.before \cup c.new, c.cutoff, c.max)
                        pages == PagesRead(c.before, after, c.limit)
                    IN  /\ c.before \cap after \subseteq UNION {pages[i] : i \in DOMAIN pages}
                        /\ \A i, j \in DOMAIN pages : i < j =>
                             \A r \in pages[i], q \in pages[j] : q[1] < r[1] \/ (q[1] = r[1] /\ q[2] < r[2])
  BY DEF Misread
<1> DEFINE after == Cleaned(c.before \cup c.new, c.cutoff, c.max)
           pages == PagesRead(c.before, after, c.limit)
<1>1. after \in SUBSET Feed
  BY DEF Cleaned
<1>2. c.before \in SUBSET Feed /\ Times # {} /\ c.limit \in Nat \ {0}
  <2>1. c.before \in SUBSET Feed /\ c.cutoff \in Times /\ c.limit \in PageSizes
    OBVIOUS
  <2>2. PageSizes \subseteq Nat \ {0}
    BY FeedAssumption
  <2> QED
    BY <2>1, <2>2
<1> HIDE DEF after
<1>3. /\ pages \in Seq(SUBSET Spots)
      /\ \A r \in c.before \cap after : \E i \in 1 .. Len(pages) : r \in pages[i]
      /\ \A i, j \in 1 .. Len(pages) : i < j => \A r \in pages[i], q \in pages[j] : Below(q, r)
  BY <1>1, <1>2, ReadsAll
<1> HIDE DEF pages
<1>4. DOMAIN pages = 1 .. Len(pages)
  BY <1>3
<1>5. c.before \cap after \subseteq UNION {pages[i] : i \in DOMAIN pages}
  BY <1>3, <1>4
<1>6. \A i, j \in DOMAIN pages : i < j =>
        \A r \in pages[i], q \in pages[j] : q[1] < r[1] \/ (q[1] = r[1] /\ q[2] < r[2])
  BY <1>3, <1>4 DEF Below
<1> QED
  BY <1>5, <1>6 DEF pages, after

\* Whoever pages through the records sees each record that is there from the
\* first page to the last, once and in order, for every finite set of times and
\* ids, every size of a page, and whatever arrives or is cleaned up after the
\* first page (list_notification_records, cleanup_notification_records).
THEOREM FeedReadWhole == Misread = {} /\ (Spec => []FeedIsWhole)
<1>1. Misread = {} /\ FeedIsWhole
  BY NothingMisread DEF FeedIsWhole
<1> QED
  BY <1>1, PTL
=============================================================================
