---------------------------- MODULE RestockNotify ----------------------------
(***************************************************************************)
(* Who is told that a config of a page is in stock, new or gone            *)
(* (src/src/ops.rs, src/src/poller.rs, src/src/notification_content.rs).   *)
(*                                                                         *)
(* Two parties tell.  A run of the page's task applies the page and tells  *)
(* of listings and removals, and of the first stock to those who monitor   *)
(* the config.  The poller reads the monitored rows, joins the task, waits *)
(* for its end, reads the rows again and tells its user of the difference. *)
(* The run leaves out the users the poller waits for, unless their poll    *)
(* cannot see the difference.  Each message is a record, a Telegram        *)
(* message per chat and a Web Push, in steps any of which may be the last. *)
(* The topology refresh changes the rows as well, and tells nobody of the  *)
(* configs: it retires the page or reads a page that is new itself.        *)
(***************************************************************************)
EXTENDS FiniteSets, Naturals

CONSTANTS
  Configs,    \* the configs the page may list
  Users,
  Watches,    \* <<user, config>> of enabled monitoring_configs
  Followers,  \* users with the change alerts of this page's partition on
  Telegram,   \* users with Telegram on
  Chats,      \* the Telegram targets of a user
  WebPush,    \* users with Web Push on
  Subscribed, \* users with a Web Push subscription
  MaxFaults   \* bound on refused statements, restarts and writes of the refresh

ASSUME NotifyAssumption ==
  /\ Watches \subseteq Users \X Configs
  /\ Followers \subseteq Users /\ Telegram \subseteq Users
  /\ WebPush \subseteq Users /\ Subscribed \subseteq Users
  /\ DOMAIN Chats = Users /\ \A u \in Users : IsFiniteSet(Chats[u])
  /\ MaxFaults \in Nat

VARIABLES
  row,    \* catalog_configs
  run,    \* the task of the page, from enqueue to its end
  poll,   \* the poll under way: the poller serves one user at a time
  send,   \* what each of the two has yet to tell, and the record it is at
  faults, \* refused statements, restarts and writes of the refresh so far
  first,  \* history: configs in stock for the first time since listed
  heard,  \* history: what a user was told of a config
  excused \* history: pairs whose news a race or a fault may double or lose

history == <<first, heard, excused>>
vars == <<row, run, poll, send, faults, history>>

-----------------------------------------------------------------------------
Senders == {"run", "poll"}

Statuses == {"pending", "skipped", "success", "partial_success", "error"}

Kinds == {"restock", "added", "removed"}

\* Stock is a quantity of zero or more than zero; marked: listed_event_at.
Rows == [state : {"none", "active", "delisted"}, qty : 0..1, marked : BOOLEAN]

Messages == [user : Users, config : Configs, kind : Kinds]

\* A notification record and how far its delivery is.
Records == [user : Users, tg : Statuses, wp : Statuses, got : Statuses,
            step : {"telegram", "written", "push", "pushed", "done"}]

NoRecord == [step |-> "none"]

NoRun == [phase |-> "none", waiters |-> {}, event |-> {}, listed |-> {}, gone |-> {}, empty |-> {}]

NoPoll == [phase |-> "idle", ids |-> {}]

\* A poll: the configs it is yet to compare, the quantities it read, and how
\* many pages were applied since (two at most are told apart).
Polls == [phase : {"read", "wait", "compare"}, user : Users, ids : SUBSET Configs,
          old : UNION {[read -> 0..1] : read \in SUBSET Configs}, behind : 0..2]

Quiet == [todo |-> {}, record |-> NoRecord]

Nothing == [restock |-> 0, added |-> 0, news |-> "none"]

NoExcuse == [raced |-> {}, relisted |-> {}, missed |-> {}, cut |-> {}, silent |-> {}]

Init ==
  /\ row = [c \in Configs |-> [state |-> "none", qty |-> 0, marked |-> FALSE]]
  /\ run = NoRun
  /\ poll = NoPoll
  /\ send = [s \in Senders |-> Quiet]
  /\ faults = 0
  /\ first = {}
  /\ heard = [p \in Users \X Configs |-> Nothing]
  /\ excused = NoExcuse

-----------------------------------------------------------------------------
(* The run. *)

\* enqueue by anyone but the poller: every reason emits.
Enqueue ==
  /\ run.phase = "none"
  /\ run' = [NoRun EXCEPT !.phase = "fetch"]
  /\ UNCHANGED <<row, poll, send, faults, history>>

\* The page lists nothing, some or all of the configs, with or without stock.
Pages == UNION {[shown -> 0..1] : shown \in SUBSET Configs}

Prev == {c \in Configs : row[c].state = "active"}

\* Mutant: in stock again counts as a listing.
EventAnew(page) == {c \in DOMAIN page : page[c] > 0 /\ (c \in Prev => row[c].qty = 0)}

\* In stock for the first time since it was listed.
Event(page) ==
  {c \in DOMAIN page : page[c] > 0 /\ (c \in Prev => ~row[c].marked)}

\* apply_catalog_url_fetch_success: rows of the page, rows it dropped.
Applied(page) ==
  [c \in Configs |->
     CASE c \in DOMAIN page ->
            [state |-> "active", qty |-> page[c],
             marked |-> page[c] > 0 \/ (c \in Prev /\ row[c].marked)]
       [] c \in Prev \ DOMAIN page -> [row[c] EXCEPT !.state = "delisted", !.marked = FALSE]
       [] OTHER -> row[c]]

InStock(r) == r.state = "active" /\ r.qty > 0

Stays(page) == {c \in Configs : InStock(row[c]) /\ InStock(Applied(page)[c])}

\* History: what was told counts per stay in stock, and per listing.
Heard(page) ==
  [p \in Users \X Configs |->
     LET c == p[2]
         h == heard[p]
         r == IF c \in Stays(page) THEN h ELSE [h EXCEPT !.restock = 0]
     IN IF c \in Prev \cap DOMAIN page THEN r ELSE [r EXCEPT !.added = 0]]

First(page) == Event(page) \cup (first \cap Stays(page))

Forgiven(page) ==
  LET still(pairs) == {p \in pairs : p[2] \in Stays(page)} IN
  [raced |-> still(excused.raced), relisted |-> still(excused.relisted), missed |-> still(excused.missed),
   cut |-> {p \in excused.cut : p[2] \in Prev <=> p[2] \in DOMAIN page},
   silent |-> {p \in excused.silent : p[2] \in Prev <=> p[2] \in DOMAIN page}]

\* A poll that has read counts the pages since.
Behind == IF poll.phase = "idle" THEN poll ELSE [poll EXCEPT !.behind = IF @ < 2 THEN @ + 1 ELSE 2]

RunApplies ==
  \E page \in Pages :
    /\ run.phase = "fetch"
    /\ row' = Applied(page)
    /\ run' = [run EXCEPT !.phase = "applied", !.event = Event(page),
                          !.listed = DOMAIN page \ Prev, !.gone = Prev \ DOMAIN page]
    /\ poll' = Behind
    /\ first' = First(page)
    /\ heard' = Heard(page)
    /\ excused' = Forgiven(page)
    /\ UNCHANGED <<send, faults>>

\* Mutant: waiters never get the fallback, as if their poll always saw the difference.
FallbackForOthers(waiters) ==
  {[user |-> p[1], config |-> p[2], kind |-> "restock"] :
     p \in {w \in Watches : w[2] \in run.event /\ w[1] \notin waiters}}

\* Mutant: everyone who monitors the config gets the fallback.
FallbackForAll(waiters) ==
  {[user |-> p[1], config |-> p[2], kind |-> "restock"] : p \in {w \in Watches : w[2] \in run.event}}

\* deliver_monitored_restock_fallbacks: a waiter's own poll will tell, unless
\* the config is newly on the page.
Fallback(waiters) ==
  {[user |-> p[1], config |-> p[2], kind |-> "restock"] :
     p \in {w \in Watches : w[2] \in run.event /\ (w[1] \in waiters => w[2] \in run.listed)}}

\* notify_lifecycle_events for the followers of the partition.
Changes ==
  {[user |-> p[1], config |-> p[2], kind |-> "added"] :
     p \in {w \in Followers \X run.event : w \notin Watches}}
  \cup {[user |-> p[1], config |-> p[2], kind |-> "removed"] : p \in Followers \X run.gone}

\* History: the poll of a user and the run agree on who tells if the poll that
\* joined in time read what this apply replaced, and one that did not read later.
\* (Record adds the poll of an earlier run that tells before this run chooses.)
Raced ==
  {p \in Watches : /\ p[2] \in run.event
                   /\ poll.phase # "idle" /\ p[1] = poll.user
                   /\ poll.behind # IF p[1] \in run.waiters THEN 1 ELSE 0}

\* The poll tells too when the row kept a quantity of zero from before.
Relisted ==
  {p \in Watches : /\ p[1] \in run.waiters /\ p[2] \in run.listed \cap run.event
                   /\ p[2] \in poll.ids /\ poll.old[p[2]] = 0}

\* current_lifecycle_notify_state: the waiters as of after the apply; and the
\* rows the messages are made of, as they are now (load_notification_record_item_map).
RunReadsWaiters ==
  /\ run.phase = "applied"
  /\ run' = [run EXCEPT !.phase = "telling", !.empty = {c \in run.event : row[c].qty = 0}]
  /\ send' = [send EXCEPT !["run"].todo = Fallback(run.waiters) \cup Changes]
  /\ excused' = [excused EXCEPT !.raced = @ \cup Raced, !.relisted = @ \cup Relisted]
  /\ UNCHANGED <<row, poll, faults, first, heard>>

Answered == IF poll.phase = "wait" THEN [poll EXCEPT !.phase = "compare"] ELSE poll

\* The task ends: its entry is removed and who waits is answered.  A run that
\* found the page fresh, or failed, has applied and tells nothing.
RunEnds ==
  /\ \/ run.phase = "fetch"
     \/ run.phase = "telling" /\ send["run"] = Quiet
  /\ run' = NoRun
  /\ poll' = Answered
  /\ UNCHANGED <<row, send, faults, history>>

-----------------------------------------------------------------------------
(* The topology refresh, on rows of the page. *)

\* History: what the refresh does to a config without telling of it, and what a
\* run has yet to tell when the refresh overtakes it.
Untold(page) == (Prev \ DOMAIN page) \cup Event(page)

Overtaken == IF run.phase \in {"applied", "telling"} THEN Users \X run.event ELSE {}

Silenced(page) ==
  [raced |-> Forgiven(page).raced \cup Overtaken, relisted |-> Forgiven(page).relisted,
   missed |-> Forgiven(page).missed \cup (Users \X Event(page)), cut |-> excused.cut,
   silent |-> excused.silent \cup (Users \X Untold(page))]

\* What both writers leave besides the rows.
TellsNobody(page) ==
  /\ poll' = Behind
  /\ first' = First(page)
  /\ heard' = Heard(page)
  /\ excused' = Silenced(page)
  /\ faults < MaxFaults /\ faults' = faults + 1
  /\ UNCHANGED <<run, send>>

\* prefetch_added_target_catalogs: the page is applied outside any run.
PrefetchApplies ==
  \E page \in Pages :
    /\ row' = Applied(page)
    /\ TellsNobody(page)

NoPage == [c \in {} |-> 0]

\* retire_catalog_targets: every row of the page is delisted and keeps its mark.
Retires ==
  /\ Prev # {}
  /\ row' = [c \in Configs |-> IF c \in Prev THEN [row[c] EXCEPT !.state = "delisted"] ELSE row[c]]
  /\ TellsNobody(NoPage)

-----------------------------------------------------------------------------
(* poll_once, for one page. *)

Monitored(u) == {c \in Configs : <<u, c>> \in Watches /\ row[c].state # "none"}

PollReads(u) ==
  /\ poll.phase = "idle"
  /\ Monitored(u) # {}
  /\ poll' = [phase |-> "read", user |-> u, ids |-> Monitored(u),
              old |-> [c \in Monitored(u) |-> row[c].qty], behind |-> 0]
  /\ UNCHANGED <<row, run, send, faults, history>>

\* enqueue_and_wait_for_poller: a new task, or the one that is there.
PollJoins ==
  /\ poll.phase = "read"
  /\ poll' = [poll EXCEPT !.phase = "wait"]
  /\ run' = [run EXCEPT !.phase = IF @ = "none" THEN "fetch" ELSE @,
                        !.waiters = @ \cup {poll.user}]
  /\ UNCHANGED <<row, send, faults, history>>

\* build_monitoring_change_notification, for the stock.
Restocked(c) == poll.old[c] = 0 /\ row[c].qty > 0

PollCompares ==
  /\ poll.phase = "compare"
  /\ send["poll"] = Quiet
  /\ \E c \in poll.ids :
       /\ poll' = [poll EXCEPT !.ids = @ \ {c}]
       /\ send' = [send EXCEPT !["poll"].todo =
            IF Restocked(c) THEN {[user |-> poll.user, config |-> c, kind |-> "restock"]} ELSE {}]
  /\ UNCHANGED <<row, run, faults, history>>

PollEnds ==
  /\ poll.phase = "compare" /\ poll.ids = {}
  /\ send["poll"] = Quiet
  /\ poll' = NoPoll
  /\ UNCHANGED <<row, run, send, faults, history>>

-----------------------------------------------------------------------------
(* One message. *)

Rank == [restock |-> 1, added |-> 2, removed |-> 3]

\* Followers come first, and for a user restocks before listings before removals.
Before(m, n) ==
  \/ m.user \in Followers /\ n.user \notin Followers
  \/ m.user = n.user /\ Rank[m.kind] < Rank[n.kind]

\* A user's messages are not interleaved with another's.
Turn(s, m) ==
  /\ \A n \in send[s].todo : ~Before(n, m)
  /\ LET r == send[s].record IN
     r.step # "none" /\ m.user # r.user => \A n \in send[s].todo : n.user # r.user

Told(h, kind) ==
  CASE kind = "restock" -> [h EXCEPT !.restock = IF @ < 2 THEN @ + 1 ELSE 2]
    [] kind = "added" -> [h EXCEPT !.added = IF @ < 2 THEN @ + 1 ELSE 2, !.news = kind]
    [] kind = "removed" -> [h EXCEPT !.news = kind]

\* The poller writes "skipped" for Web Push: it sends none.
Opened(s, u) ==
  [user |-> u, got |-> "pending", step |-> "telegram",
   tg |-> IF u \in Telegram THEN "pending" ELSE "skipped",
   wp |-> IF u \in WebPush /\ s = "run" THEN "pending" ELSE "skipped"]

\* A restock the run would tell of a row that is empty: there is no such message.
Unmade(s, m) == s = "run" /\ m.kind = "restock" /\ m.config \in run.empty

\* insert_notification_record.
Record(s) ==
  /\ send[s].record.step \in {"none", "done"}
  /\ \E m \in send[s].todo :
       /\ Turn(s, m) /\ ~Unmade(s, m)
       /\ send' = [send EXCEPT ![s] = [todo |-> @.todo \ {m}, record |-> Opened(s, m.user)]]
       /\ heard' = [heard EXCEPT ![<<m.user, m.config>>] = Told(@, m.kind)]
       /\ excused' = [excused EXCEPT !.raced =
            IF s = "poll" /\ run.phase = "applied" THEN @ \cup {<<m.user, m.config>>} ELSE @]
  /\ UNCHANGED <<row, run, poll, faults, first>>

AtStep(s, step) == send[s].record.step = step

Advance(s, r) ==
  /\ send' = [send EXCEPT ![s].record = r]
  /\ UNCHANGED <<row, run, poll, faults, history>>

\* aggregate_telegram_status, of what was attempted.
Aggregate(results) ==
  IF results = {"success"} THEN "success"
  ELSE IF results = {"error"} THEN "error" ELSE "partial_success"

\* Mutant: a user without a Telegram target has nothing to aggregate.
OutcomesOfNone(u) ==
  IF Chats[u] = {} THEN {"none"}
  ELSE {Aggregate({got[t] : t \in Chats[u]}) : got \in [Chats[u] -> {"success", "error"}]}

\* send_telegram_to_targets; without a target the status is an error.
Outcomes(u) ==
  IF Chats[u] = {} THEN {"error"}
  ELSE {Aggregate({got[t] : t \in Chats[u]}) : got \in [Chats[u] -> {"success", "error"}]}

TelegramSent(s) ==
  LET r == send[s].record IN
  /\ AtStep(s, "telegram")
  /\ IF r.tg = "skipped" THEN Advance(s, [r EXCEPT !.step = "push"])
     ELSE \E o \in Outcomes(r.user) : Advance(s, [r EXCEPT !.got = o, !.step = "written"])

\* The deliveries are replaced and the status is updated.
TelegramWritten(s) ==
  LET r == send[s].record IN
  /\ AtStep(s, "written")
  /\ Advance(s, [r EXCEPT !.tg = r.got, !.got = "pending", !.step = "push"])

\* Mutant: web Push without a subscription leaves the status as it is.
PushOutcomesKept(u) == IF u \in Subscribed THEN {"success", "error"} ELSE {"pending"}

\* The latest subscription, and what its push service answers; an error also
\* when the subscription cannot be read.
PushOutcomes(u) == IF u \in Subscribed THEN {"success", "error"} ELSE {"skipped", "error"}

PushSent(s) ==
  LET r == send[s].record IN
  /\ AtStep(s, "push")
  /\ IF r.wp = "skipped" THEN Advance(s, [r EXCEPT !.step = "done"])
     ELSE \E o \in PushOutcomes(r.user) : Advance(s, [r EXCEPT !.got = o, !.step = "pushed"])

PushWritten(s) ==
  LET r == send[s].record IN
  /\ AtStep(s, "pushed")
  /\ Advance(s, [r EXCEPT !.wp = r.got, !.got = "pending", !.step = "done"])

\* The last record is behind: nothing is left to tell.
Rests(s) ==
  /\ AtStep(s, "done") /\ send[s].todo = {}
  /\ Advance(s, NoRecord)

-----------------------------------------------------------------------------
(* Faults. *)

\* History: pairs whose news is lost with the run, and with the poll.
RunLost == IF run.phase \in {"applied", "telling"} THEN Users \X (run.event \cup run.gone) ELSE {}
PollLost == IF poll.phase \in {"wait", "compare"} THEN {poll.user} \X Configs ELSE {}

Lost(told, polled) ==
  /\ excused' = [excused EXCEPT !.cut = @ \cup told, !.missed = @ \cup told \cup polled]
  /\ UNCHANGED <<row, first, heard>>

Fault(told, polled) ==
  /\ faults < MaxFaults
  /\ faults' = faults + 1
  /\ Lost(told, polled)

\* The run comes to a restock of a row that the refresh has emptied since: the
\* worker panics (expect), and the task stays in tasks, running, for good.
RunPanics ==
  /\ run.phase = "telling"
  /\ send["run"].record.step \in {"none", "done"}
  /\ \E m \in send["run"].todo : Turn("run", m) /\ Unmade("run", m)
  /\ run' = [run EXCEPT !.phase = "wedged"]
  /\ send' = [send EXCEPT !["run"] = Quiet]
  /\ Lost(RunLost, {})
  /\ UNCHANGED <<poll, faults>>

\* A statement of notify_lifecycle_events is refused: the rest is left out.
RunRefused ==
  /\ run.phase \in {"applied", "telling"}
  /\ run' = [run EXCEPT !.phase = "telling"]
  /\ send' = [send EXCEPT !["run"] = Quiet]
  /\ Fault(RunLost, {})
  /\ UNCHANGED poll

\* A statement of poll_once is refused: it is over for this user.
PollRefused ==
  /\ poll.phase \in {"read", "compare"}
  /\ poll' = NoPoll
  /\ send' = [send EXCEPT !["poll"] = Quiet]
  /\ Fault({}, PollLost)
  /\ UNCHANGED run

\* The queue, the poll and the messages under way live in memory.
Restart ==
  /\ run' = NoRun
  /\ poll' = NoPoll
  /\ send' = [s \in Senders |-> Quiet]
  /\ Fault(RunLost, PollLost)

-----------------------------------------------------------------------------
Deliver(s) ==
  \/ Record(s) \/ TelegramSent(s) \/ TelegramWritten(s)
  \/ PushSent(s) \/ PushWritten(s) \/ Rests(s)

Next ==
  \/ Enqueue \/ RunApplies \/ RunReadsWaiters \/ RunEnds \/ RunPanics
  \/ PrefetchApplies \/ Retires
  \/ \E u \in Users : PollReads(u)
  \/ PollJoins \/ PollCompares \/ PollEnds
  \/ \E s \in Senders : Deliver(s)
  \/ RunRefused \/ PollRefused \/ Restart

Spec == Init /\ [][Next]_vars

-----------------------------------------------------------------------------
(* Properties. *)

\* Types: a poll under way has its user, the configs it is yet to compare and
\* what it read; a record has the status of each channel.
TypeOK ==
  /\ row \in [Configs -> Rows]
  /\ run \in [phase : {"none", "fetch", "applied", "telling", "wedged"}, waiters : SUBSET Users,
               event : SUBSET Configs, listed : SUBSET Configs, gone : SUBSET Configs, empty : SUBSET Configs]
  /\ poll # NoPoll => /\ poll \in Polls /\ poll.ids \subseteq DOMAIN poll.old
                      /\ {poll.user} \X DOMAIN poll.old \subseteq Watches
  /\ \A s \in Senders :
       /\ send[s].todo \subseteq Messages
       /\ send[s].record = NoRecord \/ send[s].record \in Records
  /\ faults \in 0..MaxFaults
  /\ first \subseteq Configs
  /\ heard \in [Users \X Configs -> [restock : 0..2, added : 0..2, news : {"none", "added", "removed"}]]
  /\ \A e \in DOMAIN NoExcuse : excused[e] \subseteq Users \X Configs

\* Neither the run that applied the page nor a poll of the user is under way.
Settled(p) ==
  /\ run.phase \notin {"applied", "telling"}
  /\ poll.phase = "idle" \/ poll.user # p[1]

\* When a run finds a config in stock for the first time since it was listed,
\* everyone who monitors it has been told of the restock, by the run or by a
\* poll of theirs, whoever enqueued the task and whoever joined it: unless a
\* poll that joined in time to be left out read after the apply, or before an
\* earlier one or a write of the topology refresh, or a statement, the process
\* or the run failed (ops.rs 2165, 2306, poller.rs 993).
RestockReaches ==
  \A p \in Watches \ (excused.raced \cup excused.missed) :
    Settled(p) /\ p[2] \in first => heard[p].restock > 0

\* No one is told twice of the same stay in stock, although the run and a poll
\* both find it: unless the poll read before the apply without joining this
\* run in time, the topology refresh wrote the row in between, or the row was
\* listed anew and had kept a quantity of zero (ops.rs 2317).  The last happens
\* to a poll that did join in time, which the specification rules out: see
\* WaiterToldOnce.
NotToldTwice ==
  \A p \in Watches \ (excused.raced \cup excused.relisted) : heard[p].restock < 2

\* A user whose poll waits for the run hears of the restock from one of the two
\* only, as the specification has it: when the waiting poll is going to tell,
\* the fallback must not tell the same user again, least of all in a task that
\* both enqueued (docs/specs/fswrs-listed-stock-gate/SPEC.md:91, 169).
WaiterToldOnce ==
  \A p \in Watches \ excused.raced : heard[p].restock < 2

\* A follower who does not monitor a config hears of each of its listings that a
\* run finds once, and only once it has stock; and the last a follower heard of
\* a config that a page dropped is that it is gone.  What the topology refresh
\* lists or delists it says nothing of, and neither does any later run, until a
\* page drops the config or lists it anew (db.rs 3056, poller.rs 359).  One who
\* monitors a config hears only of restocks, whoever writes the row.
FollowersUpToDate ==
  \A p \in Followers \X Configs :
    LET h == heard[p]
        r == row[p[2]]
    IN /\ p \in Watches => h.added = 0
       /\ p \notin excused.silent =>
            /\ h.added < 2
            /\ r.state = "active" /\ ~r.marked => h.added = 0
            /\ run.phase \notin {"applied", "telling"} /\ p \notin excused.cut =>
                 /\ r.state = "delisted" => h.news = "removed"
                 /\ r.state = "active" /\ r.marked /\ p \notin Watches => h.added = 1

\* What a record says when its delivery is seen through: no channel is pending,
\* one that is off says skipped, Web Push also when there is no subscription,
\* and says success only with one.
SeenThrough(s, r) ==
  /\ r.step = "done" /\ "pending" \notin {r.tg, r.wp}
  /\ r.tg = "skipped" <=> r.user \notin Telegram
  /\ r.user \in Telegram /\ Cardinality(Chats[r.user]) < 2 => r.tg # "partial_success"
  /\ s = "poll" \/ r.user \notin WebPush => r.wp = "skipped"
  /\ r.wp = "skipped" /\ s = "run" => r.user \notin WebPush \cap Subscribed
  /\ r.wp = "success" => s = "run" /\ r.user \in WebPush \cap Subscribed

\* The sender goes on to another record, or to none.
Leaves(s) ==
  /\ send[s].record # NoRecord
  /\ \/ send'[s].record = NoRecord
     \/ send'[s].record.step = "telegram" /\ ~AtStep(s, "telegram")

\* A record is left only when its delivery is seen through: every branch of the
\* two channels comes to a status, and the next message does not overtake this
\* one; but for a refused statement or a restart, after which a channel may stay
\* pending for good (ops.rs 819, 888).
RecordsSettled ==
  [][\A s \in Senders : Leaves(s) /\ faults' = faults => SeenThrough(s, send[s].record)]_vars

=============================================================================
