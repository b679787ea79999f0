---------------------------- MODULE CatalogRefresh ----------------------------
(***************************************************************************)
(* The full refresh of the catalog, its status, and the pages that show it *)
(* (src/src/catalog_refresh.rs, src/src/app_api.rs, src/web/src/App.tsx).  *)
(*                                                                         *)
(* One status is shared by everyone.  A page shows what its event stream   *)
(* says: the status as of the request, then every later one, as long as    *)
(* the page keeps up with the channel.  It also shows the answer to its    *)
(* own POST, whenever that arrives.  While it shows a running job it lets  *)
(* nobody start one.                                                       *)
(***************************************************************************)
EXTENDS Naturals, Sequences

CONSTANTS
  Pages,      \* open pages
  Users,
  UserOf,     \* the user of a page
  MaxJobs,    \* bound on jobs
  MaxTargets, \* bound on the targets of a job
  Cap,        \* what the channel keeps for a receiver: 128
  MaxDrops    \* bound on lost connections, reloads and restarts

ASSUME RefreshAssumption ==
  /\ UserOf \in [Pages -> Users]
  /\ MaxJobs \in Nat /\ MaxTargets \in Nat /\ MaxDrops \in Nat
  /\ Cap \in Nat \ {0}

VARIABLES
  status, \* Inner.status
  job,    \* each job: where it is, its targets and how many are left
  gate,   \* Inner.manual_gate: users who asked less than 30 seconds ago
  post,   \* the POST of each page: where it is, and what it answers
  conn,   \* the event stream of each page: what is still to come
  shown,  \* what each page shows
  drops,  \* lost connections, reloads and restarts so far
  gap,    \* history: pages whose stream missed a change before it subscribed
  overtaken \* history: pages whose answer and stream crossed

server == <<status, job, gate>>
vars == <<server, post, conn, shown, drops, gap, overtaken>>

-----------------------------------------------------------------------------
Jobs == 1..MaxJobs

\* current: whether the job is at a target.
Status == [job : 0..MaxJobs, state : {"idle", "running", "success", "error"},
           done : 0..MaxTargets, total : 0..(MaxTargets + 1), current : BOOLEAN]

Idle == [job |-> 0, state |-> "idle", done |-> 0, total |-> 0, current |-> FALSE]

\* A page that has shown nothing yet shows none.
None == [state |-> "none"]

Closed == [step |-> "closed", initial |-> None, buf |-> <<>>]

NoPost == [step |-> "none", reply |-> None]

Unborn == [step |-> "unborn", n |-> 0, left |-> 0]

Init ==
  /\ status = Idle
  /\ job = [j \in Jobs |-> Unborn]
  /\ gate = {}
  /\ post = [p \in Pages |-> NoPost]
  /\ conn = [p \in Pages |-> Closed]
  /\ shown = [p \in Pages |-> None]
  /\ drops = 0
  /\ gap = {}
  /\ overtaken = {}

-----------------------------------------------------------------------------
(* The status, and the channel it is sent to under the same lock. *)

\* Mutant: a full channel refuses what is new.
PushUnlessFull(buf, s) == IF Len(buf) < Cap THEN Append(buf, s) ELSE buf

\* A receiver that lags loses the oldest.
Push(buf, s) == Append(IF Len(buf) < Cap THEN buf ELSE Tail(buf), s)

Publish(s) ==
  /\ status' = s
  /\ conn' = [p \in Pages |->
       IF conn[p].step = "open" THEN [conn[p] EXCEPT !.buf = Push(@, s)] ELSE conn[p]]
  /\ gap' = gap \cup {p \in Pages : conn[p].step = "read"}
  /\ UNCHANGED <<shown, drops, overtaken>>

-----------------------------------------------------------------------------
(* POST /api/catalog/refresh. *)

\* startCatalogRefresh.
Click(p) ==
  /\ post[p].step = "none"
  /\ shown[p].state # "running"
  /\ post' = [post EXCEPT ![p].step = "sent"]
  /\ UNCHANGED <<server, conn, shown, drops, gap, overtaken>>

\* A user who asked less than 30 seconds ago is answered 429.
PassGate(p) ==
  /\ post[p].step = "sent"
  /\ IF UserOf[p] \in gate
       THEN post' = [post EXCEPT ![p] = NoPost] /\ UNCHANGED gate
       ELSE post' = [post EXCEPT ![p].step = "passed"] /\ gate' = gate \cup {UserOf[p]}
  /\ UNCHANGED <<status, job, conn, shown, drops, gap, overtaken>>

GateReopens(u) ==
  /\ u \in gate
  /\ gate' = gate \ {u}
  /\ UNCHANGED <<status, job, post, conn, shown, drops, gap, overtaken>>

Started(j) == [job |-> j, state |-> "running", done |-> 0, total |-> 0, current |-> FALSE]

\* The answer is the status as of now.
Answer(p, s) == post' = [post EXCEPT ![p] = [step |-> "answered", reply |-> s]]

Join(p) ==
  /\ post[p].step = "passed"
  /\ status.state = "running"
  /\ Answer(p, status)
  /\ UNCHANGED <<server, conn, shown, drops, gap, overtaken>>

\* Mutant: a job is started next to the one that runs.
StartAnyway(p) ==
  \E j \in Jobs :
    /\ post[p].step = "passed"
    /\ job[j] = Unborn
    /\ job' = [job EXCEPT ![j].step = "listing"]
    /\ Publish(Started(j))
    /\ Answer(p, Started(j))
    /\ UNCHANGED gate

Start(p) ==
  \E j \in Jobs :
    /\ post[p].step = "passed"
    /\ status.state # "running"
    /\ job[j] = Unborn
    /\ job' = [job EXCEPT ![j].step = "listing"]
    /\ Publish(Started(j))
    /\ Answer(p, Started(j))
    /\ UNCHANGED gate

\* POST /api/refresh, and the users whose pages are not followed here.
StartElsewhere ==
  \E j \in Jobs :
    /\ status.state # "running"
    /\ job[j] = Unborn
    /\ job' = [job EXCEPT ![j].step = "listing"]
    /\ Publish(Started(j))
    /\ UNCHANGED <<gate, post>>

-----------------------------------------------------------------------------
(* run_full_refresh_job. *)

Progress(done, total, current) ==
  Publish([status EXCEPT !.done = done, !.total = total, !.current = current])

\* tasks.len().max(1)
TotalOf(n) == IF n = 0 THEN 1 ELSE n

Begin(j, n) ==
  /\ job' = [job EXCEPT ![j] = [step |-> "next", n |-> n, left |-> n]]
  /\ Progress(0, TotalOf(n), FALSE)
  /\ UNCHANGED <<gate, post>>

Lists(j) ==
  /\ job[j].step = "listing"
  /\ \E n \in 1..MaxTargets : Begin(j, n)

\* No target is known: refresh_catalog_topology comes first.
Surveys(j) ==
  /\ job[j].step = "listing"
  /\ job' = [job EXCEPT ![j].step = "survey"]
  /\ UNCHANGED <<status, gate, post, conn, shown, drops, gap, overtaken>>

Surveyed(j) ==
  /\ job[j].step = "survey"
  /\ \E n \in 0..MaxTargets : Begin(j, n)

Done(j) == job[j].n - job[j].left

\* Mutant: the job asks for one target too many.
AsksOnceMore(j) ==
  /\ job[j].step = "next"
  /\ job' = [job EXCEPT ![j].step = "call"]
  /\ Progress(Done(j), TotalOf(job[j].n), TRUE)
  /\ UNCHANGED <<gate, post>>

\* Whether the page will be fetched or is fresh, and the call of the ops queue.
Asks(j) ==
  /\ job[j].step = "next" /\ job[j].left > 0
  /\ job' = [job EXCEPT ![j].step = "call"]
  /\ Progress(Done(j), TotalOf(job[j].n), TRUE)
  /\ UNCHANGED <<gate, post>>

\* The call is answered, whatever became of the page.
Answered(j) ==
  /\ job[j].step = "call"
  /\ job' = [job EXCEPT ![j].step = "next", ![j].left = @ - 1]
  /\ Progress(Done(j) + 1, TotalOf(job[j].n), FALSE)
  /\ UNCHANGED <<gate, post>>

\* The entry of the target was left behind by a run that could not start: the
\* queue never answers (OpsQueue!EveryCallAnswered).
Hangs(j) ==
  /\ job[j].step = "call"
  /\ job' = [job EXCEPT ![j].step = "hung"]
  /\ UNCHANGED <<status, gate, post, conn, shown, drops, gap, overtaken>>

Finish(j, state) ==
  /\ job' = [job EXCEPT ![j].step = "ended"]
  /\ Publish([status EXCEPT !.state = state, !.current = FALSE])
  /\ UNCHANGED <<gate, post>>

Succeeds(j) ==
  /\ job[j].step = "next" /\ job[j].left = 0
  /\ Finish(j, "success")

\* A statement, the topology or the call fails.
Fails(j) ==
  /\ job[j].step \in {"listing", "survey", "next", "call"}
  /\ job[j].step = "next" => job[j].left > 0
  /\ Finish(j, "error")

Work(j) == Lists(j) \/ Surveys(j) \/ Surveyed(j) \/ Asks(j) \/ Answered(j) \/ Succeeds(j) \/ Fails(j)

-----------------------------------------------------------------------------
(* GET /api/catalog/refresh/events, and the page that reads it. *)

Connect(p) ==
  /\ conn[p].step = "closed"
  /\ conn' = [conn EXCEPT ![p].step = "read", ![p].initial = status]
  /\ gap' = gap \ {p}
  /\ UNCHANGED <<server, post, shown, drops, overtaken>>

Subscribe(p) ==
  /\ conn[p].step = "read"
  /\ conn' = [conn EXCEPT ![p].step = "open"]
  /\ UNCHANGED <<server, post, shown, drops, gap, overtaken>>

Shows(p, s) == shown' = [shown EXCEPT ![p] = s]

ReceiveInitial(p) ==
  /\ conn[p].step = "open" /\ conn[p].initial # None
  /\ Shows(p, conn[p].initial)
  /\ conn' = [conn EXCEPT ![p].initial = None]
  /\ overtaken' = overtaken \ {p}
  /\ UNCHANGED <<server, post, drops, gap>>

\* Mutant: updates are merged with the status read first, not chained after it.
ReceiveAnyTime(p) ==
  /\ conn[p].buf # <<>>
  /\ Shows(p, Head(conn[p].buf))
  /\ conn' = [conn EXCEPT ![p].buf = Tail(@)]
  /\ gap' = gap \ {p} /\ overtaken' = overtaken \ {p}
  /\ UNCHANGED <<server, post, drops>>

Receive(p) ==
  /\ conn[p].initial = None /\ conn[p].buf # <<>>
  /\ Shows(p, Head(conn[p].buf))
  /\ conn' = [conn EXCEPT ![p].buf = Tail(@)]
  /\ gap' = gap \ {p} /\ overtaken' = overtaken \ {p}
  /\ UNCHANGED <<server, post, drops>>

\* Nothing is on its way to the page, which is shown all the stream will say.
Drained(p) == conn[p].step = "open" /\ conn[p].initial = None /\ conn[p].buf = <<>>

\* The answer to the POST arrives: in line with the stream, or crossing it.
Reply(p) ==
  LET r == post[p].reply IN
  /\ post[p].step = "answered"
  /\ Shows(p, r)
  /\ post' = [post EXCEPT ![p] = NoPost]
  /\ overtaken' = IF r = status /\ Drained(p) THEN overtaken ELSE overtaken \cup {p}
  /\ UNCHANGED <<server, conn, drops, gap>>

Drop == drops < MaxDrops /\ drops' = drops + 1

\* EventSource connects again by itself and the page keeps what it shows.
Disconnect(p) ==
  /\ conn[p].step # "closed"
  /\ conn' = [conn EXCEPT ![p] = Closed]
  /\ Drop
  /\ UNCHANGED <<server, post, shown, gap, overtaken>>

\* The POST is dropped with the page, wherever it is.
Reload(p) ==
  /\ conn' = [conn EXCEPT ![p] = Closed]
  /\ post' = [post EXCEPT ![p] = NoPost]
  /\ shown' = [shown EXCEPT ![p] = None]
  /\ gap' = gap \ {p} /\ overtaken' = overtaken \ {p}
  /\ Drop
  /\ UNCHANGED server

\* Status, jobs and gate live in memory; an answer under way may still arrive.
Restart ==
  /\ status' = Idle
  /\ job' = [j \in Jobs |-> IF job[j] = Unborn THEN Unborn ELSE [job[j] EXCEPT !.step = "ended"]]
  /\ gate' = {}
  /\ post' = [p \in Pages |-> IF post[p].step = "answered" THEN post[p] ELSE NoPost]
  /\ conn' = [p \in Pages |-> Closed]
  /\ Drop
  /\ UNCHANGED <<shown, gap, overtaken>>

-----------------------------------------------------------------------------
Serve(p) == PassGate(p) \/ Join(p) \/ Start(p) \/ Reply(p)

Stream(p) == Connect(p) \/ Subscribe(p) \/ ReceiveInitial(p) \/ Receive(p)

Next ==
  \/ \E p \in Pages : Click(p) \/ Serve(p) \/ Stream(p) \/ Disconnect(p) \/ Reload(p)
  \/ StartElsewhere
  \/ \E u \in Users : GateReopens(u)
  \/ \E j \in Jobs : Work(j) \/ Hangs(j)
  \/ Restart

\* The job's task goes on as long as the queue answers it, and a stream as long
\* as there is something to read; nobody has to click.
Fairness ==
  /\ \A j \in Jobs : WF_vars(Work(j))
  /\ \A p \in Pages : WF_vars(Stream(p)) /\ WF_vars(Serve(p))

Spec == Init /\ [][Next]_vars /\ Fairness

-----------------------------------------------------------------------------
(* Properties. *)

TypeOK ==
  /\ status \in Status
  /\ \A j \in Jobs : job[j].n \in 0..MaxTargets /\ job[j].left \in 0..job[j].n
  /\ gate \subseteq Users
  /\ \A p \in Pages :
       /\ post[p].reply = None \/ post[p].reply \in Status
       /\ conn[p].initial = None \/ conn[p].initial \in Status
       /\ conn[p].buf \in Seq(Status) /\ Len(conn[p].buf) <= Cap
       /\ shown[p] = None \/ shown[p] \in Status
  /\ drops \in 0..MaxDrops
  /\ gap \cup overtaken \subseteq Pages

Runs(j) == job[j].step \notin {"unborn", "ended"}

\* The status says "running" exactly while a job runs, there is one such job,
\* and the progress it shows is that job's: whoever triggers meanwhile joins it,
\* and no error path leaves the word behind (catalog_refresh.rs 107-130, 142-171).
StatusIsTheJobs ==
  \A j \in Jobs :
    /\ Runs(j) <=> status.state = "running" /\ status.job = j
    /\ Runs(j) /\ job[j].step \notin {"listing", "survey"} =>
         status.done = Done(j) /\ status.total = TotalOf(job[j].n)

\* A page that has read all its stream has to say shows the status there is,
\* however far it lagged: unless the status changed between its reading and the
\* subscription, or the answer to its own POST crossed the stream
\* (app_api.rs 394, App.tsx 1667).
ShownIsCurrent ==
  \A p \in Pages \ (gap \cup overtaken) : Drained(p) => shown[p] = status

\* After the last job no page goes on showing one, wherever it failed and whatever
\* the page missed, but for the exceptions of ShownIsCurrent: only a call that
\* the queue never answers keeps a job running (catalog_refresh.rs 134, 258).
EndIsShown ==
  <>[](\/ \E j \in Jobs : job[j].step = "hung"
       \/ /\ status.state # "running"
          /\ \A p \in Pages \ (gap \cup overtaken) : shown[p].state # "running")

=============================================================================
