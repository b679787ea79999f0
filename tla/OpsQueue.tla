------------------------------ MODULE OpsQueue ------------------------------
(***************************************************************************)
(* The task queue of the ops manager (src/src/ops.rs): callers ask for the *)
(* catalog page of a key (fid, gid) to be refreshed, calls for a key that  *)
(* is already queued or running are merged, a fixed pool of workers takes  *)
(* keys off a FIFO queue, answers from the URL cache or fetches upstream,  *)
(* and hands one outcome to every caller of the run.                       *)
(*                                                                         *)
(* One action is one stretch of code between two points where another task *)
(* of the tokio runtime can get in: the critical sections of the state     *)
(* mutex, the queue's Notify, a database call, an upstream request.        *)
(***************************************************************************)
EXTENDS Naturals, Sequences, Functions

CONSTANTS
  Keys,        \* task keys (fid, gid)
  Workers,     \* ops_worker_concurrency worker loops
  Requests,    \* slots for calls in progress: how many callers there are at once
  Calls,       \* the kinds of call the run makes, a subset of ProgramCalls
  AgeClasses,  \* the cache row ages the run tells apart
  NoKey,       \* no key
  DbMayFail,   \* the database may refuse a statement of start_task or run_task
  MayCancel    \* an HTTP client may go away, which drops its handler's future

(***************************************************************************)
(* The calls the program makes: the reason it gives, whether it asks for a *)
(* real fetch, and who makes it.  A "task" waits in a spawned task, "http" *)
(* in a handler that is dropped when its client disconnects, "background"  *)
(* does not wait for the outcome.                                          *)
(***************************************************************************)
Reason == {"poller_due", "discovery_due", "manual_refresh", "auto_refresh"}
Caller == {"task", "http", "background"}

PollerDue        == [reason |-> "poller_due",     force |-> FALSE, caller |-> "task"]
DiscoveryDue     == [reason |-> "discovery_due",  force |-> FALSE, caller |-> "background"]
AutoRefresh      == [reason |-> "auto_refresh",   force |-> FALSE, caller |-> "task"]
ManualRefresh    == [reason |-> "manual_refresh", force |-> FALSE, caller |-> "task"]
ManualNotice     == [reason |-> "manual_refresh", force |-> TRUE,  caller |-> "task"]
AutoNotice       == [reason |-> "auto_refresh",   force |-> TRUE,  caller |-> "task"]
PartitionRefresh == [reason |-> "manual_refresh", force |-> TRUE,  caller |-> "http"]

ProgramCalls == {PollerDue, DiscoveryDue, AutoRefresh, ManualRefresh,
                 ManualNotice, AutoNotice, PartitionRefresh}

ASSUME CallsAssumption ==
  /\ Calls \subseteq ProgramCalls
  /\ NoKey \notin Keys
  /\ DbMayFail \in BOOLEAN
  /\ MayCancel \in BOOLEAN

(***************************************************************************)
(* The age of a key's last successful fetch, in the classes the windows of *)
(* 45 s, 150 s and 300 s tell apart: within the first, within the second,  *)
(* within the third, older than all of them (or there is no cache row).    *)
(***************************************************************************)
Stale == 3
Ages  == 0 .. Stale

ASSUME AgeAssumption == AgeClasses \subseteq Ages /\ {0, Stale} \subseteq AgeClasses

Window(reason) ==
  CASE reason = "poller_due"     -> 0
    [] reason = "discovery_due"  -> 1
    [] reason = "manual_refresh" -> 2
    [] reason = "auto_refresh"   -> 2

\* task_freshness_window_seconds: a cache row is fresh for a task when it is
\* within the widest window of the task's reasons.
FreshFor(reasons, a) == \E x \in reasons : a <= Window(x)

Answers == {"none", "cache", "fetch", "error"}

(***************************************************************************)
(* Where a worker is in worker_loop.                                       *)
(***************************************************************************)
Holding == {"start", "begin", "hit", "fetch", "ran"}
WorkerPhases == {"poll", "toPark", "parked", "publish"} \cup Holding

(***************************************************************************)
(* Where a call is: not made; pushed but not yet notified; waiting for the *)
(* outcome; dropped before the notify ("lost") or after it ("gone") with   *)
(* its sender still among the joiners; answered.                           *)
(***************************************************************************)
Joined == {"posting", "waiting", "lost", "gone"}
RequestPhases == {"idle", "answered"} \cup Joined

VARIABLES
  tasks,    \* RuntimeState.tasks: the entry of each key
  pending,  \* RuntimeState.pending: the queue of keys
  permit,   \* the permit stored in inner.notify
  phase,    \* where each worker is
  job,      \* what each worker's loop iteration holds
  req,      \* the calls
  age       \* age class of each key's catalog_url_cache row

vars == <<tasks, pending, permit, phase, job, req, age>>

Entry == [state : {"none", "pending", "running"}, reasons : SUBSET Reason,
          force : BOOLEAN, joiners : SUBSET Requests]
NoEntry == [state |-> "none", reasons |-> {}, force |-> FALSE, joiners |-> {}]

Job == [key : Keys \cup {NoKey}, result : Answers, joiners : SUBSET Requests]
NoJob == [key |-> NoKey, result |-> "none", joiners |-> {}]

Request == [phase : RequestPhases, key : Keys \cup {NoKey}, force : BOOLEAN,
            caller : Caller, answer : Answers]
NoRequest == [phase |-> "idle", key |-> NoKey, force |-> FALSE,
              caller |-> "task", answer |-> "none"]

\* The keys that wait in the queue.
Queued == Range(pending)

Init ==
  /\ tasks = [k \in Keys |-> NoEntry]
  /\ pending = << >>
  /\ permit = FALSE
  /\ phase = [w \in Workers |-> "poll"]
  /\ job = [w \in Workers |-> NoJob]
  /\ req = [r \in Requests |-> NoRequest]
  /\ age = [k \in Keys |-> Stale]

-----------------------------------------------------------------------------
(***************************************************************************)
(* Callers: enqueue.                                                       *)
(***************************************************************************)

\* Mutant: the flag of the last caller wins.
JoinLastForce(e, r, c) ==
  [e EXCEPT !.reasons = @ \cup {c.reason}, !.force = c.force, !.joiners = @ \cup {r}]

\* Mutant: the entry has room for one sender.
JoinReplacing(e, r, c) ==
  [e EXCEPT !.reasons = @ \cup {c.reason}, !.force = @ \/ c.force, !.joiners = {r}]

\* The entry e after call c of request r has joined it.
Join(e, r, c) ==
  [e EXCEPT !.reasons = @ \cup {c.reason},
            !.force   = @ \/ c.force,
            !.joiners = @ \cup {r}]

Record(r, k, c, ph) ==
  req' = [req EXCEPT ![r] = [phase |-> ph, key |-> k, force |-> c.force,
                             caller |-> c.caller, answer |-> "none"]]

\* What becomes of the caller once enqueue has returned: enqueue_background
\* drops the receiver.
AfterEnqueue(caller) == IF caller = "background" THEN "gone" ELSE "waiting"

\* Call q once enqueue has returned, and once its caller has been dropped.
Returned(q) == [q EXCEPT !.phase = AfterEnqueue(q.caller)]
Dropped(q)  == [q EXCEPT !.phase = IF q.phase = "posting" THEN "lost" ELSE "gone"]

\* Call q when its sender has been given an answer (or none yet): a waiting
\* caller is resumed, a dropped one leaves nothing behind, and one that has
\* not reached its receiver yet will find the answer there.
Deliver(q, answer) ==
  IF answer = "none" THEN q
  ELSE CASE q.phase \in {"lost", "gone"} -> NoRequest
         [] q.phase = "waiting"          -> [q EXCEPT !.phase = "answered", !.answer = answer]
         [] OTHER                        -> [q EXCEPT !.answer = answer]

\* The key is queued or running: the call is counted, joined and not notified.
Merge(r, k, c) ==
  /\ req[r].phase = "idle"
  /\ tasks[k].state # "none"
  /\ tasks' = [tasks EXCEPT ![k] = Join(@, r, c)]
  /\ Record(r, k, c, AfterEnqueue(c.caller))
  /\ UNCHANGED <<pending, permit, phase, job, age>>

\* Mutant: only the queue is searched for the key.
PushUnlessQueued(r, k, c) ==
  /\ req[r].phase = "idle"
  /\ k \notin Queued
  /\ tasks' = [tasks EXCEPT ![k] = Join([NoEntry EXCEPT !.state = "pending"], r, c)]
  /\ pending' = Append(pending, k)
  /\ Record(r, k, c, "posting")
  /\ UNCHANGED <<permit, phase, job, age>>

\* The key is unknown: a new entry and a place at the end of the queue.  The
\* notify comes after the event has been published, outside the lock.
Push(r, k, c) ==
  /\ req[r].phase = "idle"
  /\ tasks[k].state = "none"
  /\ tasks' = [tasks EXCEPT ![k] = Join([NoEntry EXCEPT !.state = "pending"], r, c)]
  /\ pending' = Append(pending, k)
  /\ Record(r, k, c, "posting")
  /\ UNCHANGED <<permit, phase, job, age>>

\* Mutant: the notification of a pool with no parked worker is not stored.
NotifyParkedOnly(r) ==
  /\ req[r].phase = "posting"
  /\ \/ \E w \in Workers : phase[w] = "parked" /\ phase' = [phase EXCEPT ![w] = "poll"]
     \/ (\A w \in Workers : phase[w] # "parked") /\ UNCHANGED phase
  /\ req' = [req EXCEPT ![r] = Deliver(Returned(@), @.answer)]
  /\ UNCHANGED <<tasks, pending, permit, job, age>>

\* notify.notify_one(): wakes one parked worker, or stores the one permit.  A
\* worker may have taken the key, even answered the call, before that.
Notify(r) ==
  /\ req[r].phase = "posting"
  /\ \/ \E w \in Workers :
          /\ phase[w] = "parked"
          /\ phase' = [phase EXCEPT ![w] = "poll"]
          /\ UNCHANGED permit
     \/ /\ \A w \in Workers : phase[w] # "parked"
        /\ permit' = TRUE
        /\ UNCHANGED phase
  /\ req' = [req EXCEPT ![r] = Deliver(Returned(@), @.answer)]
  /\ UNCHANGED <<tasks, pending, job, age>>

\* The client of an HTTP caller disconnects: the handler is dropped where it
\* waits, its sender stays among the joiners.
Cancel(r) ==
  /\ MayCancel
  /\ req[r].caller = "http"
  /\ req[r].phase \in {"posting", "waiting"}
  /\ req' = [req EXCEPT ![r] = Deliver(Dropped(@), @.answer)]
  /\ UNCHANGED <<tasks, pending, permit, phase, job, age>>

\* The caller takes its outcome; its slot is free for another call.
Return(r) ==
  /\ req[r].phase = "answered"
  /\ req' = [req EXCEPT ![r] = NoRequest]
  /\ UNCHANGED <<tasks, pending, permit, phase, job, age>>

-----------------------------------------------------------------------------
(***************************************************************************)
(* Workers: worker_loop, start_task, run_task, seal and finish.            *)
(***************************************************************************)

Goto(w, p) == phase' = [phase EXCEPT ![w] = p]

\* pending.pop_front() returns a key.
Take(w) ==
  /\ phase[w] = "poll"
  /\ pending # << >>
  /\ pending' = Tail(pending)
  /\ job' = [job EXCEPT ![w].key = Head(pending)]
  /\ Goto(w, "start")
  /\ UNCHANGED <<tasks, permit, req, age>>

\* pending.pop_front() returns None; the worker does not wait yet.
SeeEmpty(w) ==
  /\ phase[w] = "poll"
  /\ pending = << >>
  /\ Goto(w, "toPark")
  /\ UNCHANGED <<tasks, pending, permit, job, req, age>>

\* Mutant: a stored permit is dropped, not taken.
ParkAnyway(w) ==
  /\ phase[w] = "toPark"
  /\ Goto(w, "parked")
  /\ permit' = FALSE
  /\ UNCHANGED <<tasks, pending, job, req, age>>

\* notify.notified().await: takes the permit if there is one, or waits.
Park(w) ==
  /\ phase[w] = "toPark"
  /\ Goto(w, IF permit THEN "poll" ELSE "parked")
  /\ permit' = FALSE
  /\ UNCHANGED <<tasks, pending, job, req, age>>

\* start_task: the run row is inserted while the state is locked.
Start(w) ==
  /\ phase[w] = "start"
  /\ tasks[job[w].key].state # "none"
  /\ tasks' = [tasks EXCEPT ![job[w].key].state = "running"]
  /\ Goto(w, "begin")
  /\ UNCHANGED <<pending, permit, job, req, age>>

\* start_task fails (no entry, or the INSERT is refused): the loop goes on
\* with the next key.  The entry stays in tasks and the key is in no queue.
StartFails(w) ==
  /\ phase[w] = "start"
  /\ DbMayFail \/ tasks[job[w].key].state = "none"
  /\ job' = [job EXCEPT ![w] = NoJob]
  /\ Goto(w, "poll")
  /\ UNCHANGED <<tasks, pending, permit, req, age>>

\* run_task reads the reasons and the force flag under the lock, then the cache
\* row.  A call that joins between the two reads is one that joins right after
\* them, and a row renewed between them one renewed right before, so they make
\* one step: the row is fresh for the reasons there are and no real fetch was
\* asked for ...
ServeFromCache(w) ==
  LET e == tasks[job[w].key] IN
  /\ phase[w] = "begin"
  /\ ~e.force
  /\ FreshFor(e.reasons, age[job[w].key])
  /\ Goto(w, "hit")
  /\ UNCHANGED <<tasks, pending, permit, job, req, age>>

\* ... or the row is too old, cannot be read, or is not looked up.
GoUpstream(w) ==
  LET e == tasks[job[w].key] IN
  /\ phase[w] = "begin"
  /\ e.force \/ ~FreshFor(e.reasons, age[job[w].key]) \/ DbMayFail
  /\ Goto(w, "fetch")
  /\ UNCHANGED <<tasks, pending, permit, job, req, age>>

\* Mutant: the run reports the name of the phase instead of the action.
FetchMislabelled(w) ==
  /\ phase[w] = "fetch"
  /\ age' = [age EXCEPT ![job[w].key] = 0]
  /\ job' = [job EXCEPT ![w].result = "ran"]
  /\ Goto(w, "ran")
  /\ UNCHANGED <<tasks, pending, permit, req>>

\* The page was fetched, parsed and applied in one transaction.
FetchApplied(w) ==
  /\ phase[w] = "fetch"
  /\ age' = [age EXCEPT ![job[w].key] = 0]
  /\ job' = [job EXCEPT ![w].result = "fetch"]
  /\ Goto(w, "ran")
  /\ UNCHANGED <<tasks, pending, permit, req>>

\* The request failed, the page did not parse, or the transaction rolled back.
FetchFailed(w) ==
  /\ phase[w] = "fetch"
  /\ job' = [job EXCEPT ![w].result = "error"]
  /\ Goto(w, "ran")
  /\ UNCHANGED <<tasks, pending, permit, req, age>>

\* Removes the entry of w's key and leaves its joiners to w.
SealWith(w, result) ==
  LET k == job[w].key IN
  /\ tasks' = [tasks EXCEPT ![k] = NoEntry]
  /\ job' = [job EXCEPT ![w].joiners = tasks[k].joiners, ![w].result = result]
  /\ Goto(w, "publish")

\* Mutant: no second look at the force flag.
CompleteAnyHit(w) ==
  /\ phase[w] = "hit"
  /\ SealWith(w, "cache")
  /\ UNCHANGED <<pending, permit, req, age>>

\* complete_or_retry_cache_hit: a caller that asked for a real fetch after
\* the worker copied the flag makes the loop run the task again.
CompleteCacheHit(w) ==
  /\ phase[w] = "hit"
  /\ IF tasks[job[w].key].force
     THEN Goto(w, "begin") /\ UNCHANGED <<tasks, job>>
     ELSE SealWith(w, "cache")
  /\ UNCHANGED <<pending, permit, req, age>>

\* seal_task_for_completion, on a fetch or an error.
Seal(w) ==
  /\ phase[w] = "ran"
  /\ SealWith(w, job[w].result)
  /\ UNCHANGED <<pending, permit, req, age>>

\* finish_task: after the run row, the events and the log are written, every
\* sender of the run is given the outcome.
Finish(w) ==
  /\ phase[w] = "publish"
  /\ req' = [r \in Requests |->
               IF r \in job[w].joiners THEN Deliver(req[r], job[w].result) ELSE req[r]]
  /\ job' = [job EXCEPT ![w] = NoJob]
  /\ Goto(w, "poll")
  /\ UNCHANGED <<tasks, pending, permit, age>>

\* The topology poller has fetched and applied the page of k itself, outside
\* the queue (prefetch_added_target_catalogs): the cache row is new.
Prefetch(k) ==
  /\ age[k] # 0
  /\ age' = [age EXCEPT ![k] = 0]
  /\ UNCHANGED <<tasks, pending, permit, phase, job, req>>

\* Time passes and the cache row of k gets older, or retire_catalog_targets
\* deletes it.
Grow(k) ==
  /\ \E a \in AgeClasses : a > age[k] /\ age' = [age EXCEPT ![k] = a]
  /\ UNCHANGED <<tasks, pending, permit, phase, job, req>>

-----------------------------------------------------------------------------
CallerStep(r) ==
  \/ \E k \in Keys, c \in Calls : Merge(r, k, c) \/ Push(r, k, c)
  \/ Notify(r)
  \/ Cancel(r)
  \/ Return(r)

WorkerStep(w) ==
  \/ Take(w) \/ SeeEmpty(w) \/ Park(w)
  \/ Start(w) \/ StartFails(w)
  \/ ServeFromCache(w) \/ GoUpstream(w)
  \/ FetchApplied(w) \/ FetchFailed(w)
  \/ CompleteCacheHit(w) \/ Seal(w) \/ Finish(w)

Next ==
  \/ \E r \in Requests : CallerStep(r)
  \/ \E w \in Workers : WorkerStep(w)
  \/ \E k \in Keys : Prefetch(k) \/ Grow(k)

(***************************************************************************)
(* A worker loop that can go on does (tokio polls a woken task, and the    *)
(* environment answers: the database replies and the upstream server       *)
(* replies or closes the connection); a caller between push and notify     *)
(* goes on unless it is cancelled.  Calls, cancellations and the clock are *)
(* not obliged to happen.                                                  *)
(***************************************************************************)
Fairness ==
  /\ \A w \in Workers : WF_vars(WorkerStep(w))
  /\ \A r \in Requests : WF_vars(Notify(r))

Spec == Init /\ [][Next]_vars
FairSpec == Spec /\ Fairness

-----------------------------------------------------------------------------
(***************************************************************************)
(* Properties.                                                             *)
(***************************************************************************)

\* The variables hold values of the types the code declares (RuntimeState,
\* TaskEntry, the locals of worker_loop, OpsRunOutcome).
TypeOK ==
  /\ tasks \in [Keys -> Entry]
  /\ pending \in Seq(Keys)
  /\ permit \in BOOLEAN
  /\ phase \in [Workers -> WorkerPhases]
  /\ job \in [Workers -> Job]
  /\ req \in [Requests -> Request]
  /\ age \in [Keys -> Ages]

\* Two workers never run the same key at the same time: between pop_front and
\* the removal of its entry a key belongs to one worker loop, so that no two
\* workers fetch or apply the page of a key at once.
OneRunPerKey ==
  \A v, w \in Workers :
    v # w /\ phase[v] \in Holding /\ phase[w] \in Holding => job[v].key # job[w].key

\* The two collections of RuntimeState agree: the queue holds a key at most
\* once, a queued key has a pending entry that no worker holds, and a running
\* entry is in the hands of a worker that will remove it.
QueueMatchesTasks ==
  /\ \A i, j \in DOMAIN pending : pending[i] = pending[j] => i = j
  /\ \A k \in Queued :
       /\ tasks[k].state = "pending"
       /\ \A w \in Workers : phase[w] \in Holding => job[w].key # k
  /\ \A k \in Keys :
       tasks[k].state = "running" =>
         \E w \in Workers : phase[w] \in Holding \ {"start"} /\ job[w].key = k

\* A call that still has to be answered.
Owed(r) == req[r].phase \in Joined /\ req[r].answer = "none"

Entries(r) == {k \in Keys : r \in tasks[k].joiners}
Batches(r) == {w \in Workers : r \in job[w].joiners}

\* Every call that is still owed an answer has its sender in exactly one
\* place, the entry of its key or the batch of the worker that removed it,
\* and no sender of a settled call is left anywhere: no caller is forgotten
\* by a merge, a retry or a seal, and none is answered twice.
NoCallerForgotten ==
  \A r \in Requests :
    IF Owed(r)
    THEN \/ Entries(r) = {req[r].key} /\ Batches(r) = {}
         \/ Entries(r) = {} /\ \E w \in Workers : Batches(r) = {w}
    ELSE Entries(r) = {} /\ Batches(r) = {}

\* A caller of enqueue_and_wait_force_fetch is never answered with a cache
\* hit, however late it joined the run (ops.rs complete_or_retry_cache_hit,
\* test late_force_fetch_retries_after_cache_hit).
ForcedCallGetsFetch ==
  \A r \in Requests : req[r].force => req[r].answer # "cache"

\* The key waits because the caller that queued it was dropped before its
\* notify_one; the next caller that queues another key will wake a worker.
Stranded(k) == \E r \in tasks[k].joiners : req[r].phase = "lost"

\* The entry of k is pending but no queue and no worker has the key any more.
Wedged(k) ==
  /\ tasks[k].state = "pending"
  /\ k \notin Queued
  /\ \A w \in Workers : phase[w] = "start" => job[w].key # k

Awake == {w \in Workers : phase[w] \notin {"toPark", "parked"}}

\* Workers do not all sleep on a queued key: while a key waits, a permit is
\* stored, a worker is awake and will look at the queue before it sleeps, or
\* the caller that queued the key has yet to notify.
NoLostWakeup ==
  \A k \in Queued :
    \/ permit
    \/ Awake # {}
    \/ \E r \in tasks[k].joiners : req[r].phase = "posting"
    \/ Stranded(k)

\* The abstract promise, seen through the queue: a group is an entry's
\* joiners, a flight is a running entry, and a posting caller waits.
CallOf(q) ==
  [phase  |-> CASE q.phase = "posting" -> IF q.answer = "none" THEN "waiting" ELSE "answered"
                [] q.phase = "lost"    -> "gone"
                [] OTHER               -> q.phase,
   force  |-> q.force,
   answer |-> q.answer]

Groups  == [k \in Keys |-> tasks[k].joiners]
Flights == {k \in Keys : tasks[k].state = "running"}
Sealed  == {[joiners |-> job[w].joiners, result |-> job[w].result] :
              w \in {v \in Workers : phase[v] = "publish"}}
CallsSeen == [r \in Requests |-> CallOf(req[r])]

Promise == INSTANCE SingleFlight WITH
  group <- Groups, flight <- Flights, sealed <- Sealed, call <- CallsSeen

\* The queue implements SingleFlight: every step of the code is a step of the
\* promise or changes nothing a caller can see.
ImplementsSingleFlight == Promise!Spec

\* A caller that waits is answered, gives up, or waits for a key that a failed
\* start_task wedged or a dropped caller stranded: these two are the only
\* ways a call can wait for ever.
EveryCallSettles ==
  \A r \in Requests :
    req[r].phase = "waiting" ~>
      (req[r].phase # "waiting" \/ Wedged(req[r].key) \/ Stranded(req[r].key))

\* A partition refresh that joins a queued task waits safely for its outcome
\* (docs/specs/jpguk-manual-region-refresh/SPEC.md:56).
EveryCallAnswered ==
  \A r \in Requests : req[r].phase = "waiting" ~> req[r].phase # "waiting"

=============================================================================
