--------------------------- MODULE OpsQueueProofs ---------------------------
(***************************************************************************)
(* Proofs about OpsQueue, for every set of keys, workers and calls.        *)
(*                                                                         *)
(* The invariants are proved in layers, each from the ones before it:      *)
(* types and the contents of a worker's job; which worker holds which key; *)
(* where the sender of each call is; what a cache answer may answer; and   *)
(* who will look at a queued key.                                          *)
(***************************************************************************)
EXTENDS OpsQueue, SequenceTheorems, TLAPS

-----------------------------------------------------------------------------
(***************************************************************************)
(* The queue as a set.                                                     *)
(***************************************************************************)
NoRepeats(s) == \A i, j \in DOMAIN s : s[i] = s[j] => i = j

\* pending.push_back(key) adds the key to those queued, and no key is twice in
\* the queue if this one was not in it.
LEMMA PushedQueue ==
  ASSUME NEW S, NEW s \in Seq(S), NEW k \in S
  PROVE  /\ Append(s, k) \in Seq(S)
         /\ Range(Append(s, k)) = Range(s) \cup {k}
         /\ NoRepeats(s) /\ k \notin Range(s) => NoRepeats(Append(s, k))
<1>1. /\ Append(s, k) \in Seq(S)
      /\ DOMAIN Append(s, k) = 1 .. Len(s) + 1
      /\ \A i \in 1 .. Len(s) : Append(s, k)[i] = s[i]
      /\ Append(s, k)[Len(s) + 1] = k
      /\ DOMAIN s = 1 .. Len(s)
      /\ Len(s) \in Nat
  OBVIOUS
<1>2. Range(Append(s, k)) = Range(s) \cup {k}
  <2>1. \A x \in Range(Append(s, k)) : x \in Range(s) \cup {k}
    BY <1>1 DEF Range
  <2>2. \A x \in Range(s) : x \in Range(Append(s, k))
    BY <1>1 DEF Range
  <2>3. k \in Range(Append(s, k))
    <3>1. Len(s) + 1 \in DOMAIN Append(s, k)
      BY <1>1
    <3> QED BY <1>1, <3>1 DEF Range
  <2> QED BY <2>1, <2>2, <2>3
<1>3. ASSUME NoRepeats(s), k \notin Range(s) PROVE NoRepeats(Append(s, k))
  <2>1. \A i \in 1 .. Len(s) : s[i] # k
    BY <1>1, <1>3 DEF Range
  <2> QED BY <1>1, <1>3, <2>1 DEF NoRepeats
<1> QED BY <1>1, <1>2, <1>3

\* pending.pop_front() takes one key out of those queued, all of it if no key
\* is twice in the queue.
LEMMA PoppedQueue ==
  ASSUME NEW S, NEW s \in Seq(S), s # << >>
  PROVE  /\ Head(s) \in S
         /\ Tail(s) \in Seq(S)
         /\ Head(s) \in Range(s)
         /\ NoRepeats(s) => NoRepeats(Tail(s)) /\ Range(Tail(s)) = Range(s) \ {Head(s)}
<1>1. /\ Head(s) \in S
      /\ Tail(s) \in Seq(S)
      /\ Head(s) = s[1]
      /\ Len(s) \in Nat \ {0}
      /\ DOMAIN s = 1 .. Len(s)
      /\ DOMAIN Tail(s) = 1 .. Len(s) - 1
      /\ \A i \in 1 .. Len(s) - 1 : Tail(s)[i] = s[i + 1]
  OBVIOUS
<1>2. Head(s) \in Range(s)
  BY <1>1 DEF Range
<1>3. ASSUME NoRepeats(s) PROVE NoRepeats(Tail(s))
  BY <1>1, <1>3 DEF NoRepeats
<1>4. ASSUME NoRepeats(s) PROVE Range(Tail(s)) = Range(s) \ {Head(s)}
  <2>1. ASSUME NEW x \in Range(Tail(s)) PROVE x \in Range(s) \ {Head(s)}
    <3>1. PICK i \in 1 .. Len(s) - 1 : x = s[i + 1]
      BY <1>1, <2>1 DEF Range
    <3>2. i + 1 \in DOMAIN s /\ 1 \in DOMAIN s /\ i + 1 # 1
      BY <1>1
    <3> QED BY <1>1, <1>4, <3>1, <3>2 DEF NoRepeats, Range
  <2>2. ASSUME NEW x \in Range(s) \ {Head(s)} PROVE x \in Range(Tail(s))
    <3>1. PICK i \in 1 .. Len(s) : x = s[i]
      BY <1>1, <2>2 DEF Range
    <3>2. i - 1 \in 1 .. Len(s) - 1 /\ Tail(s)[i - 1] = x
      BY <1>1, <2>2, <3>1
    <3> QED BY <1>1, <3>2 DEF Range
  <2> QED BY <2>1, <2>2
<1> QED BY <1>1, <1>2, <1>3, <1>4

-----------------------------------------------------------------------------
(***************************************************************************)
(* Layer 1: types, and what a worker's job holds in each phase.            *)
(***************************************************************************)
JobShape ==
  \A w \in Workers :
    /\ phase[w] \notin Holding \cup {"publish"} => job[w] = NoJob
    /\ phase[w] \in Holding \cup {"publish"} => job[w].key \in Keys
    /\ phase[w] \in Holding => job[w].joiners = {}
    /\ phase[w] = "ran" => job[w].result \in {"fetch", "error"}
    /\ phase[w] = "publish" => job[w].result # "none"

Typed == TypeOK /\ JobShape

\* The calls of the program have a reason, a flag and a caller of the types
\* enqueue takes.
LEMMA CallFields ==
  ASSUME NEW c \in Calls
  PROVE  c.reason \in Reason /\ c.force \in BOOLEAN /\ c.caller \in Caller
<1>1. c \in ProgramCalls
  BY CallsAssumption
<1>2. CASE c = PollerDue
  BY <1>2 DEF PollerDue, Reason, Caller
<1>3. CASE c = DiscoveryDue
  BY <1>3 DEF DiscoveryDue, Reason, Caller
<1>4. CASE c = AutoRefresh
  BY <1>4 DEF AutoRefresh, Reason, Caller
<1>5. CASE c = ManualRefresh
  BY <1>5 DEF ManualRefresh, Reason, Caller
<1>6. CASE c = ManualNotice
  BY <1>6 DEF ManualNotice, Reason, Caller
<1>7. CASE c = AutoNotice
  BY <1>7 DEF AutoNotice, Reason, Caller
<1>8. CASE c = PartitionRefresh
  BY <1>8 DEF PartitionRefresh, Reason, Caller
<1> QED BY <1>1, <1>2, <1>3, <1>4, <1>5, <1>6, <1>7, <1>8 DEF ProgramCalls

\* A call made is a Request.
LEMMA RecordType ==
  ASSUME TypeOK, NEW r \in Requests, NEW k \in Keys, NEW c \in Calls, NEW ph \in RequestPhases,
         Record(r, k, c, ph)
  PROVE  req' \in [Requests -> Request]
<1>1. c.force \in BOOLEAN /\ c.caller \in Caller
  BY CallFields
<1> QED BY <1>1 DEF Record, TypeOK, Request, Answers

\* An entry that is joined is an Entry.
LEMMA JoinType ==
  ASSUME NEW e \in Entry, NEW r \in Requests, NEW c \in Calls
  PROVE  /\ Join(e, r, c) \in Entry
         /\ Join(e, r, c).state = e.state
         /\ Join(e, r, c).force = (e.force \/ c.force)
         /\ Join(e, r, c).joiners = e.joiners \cup {r}
<1>1. c.force \in BOOLEAN /\ c.reason \in Reason
  BY CallFields
<1> QED BY <1>1 DEF Join, Entry

\* A call that goes on, is dropped or is given an answer (or none) is a Request.
LEMMA DeliverType ==
  ASSUME NEW q \in Request, NEW a \in Answers
  PROVE  Deliver(q, a) \in Request
BY DEF Deliver, Request, NoRequest, Joined, RequestPhases, Answers, Caller

LEMMA MovedType ==
  ASSUME NEW q \in Request
  PROVE  Returned(q) \in Request /\ Dropped(q) \in Request
BY DEF Returned, AfterEnqueue, Dropped, Request, RequestPhases, Joined

LEMMA TypedInit == Init => Typed
<1> SUFFICES ASSUME Init PROVE Typed
  OBVIOUS
<1>1. NoEntry \in Entry
  BY DEF NoEntry, Entry
<1>2. NoJob \in Job
  BY DEF NoJob, Job, Answers
<1>3. NoRequest \in Request
  BY DEF NoRequest, Request, RequestPhases, Caller, Answers
<1>4. TypeOK
  <2>1. pending \in Seq(Keys)
    BY DEF Init
  <2>2. age \in [Keys -> Ages]
    BY DEF Init, Ages, Stale
  <2> QED BY <1>1, <1>2, <1>3, <2>1, <2>2 DEF Init, TypeOK, WorkerPhases
<1>5. JobShape
  BY DEF Init, JobShape, Holding
<1> QED BY <1>4, <1>5 DEF Typed

\* A step keeps the types and the shape of the jobs.
LEMMA TypedStep == Typed /\ [Next]_vars => Typed'
<1> SUFFICES ASSUME Typed, [Next]_vars PROVE Typed'
  OBVIOUS
<1> USE DEF Typed
<1>1. ASSUME NEW r \in Requests, NEW k \in Keys, NEW c \in Calls, Merge(r, k, c)
      PROVE  Typed'
  <2>1. AfterEnqueue(c.caller) \in RequestPhases
    BY DEF AfterEnqueue, RequestPhases, Joined
  <2>2. req' \in [Requests -> Request]
    BY <1>1, <2>1, RecordType DEF Merge
  <2>3. tasks' \in [Keys -> Entry]
    BY <1>1, JoinType DEF Merge, TypeOK
  <2> QED BY <1>1, <2>2, <2>3 DEF Merge, TypeOK, JobShape
<1>2. ASSUME NEW r \in Requests, NEW k \in Keys, NEW c \in Calls, Push(r, k, c)
      PROVE  Typed'
  <2>1. req' \in [Requests -> Request]
    BY <1>2, RecordType DEF Push, RequestPhases, Joined
  <2>2. [NoEntry EXCEPT !.state = "pending"] \in Entry
    BY DEF NoEntry, Entry
  <2>3. tasks' \in [Keys -> Entry]
    BY <1>2, <2>2, JoinType DEF Push, TypeOK
  <2>4. pending' \in Seq(Keys)
    BY <1>2, PushedQueue DEF Push, TypeOK
  <2> QED BY <1>2, <2>1, <2>3, <2>4 DEF Push, TypeOK, JobShape
<1>3. ASSUME NEW r \in Requests, Notify(r) PROVE Typed'
  <2>1. /\ phase' \in [Workers -> WorkerPhases]
        /\ permit' \in BOOLEAN
        /\ \A w \in Workers : phase'[w] = phase[w]
              \/ (phase[w] = "parked" /\ phase'[w] = "poll")
    BY <1>3 DEF Notify, TypeOK, WorkerPhases
  <2>2. req' \in [Requests -> Request]
    <3>1. req[r] \in Request /\ req[r].answer \in Answers
      BY DEF TypeOK, Request
    <3>2. Deliver(Returned(req[r]), req[r].answer) \in Request
      BY <3>1, MovedType, DeliverType
    <3> QED BY <1>3, <3>2 DEF Notify, TypeOK
  <2>3. JobShape'
    BY <1>3, <2>1 DEF Notify, JobShape, Holding, NoJob
  <2> QED BY <1>3, <2>1, <2>2, <2>3 DEF Notify, TypeOK
<1>4. ASSUME NEW r \in Requests, Cancel(r) PROVE Typed'
  <2>1. req[r] \in Request /\ req[r].answer \in Answers
    BY DEF TypeOK, Request
  <2>2. Deliver(Dropped(req[r]), req[r].answer) \in Request
    BY <2>1, MovedType, DeliverType
  <2>3. req' \in [Requests -> Request]
    BY <1>4, <2>2 DEF Cancel, TypeOK
  <2> QED BY <1>4, <2>3 DEF Cancel, TypeOK, JobShape
<1>5. ASSUME NEW r \in Requests, Return(r) PROVE Typed'
  <2>1. NoRequest \in Request
    BY DEF NoRequest, Request, RequestPhases, Caller, Answers
  <2> QED BY <1>5, <2>1 DEF Return, TypeOK, JobShape
<1>6. ASSUME NEW w \in Workers, Take(w) PROVE Typed'
  <2>1. Head(pending) \in Keys /\ pending' \in Seq(Keys)
    BY <1>6, PoppedQueue DEF Take, TypeOK
  <2>2. job[w] = NoJob
    BY <1>6 DEF Take, JobShape, Holding
  <2>3. job' \in [Workers -> Job]
    BY <1>6, <2>1 DEF Take, TypeOK, Job
  <2>4. phase' \in [Workers -> WorkerPhases]
    BY <1>6 DEF Take, Goto, TypeOK, WorkerPhases, Holding
  <2>5. JobShape'
    BY <1>6, <2>1, <2>2 DEF Take, Goto, TypeOK, JobShape, NoJob, Holding
  <2> QED BY <1>6, <2>1, <2>3, <2>4, <2>5 DEF Take, TypeOK
<1>7. ASSUME NEW w \in Workers, SeeEmpty(w) \/ Park(w) \/ Start(w) \/ StartFails(w)
      PROVE  Typed'
  <2>1. CASE SeeEmpty(w)
    BY <2>1 DEF SeeEmpty, Goto, TypeOK, JobShape, WorkerPhases, Holding
  <2>2. CASE Park(w)
    BY <2>2 DEF Park, Goto, TypeOK, JobShape, WorkerPhases, Holding
  <2>3. CASE Start(w)
    <3>1. \A k \in Keys : [tasks[k] EXCEPT !.state = "running"] \in Entry
      BY DEF TypeOK, Entry
    <3>2. tasks' \in [Keys -> Entry]
      BY <2>3, <3>1 DEF Start, TypeOK
    <3> QED BY <2>3, <3>2 DEF Start, Goto, TypeOK, JobShape, WorkerPhases, Holding
  <2>4. CASE StartFails(w)
    <3>1. NoJob \in Job
      BY DEF NoJob, Job, Answers
    <3> QED BY <2>4, <3>1 DEF StartFails, Goto, TypeOK, JobShape, WorkerPhases, Holding
  <2> QED BY <1>7, <2>1, <2>2, <2>3, <2>4
<1>8. ASSUME NEW w \in Workers, ServeFromCache(w) \/ GoUpstream(w) PROVE Typed'
  BY <1>8 DEF ServeFromCache, GoUpstream, Goto, TypeOK, JobShape, WorkerPhases, Holding
<1>9. ASSUME NEW w \in Workers, FetchApplied(w) \/ FetchFailed(w) PROVE Typed'
  <2>1. PICK a \in {"fetch", "error"} : job' = [job EXCEPT ![w].result = a]
    BY <1>9 DEF FetchApplied, FetchFailed
  <2>2. phase[w] = "fetch" /\ phase' = [phase EXCEPT ![w] = "ran"]
    BY <1>9 DEF FetchApplied, FetchFailed, Goto
  <2>3. job' \in [Workers -> Job]
    <3>1. [job[w] EXCEPT !.result = a] \in Job
      BY <2>1 DEF TypeOK, Job, Answers
    <3> QED BY <2>1, <3>1 DEF TypeOK
  <2>4. age' \in [Keys -> Ages]
    BY <1>9 DEF FetchApplied, FetchFailed, TypeOK, Ages, Stale
  <2>5. phase' \in [Workers -> WorkerPhases]
    BY <2>2 DEF TypeOK, WorkerPhases, Holding
  <2>6. JobShape'
    BY <2>1, <2>2 DEF TypeOK, JobShape, Job, Holding
  <2> QED BY <1>9, <2>3, <2>4, <2>5, <2>6 DEF FetchApplied, FetchFailed, TypeOK
<1>10. ASSUME NEW w \in Workers, NEW result \in Answers \ {"none"}, job[w].key \in Keys,
              SealWith(w, result), UNCHANGED <<pending, permit, req, age>>
       PROVE  Typed'
  <2>1. NoEntry \in Entry
    BY DEF NoEntry, Entry
  <2>2. tasks[job[w].key].joiners \in SUBSET Requests
    BY <1>10 DEF TypeOK, Entry
  <2>3. tasks' \in [Keys -> Entry]
    BY <1>10, <2>1 DEF SealWith, TypeOK
  <2>4. job' \in [Workers -> Job]
    BY <1>10, <2>2 DEF SealWith, TypeOK, Job
  <2>5. phase' \in [Workers -> WorkerPhases]
    BY <1>10 DEF SealWith, Goto, TypeOK, WorkerPhases
  <2>6. JobShape'
    BY <1>10, <2>2 DEF SealWith, Goto, TypeOK, JobShape, Job, Holding
  <2> QED BY <1>10, <2>3, <2>4, <2>5, <2>6 DEF TypeOK
<1>11. ASSUME NEW w \in Workers, CompleteCacheHit(w) PROVE Typed'
  <2>1. job[w].key \in Keys
    BY <1>11 DEF CompleteCacheHit, JobShape, Holding
  <2>2. CASE tasks[job[w].key].force
    BY <1>11, <2>2 DEF CompleteCacheHit, Goto, TypeOK, JobShape, WorkerPhases, Holding
  <2>3. CASE ~tasks[job[w].key].force
    BY <1>10, <1>11, <2>1, <2>3 DEF CompleteCacheHit, Answers
  <2> QED BY <2>2, <2>3
<1>12. ASSUME NEW w \in Workers, Seal(w) PROVE Typed'
  <2>1. job[w].key \in Keys /\ job[w].result \in Answers \ {"none"}
    BY <1>12 DEF Seal, JobShape, Holding, Answers
  <2> QED BY <1>10, <1>12, <2>1 DEF Seal
<1>13. ASSUME NEW w \in Workers, Finish(w) PROVE Typed'
  <2>1. NoJob \in Job
    BY DEF NoJob, Job, Answers
  <2>2. job[w].result \in Answers
    BY DEF TypeOK, Job
  <2>3. \A r \in Requests : Deliver(req[r], job[w].result) \in Request
    BY <2>2, DeliverType DEF TypeOK
  <2>4. req' \in [Requests -> Request]
    BY <1>13, <2>3 DEF Finish, TypeOK
  <2>5. job' \in [Workers -> Job] /\ phase' \in [Workers -> WorkerPhases]
    BY <1>13, <2>1 DEF Finish, Goto, TypeOK, WorkerPhases
  <2>6. JobShape'
    BY <1>13 DEF Finish, Goto, TypeOK, JobShape, Holding
  <2> QED BY <1>13, <2>4, <2>5, <2>6 DEF Finish, TypeOK
<1>14. ASSUME NEW k \in Keys, Prefetch(k) \/ Grow(k) PROVE Typed'
  <2>1. age' \in [Keys -> Ages]
    BY <1>14, AgeAssumption DEF Prefetch, Grow, TypeOK, Ages, Stale
  <2> QED BY <1>14, <2>1 DEF Prefetch, Grow, TypeOK, JobShape
<1>15. CASE UNCHANGED vars
  BY <1>15 DEF vars, TypeOK, JobShape
<1> QED
  BY <1>1, <1>2, <1>3, <1>4, <1>5, <1>6, <1>7, <1>8, <1>9, <1>11, <1>12, <1>13, <1>14, <1>15
     DEF Next, CallerStep, WorkerStep

LEMMA TypedInvariant == Spec => []Typed
<1>1. Init => Typed
  BY TypedInit
<1>2. Typed /\ [Next]_vars => Typed'
  BY TypedStep
<1> QED BY <1>1, <1>2, PTL DEF Spec

\* The type invariant holds of every behaviour of the queue (RuntimeState,
\* TaskEntry, the locals of worker_loop, OpsRunOutcome).
THEOREM TypeCorrect == Spec => []TypeOK
<1>1. Typed => TypeOK
  BY DEF Typed
<1> QED BY <1>1, TypedInvariant, PTL

-----------------------------------------------------------------------------
(***************************************************************************)
(* Layer 2: which worker holds which key.  QueueMatchesTasks and           *)
(* OneRunPerKey are inductive once the entry of a key tells whether its    *)
(* worker has started it.                                                  *)
(***************************************************************************)
HeldEntry ==
  \A w \in Workers :
    /\ phase[w] = "start" => tasks[job[w].key].state = "pending"
    /\ phase[w] \in Holding \ {"start"} => tasks[job[w].key].state = "running"

Exclusive == OneRunPerKey /\ QueueMatchesTasks /\ HeldEntry

LEMMA ExclusiveInit == Init => Exclusive
<1> SUFFICES ASSUME Init PROVE Exclusive
  OBVIOUS
<1>1. Queued = {} /\ DOMAIN pending = {}
  BY DEF Init, Queued, Range
<1> QED BY <1>1 DEF Init, Exclusive, OneRunPerKey, QueueMatchesTasks, HeldEntry, Holding, NoEntry

\* A step that moves no key keeps the layer.
LEMMA ExclusiveSame ==
  ASSUME Typed, Exclusive, pending' = pending,
         \A k \in Keys : tasks'[k].state = tasks[k].state,
         \A w \in Workers :
           \/ phase[w] \notin Holding /\ phase'[w] \notin Holding
           \/ /\ job'[w].key = job[w].key
              /\ phase[w] \in Holding /\ phase'[w] \in Holding
              /\ (phase'[w] = "start" <=> phase[w] = "start")
  PROVE  Exclusive'
<1>1. \A w \in Workers : phase[w] \in Holding => job[w].key \in Keys
  BY DEF Typed, JobShape
<1>2. OneRunPerKey'
  BY DEF Exclusive, OneRunPerKey
<1>3. Queued' = Queued
  BY DEF Queued
<1>4. Queued \subseteq Keys
  BY DEF Typed, TypeOK, Queued, Range
<1>5. QueueMatchesTasks'
  <2>1. \A i, j \in DOMAIN pending' : pending'[i] = pending'[j] => i = j
    BY DEF Exclusive, QueueMatchesTasks
  <2>2. \A k \in Queued' :
          /\ tasks'[k].state = "pending"
          /\ \A w \in Workers : phase'[w] \in Holding => job'[w].key # k
    BY <1>3, <1>4 DEF Exclusive, QueueMatchesTasks
  <2>3. ASSUME NEW k \in Keys, tasks'[k].state = "running"
        PROVE  \E w \in Workers : phase'[w] \in Holding \ {"start"} /\ job'[w].key = k
    <3>1. PICK w \in Workers : phase[w] \in Holding \ {"start"} /\ job[w].key = k
      BY <2>3 DEF Exclusive, QueueMatchesTasks
    <3> QED BY <3>1
  <2> QED BY <2>1, <2>2, <2>3 DEF QueueMatchesTasks
<1>6. HeldEntry'
  BY <1>1 DEF Exclusive, HeldEntry, Holding
<1> QED BY <1>2, <1>5, <1>6 DEF Exclusive

LEMMA ExclusiveStep == Typed /\ Typed' /\ Exclusive /\ [Next]_vars => Exclusive'
<1> SUFFICES ASSUME Typed, Typed', Exclusive, [Next]_vars PROVE Exclusive'
  OBVIOUS
<1>q. Queued \subseteq Keys /\ pending \in Seq(Keys) /\ NoRepeats(pending)
  <2>1. Queued \subseteq Keys /\ pending \in Seq(Keys)
    BY DEF Typed, TypeOK, Queued, Range
  <2>2. NoRepeats(pending)
    BY DEF Exclusive, QueueMatchesTasks, NoRepeats
  <2> QED BY <2>1, <2>2
<1>k. \A w \in Workers : phase[w] \in Holding => job[w].key \in Keys
  BY DEF Typed, JobShape
<1>1. ASSUME NEW r \in Requests, NEW k \in Keys, NEW c \in Calls, Merge(r, k, c)
      PROVE  Exclusive'
  <2>1. \A x \in Keys : tasks'[x].state = tasks[x].state
    BY <1>1, JoinType DEF Merge, Typed, TypeOK
  <2> QED BY <1>1, <2>1, ExclusiveSame DEF Merge
<1>2. ASSUME NEW r \in Requests, NEW k \in Keys, NEW c \in Calls, Push(r, k, c)
      PROVE  Exclusive'
  <2>1. [NoEntry EXCEPT !.state = "pending"] \in Entry
    BY DEF NoEntry, Entry
  <2>2. \A x \in Keys : tasks'[x].state = IF x = k THEN "pending" ELSE tasks[x].state
    BY <1>2, <2>1, JoinType DEF Push, Typed, TypeOK, NoEntry
  <2>3. k \notin Queued
    BY <1>2 DEF Push, Exclusive, QueueMatchesTasks
  <2>4. \A w \in Workers : phase[w] \in Holding => job[w].key # k
    BY <1>2 DEF Push, Exclusive, HeldEntry
  <2>5. Queued' = Queued \cup {k} /\ NoRepeats(pending')
    BY <1>2, <1>q, <2>3, PushedQueue DEF Push, Queued
  <2>6. phase' = phase /\ job' = job
    BY <1>2 DEF Push
  <2>7. QueueMatchesTasks'
    <3>1. \A x \in Queued' :
            /\ tasks'[x].state = "pending"
            /\ \A w \in Workers : phase'[w] \in Holding => job'[w].key # x
      BY <1>q, <2>2, <2>4, <2>5, <2>6 DEF Exclusive, QueueMatchesTasks
    <3>2. \A x \in Keys : tasks'[x].state = "running" =>
            \E w \in Workers : phase'[w] \in Holding \ {"start"} /\ job'[w].key = x
      BY <2>2, <2>6 DEF Exclusive, QueueMatchesTasks
    <3> QED BY <2>5, <3>1, <3>2 DEF QueueMatchesTasks, NoRepeats
  <2>8. OneRunPerKey'
    BY <2>6 DEF Exclusive, OneRunPerKey
  <2>9. HeldEntry'
    BY <1>k, <2>2, <2>4, <2>6 DEF Exclusive, HeldEntry, Holding
  <2> QED BY <2>7, <2>8, <2>9 DEF Exclusive
<1>3. ASSUME NEW r \in Requests, Notify(r) \/ Cancel(r) \/ Return(r) PROVE Exclusive'
  <2>1. /\ tasks' = tasks /\ pending' = pending /\ job' = job
        /\ \/ phase' = phase
           \/ \E w \in Workers : phase[w] = "parked" /\ phase' = [phase EXCEPT ![w] = "poll"]
    BY <1>3 DEF Notify, Cancel, Return
  <2>2. \A w \in Workers : phase'[w] = phase[w]
          \/ (phase[w] = "parked" /\ phase'[w] = "poll")
    BY <2>1 DEF Typed, TypeOK
  <2> QED BY <2>1, <2>2, ExclusiveSame DEF Holding
<1>4. ASSUME NEW w \in Workers, Take(w) PROVE Exclusive'
  <2> DEFINE k == Head(pending)
  <2>1. /\ k \in Keys /\ k \in Queued
        /\ NoRepeats(pending') /\ Queued' = Queued \ {k}
    BY <1>4, <1>q, PoppedQueue DEF Take, Queued
  <2>2. /\ phase' = [phase EXCEPT ![w] = "start"] /\ phase[w] = "poll"
        /\ job' = [job EXCEPT ![w].key = k]
        /\ tasks' = tasks
    BY <1>4 DEF Take, Goto
  <2>3. phase'[w] = "start" /\ job'[w].key = k
    BY <2>2 DEF Typed, TypeOK, Job
  <2>4. \A v \in Workers \ {w} : phase'[v] = phase[v] /\ job'[v] = job[v]
    BY <2>2 DEF Typed, TypeOK
  <2>5. tasks[k].state = "pending" /\ \A v \in Workers : phase[v] \in Holding => job[v].key # k
    BY <2>1 DEF Exclusive, QueueMatchesTasks
  <2>6. OneRunPerKey'
    BY <2>3, <2>4, <2>5 DEF Exclusive, OneRunPerKey
  <2>7. HeldEntry'
    BY <2>2, <2>3, <2>4, <2>5 DEF Exclusive, HeldEntry
  <2>8. QueueMatchesTasks'
    <3>1. \A x \in Queued' :
            /\ tasks'[x].state = "pending"
            /\ \A v \in Workers : phase'[v] \in Holding => job'[v].key # x
      BY <2>1, <2>2, <2>3, <2>4 DEF Exclusive, QueueMatchesTasks
    <3>2. ASSUME NEW x \in Keys, tasks'[x].state = "running"
          PROVE  \E v \in Workers : phase'[v] \in Holding \ {"start"} /\ job'[v].key = x
      <4>1. PICK v \in Workers : phase[v] \in Holding \ {"start"} /\ job[v].key = x
        BY <2>2, <3>2 DEF Exclusive, QueueMatchesTasks
      <4>2. v # w
        BY <2>2, <4>1 DEF Holding
      <4> QED BY <2>4, <4>1, <4>2
    <3> QED BY <2>1, <3>1, <3>2 DEF QueueMatchesTasks, NoRepeats
  <2> QED BY <2>6, <2>7, <2>8 DEF Exclusive
<1>5. ASSUME NEW w \in Workers, SeeEmpty(w) \/ Park(w) PROVE Exclusive'
  <2>1. /\ tasks' = tasks /\ pending' = pending /\ job' = job
        /\ phase[w] \in {"poll", "toPark"}
        /\ \E p \in {"toPark", "poll", "parked"} : phase' = [phase EXCEPT ![w] = p]
    BY <1>5 DEF SeeEmpty, Park, Goto
  <2>2. \A v \in Workers : phase'[v] = phase[v]
              \/ (phase[v] \notin Holding /\ phase'[v] \notin Holding)
    BY <2>1 DEF Typed, TypeOK, Holding
  <2> QED BY <2>1, <2>2, ExclusiveSame
<1>6. ASSUME NEW w \in Workers, Start(w) PROVE Exclusive'
  <2> DEFINE k == job[w].key
  <2>1. /\ phase' = [phase EXCEPT ![w] = "begin"] /\ phase[w] = "start"
        /\ tasks' = [tasks EXCEPT ![k].state = "running"]
        /\ job' = job /\ pending' = pending
    BY <1>6 DEF Start, Goto
  <2>2. k \in Keys
    BY <1>k, <2>1 DEF Holding
  <2>3. \A x \in Keys : tasks'[x].state = IF x = k THEN "running" ELSE tasks[x].state
    BY <2>1, <2>2 DEF Typed, TypeOK, Entry
  <2>4. /\ phase'[w] = "begin"
        /\ \A v \in Workers \ {w} : phase'[v] = phase[v]
        /\ \A v \in Workers : phase'[v] \in Holding => phase[v] \in Holding
    BY <2>1 DEF Typed, TypeOK, Holding
  <2>5. Queued' = Queued /\ k \notin Queued
    BY <2>1 DEF Queued, Exclusive, QueueMatchesTasks, Holding
  <2>6. OneRunPerKey'
    BY <2>1, <2>4 DEF Exclusive, OneRunPerKey
  <2>7. HeldEntry'
    <3>1. ASSUME NEW v \in Workers \ {w}, phase'[v] \in Holding
          PROVE  tasks'[job'[v].key].state = tasks[job[v].key].state
      <4>1. job[v].key # k
        BY <2>1, <2>4, <3>1 DEF Exclusive, OneRunPerKey, Holding
      <4> QED BY <1>k, <2>1, <2>3, <2>4, <3>1, <4>1
    <3>2. tasks'[job'[w].key].state = "running"
      BY <2>1, <2>2, <2>3
    <3> QED BY <2>4, <3>1, <3>2 DEF Exclusive, HeldEntry, Holding
  <2>8. QueueMatchesTasks'
    <3>1. \A x \in Queued' :
            /\ tasks'[x].state = "pending"
            /\ \A v \in Workers : phase'[v] \in Holding => job'[v].key # x
      BY <1>q, <2>1, <2>3, <2>4, <2>5 DEF Exclusive, QueueMatchesTasks
    <3>2. ASSUME NEW x \in Keys, tasks'[x].state = "running"
          PROVE  \E v \in Workers : phase'[v] \in Holding \ {"start"} /\ job'[v].key = x
      <4>1. CASE x = k
        BY <2>1, <2>4, <4>1 DEF Holding
      <4>2. CASE x # k
        <5>1. PICK v \in Workers : phase[v] \in Holding \ {"start"} /\ job[v].key = x
          BY <2>3, <3>2, <4>2 DEF Exclusive, QueueMatchesTasks
        <5>2. v # w
          BY <2>1, <5>1
        <5> QED BY <2>1, <2>4, <5>1, <5>2
      <4> QED BY <4>1, <4>2
    <3> QED BY <2>1, <3>1, <3>2 DEF QueueMatchesTasks, Exclusive
  <2> QED BY <2>6, <2>7, <2>8 DEF Exclusive
<1>7. ASSUME NEW w \in Workers, StartFails(w) PROVE Exclusive'
  <2>1. /\ phase' = [phase EXCEPT ![w] = "poll"] /\ phase[w] = "start"
        /\ tasks' = tasks /\ pending' = pending
        /\ job' = [job EXCEPT ![w] = NoJob]
    BY <1>7 DEF StartFails, Goto
  <2>2. /\ phase'[w] = "poll"
        /\ \A v \in Workers \ {w} : phase'[v] = phase[v] /\ job'[v] = job[v]
    BY <2>1 DEF Typed, TypeOK
  <2>3. Queued' = Queued
    BY <2>1 DEF Queued
  <2>4. OneRunPerKey'
    BY <2>2 DEF Exclusive, OneRunPerKey, Holding
  <2>5. HeldEntry'
    BY <2>1, <2>2 DEF Exclusive, HeldEntry, Holding
  <2>6. QueueMatchesTasks'
    <3>1. \A x \in Queued' :
            /\ tasks'[x].state = "pending"
            /\ \A v \in Workers : phase'[v] \in Holding => job'[v].key # x
      BY <2>1, <2>2, <2>3 DEF Exclusive, QueueMatchesTasks, Holding
    <3>2. ASSUME NEW x \in Keys, tasks'[x].state = "running"
          PROVE  \E v \in Workers : phase'[v] \in Holding \ {"start"} /\ job'[v].key = x
      <4>1. PICK v \in Workers : phase[v] \in Holding \ {"start"} /\ job[v].key = x
        BY <2>1, <3>2 DEF Exclusive, QueueMatchesTasks
      <4>2. v # w
        BY <2>1, <4>1
      <4> QED BY <2>2, <4>1, <4>2
    <3> QED BY <2>1, <3>1, <3>2 DEF QueueMatchesTasks, Exclusive
  <2> QED BY <2>4, <2>5, <2>6 DEF Exclusive
<1>8. ASSUME NEW w \in Workers, phase[w] \in Holding \ {"start"}, phase'[w] \in Holding \ {"start"},
             tasks' = tasks, pending' = pending,
             \A v \in Workers \ {w} : phase'[v] = phase[v] /\ job'[v] = job[v],
             job'[w].key = job[w].key
      PROVE  Exclusive'
  BY <1>8, ExclusiveSame
<1>9. ASSUME NEW w \in Workers,
             ServeFromCache(w) \/ GoUpstream(w) \/ FetchApplied(w) \/ FetchFailed(w)
      PROVE  Exclusive'
  <2>1. /\ tasks' = tasks /\ pending' = pending
        /\ phase[w] \in {"begin", "fetch"}
        /\ \E p \in {"hit", "fetch", "ran"} : phase' = [phase EXCEPT ![w] = p]
        /\ job' = job \/ \E a \in {"fetch", "error"} : job' = [job EXCEPT ![w].result = a]
    BY <1>9 DEF ServeFromCache, GoUpstream, FetchApplied, FetchFailed, Goto
  <2>2. /\ phase'[w] \in Holding \ {"start"} /\ job'[w].key = job[w].key
        /\ \A v \in Workers \ {w} : phase'[v] = phase[v] /\ job'[v] = job[v]
    BY <2>1 DEF Typed, TypeOK, Job, Holding
  <2> QED BY <1>8, <2>1, <2>2 DEF Holding
<1>10. ASSUME NEW w \in Workers, NEW result, phase[w] \in Holding \ {"start"},
              SealWith(w, result), UNCHANGED <<pending, permit, req, age>>
       PROVE  Exclusive'
  <2> DEFINE k == job[w].key
  <2>1. /\ phase' = [phase EXCEPT ![w] = "publish"]
        /\ tasks' = [tasks EXCEPT ![k] = NoEntry]
        /\ job' = [job EXCEPT ![w].joiners = tasks[k].joiners, ![w].result = result]
        /\ pending' = pending
    BY <1>10 DEF SealWith, Goto
  <2>2. k \in Keys
    BY <1>10, <1>k
  <2>3. /\ phase'[w] = "publish"
        /\ \A v \in Workers \ {w} : phase'[v] = phase[v] /\ job'[v] = job[v]
    BY <2>1 DEF Typed, TypeOK
  <2>4. \A x \in Keys : tasks'[x].state = IF x = k THEN "none" ELSE tasks[x].state
    BY <2>1 DEF Typed, TypeOK, NoEntry
  <2>5. Queued' = Queued /\ k \notin Queued
    BY <1>10, <2>1 DEF Queued, Exclusive, QueueMatchesTasks
  <2>6. \A v \in Workers \ {w} : phase'[v] \in Holding => job'[v].key # k
    BY <1>10, <2>3 DEF Exclusive, OneRunPerKey
  <2>7. OneRunPerKey'
    BY <2>3 DEF Exclusive, OneRunPerKey, Holding
  <2>8. HeldEntry'
    BY <1>k, <2>3, <2>4, <2>6 DEF Exclusive, HeldEntry, Holding
  <2>9. QueueMatchesTasks'
    <3>1. \A x \in Queued' :
            /\ tasks'[x].state = "pending"
            /\ \A v \in Workers : phase'[v] \in Holding => job'[v].key # x
      BY <1>q, <2>3, <2>4, <2>5 DEF Exclusive, QueueMatchesTasks, Holding
    <3>2. ASSUME NEW x \in Keys, tasks'[x].state = "running"
          PROVE  \E v \in Workers : phase'[v] \in Holding \ {"start"} /\ job'[v].key = x
      <4>1. x # k /\ tasks[x].state = "running"
        BY <2>4, <3>2
      <4>2. PICK v \in Workers : phase[v] \in Holding \ {"start"} /\ job[v].key = x
        BY <4>1 DEF Exclusive, QueueMatchesTasks
      <4>3. v # w
        BY <4>1, <4>2
      <4> QED BY <2>3, <4>2, <4>3
    <3> QED BY <2>1, <3>1, <3>2 DEF QueueMatchesTasks, Exclusive
  <2> QED BY <2>7, <2>8, <2>9 DEF Exclusive
<1>11. ASSUME NEW w \in Workers, CompleteCacheHit(w) \/ Seal(w) PROVE Exclusive'
  <2>1. phase[w] \in Holding \ {"start"}
    BY <1>11 DEF CompleteCacheHit, Seal, Holding
  <2>2. CASE \E result : SealWith(w, result) /\ UNCHANGED <<pending, permit, req, age>>
    BY <1>10, <2>1, <2>2
  <2>3. CASE Goto(w, "begin") /\ UNCHANGED <<tasks, job, pending>>
    BY <1>8, <2>1, <2>3 DEF Goto, Typed, TypeOK, Holding
  <2> QED BY <1>11, <2>2, <2>3 DEF CompleteCacheHit, Seal
<1>12. ASSUME NEW w \in Workers, Finish(w) PROVE Exclusive'
  <2>1. /\ tasks' = tasks /\ pending' = pending
        /\ phase[w] = "publish" /\ phase'[w] = "poll"
        /\ \A v \in Workers \ {w} : phase'[v] = phase[v] /\ job'[v] = job[v]
    BY <1>12 DEF Finish, Goto, Typed, TypeOK
  <2> QED BY <2>1, ExclusiveSame DEF Holding
<1>13. CASE (\E k \in Keys : Prefetch(k) \/ Grow(k)) \/ UNCHANGED vars
  <2>1. tasks' = tasks /\ pending' = pending /\ job' = job /\ phase' = phase
    BY <1>13 DEF Prefetch, Grow, vars
  <2> QED BY <2>1, ExclusiveSame
<1> QED
  BY <1>1, <1>2, <1>3, <1>4, <1>5, <1>6, <1>7, <1>9, <1>11, <1>12, <1>13
     DEF Next, CallerStep, WorkerStep

LEMMA ExclusiveInvariant == Spec => []Exclusive
<1>1. Init => Exclusive
  BY ExclusiveInit
<1>2. Typed /\ Typed' /\ Exclusive /\ [Next]_vars => Exclusive'
  BY ExclusiveStep
<1> QED BY <1>1, <1>2, TypedInvariant, PTL DEF Spec

\* No key is ever in the hands of two workers between pop_front and the
\* removal of its entry (worker_loop, seal_task_for_completion).
THEOREM RunsAreExclusive == Spec => []OneRunPerKey
<1>1. Exclusive => OneRunPerKey
  BY DEF Exclusive
<1> QED BY <1>1, ExclusiveInvariant, PTL

\* RuntimeState.pending and RuntimeState.tasks never disagree about which keys
\* wait and which run (enqueue, start_task, remove_task_completion).
THEOREM QueueAgrees == Spec => []QueueMatchesTasks
<1>1. Exclusive => QueueMatchesTasks
  BY DEF Exclusive
<1> QED BY <1>1, ExclusiveInvariant, PTL

-----------------------------------------------------------------------------
(***************************************************************************)
(* Layer 3: where the sender of each call is.  Accounted says of single    *)
(* senders what NoCallerForgotten says of sets of them.                    *)
(***************************************************************************)
Accounted ==
  /\ \A r \in Requests, k \in Keys : r \in tasks[k].joiners =>
       /\ Owed(r)
       /\ req[r].key = k
       /\ \A w \in Workers : r \notin job[w].joiners
  /\ \A r \in Requests, w \in Workers : r \in job[w].joiners =>
       /\ Owed(r)
       /\ \A v \in Workers : r \in job[v].joiners => v = w
  /\ \A r \in Requests : Owed(r) =>
       \/ \E k \in Keys : r \in tasks[k].joiners
       \/ \E w \in Workers : r \in job[w].joiners

LEMMA AccountedForgetsNone == Accounted => NoCallerForgotten
<1> SUFFICES ASSUME Accounted, NEW r \in Requests
             PROVE  IF Owed(r)
                    THEN \/ Entries(r) = {req[r].key} /\ Batches(r) = {}
                         \/ Entries(r) = {} /\ \E w \in Workers : Batches(r) = {w}
                    ELSE Entries(r) = {} /\ Batches(r) = {}
  BY DEF NoCallerForgotten
<1>1. CASE ~Owed(r)
  BY <1>1 DEF Accounted, Entries, Batches
<1>2. ASSUME Owed(r), NEW k \in Keys, r \in tasks[k].joiners
      PROVE  Entries(r) = {req[r].key} /\ Batches(r) = {}
  BY <1>2 DEF Accounted, Entries, Batches
<1>3. ASSUME Owed(r), NEW w \in Workers, r \in job[w].joiners
      PROVE  Entries(r) = {} /\ Batches(r) = {w}
  BY <1>3 DEF Accounted, Entries, Batches
<1>4. CASE Owed(r)
  BY <1>2, <1>3, <1>4 DEF Accounted
<1> QED BY <1>1, <1>4

\* An answer settles a call, and a call that is given none stays as it is.
LEMMA DeliverSettles ==
  ASSUME NEW q \in Request, NEW a \in Answers
  PROVE  /\ a = "none" => Deliver(q, a) = q
         /\ a # "none" => ~(Deliver(q, a).phase \in Joined /\ Deliver(q, a).answer = "none")
<1>1. a = "none" => Deliver(q, a) = q
  BY DEF Deliver
<1>2. ASSUME a # "none", q.phase \in {"lost", "gone"}
      PROVE  Deliver(q, a).phase \notin Joined
  BY <1>2 DEF Deliver, NoRequest, Joined
<1>3. ASSUME a # "none", q.phase = "waiting"
      PROVE  Deliver(q, a).phase \notin Joined
  BY <1>3 DEF Deliver, Request, Joined
<1>4. ASSUME a # "none", q.phase \notin {"lost", "gone", "waiting"}
      PROVE  Deliver(q, a).answer = a
  BY <1>4 DEF Deliver, Request
<1> QED BY <1>1, <1>2, <1>3, <1>4

\* A caller that goes on or is dropped is owed what it was owed before.
LEMMA MovedOwes ==
  ASSUME TypeOK, NEW r \in Requests, req[r].phase \in Joined,
         NEW moved \in {Returned(req[r]), Dropped(req[r])},
         req' = [req EXCEPT ![r] = Deliver(moved, req[r].answer)]
  PROVE  /\ Owed(r)' <=> Owed(r)
         /\ Owed(r) => /\ req'[r] = moved
                       /\ req'[r].key = req[r].key
                       /\ req'[r].force = req[r].force
         /\ \A x \in Requests \ {r} : req'[x] = req[x]
<1>1. req[r] \in Request /\ req[r].answer \in Answers
  BY DEF TypeOK, Request
<1>2. req'[r] = Deliver(moved, req[r].answer) /\ \A x \in Requests \ {r} : req'[x] = req[x]
  BY DEF TypeOK
<1>3. /\ moved \in Request
      /\ moved.phase \in Joined
      /\ moved.answer = req[r].answer
      /\ moved.key = req[r].key
      /\ moved.force = req[r].force
  <2>1. CASE moved = Returned(req[r])
    BY <1>1, <2>1 DEF Returned, AfterEnqueue, Request, RequestPhases, Joined
  <2>2. CASE moved = Dropped(req[r])
    BY <1>1, <2>2 DEF Dropped, Request, RequestPhases, Joined
  <2> QED BY <2>1, <2>2
<1>4. CASE req[r].answer = "none"
  <2>1. req'[r] = moved
    BY <1>1, <1>2, <1>3, <1>4, DeliverSettles
  <2> QED BY <1>2, <1>3, <1>4, <2>1 DEF Owed
<1>5. CASE req[r].answer # "none"
  <2>1. ~(req'[r].phase \in Joined /\ req'[r].answer = "none")
    BY <1>1, <1>2, <1>3, <1>5, DeliverSettles
  <2> QED BY <1>2, <1>5, <2>1 DEF Owed
<1> QED BY <1>4, <1>5

\* An entry has senders exactly while it exists, and so has the batch of a
\* worker that is to answer them.
Populated ==
  /\ \A k \in Keys : tasks[k].state = "none" => tasks[k] = NoEntry
  /\ \A k \in Keys : tasks[k].state # "none" => tasks[k].joiners # {}
  /\ \A w \in Workers : phase[w] = "publish" => job[w].joiners # {}

\* What a cache hit may answer: the entry remembers that one of its callers
\* asked for a real fetch, and the batch of a cache hit has no such caller.
ForceKept ==
  /\ \A k \in Keys : \A r \in tasks[k].joiners : req[r].force => tasks[k].force
  /\ \A w \in Workers : \A r \in job[w].joiners : job[w].result = "cache" => ~req[r].force
  /\ ForcedCallGetsFetch

Answering == Accounted /\ Populated /\ ForceKept

LEMMA AnsweringInit == Init => Answering
<1> SUFFICES ASSUME Init PROVE Answering
  OBVIOUS
<1>1. /\ \A k \in Keys : tasks[k] = NoEntry
      /\ \A w \in Workers : job[w] = NoJob /\ phase[w] = "poll"
      /\ \A r \in Requests : req[r] = NoRequest /\ ~Owed(r)
  BY DEF Init, Owed, NoRequest, Joined
<1>2. Accounted
  BY <1>1 DEF Accounted, NoEntry, NoJob
<1>3. Populated
  BY <1>1 DEF Populated, NoEntry
<1>4. ForceKept
  BY <1>1 DEF ForceKept, NoEntry, NoJob, NoRequest, ForcedCallGetsFetch
<1> QED BY <1>2, <1>3, <1>4 DEF Answering

\* A step that neither joins, seals nor answers keeps the layer.
LEMMA AnsweringSame ==
  ASSUME Typed, Answering,
         \A k \in Keys : /\ tasks'[k].joiners = tasks[k].joiners
                         /\ tasks'[k].force = tasks[k].force
                         /\ \/ tasks'[k] = tasks[k]
                            \/ tasks[k].state # "none" /\ tasks'[k].state # "none",
         \A w \in Workers : /\ job'[w].joiners = job[w].joiners
                            /\ job'[w].result = job[w].result \/ job[w].joiners = {}
                            /\ phase'[w] = "publish" => phase[w] = "publish",
         \A r \in Requests :
            \/ req'[r] = req[r]
            \/ /\ Owed(r)' <=> Owed(r)
               /\ Owed(r) => req'[r].key = req[r].key /\ req'[r].force = req[r].force
               /\ req'[r].force => req'[r].answer # "cache"
  PROVE  Answering'
<1>1. \A r \in Requests : /\ Owed(r)' <=> Owed(r)
                          /\ Owed(r) => req'[r].key = req[r].key /\ req'[r].force = req[r].force
  BY DEF Owed
<1>2. Accounted'
  BY <1>1 DEF Answering, Accounted
<1>3. Populated'
  BY DEF Answering, Populated
<1>4. /\ \A k \in Keys : \A r \in tasks[k].joiners : r \in Requests /\ Owed(r)
      /\ \A w \in Workers : \A r \in job[w].joiners : r \in Requests /\ Owed(r)
  <2>1. /\ \A k \in Keys : tasks[k].joiners \subseteq Requests
        /\ \A w \in Workers : job[w].joiners \subseteq Requests
    BY DEF Typed, TypeOK, Entry, Job
  <2> QED BY <2>1 DEF Answering, Accounted
<1>5. ForceKept'
  <2>1. \A k \in Keys : \A r \in tasks'[k].joiners : req'[r].force => tasks'[k].force
    BY <1>1, <1>4 DEF Answering, ForceKept
  <2>2. \A w \in Workers : \A r \in job'[w].joiners : job'[w].result = "cache" => ~req'[r].force
    BY <1>1, <1>4 DEF Answering, ForceKept
  <2>3. ForcedCallGetsFetch'
    BY DEF Answering, ForceKept, ForcedCallGetsFetch
  <2> QED BY <2>1, <2>2, <2>3 DEF ForceKept
<1> QED BY <1>2, <1>3, <1>5 DEF Answering

\* A call that joins an entry.
LEMMA AnsweringJoin ==
  ASSUME Typed, Typed', Answering, job' = job, phase' = phase,
         NEW r \in Requests, NEW k \in Keys, NEW c \in Calls, NEW e \in Entry, NEW ph \in Joined,
         req[r].phase = "idle", Record(r, k, c, ph),
         e.joiners = tasks[k].joiners, e.force = tasks[k].force, e.state # "none",
         tasks' = [tasks EXCEPT ![k] = Join(e, r, c)]
  PROVE  Answering'
<1>1. /\ tasks'[k] = Join(e, r, c)
      /\ \A x \in Keys \ {k} : tasks'[x] = tasks[x]
  BY DEF Typed, TypeOK
<1>2. /\ tasks'[k].joiners = tasks[k].joiners \cup {r}
      /\ tasks'[k].force = (tasks[k].force \/ c.force)
      /\ tasks'[k].state # "none"
  BY <1>1, JoinType
<1>3. /\ req'[r].key = k /\ req'[r].force = c.force /\ req'[r].phase = ph
      /\ req'[r].answer = "none"
      /\ \A x \in Requests \ {r} : req'[x] = req[x]
  BY DEF Record, Typed, TypeOK
<1>4. Owed(r)' /\ ~Owed(r) /\ \A x \in Requests \ {r} : Owed(x)' <=> Owed(x)
  BY <1>3 DEF Owed, Joined
<1>5. /\ \A x \in Keys : r \notin tasks[x].joiners
      /\ \A w \in Workers : r \notin job[w].joiners
  BY <1>4 DEF Answering, Accounted
<1>6. /\ \A x \in Keys : tasks[x].joiners \subseteq Requests
      /\ \A w \in Workers : job[w].joiners \subseteq Requests
  BY DEF Typed, TypeOK, Entry, Job
<1>7. Accounted'
  <2>1. ASSUME NEW x \in Requests, NEW y \in Keys, x \in tasks'[y].joiners
        PROVE  /\ Owed(x)'
               /\ req'[x].key = y
               /\ \A w \in Workers : x \notin job'[w].joiners
    <3>1. CASE x = r
      BY <1>1, <1>2, <1>3, <1>4, <1>5, <2>1, <3>1
    <3>2. CASE x # r
      BY <1>1, <1>2, <1>3, <1>4, <2>1, <3>2 DEF Answering, Accounted
    <3> QED BY <3>1, <3>2
  <2>2. ASSUME NEW x \in Requests, NEW w \in Workers, x \in job'[w].joiners
        PROVE  Owed(x)' /\ \A v \in Workers : x \in job'[v].joiners => v = w
    BY <1>4, <1>5, <2>2 DEF Answering, Accounted
  <2>3. ASSUME NEW x \in Requests, Owed(x)'
        PROVE  \/ \E y \in Keys : x \in tasks'[y].joiners
               \/ \E w \in Workers : x \in job'[w].joiners
    <3>1. CASE x = r
      BY <1>2, <3>1
    <3>2. CASE x # r
      BY <1>1, <1>2, <1>4, <2>3, <3>2 DEF Answering, Accounted
    <3> QED BY <3>1, <3>2
  <2> QED BY <2>1, <2>2, <2>3 DEF Accounted
<1>8. Populated'
  BY <1>1, <1>2 DEF Answering, Populated
<1>9. ForceKept'
  <2>1. ASSUME NEW x \in Keys, NEW y \in tasks'[x].joiners, req'[y].force
        PROVE  tasks'[x].force
    <3>1. CASE x = k /\ y = r
      <4>1. c.force
        BY <1>3, <2>1, <3>1
      <4> QED BY <1>2, <3>1, <4>1
    <3>2. CASE x = k /\ y # r
      <4>1. y \in tasks[k].joiners /\ y \in Requests \ {r}
        BY <1>2, <1>6, <2>1, <3>2
      <4>2. tasks[k].force
        BY <1>3, <2>1, <4>1 DEF Answering, ForceKept
      <4> QED BY <1>2, <3>2, <4>2
    <3>3. CASE x # k
      <4>1. tasks'[x] = tasks[x] /\ y \in tasks[x].joiners
        BY <1>1, <2>1, <3>3
      <4>2. y \in Requests \ {r}
        BY <1>5, <1>6, <4>1
      <4> QED BY <1>3, <2>1, <4>1, <4>2 DEF Answering, ForceKept
    <3> QED BY <3>1, <3>2, <3>3
  <2>2. \A w \in Workers : \A y \in job'[w].joiners : job'[w].result = "cache" => ~req'[y].force
    BY <1>3, <1>5, <1>6 DEF Answering, ForceKept
  <2>3. ForcedCallGetsFetch'
    BY <1>3 DEF Answering, ForceKept, ForcedCallGetsFetch
  <2> QED BY <2>1, <2>2, <2>3 DEF ForceKept
<1> QED BY <1>7, <1>8, <1>9 DEF Answering

\* A worker that removes the entry of its key and takes the senders.
LEMMA AnsweringSeal ==
  ASSUME Typed, Typed', Exclusive, Answering,
         NEW w \in Workers, NEW result \in Answers,
         phase[w] \in Holding \ {"start"}, SealWith(w, result), req' = req,
         result = "cache" => ~tasks[job[w].key].force
  PROVE  Answering'
<1> DEFINE k == job[w].key
           J == tasks[k].joiners
<1>1. k \in Keys /\ job[w].joiners = {}
  BY DEF Typed, JobShape
<1>2. /\ tasks'[k] = NoEntry
      /\ \A x \in Keys \ {k} : tasks'[x] = tasks[x]
      /\ job'[w].joiners = J /\ job'[w].result = result
      /\ \A v \in Workers \ {w} : job'[v] = job[v] /\ phase'[v] = phase[v]
  BY <1>1 DEF SealWith, Goto, Typed, TypeOK, Job
<1>3. tasks[k].state = "running" /\ J # {}
  BY <1>1 DEF Exclusive, HeldEntry, Answering, Populated
<1>4. \A r \in Requests : Owed(r)' <=> Owed(r)
  BY DEF Owed
<1>5. tasks'[k].joiners = {} /\ J \subseteq Requests
  BY <1>1, <1>2 DEF NoEntry, Typed, TypeOK, Entry
<1> HIDE DEF k, J
<1>6. Accounted'
  <2>1. ASSUME NEW r \in Requests, NEW x \in Keys, r \in tasks'[x].joiners
        PROVE  /\ Owed(r)'
               /\ req'[r].key = x
               /\ \A v \in Workers : r \notin job'[v].joiners
    <3>1. x # k /\ r \in tasks[x].joiners
      BY <1>2, <1>5, <2>1
    <3>2. Owed(r) /\ req[r].key = x /\ \A v \in Workers : r \notin job[v].joiners
      BY <3>1 DEF Answering, Accounted
    <3>3. r \notin J
      BY <1>1, <3>1, <3>2 DEF Answering, Accounted, J
    <3> QED BY <1>2, <1>4, <3>2, <3>3
  <2>2. ASSUME NEW r \in Requests, NEW v \in Workers, r \in job'[v].joiners
        PROVE  Owed(r)' /\ \A u \in Workers : r \in job'[u].joiners => u = v
    <3>1. CASE v = w
      <4>1. Owed(r) /\ \A u \in Workers : r \notin job[u].joiners
        BY <1>1, <1>2, <2>2, <3>1 DEF Answering, Accounted, J
      <4> QED BY <1>2, <1>4, <3>1, <4>1
    <3>2. CASE v # w
      <4>1. r \in job[v].joiners
        BY <1>2, <2>2, <3>2
      <4>2. Owed(r) /\ \A u \in Workers : r \in job[u].joiners => u = v
        BY <4>1 DEF Answering, Accounted
      <4>3. r \notin J
        BY <1>1, <4>1 DEF Answering, Accounted, J
      <4> QED BY <1>2, <1>4, <4>2, <4>3
    <3> QED BY <3>1, <3>2
  <2>3. ASSUME NEW r \in Requests, Owed(r)'
        PROVE  \/ \E x \in Keys : r \in tasks'[x].joiners
               \/ \E v \in Workers : r \in job'[v].joiners
    <3>1. CASE \E x \in Keys : r \in tasks[x].joiners
      BY <1>2, <3>1 DEF J
    <3>2. CASE \E v \in Workers : r \in job[v].joiners
      BY <1>1, <1>2, <3>2
    <3> QED BY <1>4, <2>3, <3>1, <3>2 DEF Answering, Accounted
  <2> QED BY <2>1, <2>2, <2>3 DEF Accounted
<1>7. Populated'
  <2>1. \A x \in Keys : /\ tasks'[x].state = "none" => tasks'[x] = NoEntry
                        /\ tasks'[x].state # "none" => tasks'[x].joiners # {}
    BY <1>2 DEF NoEntry, Answering, Populated
  <2>2. \A v \in Workers : phase'[v] = "publish" => job'[v].joiners # {}
    BY <1>2, <1>3 DEF Answering, Populated
  <2> QED BY <2>1, <2>2 DEF Populated
<1>8. ForceKept'
  <2>1. \A x \in Keys : \A y \in tasks'[x].joiners : req'[y].force => tasks'[x].force
    BY <1>2, <1>5 DEF Answering, ForceKept
  <2>2. ASSUME NEW v \in Workers, NEW y \in job'[v].joiners, job'[v].result = "cache"
        PROVE  ~req'[y].force
    <3>1. CASE v = w
      <4>1. y \in tasks[k].joiners /\ ~tasks[k].force
        BY <1>2, <2>2, <3>1 DEF J, k
      <4> QED BY <1>1, <4>1 DEF Answering, ForceKept
    <3>2. CASE v # w
      BY <1>2, <2>2, <3>2 DEF Answering, ForceKept
    <3> QED BY <3>1, <3>2
  <2>3. ForcedCallGetsFetch'
    BY DEF Answering, ForceKept, ForcedCallGetsFetch
  <2> QED BY <2>1, <2>2, <2>3 DEF ForceKept
<1> QED BY <1>6, <1>7, <1>8 DEF Answering

\* A worker that answers the senders of its batch.
LEMMA AnsweringFinish ==
  ASSUME Typed, Typed', Answering, NEW w \in Workers, Finish(w)
  PROVE  Answering'
<1>1. /\ tasks' = tasks
      /\ job'[w] = NoJob /\ phase'[w] = "poll"
      /\ \A v \in Workers \ {w} : job'[v] = job[v] /\ phase'[v] = phase[v]
      /\ \A r \in Requests : req'[r] = IF r \in job[w].joiners
                                       THEN Deliver(req[r], job[w].result) ELSE req[r]
  BY DEF Finish, Goto, Typed, TypeOK
<1>2. job[w].result \in Answers \ {"none"}
  BY DEF Finish, Typed, TypeOK, JobShape, Job
<1>3. \A r \in Requests :
        IF r \in job[w].joiners THEN ~Owed(r)' ELSE req'[r] = req[r] /\ (Owed(r)' <=> Owed(r))
  <2>1. ASSUME NEW r \in Requests, r \in job[w].joiners PROVE ~Owed(r)'
    <3>1. req[r] \in Request
      BY DEF Typed, TypeOK
    <3> QED BY <1>1, <1>2, <2>1, <3>1, DeliverSettles DEF Owed
  <2>2. ASSUME NEW r \in Requests, r \notin job[w].joiners
        PROVE  req'[r] = req[r] /\ (Owed(r)' <=> Owed(r))
    BY <1>1, <2>2 DEF Owed
  <2> QED BY <2>1, <2>2
<1>4. /\ job'[w].joiners = {} /\ job'[w].result = "none"
      /\ \A k \in Keys : tasks[k].joiners \subseteq Requests
      /\ \A v \in Workers : job[v].joiners \subseteq Requests
  BY <1>1 DEF NoJob, Typed, TypeOK, Entry, Job
<1>5. /\ \A k \in Keys : \A r \in tasks[k].joiners : r \notin job[w].joiners
      /\ \A v \in Workers \ {w} : \A r \in job[v].joiners : r \notin job[w].joiners
  BY <1>4 DEF Answering, Accounted
<1>6. Accounted'
  BY <1>1, <1>3, <1>4, <1>5 DEF Answering, Accounted
<1>7. Populated'
  BY <1>1 DEF Answering, Populated
<1>8. ForceKept'
  <2>1. \A x \in Keys : \A y \in tasks'[x].joiners : req'[y].force => tasks'[x].force
    BY <1>1, <1>3, <1>4, <1>5 DEF Answering, ForceKept
  <2>2. \A v \in Workers : \A y \in job'[v].joiners : job'[v].result = "cache" => ~req'[y].force
    BY <1>1, <1>3, <1>4, <1>5 DEF Answering, ForceKept
  <2>3. ASSUME NEW r \in Requests, req'[r].force PROVE req'[r].answer # "cache"
    <3>1. CASE r \notin job[w].joiners
      BY <1>3, <2>3, <3>1 DEF Answering, ForceKept, ForcedCallGetsFetch
    <3>2. CASE r \in job[w].joiners
      <4>1. req'[r] = Deliver(req[r], job[w].result) /\ req[r] \in Request
        BY <1>1, <3>2 DEF Typed, TypeOK
      <4>2. req'[r] = NoRequest \/ (req'[r].force = req[r].force /\ req'[r].answer = job[w].result)
        BY <1>2, <4>1 DEF Deliver, Request
      <4>3. req[r].force => job[w].result # "cache"
        BY <3>2 DEF Answering, ForceKept
      <4>4. CASE req'[r] = NoRequest
        BY <4>4 DEF NoRequest
      <4>5. CASE req'[r].force = req[r].force /\ req'[r].answer = job[w].result
        <5>1. req[r].force
          BY <2>3, <4>5
        <5> QED BY <4>3, <4>5, <5>1
      <4> QED BY <4>2, <4>4, <4>5
    <3> QED BY <3>1, <3>2
  <2> QED BY <2>1, <2>2, <2>3 DEF ForceKept, ForcedCallGetsFetch
<1> QED BY <1>6, <1>7, <1>8 DEF Answering

LEMMA AnsweringStep ==
  Typed /\ Typed' /\ Exclusive /\ Answering /\ [Next]_vars => Answering'
<1> SUFFICES ASSUME Typed, Typed', Exclusive, Answering, [Next]_vars PROVE Answering'
  OBVIOUS
<1>c. \A r \in Requests : req[r].force => req[r].answer # "cache"
  BY DEF Answering, ForceKept, ForcedCallGetsFetch
<1>1. ASSUME NEW r \in Requests, NEW k \in Keys, NEW c \in Calls, Merge(r, k, c)
      PROVE  Answering'
  <2>1. AfterEnqueue(c.caller) \in Joined
    BY DEF AfterEnqueue, Joined
  <2>2. tasks[k] \in Entry
    BY DEF Typed, TypeOK
  <2>3. tasks' = [tasks EXCEPT ![k] = Join(tasks[k], r, c)]
    BY <1>1 DEF Merge
  <2> QED BY <1>1, <2>1, <2>2, <2>3, AnsweringJoin DEF Merge
<1>2. ASSUME NEW r \in Requests, NEW k \in Keys, NEW c \in Calls, Push(r, k, c)
      PROVE  Answering'
  <2> DEFINE e == [NoEntry EXCEPT !.state = "pending"]
  <2>1. e \in Entry /\ e.joiners = NoEntry.joiners /\ e.force = NoEntry.force /\ e.state # "none"
    BY DEF NoEntry, Entry
  <2>2. tasks[k] = NoEntry
    BY <1>2 DEF Push, Answering, Populated
  <2>3. tasks' = [tasks EXCEPT ![k] = Join(e, r, c)]
    BY <1>2 DEF Push
  <2>4. "posting" \in Joined
    BY DEF Joined
  <2> HIDE DEF e
  <2> QED BY <1>2, <2>1, <2>2, <2>3, <2>4, AnsweringJoin DEF Push
<1>3. ASSUME NEW r \in Requests, Notify(r) \/ Cancel(r) PROVE Answering'
  <2>1. PICK moved \in {Returned(req[r]), Dropped(req[r])} :
          req' = [req EXCEPT ![r] = Deliver(moved, req[r].answer)]
    BY <1>3 DEF Notify, Cancel
  <2>2. req[r].phase \in Joined
    BY <1>3 DEF Notify, Cancel, Joined
  <2>3. /\ Owed(r)' <=> Owed(r)
        /\ Owed(r) => req'[r].key = req[r].key /\ req'[r].force = req[r].force
        /\ \A x \in Requests \ {r} : req'[x] = req[x]
    BY <2>1, <2>2, MovedOwes DEF Typed
  <2>4. /\ tasks' = tasks /\ job' = job
        /\ \A w \in Workers : phase'[w] = "publish" => phase[w] = "publish"
    BY <1>3 DEF Notify, Cancel, Typed, TypeOK
  <2>5. req'[r].force => req'[r].answer # "cache"
    <3>1. req[r] \in Request /\ moved \in Request
      BY <2>1, MovedType DEF Typed, TypeOK
    <3>2. /\ moved.answer = req[r].answer
          /\ moved.force = req[r].force
      BY <2>1, <3>1 DEF Returned, Dropped, Request
    <3>3. req'[r] = Deliver(moved, req[r].answer)
      BY <2>1 DEF Typed, TypeOK
    <3>4. CASE req'[r] = NoRequest
      BY <3>4 DEF NoRequest
    <3>5. CASE req'[r].force = req[r].force /\ req'[r].answer = req[r].answer
      <4>1. req'[r].force => req[r].force
        BY <3>5
      <4> QED BY <1>c, <3>5, <4>1
    <3> QED BY <3>1, <3>2, <3>3, <3>4, <3>5 DEF Deliver, Request
  <2> QED BY <2>3, <2>4, <2>5, AnsweringSame
<1>4. ASSUME NEW r \in Requests, Return(r) PROVE Answering'
  <2>1. /\ tasks' = tasks /\ job' = job /\ phase' = phase
        /\ req'[r] = NoRequest /\ req[r].phase = "answered"
        /\ \A x \in Requests \ {r} : req'[x] = req[x]
    BY <1>4 DEF Return, Typed, TypeOK
  <2>2. ~Owed(r) /\ ~Owed(r)' /\ ~req'[r].force
    BY <2>1 DEF Owed, Joined, NoRequest
  <2> QED BY <2>1, <2>2, AnsweringSame
<1>5. ASSUME NEW w \in Workers,
             \/ Take(w) \/ SeeEmpty(w) \/ Park(w) \/ StartFails(w)
             \/ ServeFromCache(w) \/ GoUpstream(w) \/ FetchApplied(w) \/ FetchFailed(w)
      PROVE  Answering'
  <2>1. /\ tasks' = tasks /\ req' = req
        /\ phase'[w] # "publish"
        /\ \A v \in Workers \ {w} : phase'[v] = phase[v] /\ job'[v] = job[v]
    BY <1>5 DEF Take, SeeEmpty, Park, StartFails, ServeFromCache, GoUpstream, FetchApplied,
                FetchFailed, Goto, Typed, TypeOK
  <2>2. job[w].joiners = {}
    BY <1>5 DEF Take, SeeEmpty, Park, StartFails, ServeFromCache, GoUpstream, FetchApplied,
                FetchFailed, Typed, JobShape, Holding, NoJob
  <2>3. phase'[w] \in WorkerPhases \ {"publish"}
    BY <2>1 DEF Typed, TypeOK
  <2>4. job'[w].joiners = {}
    BY <2>3 DEF Typed, JobShape, Holding, NoJob, WorkerPhases
  <2> QED BY <2>1, <2>2, <2>4, AnsweringSame
<1>6. ASSUME NEW w \in Workers, Start(w) PROVE Answering'
  <2> DEFINE k == job[w].key
  <2>1. k \in Keys
    BY <1>6 DEF Start, Typed, JobShape, Holding
  <2>2. /\ tasks[k].state # "none"
        /\ tasks'[k] = [tasks[k] EXCEPT !.state = "running"]
        /\ \A x \in Keys \ {k} : tasks'[x] = tasks[x]
        /\ job' = job /\ req' = req
        /\ \A v \in Workers : phase'[v] = "publish" => phase[v] = "publish"
    BY <1>6, <2>1 DEF Start, Goto, Typed, TypeOK
  <2>3. tasks[k] \in Entry
    BY <2>1 DEF Typed, TypeOK
  <2>4. /\ tasks'[k].joiners = tasks[k].joiners
        /\ tasks'[k].force = tasks[k].force
        /\ tasks'[k].state # "none"
    BY <2>2, <2>3 DEF Entry
  <2> QED BY <2>2, <2>4, AnsweringSame
<1>7. ASSUME NEW w \in Workers, CompleteCacheHit(w) PROVE Answering'
  <2>1. phase[w] \in Holding \ {"start"} /\ "cache" \in Answers
    BY <1>7 DEF CompleteCacheHit, Holding, Answers
  <2>2. CASE tasks[job[w].key].force
    <3>1. /\ tasks' = tasks /\ job' = job /\ req' = req
          /\ \A v \in Workers : phase'[v] = "publish" => phase[v] = "publish"
      BY <1>7, <2>2 DEF CompleteCacheHit, Goto, Typed, TypeOK
    <3> QED BY <3>1, AnsweringSame
  <2>3. CASE ~tasks[job[w].key].force
    <3>1. SealWith(w, "cache") /\ req' = req
      BY <1>7, <2>3 DEF CompleteCacheHit
    <3> QED BY <2>1, <2>3, <3>1, AnsweringSeal
  <2> QED BY <2>2, <2>3
<1>8. ASSUME NEW w \in Workers, Seal(w) PROVE Answering'
  <2>1. phase[w] \in Holding \ {"start"}
    BY <1>8 DEF Seal, Holding
  <2>2. job[w].result \in Answers /\ job[w].result # "cache"
    BY <1>8 DEF Seal, Typed, JobShape, Answers
  <2> QED BY <1>8, <2>1, <2>2, AnsweringSeal DEF Seal
<1>9. ASSUME NEW w \in Workers, Finish(w) PROVE Answering'
  BY <1>9, AnsweringFinish
<1>10. CASE (\E k \in Keys : Prefetch(k) \/ Grow(k)) \/ UNCHANGED vars
  <2>1. tasks' = tasks /\ job' = job /\ phase' = phase /\ req' = req
    BY <1>10 DEF Prefetch, Grow, vars
  <2> QED BY <2>1, AnsweringSame
<1> QED
  BY <1>1, <1>2, <1>3, <1>4, <1>5, <1>6, <1>7, <1>8, <1>9, <1>10
     DEF Next, CallerStep, WorkerStep

LEMMA AnsweringInvariant == Spec => []Answering
<1>1. Init => Answering
  BY AnsweringInit
<1>2. Typed /\ Typed' /\ Exclusive /\ Answering /\ [Next]_vars => Answering'
  BY AnsweringStep
<1> QED BY <1>1, <1>2, TypedInvariant, ExclusiveInvariant, PTL DEF Spec

\* No caller's sender is lost or doubled by a merge, a retry, a seal or an
\* answer, whatever the interleaving of callers and workers.
THEOREM CallersAreRemembered == Spec => []NoCallerForgotten
<1>1. Answering => NoCallerForgotten
  BY AccountedForgetsNone DEF Answering
<1> QED BY <1>1, AnsweringInvariant, PTL

\* A caller that asked for a real fetch is never answered from the cache,
\* however late it joins (complete_or_retry_cache_hit).
THEOREM ForcedCallsFetch == Spec => []ForcedCallGetsFetch
<1>1. Answering => ForcedCallGetsFetch
  BY DEF Answering, ForceKept
<1> QED BY <1>1, AnsweringInvariant, PTL

-----------------------------------------------------------------------------
(***************************************************************************)
(* Layer 4: who will look at a queued key.  NoLostWakeup is inductive by   *)
(* itself; the other layers say that the senders of a queued key cannot be *)
(* answered, so that a poster stays one until it notifies or is dropped.   *)
(***************************************************************************)

\* A step that wakes a worker, keeps one awake or stores a permit.
LEMMA WakefulStep ==
  ASSUME permit' \/ \E w \in Workers : phase'[w] \notin {"toPark", "parked"}
  PROVE  NoLostWakeup'
BY DEF NoLostWakeup, Awake

\* A step after which every key that waits waited before, with no fewer
\* posting and no fewer dropped callers.
LEMMA WakefulSame ==
  ASSUME NoLostWakeup, permit => permit', Queued' \subseteq Queued,
         \A w \in Workers : phase[w] \notin {"toPark", "parked"}
                              => phase'[w] \notin {"toPark", "parked"},
         \A k \in Queued : \A r \in tasks[k].joiners :
           /\ r \in tasks'[k].joiners
           /\ req[r].phase \in {"posting", "lost"} => req'[r].phase = req[r].phase
  PROVE  NoLostWakeup'
<1> SUFFICES ASSUME NEW k \in Queued'
             PROVE  \/ permit'
                    \/ Awake' # {}
                    \/ \E r \in tasks'[k].joiners : req'[r].phase = "posting"
                    \/ Stranded(k)'
  BY DEF NoLostWakeup
<1>1. k \in Queued
  OBVIOUS
<1>2. CASE permit
  BY <1>2
<1>3. CASE Awake # {}
  BY <1>3 DEF Awake
<1>4. CASE \E r \in tasks[k].joiners : req[r].phase = "posting"
  BY <1>1, <1>4
<1>5. CASE Stranded(k)
  BY <1>1, <1>5 DEF Stranded
<1> QED BY <1>1, <1>2, <1>3, <1>4, <1>5 DEF NoLostWakeup

LEMMA WakefulInvariantStep ==
  Typed /\ Typed' /\ Exclusive /\ Answering /\ NoLostWakeup /\ [Next]_vars => NoLostWakeup'
<1> SUFFICES ASSUME Typed, Typed', Exclusive, Answering, NoLostWakeup, [Next]_vars
             PROVE  NoLostWakeup'
  OBVIOUS
<1>q. /\ Queued \subseteq Keys
      /\ \A k \in Keys : tasks[k].joiners \subseteq Requests
      /\ \A k \in Keys : \A r \in tasks[k].joiners : Owed(r) /\ req[r].phase \in Joined
  <2>1. Queued \subseteq Keys
    BY DEF Typed, TypeOK, Queued, Range
  <2>2. \A k \in Keys : tasks[k].joiners \subseteq Requests
    BY DEF Typed, TypeOK, Entry
  <2>3. \A k \in Keys : \A r \in tasks[k].joiners : Owed(r)
    BY <2>2 DEF Answering, Accounted
  <2> QED BY <2>1, <2>2, <2>3 DEF Owed
<1>1. ASSUME NEW r \in Requests, NEW k \in Keys, NEW c \in Calls, Merge(r, k, c)
      PROVE  NoLostWakeup'
  <2>1. \A x \in Keys : tasks[x].joiners \subseteq tasks'[x].joiners
    BY <1>1, JoinType DEF Merge, Typed, TypeOK
  <2>2. \A x \in Requests : req[x].phase \in Joined => req'[x].phase = req[x].phase
    BY <1>1 DEF Merge, Record, Typed, TypeOK, Joined
  <2>3. Queued' = Queued /\ phase' = phase /\ permit' = permit
    BY <1>1 DEF Merge, Queued
  <2> QED BY <1>q, <2>1, <2>2, <2>3, WakefulSame
<1>2. ASSUME NEW r \in Requests, NEW k \in Keys, NEW c \in Calls, Push(r, k, c)
      PROVE  NoLostWakeup'
  <2> DEFINE e == [NoEntry EXCEPT !.state = "pending"]
  <2>1. e \in Entry
    BY DEF NoEntry, Entry
  <2>2. tasks' = [tasks EXCEPT ![k] = Join(e, r, c)] /\ phase' = phase /\ permit' = permit
    BY <1>2 DEF Push
  <2> HIDE DEF e
  <2>3. r \in tasks'[k].joiners /\ \A x \in Keys \ {k} : tasks'[x] = tasks[x]
    BY <2>1, <2>2, JoinType DEF Typed, TypeOK
  <2>4. req'[r].phase = "posting"
    BY <1>2 DEF Push, Record, Typed, TypeOK
  <2>5. \A x \in Requests : req[x].phase \in Joined => req'[x].phase = req[x].phase
    BY <1>2 DEF Push, Record, Typed, TypeOK, Joined
  <2>6. Queued' = Queued \cup {k}
    BY <1>2, PushedQueue DEF Push, Queued, Typed, TypeOK
  <2>7. ASSUME NEW x \in Queued'
        PROVE  \/ permit'
               \/ Awake' # {}
               \/ \E y \in tasks'[x].joiners : req'[y].phase = "posting"
               \/ Stranded(x)'
    <3>1. CASE x = k
      BY <2>3, <2>4, <3>1
    <3>2. CASE x # k
      <4>1. x \in Queued /\ tasks'[x] = tasks[x]
        BY <1>q, <2>3, <2>6, <2>7, <3>2
      <4>2. \A y \in tasks[x].joiners : req'[y].phase = req[y].phase
        BY <1>q, <2>5, <4>1
      <4> QED BY <2>2, <4>1, <4>2 DEF NoLostWakeup, Awake, Stranded
    <3> QED BY <3>1, <3>2
  <2> QED BY <2>7 DEF NoLostWakeup
<1>3. ASSUME NEW r \in Requests, Notify(r) PROVE NoLostWakeup'
  <2>1. CASE \E w \in Workers : phase[w] = "parked" /\ phase' = [phase EXCEPT ![w] = "poll"]
    <3>1. \E w \in Workers : phase'[w] = "poll"
      BY <2>1 DEF Typed, TypeOK
    <3> QED BY <3>1, WakefulStep
  <2>2. CASE permit'
    BY <2>2, WakefulStep
  <2> QED BY <1>3, <2>1, <2>2 DEF Notify
<1>4. ASSUME NEW r \in Requests, Cancel(r) PROVE NoLostWakeup'
  <2>1. /\ req[r].phase \in Joined
        /\ req' = [req EXCEPT ![r] = Deliver(Dropped(req[r]), req[r].answer)]
        /\ tasks' = tasks /\ phase' = phase /\ permit' = permit /\ Queued' = Queued
    BY <1>4 DEF Cancel, Joined, Queued
  <2>2. /\ Owed(r) => req'[r] = Dropped(req[r])
        /\ \A x \in Requests \ {r} : req'[x] = req[x]
    BY <2>1, MovedOwes DEF Typed
  <2>3. Owed(r) /\ req[r].phase = "posting" => req'[r].phase = "lost"
    BY <2>2 DEF Dropped, Typed, TypeOK, Request
  <2>4. req[r].phase # "lost"
    BY <1>4 DEF Cancel
  <2>5. ASSUME NEW k \in Queued
        PROVE  \/ permit'
               \/ Awake' # {}
               \/ \E y \in tasks'[k].joiners : req'[y].phase = "posting"
               \/ Stranded(k)'
    <3>1. \A y \in tasks[k].joiners : y \in Requests /\ Owed(y)
      BY <1>q
    <3>2. \A y \in tasks[k].joiners :
            req[y].phase = "posting" => req'[y].phase \in {"posting", "lost"}
      BY <2>2, <2>3, <3>1
    <3>3. \A y \in tasks[k].joiners : req[y].phase = "lost" => req'[y].phase = "lost"
      BY <2>2, <2>4, <3>1
    <3> QED BY <2>1, <3>2, <3>3 DEF NoLostWakeup, Awake, Stranded
  <2> QED BY <2>1, <2>5 DEF NoLostWakeup
<1>5. ASSUME NEW r \in Requests, Return(r) PROVE NoLostWakeup'
  <2>1. /\ tasks' = tasks /\ phase' = phase /\ permit' = permit /\ Queued' = Queued
        /\ req[r].phase \notin Joined
        /\ \A x \in Requests \ {r} : req'[x] = req[x]
    BY <1>5 DEF Return, Queued, Joined, Typed, TypeOK
  <2> QED BY <1>q, <2>1, WakefulSame
<1>6. ASSUME NEW w \in Workers,
             \/ Take(w) \/ Start(w) \/ StartFails(w) \/ ServeFromCache(w) \/ GoUpstream(w)
             \/ FetchApplied(w) \/ FetchFailed(w) \/ CompleteCacheHit(w) \/ Seal(w) \/ Finish(w)
      PROVE  NoLostWakeup'
  <2>1. PICK p \in WorkerPhases \ {"toPark", "parked"} : phase' = [phase EXCEPT ![w] = p]
    BY <1>6 DEF Take, Start, StartFails, ServeFromCache, GoUpstream, FetchApplied, FetchFailed,
                CompleteCacheHit, Seal, SealWith, Finish, Goto, WorkerPhases, Holding
  <2>2. phase'[w] \notin {"toPark", "parked"}
    BY <2>1 DEF Typed, TypeOK
  <2> QED BY <2>2, WakefulStep
<1>7. ASSUME NEW w \in Workers, SeeEmpty(w) PROVE NoLostWakeup'
  <2>1. Queued' = {}
    BY <1>7 DEF SeeEmpty, Queued, Range
  <2> QED BY <2>1 DEF NoLostWakeup
<1>8. ASSUME NEW w \in Workers, Park(w) PROVE NoLostWakeup'
  <2>1. CASE permit
    <3>1. phase'[w] = "poll"
      BY <1>8, <2>1 DEF Park, Goto, Typed, TypeOK
    <3> QED BY <3>1, WakefulStep
  <2>2. CASE ~permit
    <3>1. /\ tasks' = tasks /\ req' = req /\ Queued' = Queued
          /\ phase[w] = "toPark"
          /\ \A v \in Workers \ {w} : phase'[v] = phase[v]
      BY <1>8, <2>2 DEF Park, Goto, Queued, Typed, TypeOK
    <3> QED BY <2>2, <3>1, WakefulSame
  <2> QED BY <2>1, <2>2
<1>9. CASE (\E k \in Keys : Prefetch(k) \/ Grow(k)) \/ UNCHANGED vars
  <2>1. tasks' = tasks /\ req' = req /\ phase' = phase /\ permit' = permit /\ Queued' = Queued
    BY <1>9 DEF Prefetch, Grow, vars, Queued
  <2> QED BY <2>1, WakefulSame
<1> QED
  BY <1>1, <1>2, <1>3, <1>4, <1>5, <1>6, <1>7, <1>8, <1>9
     DEF Next, CallerStep, WorkerStep

\* Workers never all sleep on a queued key whose caller has notified: the
\* wakeup of notify_one is never lost (enqueue, worker_loop).
THEOREM WakeupsAreKept == Spec => []NoLostWakeup
<1>1. Init => NoLostWakeup
  BY DEF Init, NoLostWakeup, Queued, Range
<1>2. Typed /\ Typed' /\ Exclusive /\ Answering /\ NoLostWakeup /\ [Next]_vars => NoLostWakeup'
  BY WakefulInvariantStep
<1> QED
  BY <1>1, <1>2, TypedInvariant, ExclusiveInvariant, AnsweringInvariant, PTL DEF Spec

-----------------------------------------------------------------------------
(***************************************************************************)
(* The queue implements SingleFlight.  A step of a caller is a Join, a     *)
(* Leave or a Return; start_task starts a flight, a seal ends it, and      *)
(* finish_task delivers the batch; every other step changes nothing that   *)
(* the promise is about.                                                   *)
(***************************************************************************)

\* What the phase of a call says of its answer.
CallShape ==
  \A r \in Requests :
    /\ req[r].phase = "idle" => req[r] = NoRequest
    /\ req[r].phase \in {"waiting", "lost", "gone"} => req[r].answer = "none"
    /\ req[r].phase = "answered" => req[r].answer # "none"

LEMMA DeliverShape ==
  ASSUME NEW q \in Request, NEW a \in Answers, q.phase \in Joined, a # "none"
  PROVE  LET d == Deliver(q, a) IN
         /\ d.phase = "idle" => d = NoRequest
         /\ d.phase \in {"waiting", "lost", "gone"} => d.answer = "none"
         /\ d.phase = "answered" => d.answer # "none"
<1>1. CASE q.phase \in {"lost", "gone"}
  BY <1>1 DEF Deliver, NoRequest
<1>2. CASE q.phase = "waiting"
  BY <1>2 DEF Deliver, Request
<1>3. CASE q.phase = "posting"
  BY <1>3 DEF Deliver, Request
<1> QED BY <1>1, <1>2, <1>3 DEF Joined

LEMMA CallShapeStep == Typed /\ Answering /\ CallShape /\ [Next]_vars => CallShape'
<1> SUFFICES ASSUME Typed, Answering, CallShape, [Next]_vars PROVE CallShape'
  OBVIOUS
<1>1. ASSUME NEW r \in Requests, NEW k \in Keys, NEW c \in Calls, Merge(r, k, c) \/ Push(r, k, c)
      PROVE  CallShape'
  <2>1. PICK ph \in {"waiting", "gone", "posting"} : Record(r, k, c, ph)
    BY <1>1 DEF Merge, Push, AfterEnqueue
  <2>2. /\ req'[r].phase = ph /\ req'[r].answer = "none"
        /\ \A x \in Requests \ {r} : req'[x] = req[x]
    BY <2>1 DEF Record, Typed, TypeOK
  <2> QED BY <2>2 DEF CallShape
<1>2. ASSUME NEW r \in Requests, NEW moved \in {Returned(req[r]), Dropped(req[r])},
             req[r].phase \in Joined, req' = [req EXCEPT ![r] = Deliver(moved, req[r].answer)]
      PROVE  CallShape'
  <2>1. req[r] \in Request /\ req[r].answer \in Answers
    BY DEF Typed, TypeOK, Request
  <2>2. moved \in Request /\ moved.phase \in {"waiting", "lost", "gone"} /\ moved.answer = req[r].answer
    BY <2>1, MovedType DEF Returned, AfterEnqueue, Dropped, Request, RequestPhases, Joined
  <2>3. req'[r] = Deliver(moved, req[r].answer) /\ \A x \in Requests \ {r} : req'[x] = req[x]
    BY <1>2 DEF Typed, TypeOK
  <2>4. CASE req[r].answer = "none"
    <3>1. req'[r] = moved
      BY <2>1, <2>2, <2>3, <2>4, DeliverSettles
    <3>2. req'[r].phase \in {"waiting", "lost", "gone"} /\ req'[r].answer = "none"
      BY <2>2, <2>4, <3>1
    <3> QED BY <2>3, <3>2 DEF CallShape
  <2>5. CASE req[r].answer # "none"
    <3>1. moved.phase \in Joined
      BY <2>2 DEF Joined
    <3> QED BY <2>1, <2>2, <2>3, <2>5, <3>1, DeliverShape DEF CallShape
  <2> QED BY <2>4, <2>5
<1>3. ASSUME NEW r \in Requests, Notify(r) \/ Cancel(r) PROVE CallShape'
  <2>1. req[r].phase \in Joined
    BY <1>3 DEF Notify, Cancel, Joined
  <2> QED BY <1>2, <1>3, <2>1 DEF Notify, Cancel
<1>4. ASSUME NEW r \in Requests, Return(r) PROVE CallShape'
  <2>1. req'[r] = NoRequest /\ \A x \in Requests \ {r} : req'[x] = req[x]
    BY <1>4 DEF Return, Typed, TypeOK
  <2>2. NoRequest.phase = "idle"
    BY DEF NoRequest
  <2> QED BY <2>1, <2>2 DEF CallShape
<1>5. ASSUME NEW w \in Workers, Finish(w) PROVE CallShape'
  <2>1. job[w].result \in Answers /\ job[w].result # "none"
    BY <1>5 DEF Finish, Typed, TypeOK, JobShape, Job
  <2>2. \A r \in Requests : req'[r] = IF r \in job[w].joiners
                                      THEN Deliver(req[r], job[w].result) ELSE req[r]
    BY <1>5 DEF Finish
  <2>3. \A r \in Requests : r \in job[w].joiners => req[r].phase \in Joined /\ req[r] \in Request
    BY DEF Answering, Accounted, Owed, Typed, TypeOK
  <2>4. ASSUME NEW r \in Requests
        PROVE  /\ req'[r].phase = "idle" => req'[r] = NoRequest
               /\ req'[r].phase \in {"waiting", "lost", "gone"} => req'[r].answer = "none"
               /\ req'[r].phase = "answered" => req'[r].answer # "none"
    <3>1. CASE r \in job[w].joiners
      BY <2>1, <2>2, <2>3, <3>1, DeliverShape
    <3>2. CASE r \notin job[w].joiners
      BY <2>2, <3>2 DEF CallShape
    <3> QED BY <3>1, <3>2
  <2> QED BY <2>4 DEF CallShape
<1>6. CASE req' = req
  BY <1>6 DEF CallShape
<1> QED
  BY <1>1, <1>3, <1>4, <1>5, <1>6
     DEF Next, CallerStep, WorkerStep, vars, Take, SeeEmpty, Park, Start, StartFails,
         ServeFromCache, GoUpstream, FetchApplied, FetchFailed, CompleteCacheHit, SealWith,
         Seal, Prefetch, Grow

LEMMA CallShapeInvariant == Spec => []CallShape
<1>1. Init => CallShape
  BY DEF Init, CallShape, NoRequest
<1>2. Typed /\ Answering /\ CallShape /\ [Next]_vars => CallShape'
  BY CallShapeStep
<1> QED BY <1>1, <1>2, TypedInvariant, AnsweringInvariant, PTL DEF Spec

Inv == Typed /\ Exclusive /\ Answering /\ CallShape

\* A caller joins the group of its key.
LEMMA JoinRefines ==
  ASSUME Inv, NEW r \in Requests, NEW k \in Keys, NEW c \in Calls, NEW e \in Entry,
         NEW ph \in {"waiting", "gone", "posting"},
         req[r].phase = "idle", Record(r, k, c, ph), job' = job, phase' = phase,
         e.joiners = tasks[k].joiners, e.state = "running" <=> tasks[k].state = "running",
         tasks' = [tasks EXCEPT ![k] = Join(e, r, c)]
  PROVE  \E p \in {"waiting", "gone"} : Promise!Join(r, k, c.force, p)
<1> DEFINE p == IF ph = "posting" THEN "waiting" ELSE ph
<1>1. tasks'[k] = Join(e, r, c) /\ \A x \in Keys \ {k} : tasks'[x] = tasks[x]
  BY DEF Inv, Typed, TypeOK
<1>2. /\ tasks'[k].joiners = tasks[k].joiners \cup {r}
      /\ tasks'[k].state = "running" <=> tasks[k].state = "running"
  BY <1>1, JoinType
<1>3. req'[r] = [phase |-> ph, key |-> k, force |-> c.force, caller |-> c.caller, answer |-> "none"]
      /\ \A x \in Requests \ {r} : req'[x] = req[x]
  BY DEF Record, Inv, Typed, TypeOK
<1>4. CallsSeen[r].phase = "idle"
  BY DEF CallsSeen, CallOf
<1>5. CallOf(req'[r]) = [phase |-> p, force |-> c.force, answer |-> "none"]
  BY <1>3 DEF CallOf
<1>6. CallsSeen' = [CallsSeen EXCEPT ![r] = [phase |-> p, force |-> c.force, answer |-> "none"]]
  BY <1>3, <1>5 DEF CallsSeen
<1>7. Groups' = [Groups EXCEPT ![k] = @ \cup {r}]
  <2>1. \A x \in Keys : Groups[x] = tasks[x].joiners /\ Groups'[x] = tasks'[x].joiners
    BY DEF Groups
  <2>2. /\ Groups'[k] = Groups[k] \cup {r}
        /\ \A x \in Keys \ {k} : Groups'[x] = Groups[x]
    BY <1>1, <1>2, <2>1
  <2>3. DOMAIN Groups = Keys
    BY DEF Groups
  <2>4. Groups' = [x \in Keys |-> Groups'[x]]
    BY DEF Groups
  <2> HIDE DEF Groups
  <2> QED BY <2>2, <2>3, <2>4
<1>8. Flights' = Flights
  BY <1>1, <1>2 DEF Flights
<1>9. Sealed' = Sealed
  BY DEF Sealed
<1>10. Promise!Join(r, k, c.force, p)
  BY <1>4, <1>6, <1>7, <1>8, <1>9 DEF Promise!Join
<1>11. p \in {"waiting", "gone"}
  OBVIOUS
<1> QED BY <1>10, <1>11

\* A step that moves no sender and changes no call.
LEMMA StutterRefines ==
  ASSUME \A k \in Keys : /\ tasks'[k].joiners = tasks[k].joiners
                         /\ tasks'[k].state = "running" <=> tasks[k].state = "running",
         \A w \in Workers : \/ phase'[w] = phase[w] /\ job'[w] = job[w]
                            \/ phase'[w] # "publish" /\ phase[w] # "publish",
         \A r \in Requests : CallOf(req'[r]) = CallOf(req[r])
  PROVE  UNCHANGED Promise!abstract
<1>1. Groups' = Groups
  BY DEF Groups
<1>2. Flights' = Flights
  BY DEF Flights
<1>3. Sealed' = Sealed
  <2>1. {v \in Workers : phase'[v] = "publish"} = {v \in Workers : phase[v] = "publish"}
    OBVIOUS
  <2>2. \A w \in {v \in Workers : phase[v] = "publish"} : job'[w] = job[w]
    OBVIOUS
  <2> QED BY <2>1, <2>2 DEF Sealed
<1>4. CallsSeen' = CallsSeen
  BY DEF CallsSeen
<1> QED BY <1>1, <1>2, <1>3, <1>4 DEF Promise!abstract

\* The entry is removed: the flight ends and its group waits for delivery.
LEMMA SealRefines ==
  ASSUME Inv, NEW w \in Workers, NEW result \in Answers \ {"none"},
         phase[w] \in Holding \ {"start"}, SealWith(w, result), req' = req,
         result = "cache" => ~tasks[job[w].key].force
  PROVE  \E k \in Keys, x \in {"cache", "fetch", "error"} : Promise!EndRun(k, x)
<1> DEFINE k == job[w].key
<1>1. k \in Keys /\ tasks[k].state = "running"
  BY DEF Inv, Typed, JobShape, Exclusive, HeldEntry
<1>2. /\ tasks'[k] = NoEntry
      /\ \A x \in Keys \ {k} : tasks'[x] = tasks[x]
      /\ phase'[w] = "publish"
      /\ job'[w].joiners = tasks[k].joiners /\ job'[w].result = result
      /\ \A v \in Workers \ {w} : job'[v] = job[v] /\ phase'[v] = phase[v]
  BY <1>1 DEF SealWith, Goto, Inv, Typed, TypeOK, Job
<1>3. k \in Flights
  BY <1>1 DEF Flights
<1>4. Flights' = Flights \ {k}
  BY <1>1, <1>2 DEF Flights, NoEntry
<1>5. Groups' = [Groups EXCEPT ![k] = {}]
  <2>1. \A x \in Keys : tasks'[x].joiners = IF x = k THEN {} ELSE Groups[x]
    BY <1>1, <1>2 DEF Groups, NoEntry
  <2>2. Groups' = [x \in Keys |-> IF x = k THEN {} ELSE Groups[x]]
    BY <2>1 DEF Groups
  <2>3. DOMAIN Groups = Keys
    BY DEF Groups
  <2> HIDE DEF Groups
  <2> QED BY <2>2, <2>3
<1>6. Groups[k] = tasks[k].joiners
  BY <1>1 DEF Groups
<1>7. Sealed' = Sealed \cup {[joiners |-> Groups[k], result |-> result]}
  <2>1. {v \in Workers : phase'[v] = "publish"} = {v \in Workers : phase[v] = "publish"} \cup {w}
    BY <1>2
  <2>2. w \notin {v \in Workers : phase[v] = "publish"}
    BY DEF Holding
  <2>3. [joiners |-> job'[w].joiners, result |-> job'[w].result]
          = [joiners |-> Groups[k], result |-> result]
    BY <1>2, <1>6
  <2>4. \A v \in {u \in Workers : phase[u] = "publish"} : job'[v] = job[v]
    BY <1>2, <2>2
  <2> QED BY <2>1, <2>3, <2>4 DEF Sealed
<1>8. CallsSeen' = CallsSeen
  BY DEF CallsSeen
<1>9. result = "cache" => \A r \in Groups[k] : ~CallsSeen[r].force
  <2>1. ASSUME result = "cache", NEW r \in Groups[k] PROVE ~CallsSeen[r].force
    <3>1. r \in Requests /\ r \in tasks[k].joiners
      BY <1>1, <1>6 DEF Inv, Typed, TypeOK, Entry
    <3>2. ~req[r].force
      BY <1>1, <2>1, <3>1 DEF Inv, Answering, ForceKept
    <3> QED BY <3>1, <3>2 DEF CallsSeen, CallOf
  <2> QED BY <2>1
<1>10. Promise!EndRun(k, result)
  BY <1>3, <1>4, <1>5, <1>7, <1>8, <1>9 DEF Promise!EndRun
<1>11. result \in {"cache", "fetch", "error"}
  BY DEF Answers
<1> QED BY <1>1, <1>10, <1>11

\* The batch of a worker is delivered.
LEMMA FinishRefines ==
  ASSUME Inv, NEW w \in Workers, Finish(w)
  PROVE  \E batch \in Sealed : Promise!Deliver(batch)
<1> DEFINE batch == [joiners |-> job[w].joiners, result |-> job[w].result]
<1>1. /\ phase[w] = "publish"
      /\ tasks' = tasks
      /\ phase'[w] = "poll"
      /\ \A v \in Workers \ {w} : job'[v] = job[v] /\ phase'[v] = phase[v]
      /\ \A r \in Requests : req'[r] = IF r \in job[w].joiners
                                       THEN Deliver(req[r], job[w].result) ELSE req[r]
  BY DEF Finish, Goto, Inv, Typed, TypeOK
<1>2. batch \in Sealed
  BY <1>1 DEF Sealed
<1>3. Sealed' = Sealed \ {batch}
  <2>1. {v \in Workers : phase'[v] = "publish"} = {v \in Workers : phase[v] = "publish"} \ {w}
    BY <1>1
  <2>2. ASSUME NEW v \in Workers, phase[v] = "publish", v # w
        PROVE  [joiners |-> job[v].joiners, result |-> job[v].result] # batch
    <3>1. PICK r \in Requests : r \in job[v].joiners
      BY <2>2 DEF Inv, Answering, Populated, Typed, TypeOK, Job
    <3>2. r \notin job[w].joiners
      BY <2>2, <3>1 DEF Inv, Answering, Accounted
    <3>3. job[v].joiners # job[w].joiners
      BY <3>1, <3>2
    <3> QED BY <3>3
  <2>3. \A v \in {u \in Workers : phase[u] = "publish"} \ {w} : job'[v] = job[v]
    BY <1>1
  <2> QED BY <1>1, <2>1, <2>2, <2>3 DEF Sealed
<1>4. Groups' = Groups /\ Flights' = Flights
  BY <1>1 DEF Groups, Flights
<1>5. job[w].result \in Answers /\ job[w].result # "none"
  BY <1>1 DEF Inv, Typed, TypeOK, JobShape, Job
<1>6. CallsSeen' = [r \in Requests |->
         IF r \notin batch.joiners THEN CallsSeen[r]
         ELSE IF CallsSeen[r].phase = "gone" THEN Promise!NoCall
         ELSE [phase |-> "answered", force |-> CallsSeen[r].force, answer |-> batch.result]]
  <2>1. ASSUME NEW r \in Requests
        PROVE  CallOf(req'[r]) =
                 IF r \notin batch.joiners THEN CallsSeen[r]
                 ELSE IF CallsSeen[r].phase = "gone" THEN Promise!NoCall
                 ELSE [phase |-> "answered", force |-> CallsSeen[r].force, answer |-> batch.result]
    <3>1. CASE r \notin job[w].joiners
      BY <1>1, <3>1 DEF CallsSeen
    <3>2. CASE r \in job[w].joiners
      <4>1. req[r] \in Request /\ req[r].phase \in Joined /\ req[r].answer = "none"
        BY <3>2 DEF Inv, Typed, TypeOK, Answering, Accounted, Owed
      <4>2. req'[r] = Deliver(req[r], job[w].result)
        BY <1>1, <3>2
      <4>3. CASE req[r].phase \in {"lost", "gone"}
        <5>1. req'[r] = NoRequest
          BY <1>5, <4>2, <4>3 DEF Deliver
        <5>2. CallOf(NoRequest) = Promise!NoCall
          BY DEF CallOf, NoRequest, Promise!NoCall
        <5>3. CallsSeen[r].phase = "gone"
          BY <4>3 DEF CallsSeen, CallOf
        <5> QED BY <3>2, <5>1, <5>2, <5>3
      <4>4. CASE req[r].phase = "waiting"
        <5>1. req'[r] = [req[r] EXCEPT !.phase = "answered", !.answer = job[w].result]
          BY <1>5, <4>2, <4>4 DEF Deliver
        <5>2. CallsSeen[r] = [phase |-> "waiting", force |-> req[r].force, answer |-> "none"]
          BY <4>1, <4>4 DEF CallsSeen, CallOf
        <5>3. CallOf(req'[r]) = [phase |-> "answered", force |-> req[r].force, answer |-> job[w].result]
          BY <4>1, <5>1 DEF CallOf, Request
        <5>4. CallsSeen[r].force = req[r].force
          BY <5>2
        <5>5. CallsSeen[r].phase # "gone"
          BY <5>2
        <5> QED BY <3>2, <5>3, <5>4, <5>5
      <4>5. CASE req[r].phase = "posting"
        <5>1. req'[r] = [req[r] EXCEPT !.answer = job[w].result]
          BY <1>5, <4>2, <4>5 DEF Deliver
        <5>2. CallsSeen[r] = [phase |-> "waiting", force |-> req[r].force, answer |-> "none"]
          BY <4>1, <4>5 DEF CallsSeen, CallOf
        <5>3. CallOf(req'[r]) = [phase |-> "answered", force |-> req[r].force, answer |-> job[w].result]
          BY <1>5, <4>1, <4>5, <5>1 DEF CallOf, Request
        <5>4. CallsSeen[r].force = req[r].force
          BY <5>2
        <5>5. CallsSeen[r].phase # "gone"
          BY <5>2
        <5> QED BY <3>2, <5>3, <5>4, <5>5
      <4> QED BY <4>1, <4>3, <4>4, <4>5 DEF Joined
    <3> QED BY <3>1, <3>2
  <2> QED BY <2>1 DEF CallsSeen
<1>7. Promise!Deliver(batch)
  BY <1>3, <1>4, <1>6 DEF Promise!Deliver
<1> QED BY <1>2, <1>7

LEMMA AnsweredFields ==
  ASSUME NEW q \in Request, NEW a
  PROVE  LET d == [q EXCEPT !.phase = "answered", !.answer = a] IN
         d.phase = "answered" /\ d.force = q.force /\ d.answer = a
BY DEF Request

\* A caller goes on after its enqueue, or is dropped.
LEMMA MovedRefines ==
  ASSUME Inv, NEW r \in Requests, req[r].phase \in {"posting", "waiting"},
         NEW moved \in {Returned(req[r]), Dropped(req[r])},
         req' = [req EXCEPT ![r] = Deliver(moved, req[r].answer)],
         tasks' = tasks, job' = job,
         \A w \in Workers : phase'[w] = phase[w] \/ (phase[w] = "parked" /\ phase'[w] = "poll")
  PROVE  Promise!Leave(r) \/ Promise!Return(r) \/ UNCHANGED Promise!abstract
<1> DEFINE a == req[r].answer
<1>1. req[r] \in Request /\ a \in Answers
  BY DEF Inv, Typed, TypeOK, Request
<1>2. /\ moved \in Request
      /\ moved.phase \in {"waiting", "lost", "gone"}
      /\ moved.force = req[r].force
      /\ moved.answer = a
  <2>1. moved \in Request
    BY <1>1, MovedType
  <2>2. CASE moved = Returned(req[r])
    BY <1>1, <2>1, <2>2 DEF Returned, AfterEnqueue, Request
  <2>3. CASE moved = Dropped(req[r])
    BY <1>1, <2>1, <2>3 DEF Dropped, Request
  <2> QED BY <2>2, <2>3
<1>3. req'[r] = Deliver(moved, a) /\ \A x \in Requests \ {r} : req'[x] = req[x]
  BY DEF Inv, Typed, TypeOK
<1>4. /\ Groups' = Groups /\ Flights' = Flights /\ Sealed' = Sealed
  <2>1. {v \in Workers : phase'[v] = "publish"} = {v \in Workers : phase[v] = "publish"}
    OBVIOUS
  <2> QED BY <2>1 DEF Groups, Flights, Sealed
<1>5. CallsSeen' = [CallsSeen EXCEPT ![r] = CallOf(req'[r])]
  <2>1. /\ CallsSeen'[r] = CallOf(req'[r])
        /\ \A x \in Requests \ {r} : CallsSeen'[x] = CallsSeen[x]
    BY <1>3 DEF CallsSeen
  <2>2. CallsSeen' = [x \in Requests |-> CallsSeen'[x]] /\ DOMAIN CallsSeen = Requests
    BY DEF CallsSeen
  <2> HIDE DEF CallsSeen
  <2> QED BY <2>1, <2>2
<1>6. CallsSeen[r] = CallOf(req[r])
  BY DEF CallsSeen
<1>7. CASE CallOf(req'[r]) = CallOf(req[r])
  <2>1. \A x \in Requests : CallOf(req'[x]) = CallOf(req[x])
    BY <1>3, <1>7
  <2> QED BY <2>1, StutterRefines
<1>8. CASE a = "none"
  <2>1. req'[r] = moved
    BY <1>1, <1>2, <1>3, <1>8, DeliverSettles
  <2>2. CallOf(req[r]) = [phase |-> "waiting", force |-> req[r].force, answer |-> "none"]
    BY <1>8 DEF CallOf
  <2>3. CASE moved.phase = "waiting"
    BY <1>2, <1>7, <1>8, <2>1, <2>2, <2>3 DEF CallOf
  <2>4. CASE moved.phase \in {"lost", "gone"}
    <3>1. CallOf(req'[r]) = [phase |-> "gone", force |-> req[r].force, answer |-> "none"]
      BY <1>2, <1>8, <2>1, <2>4 DEF CallOf
    <3>2. CallsSeen[r].phase = "waiting" /\ CallsSeen[r].force = req[r].force
      BY <1>6, <2>2
    <3> QED BY <1>4, <1>5, <3>1, <3>2 DEF Promise!Leave
  <2> QED BY <1>2, <2>3, <2>4
<1>9. CASE a # "none"
  <2>1. req[r].phase = "posting"
    BY <1>9 DEF Inv, CallShape
  <2>2. CallOf(req[r]) = [phase |-> "answered", force |-> req[r].force, answer |-> a]
    BY <1>9, <2>1 DEF CallOf
  <2>3. CASE moved.phase = "waiting"
    <3>1. req'[r] = [moved EXCEPT !.phase = "answered", !.answer = a]
      BY <1>3, <1>9, <2>3 DEF Deliver
    <3>2. req'[r].phase = "answered" /\ req'[r].force = req[r].force /\ req'[r].answer = a
      <4>1. moved \in Request
        BY <1>2
      <4> DEFINE d == [moved EXCEPT !.phase = "answered", !.answer = a]
      <4>2. d.phase = "answered" /\ d.force = moved.force /\ d.answer = a
        BY <4>1, AnsweredFields
      <4> HIDE DEF d
      <4>3. req'[r] = d
        BY <3>1 DEF d
      <4> QED BY <1>2, <4>2, <4>3
    <3>3. CallOf(req'[r]) = [phase |-> "answered", force |-> req[r].force, answer |-> a]
      BY <3>2 DEF CallOf
    <3> QED BY <1>7, <2>2, <3>3
  <2>4. CASE moved.phase \in {"lost", "gone"}
    <3>1. req'[r] = NoRequest
      BY <1>3, <1>9, <2>4 DEF Deliver
    <3>2. CallOf(req'[r]) = Promise!NoCall
      <4>1. CallOf(NoRequest) = Promise!NoCall
        BY DEF CallOf, NoRequest, Promise!NoCall
      <4> QED BY <3>1, <4>1
    <3>3. CallsSeen[r].phase = "answered"
      BY <1>6, <2>2
    <3> QED BY <1>4, <1>5, <3>2, <3>3 DEF Promise!Return
  <2> QED BY <1>2, <2>3, <2>4
<1> QED BY <1>8, <1>9

LEMMA StepRefines == Inv /\ [Next]_vars => [Promise!Next]_(Promise!abstract)
<1> SUFFICES ASSUME Inv, [Next]_vars
             PROVE  Promise!Next \/ UNCHANGED Promise!abstract
  OBVIOUS
<1>1. ASSUME NEW r \in Requests, NEW k \in Keys, NEW c \in Calls, Merge(r, k, c) \/ Push(r, k, c)
      PROVE  Promise!Next
  <2>1. CASE Merge(r, k, c)
    <3> DEFINE e == tasks[k]
               ph == AfterEnqueue(c.caller)
    <3>1. /\ e \in Entry /\ e = tasks[k]
          /\ tasks' = [tasks EXCEPT ![k] = Join(e, r, c)]
      BY <2>1 DEF Merge, Inv, Typed, TypeOK
    <3>2. ph \in {"waiting", "gone", "posting"} /\ Record(r, k, c, ph)
      BY <2>1 DEF AfterEnqueue, Merge
    <3>3. req[r].phase = "idle" /\ job' = job /\ phase' = phase
      BY <2>1 DEF Merge
    <3> HIDE DEF e, ph
    <3>4. \E p \in {"waiting", "gone"} : Promise!Join(r, k, c.force, p)
      BY <3>1, <3>2, <3>3, JoinRefines
    <3>5. c.force \in BOOLEAN
      BY CallFields
    <3> QED BY <3>4, <3>5 DEF Promise!Next
  <2>2. CASE Push(r, k, c)
    <3> DEFINE e == [NoEntry EXCEPT !.state = "pending"]
    <3>1. e \in Entry /\ e.joiners = NoEntry.joiners /\ e.state = "pending"
      BY DEF NoEntry, Entry
    <3>2. tasks[k] = NoEntry /\ NoEntry.state = "none"
      BY <2>2 DEF Push, Inv, Answering, Populated, NoEntry
    <3>3. tasks' = [tasks EXCEPT ![k] = Join(e, r, c)]
      BY <2>2 DEF Push
    <3> HIDE DEF e
    <3>4. \E p \in {"waiting", "gone"} : Promise!Join(r, k, c.force, p)
      BY <2>2, <3>1, <3>2, <3>3, JoinRefines DEF Push
    <3>5. c.force \in BOOLEAN
      BY CallFields
    <3> QED BY <3>4, <3>5 DEF Promise!Next
  <2> QED BY <1>1, <2>1, <2>2
<1>2. ASSUME NEW r \in Requests, Notify(r) \/ Cancel(r)
      PROVE  Promise!Next \/ UNCHANGED Promise!abstract
  <2>1. /\ req[r].phase \in {"posting", "waiting"}
        /\ tasks' = tasks /\ job' = job
        /\ \/ phase' = phase
           \/ \E w \in Workers : phase[w] = "parked" /\ phase' = [phase EXCEPT ![w] = "poll"]
        /\ \E moved \in {Returned(req[r]), Dropped(req[r])} :
             req' = [req EXCEPT ![r] = Deliver(moved, req[r].answer)]
    BY <1>2 DEF Notify, Cancel
  <2>2. \A w \in Workers : phase'[w] = phase[w] \/ (phase[w] = "parked" /\ phase'[w] = "poll")
    BY <2>1 DEF Inv, Typed, TypeOK
  <2>3. Promise!Leave(r) \/ Promise!Return(r) \/ UNCHANGED Promise!abstract
    BY <2>1, <2>2, MovedRefines
  <2> QED BY <2>3 DEF Promise!Next
<1>3. ASSUME NEW r \in Requests, Return(r) PROVE Promise!Next
  <2>1. /\ tasks' = tasks /\ job' = job /\ phase' = phase
        /\ req[r].phase = "answered"
        /\ req'[r] = NoRequest /\ \A x \in Requests \ {r} : req'[x] = req[x]
    BY <1>3 DEF Return, Inv, Typed, TypeOK
  <2>2. CallsSeen[r].phase = "answered"
    BY <2>1 DEF CallsSeen, CallOf
  <2>3. CallOf(NoRequest) = Promise!NoCall
    BY DEF CallOf, NoRequest, Promise!NoCall
  <2>4. CallsSeen' = [CallsSeen EXCEPT ![r] = Promise!NoCall]
    BY <2>1, <2>3 DEF CallsSeen
  <2>5. Groups' = Groups /\ Flights' = Flights /\ Sealed' = Sealed
    BY <2>1 DEF Groups, Flights, Sealed
  <2> QED BY <2>2, <2>4, <2>5 DEF Promise!Return, Promise!Next
<1>4. ASSUME NEW w \in Workers, Start(w) PROVE Promise!Next
  <2> DEFINE k == job[w].key
  <2>1. k \in Keys /\ tasks[k].state = "pending" /\ tasks[k].joiners # {}
    BY <1>4 DEF Start, Inv, Typed, JobShape, Holding, Exclusive, HeldEntry, Answering, Populated
  <2>2. /\ tasks'[k] = [tasks[k] EXCEPT !.state = "running"]
        /\ \A x \in Keys \ {k} : tasks'[x] = tasks[x]
        /\ job' = job /\ req' = req
        /\ \A v \in Workers : phase'[v] = phase[v] \/ (phase'[v] # "publish" /\ phase[v] # "publish")
    BY <1>4, <2>1 DEF Start, Goto, Inv, Typed, TypeOK
  <2>3. tasks'[k].state = "running" /\ tasks'[k].joiners = tasks[k].joiners
    BY <2>1, <2>2 DEF Inv, Typed, TypeOK, Entry
  <2>4. Groups' = Groups
    BY <2>1, <2>2, <2>3 DEF Groups
  <2>5. k \notin Flights /\ Flights' = Flights \cup {k}
    <3>1. \A x \in Keys : tasks'[x].state = "running" <=> (x = k \/ tasks[x].state = "running")
      BY <2>1, <2>2, <2>3
    <3> HIDE DEF k
    <3> QED BY <2>1, <3>1 DEF Flights
  <2>6. Sealed' = Sealed
    <3>1. {v \in Workers : phase'[v] = "publish"} = {v \in Workers : phase[v] = "publish"}
      BY <2>2
    <3> QED BY <2>2, <3>1 DEF Sealed
  <2>7. CallsSeen' = CallsSeen
    BY <2>2 DEF CallsSeen
  <2>8. Groups[k] # {}
    BY <2>1 DEF Groups
  <2>9. Promise!StartRun(k)
    BY <2>4, <2>5, <2>6, <2>7, <2>8 DEF Promise!StartRun
  <2> QED BY <2>1, <2>9 DEF Promise!Next
<1>5. ASSUME NEW w \in Workers, CompleteCacheHit(w)
      PROVE  Promise!Next \/ UNCHANGED Promise!abstract
  <2>1. phase[w] \in Holding \ {"start"} /\ "cache" \in Answers \ {"none"}
    BY <1>5 DEF CompleteCacheHit, Holding, Answers
  <2>2. CASE tasks[job[w].key].force
    <3>1. /\ tasks' = tasks /\ job' = job /\ req' = req
          /\ \A v \in Workers : phase'[v] = phase[v] \/ (phase'[v] # "publish" /\ phase[v] # "publish")
      BY <1>5, <2>2 DEF CompleteCacheHit, Goto, Inv, Typed, TypeOK
    <3> QED BY <3>1, StutterRefines
  <2>3. CASE ~tasks[job[w].key].force
    <3>1. SealWith(w, "cache") /\ req' = req
      BY <1>5, <2>3 DEF CompleteCacheHit
    <3>2. \E k \in Keys, x \in {"cache", "fetch", "error"} : Promise!EndRun(k, x)
      BY <2>1, <2>3, <3>1, SealRefines
    <3> QED BY <3>2 DEF Promise!Next
  <2> QED BY <2>2, <2>3
<1>6. ASSUME NEW w \in Workers, Seal(w) PROVE Promise!Next
  <2>1. /\ phase[w] \in Holding \ {"start"}
        /\ job[w].result \in Answers \ {"none"} /\ job[w].result # "cache"
        /\ SealWith(w, job[w].result) /\ req' = req
    BY <1>6 DEF Seal, Inv, Typed, JobShape, Holding, Answers
  <2>2. \E k \in Keys, x \in {"cache", "fetch", "error"} : Promise!EndRun(k, x)
    BY <2>1, SealRefines
  <2> QED BY <2>2 DEF Promise!Next
<1>7. ASSUME NEW w \in Workers, Finish(w) PROVE Promise!Next
  BY <1>7, FinishRefines DEF Promise!Next
<1>8. ASSUME NEW w \in Workers,
             \/ Take(w) \/ SeeEmpty(w) \/ Park(w) \/ StartFails(w)
             \/ ServeFromCache(w) \/ GoUpstream(w) \/ FetchApplied(w) \/ FetchFailed(w)
      PROVE  UNCHANGED Promise!abstract
  <2>1. /\ tasks' = tasks /\ req' = req
        /\ phase'[w] # "publish" /\ phase[w] # "publish"
        /\ \A v \in Workers \ {w} : phase'[v] = phase[v] /\ job'[v] = job[v]
    BY <1>8 DEF Take, SeeEmpty, Park, StartFails, ServeFromCache, GoUpstream, FetchApplied,
                FetchFailed, Goto, Inv, Typed, TypeOK
  <2> QED BY <2>1, StutterRefines
<1>9. CASE (\E k \in Keys : Prefetch(k) \/ Grow(k)) \/ UNCHANGED vars
  <2>1. tasks' = tasks /\ job' = job /\ phase' = phase /\ req' = req
    BY <1>9 DEF Prefetch, Grow, vars
  <2> QED BY <2>1, StutterRefines
<1> QED
  BY <1>1, <1>2, <1>3, <1>4, <1>5, <1>6, <1>7, <1>8, <1>9
     DEF Next, CallerStep, WorkerStep

LEMMA InitRefines == Init => Promise!Init
<1> SUFFICES ASSUME Init PROVE Promise!Init
  OBVIOUS
<1>1. Groups = [k \in Keys |-> {}] /\ Flights = {} /\ Sealed = {}
  BY DEF Init, Groups, Flights, Sealed, NoEntry
<1>2. CallOf(NoRequest) = Promise!NoCall
  BY DEF CallOf, NoRequest, Promise!NoCall
<1>3. CallsSeen = [r \in Requests |-> Promise!NoCall]
  BY <1>2 DEF Init, CallsSeen
<1> QED BY <1>1, <1>3 DEF Promise!Init

\* The queue of the ops manager keeps the promise of SingleFlight, for every
\* number of keys, workers and callers.
THEOREM QueueImplementsPromise == Spec => ImplementsSingleFlight
<1>1. Init => Promise!Init
  BY InitRefines
<1>2. Inv /\ [Next]_vars => [Promise!Next]_(Promise!abstract)
  BY StepRefines
<1>3. Spec => []Inv
  BY TypedInvariant, ExclusiveInvariant, AnsweringInvariant, CallShapeInvariant, PTL DEF Inv
<1> QED BY <1>1, <1>2, <1>3, PTL DEF Spec, ImplementsSingleFlight, Promise!Spec
=============================================================================
