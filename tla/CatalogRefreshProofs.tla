-------------------------- MODULE CatalogRefreshProofs --------------------------
(***************************************************************************)
(* Proofs about the refresh job and the pages that show it, for every set  *)
(* of pages and users, any number of jobs, targets and lost connections,   *)
(* and a channel of any length.                                            *)
(***************************************************************************)
EXTENDS CatalogRefresh, SequenceTheorems, TLAPS

-----------------------------------------------------------------------------
(***************************************************************************)
(* Types.                                                                  *)
(***************************************************************************)

JobType == [step : {"unborn", "listing", "survey", "next", "call", "hung", "ended"},
            n : 0..MaxTargets, left : 0..MaxTargets]

Shown == {None} \cup Status

PostType == [step : {"none", "sent", "passed", "answered"}, reply : Shown]

ConnType == [step : {"closed", "read", "open"}, initial : Shown, buf : Seq(Status)]

StatusOK == status \in Status
\* A call is for a target that is left.
JobOK == /\ job \in [Jobs -> JobType]
         /\ \A j \in Jobs : job[j].left <= job[j].n /\ (job[j].step \in {"call", "hung"} => job[j].left > 0)
PostOK == /\ post \in [Pages -> PostType]
          /\ \A p \in Pages : post[p].step = "answered" => post[p].reply \in Status
ConnOK == conn \in [Pages -> ConnType] /\ \A p \in Pages : Len(conn[p].buf) <= Cap
PageOK == shown \in [Pages -> Shown] /\ gap \subseteq Pages /\ overtaken \subseteq Pages
RestOK == gate \subseteq Users /\ drops \in 0..MaxDrops

Types == StatusOK /\ JobOK /\ PostOK /\ ConnOK /\ PageOK /\ RestOK

LEMMA TypesImply == Types => TypeOK
<1> SUFFICES ASSUME Types PROVE TypeOK
  OBVIOUS
<1>1. \A j \in Jobs : job[j].n \in 0..MaxTargets /\ job[j].left \in 0..job[j].n
  BY DEF Types, JobOK, JobType
<1>2. \A p \in Pages :
        /\ post[p].reply = None \/ post[p].reply \in Status
        /\ conn[p].initial = None \/ conn[p].initial \in Status
        /\ conn[p].buf \in Seq(Status) /\ Len(conn[p].buf) <= Cap
        /\ shown[p] = None \/ shown[p] \in Status
  BY DEF Types, PostOK, PostType, ConnOK, ConnType, PageOK, Shown
<1> QED
  BY <1>1, <1>2 DEF Types, TypeOK, StatusOK, PageOK, RestOK

LEMMA Constants ==
  /\ Closed \in ConnType /\ Closed.step = "closed" /\ Closed.initial = None /\ Closed.buf = <<>>
  /\ NoPost \in PostType /\ NoPost.step = "none"
  /\ Unborn \in JobType /\ Unborn.step = "unborn" /\ Unborn.left = 0 /\ Unborn.n = 0
  /\ Idle \in Status /\ Idle.state = "idle" /\ Idle.job = 0 /\ Len(<<>>) = 0
<1>1. Closed \in ConnType /\ Closed.step = "closed" /\ Closed.initial = None /\ Closed.buf = <<>>
  BY DEF Closed, ConnType, Shown
<1>2. NoPost \in PostType /\ NoPost.step = "none"
  BY DEF NoPost, PostType, Shown
<1>3. Unborn \in JobType /\ Unborn.step = "unborn" /\ Unborn.left = 0 /\ Unborn.n = 0
  BY RefreshAssumption DEF Unborn, JobType
<1>4. Idle \in Status /\ Idle.state = "idle" /\ Idle.job = 0
  BY RefreshAssumption DEF Idle, Status
<1> QED
  BY <1>1, <1>2, <1>3, <1>4

\* A page that has shown nothing is told from one that shows a status.
LEMMA NoneIsNoStatus == None \notin Status
  BY DEF None, Status

\* The channel keeps what is new, and no more than it can.
LEMMA PushKeeps ==
  ASSUME NEW buf \in Seq(Status), Len(buf) <= Cap, NEW s \in Status
  PROVE  /\ Push(buf, s) \in Seq(Status) /\ Len(Push(buf, s)) <= Cap
         /\ Push(buf, s) # <<>> /\ Push(buf, s)[Len(Push(buf, s))] = s
<1> DEFINE b == IF Len(buf) < Cap THEN buf ELSE Tail(buf)
<1>1. b \in Seq(Status) /\ Len(b) \in Nat /\ Len(b) < Cap
  <2>1. CASE Len(buf) < Cap
    BY <2>1
  <2>2. CASE Len(buf) = Cap
    <3>1. buf # <<>>
      BY <2>2, RefreshAssumption
    <3> QED
      BY <2>2, <3>1, RefreshAssumption
  <2> QED
    BY <2>1, <2>2, RefreshAssumption
<1>2. Push(buf, s) = Append(b, s)
  BY DEF Push
<1> HIDE DEF b
<1>3. /\ Append(b, s) \in Seq(Status) /\ Len(Append(b, s)) = Len(b) + 1
      /\ Append(b, s)[Len(b) + 1] = s
  BY <1>1
<1>4. Append(b, s) # <<>>
  BY <1>1, <1>3
<1> QED
  BY <1>1, <1>2, <1>3, <1>4, RefreshAssumption

\* What a published status leaves of the streams.
LEMMA Published ==
  ASSUME Types, NEW s \in Status, Publish(s)
  PROVE  /\ StatusOK' /\ ConnOK' /\ PageOK' /\ status' = s /\ drops' = drops
         /\ shown' = shown /\ overtaken' = overtaken
         /\ gap' = gap \cup {p \in Pages : conn[p].step = "read"}
         /\ \A p \in Pages :
              /\ conn[p].step # "open" => conn'[p] = conn[p]
              /\ conn[p].step = "open" => /\ conn'[p].step = "open" /\ conn'[p].initial = conn[p].initial
                                          /\ conn'[p].buf # <<>> /\ conn'[p].buf[Len(conn'[p].buf)] = s
<1> USE DEF Types
<1>1. ASSUME NEW p \in Pages
      PROVE  /\ conn'[p] \in ConnType /\ Len(conn'[p].buf) <= Cap
             /\ conn[p].step # "open" => conn'[p] = conn[p]
             /\ conn[p].step = "open" => /\ conn'[p].step = "open" /\ conn'[p].initial = conn[p].initial
                                         /\ conn'[p].buf # <<>> /\ conn'[p].buf[Len(conn'[p].buf)] = s
  <2>1. conn'[p] = IF conn[p].step = "open" THEN [conn[p] EXCEPT !.buf = Push(@, s)] ELSE conn[p]
    BY DEF Publish
  <2>2. conn[p] \in ConnType /\ Len(conn[p].buf) <= Cap /\ conn[p].buf \in Seq(Status)
    BY DEF ConnOK, ConnType
  <2>3. CASE conn[p].step = "open"
    <3> DEFINE b == Push(conn[p].buf, s)
    <3>1. b \in Seq(Status) /\ Len(b) <= Cap /\ b # <<>> /\ b[Len(b)] = s
      BY <2>2, PushKeeps
    <3>2. conn'[p] = [conn[p] EXCEPT !.buf = b]
      BY <2>1, <2>3
    <3> HIDE DEF b
    <3>3. conn'[p] \in ConnType /\ conn'[p].buf = b /\ conn'[p].step = "open" /\ conn'[p].initial = conn[p].initial
      BY <2>2, <2>3, <3>1, <3>2 DEF ConnType
    <3> QED
      BY <2>3, <3>1, <3>3
  <2>4. CASE conn[p].step # "open"
    BY <2>1, <2>2, <2>4
  <2> QED
    BY <2>3, <2>4
<1>2. conn' \in [Pages -> ConnType]
  <2>1. conn' = [p \in Pages |-> conn'[p]]
    BY DEF Publish
  <2> QED
    BY <1>1, <2>1
<1>3. ConnOK'
  BY <1>1, <1>2 DEF ConnOK
<1>4. StatusOK' /\ PageOK' /\ status' = s /\ drops' = drops /\ shown' = shown /\ overtaken' = overtaken
      /\ gap' = gap \cup {p \in Pages : conn[p].step = "read"}
  BY DEF Publish, StatusOK, PageOK
<1> QED
  BY <1>1, <1>3, <1>4

LEMMA StatusFields ==
  ASSUME Types
  PROVE  /\ \A done \in 0..MaxTargets, total \in 0..(MaxTargets + 1), current \in BOOLEAN :
              LET s == [status EXCEPT !.done = done, !.total = total, !.current = current] IN
              s \in Status /\ s.job = status.job /\ s.state = status.state /\ s.done = done /\ s.total = total
         /\ \A state \in {"success", "error"} :
              LET s == [status EXCEPT !.state = state, !.current = FALSE] IN
              s \in Status /\ s.job = status.job /\ s.state = state
         /\ \A j \in Jobs : Started(j) \in Status /\ Started(j).job = j /\ Started(j).state = "running"
<1>1. status \in Status
  BY DEF Types, StatusOK
<1>2. \A j \in Jobs : Started(j) \in Status /\ Started(j).job = j /\ Started(j).state = "running"
  BY Constants, RefreshAssumption DEF Started, Status, Jobs
<1> QED
  BY <1>1, <1>2 DEF Status

-----------------------------------------------------------------------------
LEMMA InitTypes == Init => Types
<1> SUFFICES ASSUME Init PROVE Types
  OBVIOUS
<1> USE Constants
<1>1. StatusOK /\ RestOK
  BY RefreshAssumption DEF Init, StatusOK, RestOK
<1>2. JobOK
  BY DEF Init, JobOK
<1>3. PostOK
  BY DEF Init, PostOK
<1>4. ConnOK
  BY RefreshAssumption DEF Init, ConnOK
<1>5. PageOK
  BY DEF Init, PageOK, Shown
<1> QED
  BY <1>1, <1>2, <1>3, <1>4, <1>5 DEF Types

\* A job that moves keeps its type when its new entry has one.
LEMMA JobMoves ==
  ASSUME Types, NEW j \in Jobs, NEW e \in JobType, job' = [job EXCEPT ![j] = e],
         e.left <= e.n, e.step \in {"call", "hung"} => e.left > 0
  PROVE  JobOK' /\ job'[j] = e /\ \A k \in Jobs \ {j} : job'[k] = job[k]
BY DEF Types, JobOK

\* A page's entry of POSTs, likewise.
LEMMA PostMoves ==
  ASSUME Types, NEW p \in Pages, NEW e \in PostType, post' = [post EXCEPT ![p] = e],
         e.step = "answered" => e.reply \in Status
  PROVE  PostOK'
BY DEF Types, PostOK

LEMMA AnswerTypes ==
  ASSUME Types, NEW p \in Pages, NEW s \in Status, Answer(p, s)
  PROVE  PostOK'
<1>1. [step |-> "answered", reply |-> s] \in PostType
  BY DEF PostType, Shown
<1> QED
  BY <1>1, PostMoves DEF Answer

\* What one step of a job's work does to the job, and the status it publishes.
LEMMA JobSteps ==
  ASSUME Types, NEW j \in Jobs
  PROVE  /\ \A s \in {"listing", "survey", "next", "call", "hung", "ended"} :
              (s \in {"call", "hung"} => job[j].left > 0)
              => LET e == [job[j] EXCEPT !.step = s] IN
                 e \in JobType /\ e.left = job[j].left /\ e.n = job[j].n /\ e.step = s
         /\ job[j] \in JobType /\ job[j].left <= job[j].n
         /\ Done(j) \in 0..MaxTargets /\ TotalOf(job[j].n) \in 0..(MaxTargets + 1)
BY RefreshAssumption DEF Types, JobOK, JobType, Done, TotalOf

LEMMA PageTypes ==
  ASSUME Types, NEW p \in Pages,
         Click(p) \/ PassGate(p) \/ Join(p) \/ Reply(p) \/ Connect(p) \/ Subscribe(p)
         \/ ReceiveInitial(p) \/ Receive(p) \/ Disconnect(p) \/ Reload(p)
  PROVE  Types'
<1> USE Constants
<1>0. /\ StatusOK /\ JobOK /\ PostOK /\ ConnOK /\ PageOK /\ RestOK
      /\ post[p] \in PostType /\ conn[p] \in ConnType /\ Len(conn[p].buf) <= Cap
      /\ conn[p].buf \in Seq(Status) /\ conn[p].initial \in Shown
  BY DEF Types, PostOK, ConnOK, ConnType
<1>1. CASE Click(p)
  <2>1. [post[p] EXCEPT !.step = "sent"] \in PostType /\ [post[p] EXCEPT !.step = "sent"].step = "sent"
    BY <1>0 DEF PostType
  <2>2. PostOK'
    BY <1>0, <1>1, <2>1 DEF Click, PostOK
  <2> QED
    BY <1>0, <1>1, <2>2 DEF Click, server, Types, StatusOK, JobOK, ConnOK, PageOK, RestOK
<1>2. CASE PassGate(p)
  <2>1. [post[p] EXCEPT !.step = "passed"] \in PostType /\ [post[p] EXCEPT !.step = "passed"].step = "passed"
    BY <1>0 DEF PostType
  <2>2. PostOK'
    BY <1>0, <1>2, <2>1 DEF PassGate, PostOK
  <2>3. RestOK'
    BY <1>0, <1>2, RefreshAssumption DEF PassGate, RestOK
  <2> QED
    BY <1>0, <1>2, <2>2, <2>3 DEF PassGate, Types, StatusOK, JobOK, ConnOK, PageOK
<1>3. CASE Join(p)
  <2>1. PostOK'
    BY <1>0, <1>3, AnswerTypes DEF Join, StatusOK
  <2> QED
    BY <1>0, <1>3, <2>1 DEF Join, server, Types, StatusOK, JobOK, ConnOK, PageOK, RestOK
<1>4. CASE Reply(p)
  <2>1. PostOK'
    BY <1>0, <1>4 DEF Reply, PostOK
  <2>2. PageOK'
    BY <1>0, <1>4 DEF Reply, Shows, PageOK, PostOK, Shown
  <2> QED
    BY <1>0, <1>4, <2>1, <2>2 DEF Reply, server, Types, StatusOK, JobOK, ConnOK, RestOK
<1>5. CASE Connect(p)
  <2>1. conn' = [conn EXCEPT ![p] = [conn[p] EXCEPT !.step = "read", !.initial = status]]
    BY <1>5 DEF Connect
  <2>2. /\ [conn[p] EXCEPT !.step = "read", !.initial = status] \in ConnType
        /\ [conn[p] EXCEPT !.step = "read", !.initial = status].buf = conn[p].buf
    BY <1>0 DEF ConnType, StatusOK, Shown
  <2>3. ConnOK'
    BY <1>0, <2>1, <2>2 DEF ConnOK
  <2> QED
    BY <1>0, <1>5, <2>3 DEF Connect, server, Types, StatusOK, JobOK, PostOK, PageOK, RestOK
<1>6. CASE Subscribe(p)
  <2>1. conn' = [conn EXCEPT ![p] = [conn[p] EXCEPT !.step = "open"]]
    BY <1>6 DEF Subscribe
  <2>2. /\ [conn[p] EXCEPT !.step = "open"] \in ConnType
        /\ [conn[p] EXCEPT !.step = "open"].buf = conn[p].buf
    BY <1>0 DEF ConnType
  <2>3. ConnOK'
    BY <1>0, <2>1, <2>2 DEF ConnOK
  <2> QED
    BY <1>0, <1>6, <2>3 DEF Subscribe, server, Types, StatusOK, JobOK, PostOK, PageOK, RestOK
<1>7. CASE ReceiveInitial(p)
  <2>1. conn' = [conn EXCEPT ![p] = [conn[p] EXCEPT !.initial = None]]
    BY <1>7 DEF ReceiveInitial
  <2>2. /\ [conn[p] EXCEPT !.initial = None] \in ConnType
        /\ [conn[p] EXCEPT !.initial = None].buf = conn[p].buf
    BY <1>0 DEF ConnType, Shown
  <2>3. ConnOK'
    BY <1>0, <2>1, <2>2 DEF ConnOK
  <2>4. PageOK'
    BY <1>0, <1>7 DEF ReceiveInitial, Shows, PageOK
  <2> QED
    BY <1>0, <1>7, <2>3, <2>4 DEF ReceiveInitial, server, Types, StatusOK, JobOK, PostOK, RestOK
<1>8. CASE Receive(p)
  <2>1. conn' = [conn EXCEPT ![p] = [conn[p] EXCEPT !.buf = Tail(conn[p].buf)]]
    BY <1>8 DEF Receive
  <2>2. Tail(conn[p].buf) \in Seq(Status) /\ Len(Tail(conn[p].buf)) <= Cap /\ Head(conn[p].buf) \in Status
    BY <1>0, <1>8, RefreshAssumption DEF Receive
  <2>3. /\ [conn[p] EXCEPT !.buf = Tail(conn[p].buf)] \in ConnType
        /\ [conn[p] EXCEPT !.buf = Tail(conn[p].buf)].buf = Tail(conn[p].buf)
    BY <1>0, <2>2 DEF ConnType
  <2>4. ConnOK'
    BY <1>0, <2>1, <2>2, <2>3 DEF ConnOK
  <2>5. PageOK'
    BY <1>0, <1>8, <2>2 DEF Receive, Shows, PageOK, Shown
  <2> QED
    BY <1>0, <1>8, <2>4, <2>5 DEF Receive, server, Types, StatusOK, JobOK, PostOK, RestOK
<1>9. CASE Disconnect(p)
  <2>1. ConnOK'
    BY <1>0, <1>9, RefreshAssumption DEF Disconnect, ConnOK
  <2>2. RestOK'
    BY <1>0, <1>9, RefreshAssumption DEF Disconnect, Drop, server, RestOK
  <2> QED
    BY <1>0, <1>9, <2>1, <2>2 DEF Disconnect, server, Types, StatusOK, JobOK, PostOK, PageOK
<1>10. CASE Reload(p)
  <2>1. ConnOK'
    BY <1>0, <1>10, RefreshAssumption DEF Reload, ConnOK
  <2>2. RestOK'
    BY <1>0, <1>10, RefreshAssumption DEF Reload, Drop, server, RestOK
  <2>3. PostOK'
    BY <1>0, <1>10 DEF Reload, PostOK
  <2>4. PageOK'
    BY <1>0, <1>10 DEF Reload, PageOK, Shown
  <2> QED
    BY <1>0, <1>10, <2>1, <2>2, <2>3, <2>4 DEF Reload, server, Types, StatusOK, JobOK
<1> QED
  BY <1>1, <1>2, <1>3, <1>4, <1>5, <1>6, <1>7, <1>8, <1>9, <1>10

\* A step of the server that publishes a status, and moves the jobs and the POSTs.
LEMMA PublishTypes ==
  ASSUME Types, NEW s \in Status, Publish(s), JobOK', PostOK', gate' = gate
  PROVE  Types'
<1>1. RestOK'
  BY Published DEF Types, RestOK
<1> QED
  BY <1>1, Published DEF Types

LEMMA StartTypes ==
  ASSUME Types, NEW j \in Jobs, job[j] = Unborn,
         job' = [job EXCEPT ![j].step = "listing"]
  PROVE  /\ Started(j) \in Status /\ JobOK' /\ job'[j].step = "listing"
         /\ \A k \in Jobs \ {j} : job'[k] = job[k]
<1> DEFINE e == [job[j] EXCEPT !.step = "listing"]
<1>1. job' = [job EXCEPT ![j] = e]
  OBVIOUS
<1>2. e \in JobType /\ e.left <= e.n /\ e.step = "listing"
  BY JobSteps
<1> HIDE DEF e
<1>3. JobOK' /\ job'[j] = e /\ \A k \in Jobs \ {j} : job'[k] = job[k]
  BY <1>1, <1>2, JobMoves
<1> QED
  BY <1>2, <1>3, StatusFields

\* A target that is asked for is left, so a job that has answered it has one less.
LEMMA AnsweredMoves ==
  ASSUME Types, NEW j \in Jobs, Answered(j)
  PROVE  /\ JobOK' /\ job'[j].step = "next" /\ job'[j].n = job[j].n /\ job'[j].left = job[j].left - 1
         /\ \A k \in Jobs \ {j} : job'[k] = job[k]
         /\ Done(j) + 1 \in 0..MaxTargets
<1> DEFINE e == [job[j] EXCEPT !.step = "next", !.left = job[j].left - 1]
<1>1. job' = [job EXCEPT ![j] = e]
  BY DEF Answered
<1>2. job[j] \in JobType /\ job[j].left <= job[j].n /\ job[j].left > 0
  BY DEF Types, JobOK, Answered
<1>3. e \in JobType /\ e.left <= e.n /\ e.step = "next" /\ e.n = job[j].n /\ e.left = job[j].left - 1
  <2> DEFINE m == job[j].left - 1
  <2>1. m \in 0..MaxTargets /\ m <= job[j].n
    BY <1>2, RefreshAssumption DEF JobType
  <2>2. e = [job[j] EXCEPT !.step = "next", !.left = m]
    OBVIOUS
  <2> HIDE DEF m, e
  <2>3. e \in JobType /\ e.left = m /\ e.n = job[j].n /\ e.step = "next"
    BY <1>2, <2>1, <2>2 DEF JobType
  <2> QED
    BY <2>1, <2>3 DEF m
<1>4. Done(j) + 1 \in 0..MaxTargets
  BY <1>2, RefreshAssumption DEF JobType, Done
<1> HIDE DEF e
<1> QED
  BY <1>1, <1>3, <1>4, JobMoves

LEMMA BeginMoves ==
  ASSUME Types, NEW j \in Jobs, NEW n \in 0..MaxTargets, Begin(j, n)
  PROVE  /\ JobOK' /\ job'[j].step = "next" /\ job'[j].n = n /\ job'[j].left = n
         /\ \A k \in Jobs \ {j} : job'[k] = job[k]
         /\ 0 \in 0..MaxTargets /\ TotalOf(n) \in 0..(MaxTargets + 1)
<1> DEFINE e == [step |-> "next", n |-> n, left |-> n]
<1>1. job' = [job EXCEPT ![j] = e]
  BY DEF Begin
<1>2. e \in JobType /\ e.left <= e.n /\ e.step = "next" /\ e.n = n /\ e.left = n
  BY RefreshAssumption DEF JobType
<1> HIDE DEF e
<1>3. JobOK' /\ job'[j] = e /\ \A k \in Jobs \ {j} : job'[k] = job[k]
  BY <1>1, <1>2, JobMoves
<1>4. 0 \in 0..MaxTargets /\ TotalOf(n) \in 0..(MaxTargets + 1)
  BY RefreshAssumption DEF TotalOf
<1> QED
  BY <1>2, <1>3, <1>4

-----------------------------------------------------------------------------
(***************************************************************************)
(* The status is the jobs': the one that runs is the status's, and nothing *)
(* runs once the status does not say so.                                   *)
(***************************************************************************)

\* The word and the progress of one job.
Tells(j) ==
  /\ Runs(j) <=> status.state = "running" /\ status.job = j
  /\ Runs(j) /\ job[j].step \notin {"listing", "survey"} =>
       status.done = Done(j) /\ status.total = TotalOf(job[j].n)

LEMMA TellsAll == StatusIsTheJobs <=> \A j \in Jobs : Tells(j)
BY DEF StatusIsTheJobs, Tells

\* A job that goes on as the status's own keeps every other one from running.
LEMMA Goes ==
  ASSUME StatusIsTheJobs, NEW j \in Jobs, Runs(j),
         status'.state = "running", status'.job = status.job,
         job'[j].step \notin {"unborn", "ended"},
         job'[j].step \in {"listing", "survey"}
           \/ (status'.done = job'[j].n - job'[j].left /\ status'.total = TotalOf(job'[j].n)),
         \A k \in Jobs \ {j} : job'[k] = job[k]
  PROVE  StatusIsTheJobs'
<1>1. status.job = j /\ status.state = "running"
  BY DEF StatusIsTheJobs
<1> SUFFICES ASSUME NEW k \in Jobs PROVE Tells(k)'
  BY DEF StatusIsTheJobs, Tells
<1>2. CASE k = j
  BY <1>1, <1>2 DEF Tells, Runs, Done
<1>3. CASE k # j
  <2>1. ~Runs(k) /\ job'[k] = job[k]
    BY <1>1, <1>3 DEF StatusIsTheJobs
  <2> QED
    BY <1>1, <1>3, <2>1 DEF Tells, Runs
<1> QED
  BY <1>2, <1>3

\* A job that ends takes the word with it.
LEMMA Stops ==
  ASSUME StatusIsTheJobs, NEW j \in Jobs, Runs(j),
         status'.state # "running", job'[j].step = "ended",
         \A k \in Jobs \ {j} : job'[k] = job[k]
  PROVE  StatusIsTheJobs'
<1>1. status.job = j /\ status.state = "running"
  BY DEF StatusIsTheJobs
<1> SUFFICES ASSUME NEW k \in Jobs PROVE Tells(k)'
  BY DEF StatusIsTheJobs, Tells
<1>2. ~Runs(k)'
  <2>1. CASE k = j
    BY <2>1 DEF Runs
  <2>2. CASE k # j
    BY <1>1, <2>2 DEF StatusIsTheJobs, Runs
  <2> QED
    BY <2>1, <2>2
<1> QED
  BY <1>2 DEF Tells

\* A job that starts finds no other one running.
LEMMA Starts ==
  ASSUME Types, StatusIsTheJobs, NEW j \in Jobs, status.state # "running", job[j] = Unborn,
         job' = [job EXCEPT ![j].step = "listing"], Publish(Started(j)), gate' = gate, PostOK'
  PROVE  Types' /\ StatusIsTheJobs'
<1>1. /\ Started(j) \in Status /\ JobOK' /\ job'[j].step = "listing"
      /\ \A k \in Jobs \ {j} : job'[k] = job[k]
  BY StartTypes
<1>2. Types' /\ status' = Started(j)
  BY <1>1, PublishTypes, Published
<1>3. status'.state = "running" /\ status'.job = j
  BY <1>2, StatusFields
<1>4. \A k \in Jobs : ~Runs(k)
  BY DEF StatusIsTheJobs
<1>5. ASSUME NEW k \in Jobs PROVE Tells(k)'
  <2>1. CASE k = j
    BY <1>1, <1>3, <2>1 DEF Tells, Runs
  <2>2. CASE k # j
    BY <1>1, <1>3, <1>4, <2>2 DEF Tells, Runs
  <2> QED
    BY <2>1, <2>2
<1> QED
  BY <1>2, <1>5 DEF StatusIsTheJobs, Tells

\* What is published of a job's progress.
LEMMA ProgressIs ==
  ASSUME Types, NEW done \in 0..MaxTargets, NEW total \in 0..(MaxTargets + 1), NEW current \in BOOLEAN,
         Progress(done, total, current), JobOK', PostOK', gate' = gate
  PROVE  /\ Types' /\ status'.job = status.job /\ status'.state = status.state
         /\ status'.done = done /\ status'.total = total
<1> DEFINE s == [status EXCEPT !.done = done, !.total = total, !.current = current]
<1>1. s \in Status /\ s.job = status.job /\ s.state = status.state /\ s.done = done /\ s.total = total
  BY DEF Types, StatusOK, Status
<1>2. Publish(s)
  BY DEF Progress
<1> HIDE DEF s
<1> QED
  BY <1>1, <1>2, PublishTypes, Published

LEMMA FinishIs ==
  ASSUME Types, StatusIsTheJobs, NEW j \in Jobs, Runs(j), NEW state \in {"success", "error"}, Finish(j, state)
  PROVE  Types' /\ StatusIsTheJobs'
<1> DEFINE s == [status EXCEPT !.state = state, !.current = FALSE]
           e == [job[j] EXCEPT !.step = "ended"]
<1>1. s \in Status /\ s.state # "running"
  <2>1. \A x \in {"success", "error"} :
          LET t == [status EXCEPT !.state = x, !.current = FALSE] IN t \in Status /\ t.state = x
    BY StatusFields
  <2>2. s \in Status /\ s.state = state
    BY <2>1
  <2> QED
    BY <2>2
<1>2. e \in JobType /\ e.left <= e.n /\ e.step = "ended"
  BY JobSteps
<1>3. Publish(s) /\ job' = [job EXCEPT ![j] = e] /\ UNCHANGED <<gate, post>>
  BY DEF Finish
<1> HIDE DEF s, e
<1>4. JobOK' /\ job'[j] = e /\ \A k \in Jobs \ {j} : job'[k] = job[k]
  BY <1>2, <1>3, JobMoves
<1>5. PostOK'
  BY <1>3 DEF Types, PostOK
<1>6. Types' /\ status' = s
  BY <1>1, <1>3, <1>4, <1>5, PublishTypes, Published
<1> QED
  BY <1>1, <1>2, <1>4, <1>6, Stops

LEMMA BeginIs ==
  ASSUME Types, StatusIsTheJobs, NEW j \in Jobs, Runs(j), NEW n \in 0..MaxTargets, Begin(j, n)
  PROVE  Types' /\ StatusIsTheJobs'
<1>1. /\ JobOK' /\ job'[j].step = "next" /\ job'[j].n = n /\ job'[j].left = n
      /\ \A k \in Jobs \ {j} : job'[k] = job[k]
      /\ 0 \in 0..MaxTargets /\ TotalOf(n) \in 0..(MaxTargets + 1)
  BY BeginMoves
<1>2. PostOK' /\ gate' = gate /\ Progress(0, TotalOf(n), FALSE)
  BY DEF Begin, Types, PostOK
<1>3. Types' /\ status'.job = status.job /\ status'.state = status.state
      /\ status'.done = 0 /\ status'.total = TotalOf(n)
  BY <1>1, <1>2, ProgressIs
<1>4. status'.done = job'[j].n - job'[j].left
  BY <1>1, <1>3, RefreshAssumption
<1>5. status.state = "running"
  BY DEF StatusIsTheJobs
<1> QED
  BY <1>1, <1>3, <1>4, <1>5, Goes

LEMMA WorkIs ==
  ASSUME Types, StatusIsTheJobs, NEW j \in Jobs, Work(j) \/ Hangs(j)
  PROVE  Types' /\ StatusIsTheJobs'
<1>0. Runs(j)
  BY DEF Work, Hangs, Lists, Surveys, Surveyed, Asks, Answered, Succeeds, Fails, Runs
<1>0a. status.state = "running" /\ status.job = j
  BY <1>0 DEF StatusIsTheJobs
<1>1. CASE Lists(j)
  BY <1>0, <1>1, BeginIs, RefreshAssumption DEF Lists
<1>2. CASE Surveyed(j)
  BY <1>0, <1>2, BeginIs DEF Surveyed
<1>3. CASE Succeeds(j)
  BY <1>0, <1>3, FinishIs DEF Succeeds
<1>4. CASE Fails(j)
  BY <1>0, <1>4, FinishIs DEF Fails
<1>5. CASE Surveys(j)
  <2> DEFINE e == [job[j] EXCEPT !.step = "survey"]
  <2>1. e \in JobType /\ e.left <= e.n /\ e.step = "survey"
    BY JobSteps
  <2>2. job' = [job EXCEPT ![j] = e] /\ UNCHANGED <<status, gate, post, conn, shown, drops, gap, overtaken>>
    BY <1>5 DEF Surveys
  <2> HIDE DEF e
  <2>3. JobOK' /\ job'[j] = e /\ \A k \in Jobs \ {j} : job'[k] = job[k]
    BY <2>1, <2>2, JobMoves
  <2>4. Types'
    BY <2>2, <2>3 DEF Types, StatusOK, PostOK, ConnOK, PageOK, RestOK
  <2> QED
    BY <1>0, <1>0a, <2>1, <2>2, <2>3, <2>4, Goes
<1>6. CASE Hangs(j)
  <2> DEFINE e == [job[j] EXCEPT !.step = "hung"]
  <2>0. job[j].step = "call" /\ job[j].left > 0
    BY <1>6 DEF Hangs, Types, JobOK
  <2>1. e \in JobType /\ e.left <= e.n /\ e.step = "hung" /\ e.left = job[j].left /\ e.n = job[j].n
    BY <2>0, JobSteps
  <2>2. job' = [job EXCEPT ![j] = e] /\ UNCHANGED <<status, gate, post, conn, shown, drops, gap, overtaken>>
    BY <1>6 DEF Hangs
  <2> HIDE DEF e
  <2>3. JobOK' /\ job'[j] = e /\ \A k \in Jobs \ {j} : job'[k] = job[k]
    BY <2>0, <2>1, <2>2, JobMoves
  <2>4. Types'
    BY <2>2, <2>3 DEF Types, StatusOK, PostOK, ConnOK, PageOK, RestOK
  <2>5. status'.done = job'[j].n - job'[j].left /\ status'.total = TotalOf(job'[j].n)
    BY <1>0, <2>0, <2>1, <2>2, <2>3 DEF StatusIsTheJobs, Done
  <2> QED
    BY <1>0, <1>0a, <2>1, <2>2, <2>3, <2>4, <2>5, Goes
<1>7. CASE Asks(j)
  <2> DEFINE e == [job[j] EXCEPT !.step = "call"]
  <2>1. e \in JobType /\ e.left <= e.n /\ e.step = "call" /\ e.left = job[j].left /\ e.n = job[j].n /\ e.left > 0
    BY <1>7, JobSteps DEF Asks
  <2>2. job' = [job EXCEPT ![j] = e] /\ UNCHANGED <<gate, post>> /\ Progress(Done(j), TotalOf(job[j].n), TRUE)
    BY <1>7 DEF Asks
  <2> HIDE DEF e
  <2>3. JobOK' /\ job'[j] = e /\ \A k \in Jobs \ {j} : job'[k] = job[k]
    BY <2>1, <2>2, JobMoves
  <2>4. PostOK' /\ gate' = gate
    BY <2>2 DEF Types, PostOK
  <2>5. Types' /\ status'.job = status.job /\ status'.state = status.state
        /\ status'.done = Done(j) /\ status'.total = TotalOf(job[j].n)
    BY <2>2, <2>3, <2>4, JobSteps, ProgressIs
  <2>6. status'.done = job'[j].n - job'[j].left /\ status'.total = TotalOf(job'[j].n)
    BY <2>1, <2>3, <2>5 DEF Done
  <2> QED
    BY <1>0, <1>0a, <2>1, <2>3, <2>5, <2>6, Goes
<1>8. CASE Answered(j)
  <2>1. /\ JobOK' /\ job'[j].step = "next" /\ job'[j].n = job[j].n /\ job'[j].left = job[j].left - 1
        /\ \A k \in Jobs \ {j} : job'[k] = job[k]
        /\ Done(j) + 1 \in 0..MaxTargets
    BY <1>8, AnsweredMoves
  <2>2. PostOK' /\ gate' = gate /\ Progress(Done(j) + 1, TotalOf(job[j].n), FALSE)
    BY <1>8 DEF Answered, Types, PostOK
  <2>3. Types' /\ status'.job = status.job /\ status'.state = status.state
        /\ status'.done = Done(j) + 1 /\ status'.total = TotalOf(job[j].n)
    BY <2>1, <2>2, JobSteps, ProgressIs
  <2>4. job[j].n \in Nat /\ job[j].left \in Nat
    BY RefreshAssumption DEF Types, JobOK, JobType
  <2>5. status'.done = job'[j].n - job'[j].left /\ status'.total = TotalOf(job'[j].n)
    BY <2>1, <2>3, <2>4 DEF Done
  <2> QED
    BY <1>0, <1>0a, <2>1, <2>3, <2>5, Goes
<1> QED
  BY <1>1, <1>2, <1>3, <1>4, <1>5, <1>6, <1>7, <1>8 DEF Work

\* The job that is told is not the page's business: it changes nothing here.
LEMMA StatusKept ==
  ASSUME StatusIsTheJobs, UNCHANGED <<status, job>>
  PROVE  StatusIsTheJobs'
BY DEF StatusIsTheJobs, Runs, Done, TotalOf

LEMMA StartIs ==
  ASSUME Types, StatusIsTheJobs, (\E p \in Pages : Start(p)) \/ StartElsewhere
  PROVE  Types' /\ StatusIsTheJobs'
<1>1. ASSUME NEW p \in Pages, Start(p) PROVE Types' /\ StatusIsTheJobs'
  <2>1. PICK j \in Jobs : /\ job[j] = Unborn /\ job' = [job EXCEPT ![j].step = "listing"]
                          /\ Publish(Started(j)) /\ Answer(p, Started(j))
    BY <1>1 DEF Start
  <2>2. status.state # "running" /\ gate' = gate
    BY <1>1 DEF Start
  <2>3. Started(j) \in Status
    BY StatusFields
  <2>4. PostOK'
    BY <2>1, <2>3, AnswerTypes
  <2> QED
    BY <2>1, <2>2, <2>4, Starts
<1>2. CASE StartElsewhere
  <2>1. PICK j \in Jobs : /\ job[j] = Unborn /\ job' = [job EXCEPT ![j].step = "listing"]
                          /\ Publish(Started(j))
    BY <1>2 DEF StartElsewhere
  <2>2. status.state # "running" /\ gate' = gate /\ PostOK'
    BY <1>2 DEF StartElsewhere, Types, PostOK
  <2> QED
    BY <2>1, <2>2, Starts
<1> QED
  BY <1>1, <1>2

LEMMA RestartIs ==
  ASSUME Types, Restart
  PROVE  Types' /\ StatusIsTheJobs'
<1> USE Constants
<1>1. ASSUME NEW j \in Jobs
      PROVE  job'[j] \in JobType /\ job'[j].left <= job'[j].n /\ job'[j].step \in {"unborn", "ended"}
  <2>1. job'[j] = IF job[j] = Unborn THEN Unborn ELSE [job[j] EXCEPT !.step = "ended"]
    BY DEF Restart
  <2>2. CASE job[j] = Unborn
    BY <2>1, <2>2, RefreshAssumption
  <2>3. CASE job[j] # Unborn
    <3> DEFINE e == [job[j] EXCEPT !.step = "ended"]
    <3>1. e \in JobType /\ e.left <= e.n /\ e.step = "ended"
      BY JobSteps
    <3> HIDE DEF e
    <3>2. job'[j] = e
      BY <2>1, <2>3 DEF e
    <3> QED
      BY <3>1, <3>2
  <2> QED
    BY <2>2, <2>3
<1>2. JobOK'
  <2>1. job' = [j \in Jobs |-> job'[j]]
    BY DEF Restart
  <2> QED
    BY <1>1, <2>1 DEF JobOK
<1>3. PostOK'
  <2>1. post' = [p \in Pages |-> IF post[p].step = "answered" THEN post[p] ELSE NoPost]
    BY DEF Restart
  <2> QED
    BY <2>1 DEF Types, PostOK
<1>4. ConnOK'
  BY RefreshAssumption DEF Restart, ConnOK
<1>5. StatusOK' /\ PageOK' /\ RestOK'
  BY RefreshAssumption DEF Restart, Drop, Types, StatusOK, PageOK, RestOK
<1>6. status'.state = "idle"
  BY DEF Restart
<1>7. StatusIsTheJobs'
  <2> SUFFICES ASSUME NEW j \in Jobs PROVE Tells(j)'
    BY DEF StatusIsTheJobs, Tells
  <2>1. ~Runs(j)'
    BY <1>1 DEF Runs
  <2> QED
    BY <1>6, <2>1 DEF Tells
<1> QED
  BY <1>2, <1>3, <1>4, <1>5, <1>7 DEF Types

LEMMA Steps ==
  ASSUME Types, StatusIsTheJobs, [Next]_vars
  PROVE  Types' /\ StatusIsTheJobs'
<1>1. ASSUME NEW p \in Pages,
             Click(p) \/ PassGate(p) \/ Join(p) \/ Reply(p) \/ Connect(p) \/ Subscribe(p)
             \/ ReceiveInitial(p) \/ Receive(p) \/ Disconnect(p) \/ Reload(p)
      PROVE  Types' /\ StatusIsTheJobs'
  <2>1. UNCHANGED <<status, job>>
    BY <1>1 DEF Click, PassGate, Join, Reply, Connect, Subscribe, ReceiveInitial, Receive, Disconnect, Reload, server
  <2> QED
    BY <1>1, <2>1, PageTypes, StatusKept
<1>2. CASE (\E p \in Pages : Start(p)) \/ StartElsewhere
  BY <1>2, StartIs
<1>3. ASSUME NEW u \in Users, GateReopens(u) PROVE Types' /\ StatusIsTheJobs'
  <2>1. Types'
    BY <1>3 DEF GateReopens, Types, StatusOK, JobOK, PostOK, ConnOK, PageOK, RestOK
  <2> QED
    BY <1>3, <2>1, StatusKept DEF GateReopens
<1>4. ASSUME NEW j \in Jobs, Work(j) \/ Hangs(j) PROVE Types' /\ StatusIsTheJobs'
  BY <1>4, WorkIs
<1>5. CASE Restart
  BY <1>5, RestartIs
<1>6. CASE UNCHANGED vars
  <2>1. Types'
    BY <1>6 DEF vars, server, Types, StatusOK, JobOK, PostOK, ConnOK, PageOK, RestOK
  <2> QED
    BY <1>6, <2>1, StatusKept DEF vars, server
<1> QED
  BY <1>1, <1>2, <1>3, <1>4, <1>5, <1>6 DEF Next, Serve, Stream

LEMMA InitSteps == Init => Types /\ StatusIsTheJobs
<1> SUFFICES ASSUME Init PROVE StatusIsTheJobs
  BY InitTypes
<1> QED
  BY Constants DEF Init, StatusIsTheJobs, Runs

\* The type invariant: among it that a job asks for no more targets than it has.
THEOREM Typed == Spec => []TypeOK
<1>1. Spec => [](Types /\ StatusIsTheJobs)
  BY InitSteps, Steps, PTL DEF Spec
<1> QED
  BY <1>1, TypesImply, PTL

\* The status says "running" exactly while a job runs, there is one such job, and
\* the progress shown is that job's, for any number of users who ask for one and
\* wherever a job fails.
THEOREM OneJob == Spec => []StatusIsTheJobs
BY InitSteps, Steps, PTL DEF Spec

-----------------------------------------------------------------------------
(***************************************************************************)
(* What is on its way to a page ends with the status there is.             *)
(***************************************************************************)

Follow(p) ==
  /\ conn[p].step = "closed" => conn[p] = Closed
  /\ conn[p].step = "read" =>
       conn[p].buf = <<>> /\ conn[p].initial # None /\ (p \notin gap => conn[p].initial = status)
  /\ conn[p].step = "open" =>
       /\ conn[p].buf # <<>> => conn[p].buf[Len(conn[p].buf)] = status
       /\ conn[p].buf = <<>> /\ conn[p].initial # None /\ p \notin gap => conn[p].initial = status
       /\ Drained(p) /\ p \notin gap \cup overtaken => shown[p] = status

Followed == \A p \in Pages : Follow(p)

LEMMA FollowsPublish ==
  ASSUME Types, Followed, NEW s \in Status, Publish(s)
  PROVE  Followed'
<1> SUFFICES ASSUME NEW p \in Pages PROVE Follow(p)'
  BY DEF Followed
<1>1. /\ status' = s /\ gap' = gap \cup {q \in Pages : conn[q].step = "read"}
      /\ conn[p].step # "open" => conn'[p] = conn[p]
      /\ conn[p].step = "open" => /\ conn'[p].step = "open" /\ conn'[p].buf # <<>>
                                  /\ conn'[p].buf[Len(conn'[p].buf)] = s
  BY Published
<1>2. Follow(p)
  BY DEF Followed
<1>3. CASE conn[p].step = "open"
  BY <1>1, <1>3 DEF Follow, Drained
<1>4. CASE conn[p].step # "open"
  BY <1>1, <1>2, <1>4 DEF Follow
<1> QED
  BY <1>3, <1>4

\* A page whose stream, status and marks are left alone goes on as it was.
LEMMA FollowsOther ==
  ASSUME NEW p \in Pages, Follow(p), conn'[p] = conn[p], status' = status, shown'[p] = shown[p],
         p \in gap => p \in gap', p \in overtaken => p \in overtaken'
  PROVE  Follow(p)'
BY DEF Follow, Drained

LEMMA FollowsPage ==
  ASSUME Types, Followed, NEW p \in Pages,
         Reply(p) \/ Connect(p) \/ Subscribe(p) \/ ReceiveInitial(p) \/ Receive(p)
         \/ Disconnect(p) \/ Reload(p)
  PROVE  Followed'
<1>0. /\ Follow(p) /\ \A q \in Pages : Follow(q)
      /\ conn \in [Pages -> ConnType] /\ conn[p] \in ConnType /\ shown \in [Pages -> Shown] /\ status \in Status
  BY DEF Followed, Types, ConnOK, PageOK, StatusOK
<1>1. ASSUME NEW q \in Pages, q # p PROVE Follow(q)'
  <2>1. conn'[q] = conn[q] /\ status' = status /\ shown'[q] = shown[q]
        /\ (q \in gap => q \in gap') /\ (q \in overtaken => q \in overtaken')
    BY <1>0, <1>1 DEF Reply, Connect, Subscribe, ReceiveInitial, Receive, Disconnect, Reload, Shows, server
  <2> QED
    BY <1>0, <1>1, <2>1, FollowsOther
<1>2. Follow(p)'
  <2>1. CASE Reply(p)
    <3>1. conn' = conn /\ status' = status /\ gap' = gap /\ shown'[p] = post[p].reply
      BY <1>0, <2>1 DEF Reply, Shows, server
    <3>2. p \notin overtaken' => post[p].reply = status /\ Drained(p)
      BY <2>1 DEF Reply
    <3> QED
      BY <1>0, <3>1, <3>2 DEF Follow, Drained
  <2>2. CASE Connect(p)
    <3>1. conn[p] = Closed /\ Closed.buf = <<>>
      BY <1>0, <2>2, Constants DEF Connect, Follow
    <3>2. conn'[p] = [conn[p] EXCEPT !.step = "read", !.initial = status] /\ status' = status
      BY <1>0, <2>2 DEF Connect, server
    <3>3. conn'[p].step = "read" /\ conn'[p].initial = status /\ conn'[p].buf = <<>>
      BY <1>0, <3>1, <3>2 DEF ConnType
    <3> QED
      BY <1>0, <3>2, <3>3, NoneIsNoStatus DEF Follow
  <2>3. CASE Subscribe(p)
    <3>1. conn'[p] = [conn[p] EXCEPT !.step = "open"] /\ status' = status /\ gap' = gap /\ conn[p].step = "read"
      BY <1>0, <2>3 DEF Subscribe, server
    <3>2. conn'[p].step = "open" /\ conn'[p].initial = conn[p].initial /\ conn'[p].buf = conn[p].buf
      BY <1>0, <3>1 DEF ConnType
    <3> QED
      BY <1>0, <3>1, <3>2 DEF Follow, Drained
  <2>4. CASE ReceiveInitial(p)
    <3>1. /\ conn'[p] = [conn[p] EXCEPT !.initial = None] /\ status' = status /\ gap' = gap
          /\ conn[p].step = "open" /\ conn[p].initial # None /\ shown'[p] = conn[p].initial
      BY <1>0, <2>4 DEF ReceiveInitial, Shows, server
    <3>2. conn'[p].step = "open" /\ conn'[p].initial = None /\ conn'[p].buf = conn[p].buf
      BY <1>0, <3>1 DEF ConnType
    <3> QED
      BY <1>0, <3>1, <3>2 DEF Follow, Drained
  <2>5. CASE Receive(p)
    <3> DEFINE b == conn[p].buf
    <3>1. /\ conn'[p] = [conn[p] EXCEPT !.buf = Tail(b)] /\ status' = status
          /\ conn[p].initial = None /\ b # <<>> /\ shown'[p] = Head(b)
      BY <1>0, <2>5 DEF Receive, Shows, server
    <3>2. conn'[p].step = conn[p].step /\ conn'[p].initial = conn[p].initial /\ conn'[p].buf = Tail(b)
      BY <1>0, <3>1 DEF ConnType
    <3>3. b \in Seq(Status)
      BY <1>0 DEF ConnType
    <3>4. conn[p].step = "open"
      BY <1>0, <3>1, Constants DEF Follow, ConnType
    <3>5. b[Len(b)] = status
      BY <1>0, <3>1, <3>4 DEF Follow
    <3> HIDE DEF b
    <3>6. Tail(b) = <<>> => Head(b) = status
      <4>1. Len(Tail(b)) = Len(b) - 1 /\ Head(b) = b[1] /\ Len(b) \in Nat
        BY <3>1, <3>3
      <4>2. ASSUME Tail(b) = <<>> PROVE Len(b) = 1
        <5>1. Len(Tail(b)) = 0
          BY <3>1, <3>3, <4>2, EmptySeq
        <5> QED
          BY <4>1, <5>1
      <4> QED
        BY <3>5, <4>1, <4>2
    <3>7. Tail(b) # <<>> => Tail(b)[Len(Tail(b))] = status
      BY <3>1, <3>3, <3>5
    <3> QED
      BY <1>0, <3>1, <3>2, <3>4, <3>6, <3>7 DEF Follow, Drained
  <2>6. CASE Disconnect(p) \/ Reload(p)
    <3>1. conn'[p] = Closed
      BY <1>0, <2>6 DEF Disconnect, Reload
    <3> QED
      BY <3>1, Constants DEF Follow
  <2> QED
    BY <2>1, <2>2, <2>3, <2>4, <2>5, <2>6
<1> QED
  BY <1>1, <1>2 DEF Followed

\* A step of the server that publishes nothing leaves the streams alone.
LEMMA FollowsQuiet ==
  ASSUME Followed, UNCHANGED <<status, conn, shown, gap, overtaken>>
  PROVE  Followed'
BY FollowsOther DEF Followed

LEMMA WorkPublishes ==
  ASSUME Types, NEW j \in Jobs, Work(j) \/ Hangs(j)
  PROVE  UNCHANGED <<status, conn, shown, gap, overtaken>> \/ \E s \in Status : Publish(s)
<1>0. ASSUME NEW done \in 0..MaxTargets, NEW total \in 0..(MaxTargets + 1), NEW current \in BOOLEAN,
             Progress(done, total, current)
      PROVE  \E s \in Status : Publish(s)
  <2> DEFINE s == [status EXCEPT !.done = done, !.total = total, !.current = current]
  <2>1. s \in Status
    BY DEF Types, StatusOK, Status
  <2> QED
    BY <1>0, <2>1 DEF Progress
<1>1. ASSUME NEW n \in 0..MaxTargets, Begin(j, n) PROVE \E s \in Status : Publish(s)
  BY <1>0, <1>1, BeginMoves DEF Begin
<1>2. ASSUME NEW state \in {"success", "error"}, Finish(j, state) PROVE \E s \in Status : Publish(s)
  <2> DEFINE s == [status EXCEPT !.state = state, !.current = FALSE]
  <2>1. s \in Status
    BY DEF Types, StatusOK, Status
  <2> QED
    BY <1>2, <2>1 DEF Finish
<1>3. CASE Lists(j) \/ Surveyed(j)
  BY <1>1, <1>3, RefreshAssumption DEF Lists, Surveyed
<1>4. CASE Succeeds(j) \/ Fails(j)
  BY <1>2, <1>4 DEF Succeeds, Fails
<1>5. CASE Surveys(j) \/ Hangs(j)
  BY <1>5 DEF Surveys, Hangs
<1>6. CASE Asks(j)
  BY <1>0, <1>6, JobSteps DEF Asks
<1>7. CASE Answered(j)
  <2>1. Done(j) + 1 \in 0..MaxTargets
    BY <1>7, AnsweredMoves
  <2> QED
    BY <1>0, <1>7, <2>1, JobSteps DEF Answered
<1> QED
  BY <1>3, <1>4, <1>5, <1>6, <1>7 DEF Work

LEMMA FollowSteps ==
  ASSUME Types, Followed, [Next]_vars
  PROVE  Followed'
<1>1. ASSUME NEW p \in Pages, Reply(p) \/ Stream(p) \/ Disconnect(p) \/ Reload(p) PROVE Followed'
  BY <1>1, FollowsPage DEF Stream
<1>2. ASSUME NEW p \in Pages, Click(p) \/ PassGate(p) \/ Join(p) PROVE Followed'
  BY <1>2, FollowsQuiet DEF Click, PassGate, Join, server
<1>3. CASE (\E p \in Pages : Start(p)) \/ StartElsewhere
  <2>1. \E j \in Jobs : Publish(Started(j))
    BY <1>3 DEF Start, StartElsewhere
  <2> QED
    BY <2>1, StatusFields, FollowsPublish
<1>4. ASSUME NEW j \in Jobs, Work(j) \/ Hangs(j) PROVE Followed'
  BY <1>4, WorkPublishes, FollowsQuiet, FollowsPublish
<1>5. CASE Restart
  <2>1. \A p \in Pages : conn'[p] = Closed
    BY <1>5 DEF Restart
  <2> QED
    BY <2>1, Constants DEF Followed, Follow
<1>6. CASE (\E u \in Users : GateReopens(u)) \/ UNCHANGED vars
  BY <1>6, FollowsQuiet DEF GateReopens, vars, server
<1> QED
  BY <1>1, <1>2, <1>3, <1>4, <1>5, <1>6 DEF Next, Serve

LEMMA InitFollows == Init => Followed
BY Constants DEF Init, Followed, Follow

LEMMA FollowedShows == Types /\ Followed => ShownIsCurrent
<1> SUFFICES ASSUME Followed, NEW p \in Pages \ (gap \cup overtaken), Drained(p) PROVE shown[p] = status
  BY DEF ShownIsCurrent
<1> QED
  BY DEF Followed, Follow, Drained

\* A page that has read all its stream has to say shows the status there is, for
\* any length of the channel, however far the page lags: but for a change between
\* the reading and the subscription, and an answer that crossed the stream.
THEOREM Follows == Spec => []ShownIsCurrent
<1>1. Init => Types /\ StatusIsTheJobs /\ Followed
  BY InitSteps, InitFollows
<1>2. (Types /\ StatusIsTheJobs /\ Followed) /\ [Next]_vars => (Types /\ StatusIsTheJobs /\ Followed)'
  BY Steps, FollowSteps
<1> QED
  BY <1>1, <1>2, FollowedShows, PTL DEF Spec
=============================================================================
