--------------------------- MODULE LazycatSyncProofs ---------------------------
(***************************************************************************)
(* Proofs about the Lazycat account, for every set of services, tasks and  *)
(* handlers and every bound.                                               *)
(***************************************************************************)
EXTENDS LazycatSync, FiniteSetTheorems, TLAPS

-----------------------------------------------------------------------------
(***************************************************************************)
(* Types.                                                                  *)
(***************************************************************************)

\* What TypeOK says of one task.
TaskOK(t) ==
  /\ t \in TaskType
  /\ t.phase \in {"validate", "wiped"} => t.gen # 0
  /\ t.phase \in WithCopy => t.copy # NoAccount

CallOK(c) ==
  /\ c \in [phase : {"idle", "request", "spawn", "panel"}, copy : {NoAccount} \cup AccountRow]
  /\ c.phase \in {"request", "panel"} => c.copy # NoAccount

TablesOK ==
  /\ account \in {NoAccount} \cup AccountRow
  /\ machines \in [Services -> {NoMachine} \cup MachineRow]
  /\ mappings \in [Services -> SUBSET Families]
  /\ samples \in SUBSET Services
  /\ torn \in SUBSET Services

CountersOK ==
  /\ active \in BOOLEAN /\ raced \in BOOLEAN
  /\ logins \in 0 .. MaxLogins /\ faults \in 0 .. MaxFaults

TasksOK == task = [k \in Tasks |-> task[k]] /\ \A k \in Tasks : TaskOK(task[k])
CallersOK == caller = [c \in Callers |-> caller[c]] /\ \A c \in Callers : CallOK(caller[c])

LEMMA Bounds ==
  /\ MaxLogins \in Nat /\ MaxFaults \in Nat
  /\ 0 \in 0 .. MaxLogins /\ 0 \in 0 .. MaxFaults
  /\ \A n \in 0 .. MaxLogins : n < MaxLogins => n + 1 \in 0 .. MaxLogins
  /\ \A n \in 0 .. MaxFaults : n < MaxFaults => n + 1 \in 0 .. MaxFaults
<1>1. MaxLogins \in Nat /\ MaxFaults \in Nat
  BY SyncAssumption
<1> QED
  BY <1>1

LEMMA TypeParts == TypeOK <=> TablesOK /\ CountersOK /\ TasksOK /\ CallersOK
<1>1. TypeOK => TablesOK /\ CountersOK /\ TasksOK /\ CallersOK
  BY DEF TypeOK, TablesOK, CountersOK, TasksOK, CallersOK, TaskOK, CallOK, Holding
<1>2. TasksOK => /\ task \in [Tasks -> TaskType]
                 /\ \A k \in Tasks : /\ task[k].phase \in {"validate", "wiped"} => task[k].gen # 0
                                     /\ task[k].phase \in WithCopy => task[k].copy # NoAccount
  BY DEF TasksOK, TaskOK
<1>3. CallersOK =>
        /\ caller \in [Callers -> [phase : {"idle", "request", "spawn", "panel"},
                                   copy : {NoAccount} \cup AccountRow]]
        /\ \A c \in Callers : Holding(c) => caller[c].copy # NoAccount
  BY DEF CallersOK, CallOK, Holding
<1> QED
  BY <1>1, <1>2, <1>3 DEF TypeOK, TablesOK, CountersOK

LEMMA IdleOK == TaskOK(Idle) /\ TaskOK([Idle EXCEPT !.phase = "release"]) /\ TaskOK([Idle EXCEPT !.phase = "read"])
<1>1. [s \in Services |-> <<>>] \in [Services -> Seq(Writes)]
  OBVIOUS
<1>2. 0 \in 0 .. MaxLogins
  BY SyncAssumption
<1>3. NoAccount \in {NoAccount} \cup AccountRow
  OBVIOUS
<1>4. Idle \in TaskType
  BY <1>1, <1>2, <1>3 DEF Idle, TaskType, Phases, Results
<1>5. \A p \in Phases : [Idle EXCEPT !.phase = p] \in TaskType /\ [Idle EXCEPT !.phase = p].phase = p
  BY <1>4 DEF TaskType, Idle
<1> QED
  BY <1>4, <1>5 DEF TaskOK, Idle, Phases, WithCopy

\* One task changes, the others are left alone.
LEMMA OneTask ==
  ASSUME TasksOK, NEW k \in Tasks, NEW t, TaskOK(t), task' = [task EXCEPT ![k] = t]
  PROVE  TasksOK'
  BY DEF TasksOK, TaskOK, TaskType, WithCopy, Phases, Results, NoAccount, AccountRow

LEMMA OneCaller ==
  ASSUME CallersOK, NEW c \in Callers, NEW d, CallOK(d), caller' = [caller EXCEPT ![c] = d]
  PROVE  CallersOK'
  BY DEF CallersOK, CallOK, AccountRow, NoAccount

LEMMA EndOK ==
  ASSUME TasksOK, NEW k \in Tasks, End(k)
  PROVE  TasksOK'
  BY IdleOK, OneTask DEF End

LEMMA StoredOK ==
  ASSUME TablesOK, NEW copy \in AccountRow
  PROVE  /\ Stored(copy) \in AccountRow
         /\ Stored(copy).cred = copy.cred
         /\ account = NoAccount => Stored(copy) = copy
         /\ account # NoAccount => Stored(copy).gen = account.gen
  BY DEF TablesOK, Stored, AccountRow, NoAccount

\* A task that changes its phase, and no more, to one that needs no more.
LEMMA PhaseOK ==
  ASSUME NEW t, TaskOK(t), NEW p \in Phases,
         p \in {"validate", "wiped"} => t.gen # 0,
         p \in WithCopy => t.copy # NoAccount
  PROVE  TaskOK([t EXCEPT !.phase = p])
  BY DEF TaskOK, TaskType, WithCopy

\* Steps that change the task alone, and only where it is.
LEMMA MoveType ==
  ASSUME TasksOK, NEW k \in Tasks,
         \/ StartLogin(k) \/ LoginRejected(k) \/ LoginWipes(k) \/ LoginSaves(k) \/ AbandonLogin(k)
         \/ Poll(k) \/ SaveSiteError(k) \/ SaveSession(k) \/ FinishPanels(k) \/ SaveSummary(k)
         \/ Release(k) \/ TaskFails(k),
         logins \in 0 .. MaxLogins
  PROVE  TasksOK'
<1>0. TaskOK(task[k]) /\ task[k].phase \in Phases
  BY DEF TasksOK, TaskOK, TaskType
<1>1. ASSUME NEW p \in Phases, task' = [task EXCEPT ![k].phase = p],
             p \in {"validate", "wiped"} => task[k].gen # 0,
             p \in WithCopy => task[k].copy # NoAccount
      PROVE  TasksOK'
  <2>1. TaskOK([task[k] EXCEPT !.phase = p])
    BY <1>0, <1>1, PhaseOK
  <2>2. task' = [task EXCEPT ![k] = [task[k] EXCEPT !.phase = p]]
    BY <1>1
  <2> QED
    BY <2>1, <2>2, OneTask
<1>2. CASE StartLogin(k)
  <2>1. task[k] = Idle /\ task' = [task EXCEPT ![k] = [Idle EXCEPT !.phase = "validate", !.gen = logins + 1]]
    BY <1>2 DEF StartLogin, Free
  <2>2. logins + 1 \in 0 .. MaxLogins /\ logins + 1 # 0
    BY <1>2, SyncAssumption DEF StartLogin
  <2>3. TaskOK([Idle EXCEPT !.phase = "validate", !.gen = logins + 1])
    <3>1. Idle \in TaskType
      BY IdleOK DEF TaskOK
    <3> QED
      BY <2>2, <3>1 DEF TaskOK, TaskType, Phases, WithCopy, Idle
  <2> QED
    BY <2>1, <2>3, OneTask
<1>3. CASE Poll(k)
  <2>1. task[k] = Idle /\ task' = [task EXCEPT ![k] = [Idle EXCEPT !.phase = "read"]]
    BY <1>3 DEF Poll, Free
  <2> QED
    BY <2>1, IdleOK, OneTask
<1>4. CASE LoginWipes(k)
  BY <1>0, <1>1, <1>4 DEF LoginWipes, TaskOK, Phases, WithCopy
<1>5. CASE LoginSaves(k)
  BY <1>5, IdleOK, OneTask, EndOK DEF LoginSaves
<1>6. CASE SaveSession(k)
  BY <1>0, <1>1, <1>6 DEF SaveSession, TaskOK, Phases, WithCopy
<1>7. CASE FinishPanels(k)
  BY <1>0, <1>1, <1>7, EndOK DEF FinishPanels, TaskOK, Phases, WithCopy
<1>8. CASE Release(k)
  BY <1>8, IdleOK, OneTask DEF Release
<1>9. CASE LoginRejected(k) \/ AbandonLogin(k) \/ SaveSiteError(k) \/ SaveSummary(k) \/ TaskFails(k)
  BY <1>9, EndOK DEF LoginRejected, AbandonLogin, SaveSiteError, SaveSummary, TaskFails
<1> QED
  BY <1>2, <1>3, <1>4, <1>5, <1>6, <1>7, <1>8, <1>9

\* The steps that read the row, and the pages of the site.
LEMMA ReadType ==
  ASSUME TasksOK, TablesOK, NEW k \in Tasks,
         \/ ReadAccount(k) \/ MarkSyncing(k) \/ SiteChanges(k)
  PROVE  TasksOK'
<1>0. TaskOK(task[k]) /\ task[k] \in TaskType
  BY DEF TasksOK, TaskOK
<1>1. CASE ReadAccount(k)
  <2>1. CASE account = NoAccount
    BY <1>1, <2>1, EndOK DEF ReadAccount
  <2>2. CASE account # NoAccount
    <3> DEFINE copy == [account EXCEPT !.state = "syncing"]
               t == [task[k] EXCEPT !.phase = "mark", !.gen = account.gen, !.copy = copy]
    <3>1. account \in AccountRow
      BY <2>2 DEF TablesOK
    <3>2. copy \in AccountRow /\ copy # NoAccount /\ account.gen \in 0 .. MaxLogins
      BY <3>1, SyncAssumption DEF AccountRow, NoAccount
    <3>3. TaskOK(t)
      BY <1>0, <3>2 DEF TaskOK, TaskType, Phases, WithCopy
    <3>4. task' = [task EXCEPT ![k] = t]
      BY <1>1, <2>2 DEF ReadAccount
    <3> QED
      BY <3>3, <3>4, OneTask
  <2> QED
    BY <2>1, <2>2
<1>2. CASE MarkSyncing(k)
  <2>1. task[k].copy \in AccountRow
    BY <1>0, <1>2 DEF MarkSyncing, TaskOK, TaskType, WithCopy
  <2>2. account' \in AccountRow /\ account' # NoAccount
    BY <1>2, <2>1, StoredOK DEF MarkSyncing, AccountRow, NoAccount
  <2>3. PICK owned \in SUBSET Services :
          task' = [task EXCEPT ![k].phase = "scan", ![k].copy = account', ![k].page = 1, ![k].total = 1,
                     ![k].site = owned]
    BY <1>2 DEF MarkSyncing
  <2> DEFINE t == [task[k] EXCEPT !.phase = "scan", !.copy = account', !.page = 1, !.total = 1, !.site = owned]
  <2>4. TaskOK(t)
    BY <1>0, <2>2 DEF TaskOK, TaskType, Phases, WithCopy
  <2>5. task' = [task EXCEPT ![k] = t]
    BY <2>3
  <2> QED
    BY <2>4, <2>5, OneTask
<1>3. CASE SiteChanges(k)
  <2>1. PICK owned \in SUBSET Services : task' = [task EXCEPT ![k].site = owned, ![k].patchy = TRUE]
    BY <1>3 DEF SiteChanges
  <2> DEFINE t == [task[k] EXCEPT !.site = owned, !.patchy = TRUE]
  <2>2. TaskOK(t)
    BY <1>0 DEF TaskOK, TaskType, WithCopy
  <2>3. task' = [task EXCEPT ![k] = t]
    BY <2>1
  <2> QED
    BY <2>2, <2>3, OneTask
<1> QED
  BY <1>1, <1>2, <1>3

\* The number of pages of a site is a number.
LEMMA PageCountType == \A site \in SUBSET Services : PageCount(site) \in Nat
<1> SUFFICES ASSUME NEW site \in SUBSET Services PROVE PageCount(site) \in Nat
  OBVIOUS
<1>1. Cardinality(site) \in Nat
  BY SyncAssumption, FS_Subset, FS_CardinalityType
<1>2. PageSize \in Nat \ {0}
  BY SyncAssumption
<1>3. \A n \in Nat : (n + PageSize - 1) \div PageSize \in Nat
  BY <1>2
<1> QED
  BY <1>1, <1>3 DEF PageCount

LEMMA ReplyType ==
  ASSUME NEW site \in SUBSET Services, NEW p, NEW reply \in Replies(site, p)
  PROVE  reply.total \in Nat /\ reply.ids \in SUBSET Services
<1>1. \A q : PageOf(site, q) \in SUBSET Services
  BY DEF PageOf
<1>2. PageCount(site) \in Nat /\ 1 \in Nat
  BY PageCountType
<1>3. CASE reply \in Partial(site, p)
  <2>1. reply.total \in {1, PageCount(site)} /\ reply.ids \in SUBSET PageOf(site, p)
    BY <1>3 DEF Partial
  <2> QED
    BY <1>1, <1>2, <2>1
<1>4. CASE reply \notin Partial(site, p)
  <2>1. /\ reply.total \in {PageCount(site), 1}
        /\ reply.ids \in {PageOf(site, p), {}, PageOf(site, 1)}
    BY <1>4 DEF Replies
  <2> QED
    BY <1>1, <1>2, <2>1
<1> QED
  BY <1>3, <1>4

LEMMA CheckedOK ==
  ASSUME TasksOK, NEW k \in Tasks, task[k].phase \in WithCopy, task' = [task EXCEPT ![k] = Checked(k, "failing")]
  PROVE  TasksOK'
<1>1. TaskOK(task[k])
  BY DEF TasksOK
<1>2. TaskOK([task[k] EXCEPT !.phase = "failing"])
  BY <1>1, PhaseOK DEF TaskOK, Phases, WithCopy
<1>3. TaskOK(Checked(k, "failing"))
  BY <1>2, IdleOK DEF Checked
<1> QED
  BY <1>3, OneTask

\* What a page that is taken leaves of the task.
LEMMA TakenIs ==
  ASSUME NEW k \in Tasks, task[k] \in TaskType, NEW reply \in Replies(task[k].site, task[k].page)
  PROVE  /\ PageTaken(k, reply) \in TaskType
         /\ PageTaken(k, reply).phase = IF task[k].page < TotalAfter(k, reply) THEN "scan" ELSE "details"
         /\ PageTaken(k, reply).found = task[k].found \cup reply.ids
         /\ PageTaken(k, reply).page = task[k].page + 1
         /\ PageTaken(k, reply).patchy = (task[k].patchy \/ LeavesOut(k, reply))
         /\ PageTaken(k, reply).copy = task[k].copy /\ PageTaken(k, reply).site = task[k].site
         /\ PageTaken(k, reply).result = task[k].result /\ PageTaken(k, reply).writes = task[k].writes
<1> DEFINE found == task[k].found \cup reply.ids
           total == TotalAfter(k, reply)
           patchy == task[k].patchy \/ LeavesOut(k, reply)
           phase == IF task[k].page < total THEN "scan" ELSE "details"
           t == [task[k] EXCEPT !.found = found, !.total = total, !.page = task[k].page + 1,
                                !.patchy = patchy, !.phase = phase]
<1>1. task[k].site \in SUBSET Services /\ task[k].total \in Nat /\ task[k].page + 1 \in Nat
  BY DEF TaskType
<1>2. found \in SUBSET Services /\ total \in Nat
  BY <1>1, ReplyType DEF TotalAfter, TaskType
<1>3. patchy \in BOOLEAN
  BY DEF LeavesOut
<1>4. phase \in {"scan", "details"}
  OBVIOUS
<1>5. PageTaken(k, reply) = t
  BY DEF PageTaken
<1> SUFFICES /\ t \in TaskType /\ t.phase = phase /\ t.found = found /\ t.page = task[k].page + 1
             /\ t.patchy = patchy /\ t.copy = task[k].copy /\ t.site = task[k].site
             /\ t.result = task[k].result /\ t.writes = task[k].writes
  BY <1>5
<1> HIDE DEF found, total, patchy, phase
<1> QED
  BY <1>1, <1>2, <1>3, <1>4 DEF TaskType, Phases

\* A page is refused, or what it lists is found.
LEMMA PageRead ==
  ASSUME NEW k \in Tasks, FetchPage(k)
  PROVE  \/ task' = [task EXCEPT ![k] = Checked(k, "failing")]
         \/ \E reply \in Replies(task[k].site, task[k].page) :
              ~Rejected(k, reply) /\ task' = [task EXCEPT ![k] = PageTaken(k, reply)]
  BY DEF FetchPage

\* A page that is taken lists all there is on it and in the list, or is one that
\* leaves something out: the others are refused.
LEMMA TakenIsWhole ==
  ASSUME NEW k \in Tasks, task[k] \in TaskType, NEW reply \in Replies(task[k].site, task[k].page),
         ~Rejected(k, reply), ~LeavesOut(k, reply)
  PROVE  reply.ids = PageOf(task[k].site, task[k].page) /\ ~(TotalAfter(k, reply) < PageCount(task[k].site))
<1> DEFINE site == task[k].site
           p == task[k].page
<1>1. CASE reply \in Partial(site, p)
  BY <1>1 DEF LeavesOut
<1>2. CASE reply \notin Partial(site, p)
  <2>1. reply.ids = PageOf(site, p) /\ reply.total = PageCount(site)
    <3>1. ~reply.unresolved /\ reply.empty # "ambiguous"
      BY DEF Rejected
    <3> QED
      BY <1>2, <3>1 DEF Replies
  <2>2. site \in SUBSET Services /\ task[k].total \in Nat
    BY DEF TaskType
  <2>3. PageCount(site) \in Nat
    BY <2>2, PageCountType
  <2> QED
    BY <2>1, <2>2, <2>3 DEF TotalAfter
<1> QED
  BY <1>1, <1>2

LEMMA FetchType ==
  ASSUME TasksOK, NEW k \in Tasks, FetchPage(k) \/ FetchDetails(k)
  PROVE  TasksOK'
<1>0. TaskOK(task[k]) /\ task[k] \in TaskType
  BY DEF TasksOK, TaskOK
<1>1. CASE FetchPage(k)
  <2>1. task[k].phase = "scan" /\ task[k].phase \in WithCopy
    BY <1>1 DEF FetchPage, WithCopy
  <2>2. CASE task' = [task EXCEPT ![k] = Checked(k, "failing")]
    BY <2>1, <2>2, CheckedOK
  <2>3. ASSUME NEW reply \in Replies(task[k].site, task[k].page)
        PROVE  TaskOK(PageTaken(k, reply))
    <3>1. /\ PageTaken(k, reply) \in TaskType /\ PageTaken(k, reply).copy = task[k].copy
          /\ PageTaken(k, reply).phase \in {"scan", "details"}
      BY <1>0, TakenIs
    <3> QED
      BY <1>0, <2>1, <3>1 DEF TaskOK
  <2> QED
    BY <1>1, <2>2, <2>3, PageRead, OneTask
<1>2. CASE FetchDetails(k)
  <2>1. task[k].phase = "details" /\ task[k].phase \in WithCopy
    BY <1>2 DEF FetchDetails, WithCopy
  <2>2. CASE task' = [task EXCEPT ![k] = Checked(k, "failing")]
    BY <2>1, <2>2, CheckedOK
  <2>3. CASE End(k)
    BY <2>3, EndOK
  <2>4. ASSUME NEW kinds \in [Services -> SiteKinds],
               task' = [task EXCEPT ![k].phase = "store", ![k].page = 0, ![k].total = 0,
                          ![k].kinds = [s \in Services |-> IF s \in task[k].found THEN kinds[s] ELSE "none"]]
        PROVE  TasksOK'
    <3> DEFINE got == [s \in Services |-> IF s \in task[k].found THEN kinds[s] ELSE "none"]
               t == [task[k] EXCEPT !.phase = "store", !.page = 0, !.total = 0, !.kinds = got]
    <3>1. got \in [Services -> {"container", "nat", "none"}]
      BY SyncAssumption
    <3> HIDE DEF got
    <3>2. t \in TaskType /\ t.phase = "store" /\ t.copy = task[k].copy
      BY <1>0, <3>1 DEF TaskType, Phases
    <3>3. TaskOK(t)
      BY <1>0, <2>1, <3>2 DEF TaskOK
    <3>4. task' = [task EXCEPT ![k] = t]
      BY <2>4 DEF got
    <3> QED
      BY <3>3, <3>4, OneTask
  <2> QED
    BY <1>2, <2>2, <2>3, <2>4 DEF FetchDetails
<1> QED
  BY <1>1, <1>2

\* A machine row after the site listed it.
LEMMA UpsertedOK ==
  ASSUME NEW m \in {NoMachine} \cup MachineRow, NEW cred \in 1 .. MaxLogins, NEW kind \in {"container", "nat", "none"}
  PROVE  Upserted(m, cred, kind) \in MachineRow /\ Upserted(m, cred, kind).from = cred
         /\ Upserted(m, cred, kind) # NoMachine
<1>1. MaxLogins \in Nat
  BY SyncAssumption
<1>2. CASE m = NoMachine
  BY <1>1, <1>2 DEF Upserted, MachineRow, NoMachine
<1>3. CASE m \in MachineRow
  BY <1>1, <1>3 DEF Upserted, MachineRow, NoMachine
<1> QED
  BY <1>2, <1>3

\* What an upsert makes of the machines, and what it leaves the task to do.
LEMMA UpsertType ==
  ASSUME TablesOK, TasksOK, NEW k \in Tasks, UpsertMachines(k)
  PROVE  TablesOK' /\ TasksOK'
<1> DEFINE t0 == task[k]
           rows == [s \in Services |-> IF s \in t0.found THEN Upserted(machines[s], t0.copy.cred, t0.kinds[s])
                                       ELSE NoMachine]
           kinds == [s \in Services |-> rows[s].kind]
           result == [s \in Services |-> IF s \in t0.found THEN "queued" ELSE "none"]
           t == [t0 EXCEPT !.phase = "panels", !.found = {}, !.site = {}, !.patchy = FALSE,
                   !.kinds = kinds, !.result = result]
<1>0. TaskOK(t0) /\ t0 \in TaskType /\ t0.copy \in AccountRow
  BY DEF TasksOK, TaskOK, TaskType, UpsertMachines, WithCopy
<1>1. t0.copy.cred \in 1 .. MaxLogins /\ t0.kinds \in [Services -> {"container", "nat", "none"}]
      /\ machines \in [Services -> {NoMachine} \cup MachineRow]
  BY <1>0 DEF TablesOK, TaskType, AccountRow
<1>2. rows \in [Services -> {NoMachine} \cup MachineRow]
  BY <1>1, UpsertedOK
<1> HIDE DEF rows
<1>3. \A s \in Services : rows[s].kind \in {"container", "nat", "none"}
  BY <1>2 DEF MachineRow, NoMachine
<1>4. kinds \in [Services -> {"container", "nat", "none"}] /\ result \in [Services -> Results]
  BY <1>3 DEF Results
<1> HIDE DEF kinds, result
<1>5. t \in TaskType /\ t.phase = "panels" /\ t.copy = t0.copy
  BY <1>0, <1>4 DEF TaskType, Phases
<1>6. TaskOK(t)
  BY <1>0, <1>5 DEF TaskOK, AccountRow, NoAccount
<1>7. task' = [task EXCEPT ![k] = t] /\ machines' = rows
  BY DEF UpsertMachines, rows, kinds, result
<1>8. TablesOK'
  BY <1>2, <1>7 DEF TablesOK, UpsertMachines
<1> QED
  BY <1>6, <1>7, <1>8, OneTask

LEMMA WritesType ==
  ASSUME NEW kind \in {"container", "nat", "none"}, NEW result \in {"ok", "empty", "error"}, NEW fresh \in BOOLEAN
  PROVE  WritesFor(kind, result, fresh) \in Seq(Writes)
<1>1. \A a, b \in Writes : <<a>> \in Seq(Writes) /\ <<a, b>> \in Seq(Writes)
  OBVIOUS
<1>2. {"detail", "sample", "nat", "container"} \subseteq Writes
  BY DEF Writes, Families
<1>3. /\ <<"detail">> \in Seq(Writes) /\ <<"detail", "sample">> \in Seq(Writes)
      /\ <<"nat", "container">> \in Seq(Writes) /\ <<"container", "nat">> \in Seq(Writes)
  BY <1>1, <1>2
<1>4. FamilyOrder(kind) \in Seq(Writes) /\ FamilyOrder("none") \in Seq(Writes)
  BY <1>3 DEF FamilyOrder
<1>5. \A a, b \in Seq(Writes) : a \o b \in Seq(Writes)
  OBVIOUS
<1>6. CASE result = "ok"
  <2>1. WritesFor(kind, result, fresh) = (IF fresh THEN <<"detail", "sample">> ELSE <<"detail">>) \o FamilyOrder(kind)
    BY <1>6 DEF WritesFor
  <2> QED
    BY <2>1, <1>3, <1>4, <1>5
<1>7. CASE result = "empty"
  <2>1. WritesFor(kind, result, fresh) = <<"detail">> \o FamilyOrder("none")
    BY <1>7 DEF WritesFor
  <2> QED
    BY <2>1, <1>3, <1>4, <1>5
<1>8. CASE result = "error"
  BY <1>8, <1>3 DEF WritesFor
<1> QED
  BY <1>6, <1>7, <1>8

LEMMA PanelType ==
  ASSUME TablesOK, TasksOK, NEW k \in Tasks, NEW s \in Services,
         FetchPanel(k, s) \/ WritePanel(k, s) \/ PanelFails(k, s)
  PROVE  TablesOK' /\ TasksOK'
<1>0. TaskOK(task[k]) /\ task[k] \in TaskType
  BY DEF TasksOK, TaskOK
<1>a. task[k].kinds[s] \in {"container", "nat", "none"} /\ task[k].writes \in [Services -> Seq(Writes)]
      /\ task[k].result \in [Services -> Results]
  BY <1>0 DEF TaskType
<1>b. ASSUME NEW result \in [Services -> Results], NEW writes \in [Services -> Seq(Writes)], NEW broken \in BOOLEAN
      PROVE  TaskOK([task[k] EXCEPT !.result = result, !.writes = writes, !.broken = broken])
  BY <1>0 DEF TaskOK, TaskType
<1>1. CASE FetchPanel(k, s)
  <2>1. TablesOK'
    BY <1>1 DEF FetchPanel, TablesOK, tables
  <2>2. CASE Current(k)
    <3>1. PICK result \in {"ok", "empty", "error"}, fresh \in BOOLEAN :
            task' = [task EXCEPT ![k].result[s] = result, ![k].writes[s] = WritesFor(task[k].kinds[s], result, fresh)]
      BY <1>1, <2>2 DEF FetchPanel
    <3> DEFINE w == WritesFor(task[k].kinds[s], result, fresh)
               t == [task[k] EXCEPT !.result = [task[k].result EXCEPT ![s] = result],
                       !.writes = [task[k].writes EXCEPT ![s] = w], !.broken = task[k].broken]
    <3>2. w \in Seq(Writes)
      BY <1>a, WritesType
    <3> HIDE DEF w
    <3>3. [task[k].result EXCEPT ![s] = result] \in [Services -> Results]
          /\ [task[k].writes EXCEPT ![s] = w] \in [Services -> Seq(Writes)]
      BY <1>a, <3>2 DEF Results
    <3>4. TaskOK(t)
      BY <1>0, <1>b, <3>3 DEF TaskType
    <3>5. task' = [task EXCEPT ![k] = t]
      BY <1>0, <3>1 DEF w, TaskType
    <3> QED
      BY <2>1, <3>4, <3>5, OneTask
  <2>3. CASE ~Current(k)
    <3> DEFINE t == [task[k] EXCEPT !.result = [task[k].result EXCEPT ![s] = "skipped"],
                       !.writes = task[k].writes, !.broken = task[k].broken]
    <3>1. [task[k].result EXCEPT ![s] = "skipped"] \in [Services -> Results]
      BY <1>a DEF Results
    <3>3. TaskOK(t)
      BY <1>0, <1>a, <1>b, <3>1 DEF TaskType
    <3>2. task' = [task EXCEPT ![k] = t]
      BY <1>0, <1>1, <2>3 DEF FetchPanel, TaskType
    <3> QED
      BY <2>1, <3>2, <3>3, OneTask
  <2> QED
    BY <2>2, <2>3
<1>2. CASE WritePanel(k, s)
  <2> DEFINE w == Tail(task[k].writes[s])
             t == [task[k] EXCEPT !.result = task[k].result,
                     !.writes = [task[k].writes EXCEPT ![s] = w], !.broken = task[k].broken]
  <2>1. w \in Seq(Writes)
    BY <1>a, <1>2 DEF WritePanel
  <2> HIDE DEF w
  <2>2. TaskOK(t)
    BY <1>0, <1>a, <1>b, <2>1 DEF TaskType
  <2>3. task' = [task EXCEPT ![k] = t]
    BY <1>0, <1>2 DEF w, WritePanel, TaskType
  <2>4. \A m \in {NoMachine} \cup MachineRow : DetailRow(m, task[k].kinds[s], task[k].result[s]) \in {NoMachine} \cup MachineRow
    BY <1>a DEF DetailRow, MachineRow
  <2>5. machines' \in [Services -> {NoMachine} \cup MachineRow]
    BY <1>2, <2>4 DEF WritePanel, TablesOK
  <2>6. mappings' \in [Services -> SUBSET Families] /\ samples' \in SUBSET Services /\ torn' \in SUBSET Services
    BY <1>2 DEF WritePanel, TablesOK, Families
  <2>7. TablesOK'
    BY <1>2, <2>5, <2>6 DEF WritePanel, TablesOK
  <2> QED
    BY <2>2, <2>3, <2>7, OneTask
<1>3. CASE PanelFails(k, s)
  <2> DEFINE t == [task[k] EXCEPT !.result = [task[k].result EXCEPT ![s] = "skipped"],
                     !.writes = [task[k].writes EXCEPT ![s] = <<>>], !.broken = TRUE]
  <2>1. TaskOK(t)
    <3>1. [task[k].result EXCEPT ![s] = "skipped"] \in [Services -> Results]
      BY <1>a DEF Results
    <3>2. <<>> \in Seq(Writes)
      OBVIOUS
    <3>3. [task[k].writes EXCEPT ![s] = <<>>] \in [Services -> Seq(Writes)]
      BY <1>a, <3>2
    <3> QED
      BY <1>b, <3>1, <3>3
  <2>2. task' = [task EXCEPT ![k] = t]
    BY <1>0, <1>3 DEF PanelFails, TaskType
  <2>3. TablesOK'
    BY <1>3 DEF PanelFails, TablesOK, tables
  <2> QED
    BY <2>1, <2>2, <2>3, OneTask
<1> QED
  BY <1>1, <1>2, <1>3

\* The steps of a task that write the row, and the deletion.
LEMMA AccountType ==
  ASSUME TablesOK, TasksOK, NEW k \in Tasks,
         \/ LoginWipes(k) \/ LoginSaves(k) \/ MarkSyncing(k) \/ SaveSiteError(k) \/ SaveSession(k) \/ SaveSummary(k) \/ Disconnect
  PROVE  TablesOK'
<1>1. ASSUME NEW copy \in AccountRow, account' = Stored(copy), UNCHANGED <<machines, mappings, samples, torn>>
      PROVE  TablesOK'
  BY <1>1, StoredOK DEF TablesOK
<1>2. ASSUME task[k].phase \in WithCopy PROVE task[k].copy \in AccountRow
  BY <1>2 DEF TasksOK, TaskOK, TaskType
<1>4. CASE LoginWipes(k) \/ Disconnect
  BY <1>4 DEF LoginWipes, Disconnect, Wipe, TablesOK
<1>5. CASE LoginSaves(k)
  <2>1. task[k].gen \in 1 .. MaxLogins
    BY <1>5, SyncAssumption DEF LoginSaves, TasksOK, TaskOK, TaskType
  <2>2. [gen |-> task[k].gen, cred |-> task[k].gen, state |-> "syncing", recent |-> FALSE] \in AccountRow
    BY <2>1 DEF AccountRow
  <2> QED
    BY <1>1, <1>5, <2>2 DEF LoginSaves
<1>6. CASE MarkSyncing(k)
  BY <1>1, <1>2, <1>6 DEF MarkSyncing, WithCopy
<1>7. CASE SaveSession(k)
  BY <1>1, <1>2, <1>7 DEF SaveSession, WithCopy, history
<1>8. CASE SaveSiteError(k)
  <2>1. task[k].copy \in AccountRow
    BY <1>2, <1>8 DEF SaveSiteError, WithCopy
  <2>2. [task[k].copy EXCEPT !.state = "error"] \in AccountRow
    BY <2>1 DEF AccountRow
  <2> QED
    BY <1>1, <1>8, <2>2 DEF SaveSiteError, history
<1>9. CASE SaveSummary(k)
  <2>1. task[k].copy \in AccountRow
    BY <1>2, <1>9 DEF SaveSummary, WithCopy
  <2>2. Summary(task[k].copy, task[k].result) \in AccountRow
    BY <2>1 DEF Summary, AccountRow
  <2> QED
    BY <1>1, <1>9, <2>2 DEF SaveSummary, history
<1> QED
  BY <1>4, <1>5, <1>6, <1>7, <1>8, <1>9

\* The steps of the handlers.
LEMMA CallerType ==
  ASSUME TablesOK, TasksOK, CallersOK, NEW c \in Callers, CallerStep(c)
  PROVE  CallersOK' /\ TasksOK' /\ TablesOK'
<1>0. CallOK(NoCall) /\ CallOK([phase |-> "spawn", copy |-> NoAccount])
  BY DEF CallOK, NoCall
<1>1. CASE RequestReads(c)
  <2>1. account \in AccountRow
    BY <1>1 DEF RequestReads, TablesOK
  <2>2. CallOK([phase |-> "request", copy |-> [account EXCEPT !.state = "syncing"]])
    BY <2>1 DEF CallOK, AccountRow, NoAccount
  <2> QED
    BY <1>1, <2>2, OneCaller DEF RequestReads, TasksOK, TablesOK, tables, history
<1>2. CASE RequestWrites(c)
  <2>1. UNCHANGED task
    BY <1>2 DEF RequestWrites
  <2>2. TablesOK'
    <3>1. ASSUME NEW copy \in AccountRow, account' = Stored(copy), UNCHANGED <<machines, mappings, samples, torn>>
          PROVE  TablesOK'
      BY <3>1, StoredOK DEF TablesOK
    <3>2. caller[c].copy \in AccountRow
      BY <1>2 DEF RequestWrites, CallersOK, CallOK
    <3> QED
      BY <1>2, <3>1, <3>2 DEF RequestWrites, history
  <2> QED
    BY <1>0, <1>2, <2>1, <2>2, OneCaller DEF RequestWrites, TasksOK
<1>3. CASE RequestSpawns(c)
  <2>1. TasksOK'
    <3>1. CASE UNCHANGED task
      BY <3>1 DEF TasksOK
    <3>2. CASE \E k \in Tasks : Free(k) /\ task' = [task EXCEPT ![k].phase = "read"]
      <4>1. PICK k \in Tasks : task[k] = Idle /\ task' = [task EXCEPT ![k].phase = "read"]
        BY <3>2 DEF Free
      <4>2. task' = [task EXCEPT ![k] = [Idle EXCEPT !.phase = "read"]]
        BY <4>1
      <4> QED
        BY <4>2, IdleOK, OneTask
    <3> QED
      BY <1>3, <3>1, <3>2 DEF RequestSpawns
  <2> QED
    BY <1>0, <1>3, <2>1, OneCaller DEF RequestSpawns, TablesOK, tables, history
<1>4. CASE AccessReads(c)
  <2>1. account \in AccountRow
    BY <1>4 DEF AccessReads, TablesOK
  <2>2. CallOK([phase |-> "panel", copy |-> account])
    BY <2>1 DEF CallOK, AccountRow, NoAccount
  <2> QED
    BY <1>4, <2>2, OneCaller DEF AccessReads, TasksOK, TablesOK, tables, history
<1>5. CASE AccessWrites(c)
  <2>1. caller[c].copy \in AccountRow
    BY <1>5 DEF AccessWrites, CallersOK, CallOK
  <2>2. TablesOK'
    BY <1>5, <2>1, StoredOK DEF AccessWrites, TablesOK, history
  <2> QED
    BY <1>0, <1>5, <2>2, OneCaller DEF AccessWrites, TasksOK
<1>6. CASE CallerLeaves(c)
  BY <1>0, <1>6, OneCaller DEF CallerLeaves, TasksOK, TablesOK, tables, history
<1> QED
  BY <1>1, <1>2, <1>3, <1>4, <1>5, <1>6 DEF CallerStep

LEMMA AgeType ==
  ASSUME TablesOK, TasksOK, CallersOK, Age
  PROVE  TablesOK' /\ TasksOK' /\ CallersOK'
<1>1. \A row \in {NoAccount} \cup AccountRow :
        /\ [row EXCEPT !.recent = FALSE] \in {NoAccount} \cup AccountRow
        /\ row # NoAccount => [row EXCEPT !.recent = FALSE] # NoAccount
  <2>1. MaxLogins \in Nat
    BY SyncAssumption
  <2>2. [NoAccount EXCEPT !.recent = FALSE] = NoAccount
    <3>1. \A row \in [gen : {0}, cred : {0}, state : {"none"}, recent : {FALSE}] : [row EXCEPT !.recent = FALSE] = row
      OBVIOUS
    <3>2. NoAccount \in [gen : {0}, cred : {0}, state : {"none"}, recent : {FALSE}]
      BY DEF NoAccount
    <3> QED
      BY <3>1, <3>2
  <2>3. \A row \in AccountRow : [row EXCEPT !.recent = FALSE] \in AccountRow
    BY DEF AccountRow
  <2>4. NoAccount \notin AccountRow
    BY <2>1 DEF NoAccount, AccountRow
  <2> QED
    BY <2>2, <2>3, <2>4
<1>2. \A t : TaskOK(t) => TaskOK([t EXCEPT !.copy.recent = FALSE])
  <2> SUFFICES ASSUME NEW t, TaskOK(t) PROVE TaskOK([t EXCEPT !.copy.recent = FALSE])
    OBVIOUS
  <2> DEFINE copy == [t.copy EXCEPT !.recent = FALSE]
  <2>1. t \in TaskType /\ t.copy \in {NoAccount} \cup AccountRow
    BY DEF TaskOK, TaskType
  <2>2. copy \in {NoAccount} \cup AccountRow /\ (t.copy # NoAccount => copy # NoAccount)
    BY <1>1, <2>1
  <2>3. [t EXCEPT !.copy.recent = FALSE] = [t EXCEPT !.copy = copy]
    BY <2>1 DEF TaskType
  <2> HIDE DEF copy
  <2>4. TaskOK([t EXCEPT !.copy = copy])
    BY <2>1, <2>2 DEF TaskOK, TaskType
  <2> QED
    BY <2>3, <2>4
<1>3. \A d : CallOK(d) => CallOK([d EXCEPT !.copy.recent = FALSE])
  <2> SUFFICES ASSUME NEW d, CallOK(d) PROVE CallOK([d EXCEPT !.copy.recent = FALSE])
    OBVIOUS
  <2> DEFINE copy == [d.copy EXCEPT !.recent = FALSE]
  <2>1. d \in [phase : {"idle", "request", "spawn", "panel"}, copy : {NoAccount} \cup AccountRow]
    BY DEF CallOK
  <2>2. copy \in {NoAccount} \cup AccountRow /\ (d.copy # NoAccount => copy # NoAccount)
    BY <1>1, <2>1
  <2>3. [d EXCEPT !.copy.recent = FALSE] = [d EXCEPT !.copy = copy]
    BY <2>1
  <2> HIDE DEF copy
  <2>4. CallOK([d EXCEPT !.copy = copy])
    BY <2>1, <2>2 DEF CallOK
  <2> QED
    BY <2>3, <2>4
<1>4. TasksOK'
  BY <1>2 DEF Age, TasksOK
<1>5. CallersOK'
  BY <1>3 DEF Age, CallersOK
<1>6. TablesOK'
  BY <1>1 DEF Age, TablesOK, history
<1> QED
  BY <1>4, <1>5, <1>6

LEMMA InitType == Init => TypeOK
<1> SUFFICES ASSUME Init PROVE TypeOK
  OBVIOUS
<1>1. TablesOK
  BY DEF Init, TablesOK
<1>2. CountersOK
  BY Bounds DEF Init, CountersOK
<1>3. TasksOK
  BY IdleOK DEF Init, TasksOK
<1>4. CallersOK
  BY DEF Init, CallersOK, CallOK, NoCall
<1> QED
  BY <1>1, <1>2, <1>3, <1>4, TypeParts

LEMMA NextType == TypeOK /\ [Next]_vars => TypeOK'
<1> SUFFICES ASSUME TablesOK, CountersOK, TasksOK, CallersOK, [Next]_vars
             PROVE  TablesOK' /\ CountersOK' /\ TasksOK' /\ CallersOK'
  BY TypeParts, PTL
<1>1. logins \in 0 .. MaxLogins
  BY DEF CountersOK
<1>2. ASSUME UNCHANGED caller PROVE CallersOK'
  BY <1>2 DEF CallersOK
<1>3. ASSUME NEW k \in Tasks, StartLogin(k) \/ LoginStep(k) \/ AbandonLogin(k) \/ Poll(k)
      PROVE  TablesOK' /\ CountersOK' /\ TasksOK' /\ CallersOK'
  <2>1. TasksOK' /\ CallersOK'
    BY <1>1, <1>2, <1>3, MoveType DEF LoginStep, StartLogin, LoginRejected, LoginWipes, LoginSaves, AbandonLogin, Poll
  <2>2. TablesOK'
    <3>1. CASE UNCHANGED <<tables, torn>>
      BY <3>1 DEF TablesOK, tables
    <3> QED
      BY <1>3, <3>1, AccountType DEF LoginStep, StartLogin, LoginRejected, AbandonLogin, Poll, history
  <2>3. CountersOK'
    BY <1>3, Bounds
    DEF CountersOK, LoginStep, StartLogin, LoginRejected, LoginWipes, LoginSaves, AbandonLogin, Poll, history, Wipe
  <2> QED
    BY <2>1, <2>2, <2>3
<1>4. ASSUME NEW k \in Tasks, SyncStep(k) \/ SiteChanges(k) \/ TaskFault(k)
      PROVE  TablesOK' /\ CountersOK' /\ TasksOK' /\ CallersOK'
  <2>1. CASE SaveSiteError(k) \/ SaveSession(k) \/ SaveSummary(k)
    BY <1>1, <1>2, <2>1, MoveType, AccountType DEF SaveSiteError, SaveSession, SaveSummary, CountersOK, history
  <2>2. CASE MarkSyncing(k)
    BY <1>2, <2>2, ReadType, AccountType DEF MarkSyncing, CountersOK
  <2>3. CASE ReadAccount(k) \/ SiteChanges(k)
    BY <1>2, <2>3, ReadType DEF ReadAccount, SiteChanges, CountersOK, TablesOK, tables, history
  <2>4. CASE FetchPage(k) \/ FetchDetails(k)
    BY <1>2, <2>4, FetchType DEF FetchPage, FetchDetails, CountersOK, TablesOK, tables, history
  <2>5. CASE UpsertMachines(k)
    BY <1>2, <2>5, UpsertType DEF UpsertMachines, CountersOK
  <2>6. CASE \E s \in Services : FetchPanel(k, s) \/ WritePanel(k, s)
    BY <1>2, <2>6, PanelType DEF FetchPanel, WritePanel, CountersOK
  <2>7. CASE FinishPanels(k) \/ Release(k)
    BY <1>1, <1>2, <2>7, MoveType DEF FinishPanels, Release, CountersOK, TablesOK, tables, history
  <2>8. CASE TaskFails(k)
    BY <1>1, <1>2, <2>8, MoveType, Bounds DEF TaskFails, CountersOK, TablesOK, tables, history
  <2>9. CASE \E s \in Services : PanelFails(k, s)
    BY <1>2, <2>9, PanelType, Bounds DEF PanelFails, CountersOK
  <2> QED
    BY <1>4, <2>1, <2>2, <2>3, <2>4, <2>5, <2>6, <2>7, <2>8, <2>9 DEF SyncStep, TaskFault
<1>5. ASSUME NEW c \in Callers, CallerStep(c)
      PROVE  TablesOK' /\ CountersOK' /\ TasksOK' /\ CallersOK'
  BY <1>5, CallerType
  DEF CallerStep, RequestReads, RequestWrites, RequestSpawns, AccessReads, AccessWrites, CallerLeaves, CountersOK, history
<1>6. CASE Disconnect
  <2>1. TasksOK' /\ CallersOK' /\ CountersOK'
    BY <1>6 DEF Disconnect, TasksOK, CallersOK, CountersOK
  <2>2. TablesOK'
    BY <1>6 DEF Disconnect, Wipe, TablesOK
  <2> QED
    BY <2>1, <2>2
<1>7. CASE Age
  BY <1>7, AgeType DEF Age, CountersOK, history
<1>8. CASE Crash
  <2>1. TasksOK'
    BY <1>8, IdleOK DEF Crash, TasksOK
  <2>2. CallersOK'
    BY <1>8 DEF Crash, CallersOK, CallOK, NoCall
  <2>3. TablesOK' /\ CountersOK'
    BY <1>8, Bounds DEF Crash, TablesOK, CountersOK, tables
  <2> QED
    BY <2>1, <2>2, <2>3
<1>9. CASE UNCHANGED vars
  BY <1>9 DEF vars, TablesOK, CountersOK, TasksOK, CallersOK
<1> QED
  BY <1>3, <1>4, <1>5, <1>6, <1>7, <1>8, <1>9 DEF Next

\* The types hold in every state, for every number of services, logins, tasks
\* and handlers: in particular whoever is about to write the row has a row to
\* write.
THEOREM Typed == Spec => []TypeOK
  BY InitType, NextType, PTL DEF Spec

-----------------------------------------------------------------------------
(***************************************************************************)
(* The guard.                                                              *)
(***************************************************************************)

\* A step of a task that is under way.
Moves(k) ==
  \/ LoginStep(k) \/ AbandonLogin(k) \/ TaskFault(k) \/ SiteChanges(k)
  \/ SyncStep(k) /\ ~Release(k)

\* Such a step is of a task that has begun, leaves the entry in the set, and
\* the other tasks alone.
LEMMA MovesItself ==
  ASSUME TypeOK, NEW k \in Tasks, Moves(k)
  PROVE  /\ task[k] # Idle /\ UNCHANGED <<active, caller>>
         /\ \A j \in Tasks \ {k} : task'[j] = task[j]
<1>0. task[k].phase # "idle" => task[k] # Idle
  BY DEF Idle
<1>1. DOMAIN task = Tasks
  BY DEF TypeOK
<1>2. CASE LoginStep(k) \/ AbandonLogin(k)
  BY <1>0, <1>1, <1>2 DEF LoginStep, LoginRejected, LoginWipes, LoginSaves, AbandonLogin, End
<1>3. CASE TaskFails(k) \/ \E s \in Services : PanelFails(k, s)
  BY <1>0, <1>1, <1>3 DEF TaskFails, PanelFails, End
<1>4. CASE ReadAccount(k) \/ MarkSyncing(k) \/ SiteChanges(k)
  BY <1>0, <1>1, <1>4 DEF ReadAccount, MarkSyncing, SiteChanges, End
<1>5. CASE FetchPage(k) \/ FetchDetails(k)
  BY <1>0, <1>1, <1>5 DEF FetchPage, FetchDetails, End
<1>6. CASE SaveSiteError(k) \/ SaveSession(k) \/ UpsertMachines(k) \/ FinishPanels(k) \/ SaveSummary(k)
  BY <1>0, <1>1, <1>6 DEF SaveSiteError, SaveSession, UpsertMachines, FinishPanels, SaveSummary, End
<1>7. CASE \E s \in Services : FetchPanel(k, s)
  BY <1>0, <1>1, <1>7 DEF FetchPanel
<1>8. CASE \E s \in Services : WritePanel(k, s)
  <2>1. PICK s \in Services : WritePanel(k, s)
    BY <1>8
  <2>2. task' = [task EXCEPT ![k].writes[s] = Tail(@)] /\ task[k].writes[s] # <<>> /\ UNCHANGED <<active, caller>>
    BY <2>1 DEF WritePanel
  <2>3. task[k] # Idle
    BY <2>2 DEF Idle
  <2> QED
    BY <1>1, <2>2, <2>3
<1> QED
  BY <1>2, <1>3, <1>4, <1>5, <1>6, <1>7, <1>8 DEF Moves, TaskFault, SyncStep

\* A step that starts a login or a sync.
Starts(k) == StartLogin(k) \/ Poll(k) \/ (\E c \in Callers : RequestSpawns(c) /\ ~active /\ Free(k) /\ task' = [task EXCEPT ![k].phase = "read"])

LEMMA StartsAlone ==
  ASSUME TypeOK, NEW k \in Tasks, Starts(k)
  PROVE  /\ ~active /\ active' /\ task[k] = Idle
         /\ \A j \in Tasks \ {k} : task'[j] = task[j]
<1>1. DOMAIN task = Tasks
  BY DEF TypeOK
<1>2. CASE StartLogin(k) \/ Poll(k)
  BY <1>1, <1>2 DEF StartLogin, Poll, Free
<1>3. CASE \E c \in Callers : RequestSpawns(c) /\ ~active /\ Free(k) /\ task' = [task EXCEPT ![k].phase = "read"]
  BY <1>1, <1>3 DEF RequestSpawns, Free
<1> QED
  BY <1>2, <1>3 DEF Starts

\* Every step is of one of these kinds.
LEMMA Kinds ==
  ASSUME Next
  PROVE  \/ \E k \in Tasks : Moves(k) \/ Starts(k) \/ Release(k)
         \/ UNCHANGED <<active, task>>
         \/ Age \/ Crash
<1>1. ASSUME NEW c \in Callers, RequestSpawns(c)
      PROVE  (\E k \in Tasks : Starts(k)) \/ UNCHANGED <<active, task>>
  BY <1>1 DEF RequestSpawns, Starts
<1>2. ASSUME NEW c \in Callers, CallerStep(c), ~RequestSpawns(c)
      PROVE  UNCHANGED <<active, task>>
  BY <1>2 DEF CallerStep, RequestReads, RequestWrites, AccessReads, AccessWrites, CallerLeaves
<1>3. Disconnect => UNCHANGED <<active, task>>
  BY DEF Disconnect
<1>4. \A k \in Tasks : StartLogin(k) \/ Poll(k) => Starts(k)
  BY DEF Starts
<1>5. \A k \in Tasks : LoginStep(k) \/ AbandonLogin(k) \/ SyncStep(k) \/ SiteChanges(k) \/ TaskFault(k) => Moves(k) \/ Release(k)
  BY DEF Moves
<1> QED
  BY <1>1, <1>2, <1>3, <1>4, <1>5 DEF Next

\* Time passes a task by that has not begun.
LEMMA IdleAges == [Idle EXCEPT !.copy.recent = FALSE] = Idle
<1> DEFINE Idles == [phase : {"idle"}, gen : {0}, copy : [gen : {0}, cred : {0}, state : {"none"}, recent : {FALSE}],
                     site : {{}}, patchy : {FALSE}, page : {0}, total : {0}, found : {{}},
                     kinds : {[s \in Services |-> "none"]}, result : {[s \in Services |-> "none"]},
                     writes : {[s \in Services |-> <<>>]}, broken : {FALSE}]
<1>1. Idle \in Idles
  BY DEF Idle, NoAccount
<1>2. ASSUME NEW t \in Idles PROVE [t EXCEPT !.copy.recent = FALSE] = t
  <2>1. t.copy \in [gen : {0}, cred : {0}, state : {"none"}, recent : {FALSE}]
    OBVIOUS
  <2>2. [t.copy EXCEPT !.recent = FALSE] = t.copy
    BY <2>1
  <2>3. [t EXCEPT !.copy.recent = FALSE] = [t EXCEPT !.copy = [t.copy EXCEPT !.recent = FALSE]]
    OBVIOUS
  <2>4. [t EXCEPT !.copy = t.copy] = t
    OBVIOUS
  <2> QED
    BY <2>2, <2>3, <2>4
<1> QED
  BY <1>1, <1>2

LEMMA NextOneTask == TypeOK /\ OneTaskAtATime /\ [Next]_vars => OneTaskAtATime'
<1> SUFFICES ASSUME TypeOK, OneTaskAtATime, [Next]_vars PROVE OneTaskAtATime'
  OBVIOUS
<1>1. ASSUME NEW k \in Tasks, Moves(k) PROVE OneTaskAtATime'
  BY <1>1, MovesItself DEF OneTaskAtATime
<1>2. ASSUME NEW k \in Tasks, Starts(k) PROVE OneTaskAtATime'
  BY <1>2, StartsAlone DEF OneTaskAtATime
<1>3. ASSUME NEW k \in Tasks, Release(k) PROVE OneTaskAtATime'
  <2>1. task[k] # Idle /\ task' = [task EXCEPT ![k] = Idle] /\ DOMAIN task = Tasks
    BY <1>3 DEF Release, Idle, TypeOK
  <2>2. \A j \in Tasks : task'[j] = Idle
    BY <2>1 DEF OneTaskAtATime
  <2> QED
    BY <2>2 DEF OneTaskAtATime
<1>4. CASE UNCHANGED <<active, task>>
  BY <1>4 DEF OneTaskAtATime
<1>5. CASE Age
  <2>1. \A k \in Tasks : task'[k] # Idle => task[k] # Idle
    BY <1>5, IdleAges DEF Age
  <2>2. active' = active /\ \A k \in Tasks : task[k] = Idle => task'[k] = Idle
    BY <1>5, IdleAges DEF Age
  <2> QED
    BY <2>1, <2>2 DEF OneTaskAtATime
<1>6. CASE Crash
  BY <1>6 DEF Crash, OneTaskAtATime
<1>7. CASE UNCHANGED vars
  BY <1>4, <1>7 DEF vars
<1> QED
  BY <1>1, <1>2, <1>3, <1>4, <1>5, <1>6, <1>7, Kinds

\* A login and a sync of one user never run at the same time, nor do two syncs,
\* whoever starts them, refuses them or hangs up on them.
THEOREM Guarded == Spec => []OneTaskAtATime
<1>1. Init => OneTaskAtATime
  BY DEF Init, OneTaskAtATime
<1> QED
  BY <1>1, NextOneTask, Typed, PTL DEF Spec

-----------------------------------------------------------------------------
(***************************************************************************)
(* Whose data the tables hold.  While no deletion has run under somebody   *)
(* who was about to write, whoever is about to write has the account that  *)
(* is there, and whoever holds a copy of a row has one of this account.    *)
(***************************************************************************)

\* A sync has work left on panels only while it is at them.
PanelsOnly(t) ==
  \A s \in Services : t.result[s] = "queued" \/ t.writes[s] # <<>> => t.phase = "panels"

AtPanels == \A k \in Tasks : PanelsOnly(task[k])

\* What a task has in hand fits the tables.
Fits(t) ==
  /\ t.phase \in WithCopy /\ account # NoAccount => t.copy.cred = account.cred
  /\ t.phase \in {"mark", "failing", "store", "upsert", "closing"} => account # NoAccount
  /\ t.phase = "wiped" => account = NoAccount
  /\ \A s \in Services :
       /\ t.writes[s] # <<>> => account # NoAccount
       /\ account # NoAccount /\ (t.result[s] = "queued" \/ t.writes[s] # <<>>) => machines[s] # NoMachine

CallFits(d) == d.phase \in {"request", "panel"} => account # NoAccount /\ d.copy.cred = account.cred

Tidy ==
  ~raced => /\ OwnDataOnly
            /\ \A k \in Tasks : Fits(task[k])
            /\ \A c \in Callers : CallFits(caller[c])

Inv == TypeOK /\ OneTaskAtATime /\ AtPanels /\ Tidy

\* The steps of a task that leave the tables alone.
Looks(k) ==
  \/ StartLogin(k) \/ LoginRejected(k) \/ AbandonLogin(k) \/ Poll(k) \/ Release(k)
  \/ ReadAccount(k) \/ FetchPage(k) \/ FetchDetails(k) \/ FinishPanels(k) \/ SiteChanges(k)
  \/ TaskFails(k) \/ \E s \in Services : FetchPanel(k, s) \/ PanelFails(k, s)

LEMMA IdleFits ==
  \A p \in {"idle", "release", "read"} : LET t == [Idle EXCEPT !.phase = p] IN
    /\ Fits(t) /\ PanelsOnly(t)
    /\ Fits(Idle) /\ PanelsOnly(Idle)
<1>1. /\ Idle.phase = "idle"
      /\ \A s \in Services : Idle.result[s] = "none" /\ Idle.writes[s] = <<>>
      /\ Idle \in TaskType
  BY IdleOK DEF Idle, TaskOK
<1>2. \A p \in {"idle", "release", "read"} : LET t == [Idle EXCEPT !.phase = p] IN
        t.phase = p /\ t.result = Idle.result /\ t.writes = Idle.writes
  BY <1>1 DEF TaskType
<1> QED
  BY <1>1, <1>2 DEF Fits, PanelsOnly, WithCopy

\* A task in another phase, with nothing at panels, fits if it has what that
\* phase needs.
LEMMA PhaseFits ==
  ASSUME NEW t, NEW u, u.result = t.result, u.writes = t.writes, u.copy = t.copy,
         PanelsOnly(t), t.phase # "panels" \/ \A s \in Services : t.result[s] # "queued" /\ t.writes[s] = <<>>
  PROVE  /\ PanelsOnly(u)
         /\ (u.phase \in WithCopy /\ account # NoAccount => u.copy.cred = account.cred)
            /\ (u.phase \in {"mark", "failing", "store", "upsert", "closing"} => account # NoAccount)
            /\ (u.phase = "wiped" => account = NoAccount)
              => Fits(u)
  BY DEF PanelsOnly, Fits

LEMMA LooksFit ==
  ASSUME Inv, NEW k \in Tasks, Looks(k)
  PROVE  PanelsOnly(task'[k]) /\ (~raced => Fits(task'[k]))
<1> DEFINE t == task[k]
           u == task'[k]
<1>0. /\ t \in TaskType /\ PanelsOnly(t) /\ (~raced => Fits(t))
      /\ DOMAIN task = Tasks
  BY DEF Inv, TypeOK, AtPanels, Tidy
<1>1. ASSUME End(k) PROVE PanelsOnly(u) /\ Fits(u)
  BY <1>0, <1>1, IdleFits DEF End
<1>2. CASE LoginRejected(k) \/ AbandonLogin(k) \/ TaskFails(k)
  BY <1>1, <1>2 DEF LoginRejected, AbandonLogin, TaskFails
<1>3. CASE StartLogin(k)
  <2>1. /\ PanelsOnly(Idle) /\ Idle.phase = "idle"
        /\ u = [Idle EXCEPT !.phase = "validate", !.gen = logins + 1]
        /\ Idle \in TaskType
    BY <1>0, <1>3, IdleFits, IdleOK DEF StartLogin, Free, Idle, TaskOK
  <2>2. u.phase = "validate" /\ u.result = Idle.result /\ u.writes = Idle.writes /\ u.copy = Idle.copy
    BY <2>1 DEF TaskType
  <2> QED
    BY <2>1, <2>2, PhaseFits DEF WithCopy
<1>4. CASE Poll(k)
  <2>1. u = [Idle EXCEPT !.phase = "read"]
    BY <1>0, <1>4 DEF Poll, Free
  <2> QED
    BY <2>1, IdleFits
<1>5. CASE Release(k)
  BY <1>0, <1>5, IdleFits DEF Release
<1>6. CASE ReadAccount(k)
  <2>1. CASE account = NoAccount
    BY <1>1, <1>6, <2>1 DEF ReadAccount
  <2>2. CASE account # NoAccount
    <3>1. /\ t.phase = "read" /\ u = [t EXCEPT !.phase = "mark", !.gen = account.gen, !.copy = [account EXCEPT !.state = "syncing"]]
      BY <1>0, <1>6, <2>2 DEF ReadAccount
    <3>2. account \in AccountRow
      BY <2>2 DEF Inv, TypeOK
    <3>3. u.phase = "mark" /\ u.copy.cred = account.cred /\ u.result = t.result /\ u.writes = t.writes
      BY <1>0, <3>1, <3>2 DEF TaskType, AccountRow
    <3> QED
      BY <1>0, <2>2, <3>1, <3>3 DEF PanelsOnly, Fits
  <2> QED
    BY <2>1, <2>2
<1>7. ASSUME t.phase \in {"scan", "details"}, task' = [task EXCEPT ![k] = Checked(k, "failing")]
      PROVE  PanelsOnly(u) /\ (~raced => Fits(u))
  <2>1. CASE Current(k)
    <3>1. u = [t EXCEPT !.phase = "failing"] /\ account # NoAccount
      BY <1>0, <1>7, <2>1 DEF Checked, Current
    <3>2. u.phase = "failing" /\ u.result = t.result /\ u.writes = t.writes /\ u.copy = t.copy
      BY <1>0, <3>1 DEF TaskType
    <3> QED
      BY <1>0, <1>7, <3>1, <3>2, PhaseFits DEF Fits, WithCopy
  <2>2. CASE ~Current(k)
    BY <1>0, <1>7, <2>2, IdleFits DEF Checked
  <2> QED
    BY <2>1, <2>2
<1>8. CASE FetchPage(k)
  <2>1. t.phase = "scan"
    BY <1>8 DEF FetchPage
  <2>2. CASE task' = [task EXCEPT ![k] = Checked(k, "failing")]
    BY <1>7, <2>1, <2>2
  <2>3. ASSUME NEW reply \in Replies(t.site, t.page), task' = [task EXCEPT ![k] = PageTaken(k, reply)]
        PROVE  PanelsOnly(u) /\ (~raced => Fits(u))
    <3>1. u.phase \in {"scan", "details"} /\ u.result = t.result /\ u.writes = t.writes /\ u.copy = t.copy
      BY <1>0, <2>3, TakenIs
    <3> QED
      BY <1>0, <2>1, <3>1, PhaseFits DEF Fits, WithCopy
  <2> QED
    BY <1>8, <2>2, <2>3, PageRead
<1>9. CASE FetchDetails(k)
  <2>1. t.phase = "details"
    BY <1>9 DEF FetchDetails
  <2>2. CASE task' = [task EXCEPT ![k] = Checked(k, "failing")]
    BY <1>7, <2>1, <2>2
  <2>3. ASSUME Current(k), NEW kinds,
               u = [t EXCEPT !.phase = "store", !.page = 0, !.total = 0, !.kinds = kinds]
        PROVE  PanelsOnly(u) /\ (~raced => Fits(u))
    <3>1. u.phase = "store" /\ u.result = t.result /\ u.writes = t.writes /\ u.copy = t.copy
      BY <1>0, <2>3 DEF TaskType
    <3>2. account # NoAccount
      BY <2>3 DEF Current
    <3> QED
      BY <1>0, <2>1, <3>1, <3>2, PhaseFits DEF Fits, WithCopy
  <2>4. \/ task' = [task EXCEPT ![k] = Checked(k, "failing")]
        \/ End(k)
        \/ Current(k) /\ \E kinds : u = [t EXCEPT !.phase = "store", !.page = 0, !.total = 0, !.kinds = kinds]
    <3>1. ASSUME Current(k), NEW kinds \in [Services -> SiteKinds],
                 task' = [task EXCEPT ![k].phase = "store", ![k].page = 0, ![k].total = 0,
                            ![k].kinds = [s \in Services |-> IF s \in task[k].found THEN kinds[s] ELSE "none"]]
          PROVE  \E got : u = [t EXCEPT !.phase = "store", !.page = 0, !.total = 0, !.kinds = got]
      <4>1. u = [t EXCEPT !.phase = "store", !.page = 0, !.total = 0,
                   !.kinds = [s \in Services |-> IF s \in task[k].found THEN kinds[s] ELSE "none"]]
        BY <1>0, <3>1
      <4> QED
        BY <4>1
    <3> QED
      BY <1>9, <3>1 DEF FetchDetails
  <2> QED
    BY <1>1, <2>2, <2>3, <2>4
<1>10. CASE FinishPanels(k)
  <2>1. CASE End(k)
    BY <1>1, <2>1
  <2>2. CASE ~End(k)
    <3>1. t.phase = "panels" /\ u = [t EXCEPT !.phase = "closing"] /\ Current(k)
          /\ \A s \in Services : t.result[s] # "queued" /\ t.writes[s] = <<>>
      BY <1>0, <1>10, <2>2 DEF FinishPanels, PanelsDone
    <3>2. u.phase = "closing" /\ u.result = t.result /\ u.writes = t.writes /\ u.copy = t.copy
      BY <1>0, <3>1 DEF TaskType
    <3>3. account # NoAccount
      BY <3>1 DEF Current
    <3> QED
      BY <1>0, <3>1, <3>2, <3>3, PhaseFits DEF Fits, WithCopy
  <2> QED
    BY <2>1, <2>2
<1>11. CASE SiteChanges(k)
  <2>1. PICK owned : t.phase = "scan" /\ u = [t EXCEPT !.site = owned, !.patchy = TRUE]
    BY <1>0, <1>11 DEF SiteChanges
  <2>2. u.phase = t.phase /\ u.result = t.result /\ u.writes = t.writes /\ u.copy = t.copy
    BY <1>0, <2>1 DEF TaskType
  <2> QED
    BY <1>0, <2>1, <2>2, PhaseFits DEF Fits, WithCopy
<1>12. ASSUME NEW s \in Services, FetchPanel(k, s) \/ PanelFails(k, s)
       PROVE  PanelsOnly(u) /\ (~raced => Fits(u))
  <2>1. /\ t.phase = "panels" /\ u.phase = t.phase /\ u.copy = t.copy
        /\ t.result[s] = "queued" \/ t.writes[s] # <<>>
        /\ \A r \in Services \ {s} : u.result[r] = t.result[r] /\ u.writes[r] = t.writes[r]
        /\ u.result[s] # "queued"
        /\ u.writes[s] # <<>> => t.writes[s] # <<>> \/ account # NoAccount
    <3>1. CASE PanelFails(k, s)
      BY <1>0, <3>1 DEF PanelFails, TaskType
    <3>2. CASE FetchPanel(k, s) /\ ~Current(k)
      <4>1. t.phase = "panels" /\ t.result[s] = "queued" /\ task' = [task EXCEPT ![k].result[s] = "skipped"]
        BY <3>2 DEF FetchPanel
      <4> QED
        BY <1>0, <4>1 DEF TaskType
    <3>3. CASE FetchPanel(k, s) /\ Current(k)
      <4>1. PICK result \in {"ok", "empty", "error"} :
              \E w : task' = [task EXCEPT ![k].result[s] = result, ![k].writes[s] = w]
        BY <3>3 DEF FetchPanel
      <4>2. PICK w : task' = [task EXCEPT ![k].result[s] = result, ![k].writes[s] = w]
        BY <4>1
      <4>3. t.phase = "panels" /\ t.result[s] = "queued" /\ account # NoAccount
        BY <3>3 DEF FetchPanel, Current
      <4> QED
        BY <1>0, <4>2, <4>3 DEF TaskType
    <3> QED
      BY <1>12, <3>1, <3>2, <3>3
  <2> QED
    BY <1>0, <2>1 DEF PanelsOnly, Fits
<1> QED
  BY <1>2, <1>3, <1>4, <1>5, <1>6, <1>8, <1>9, <1>10, <1>11, <1>12 DEF Looks

LEMMA LooksInv ==
  ASSUME Inv, NEW k \in Tasks, Looks(k)
  PROVE  AtPanels' /\ Tidy'
<1>1. \A j \in Tasks \ {k} : task'[j] = task[j]
  <2>1. Looks(k) => Moves(k) \/ Starts(k) \/ Release(k)
    <3>1. ReadAccount(k) \/ FetchPage(k) \/ FetchDetails(k) \/ FinishPanels(k) \/ (\E s \in Services : FetchPanel(k, s))
            => SyncStep(k)
      BY DEF SyncStep
    <3>2. LoginRejected(k) => LoginStep(k)
      BY DEF LoginStep
    <3>3. TaskFails(k) \/ (\E s \in Services : PanelFails(k, s)) => TaskFault(k)
      BY DEF TaskFault
    <3> QED
      BY <3>1, <3>2, <3>3 DEF Looks, Moves, Starts
  <2>2. Release(k) => \A j \in Tasks \ {k} : task'[j] = task[j]
    BY DEF Inv, TypeOK, Release
  <2> QED
    BY <2>1, <2>2, MovesItself, StartsAlone DEF Inv
<1>2. UNCHANGED <<account, machines, mappings, samples, caller, raced>>
  BY DEF Looks, StartLogin, LoginRejected, AbandonLogin, Poll, Release, ReadAccount, FetchPage, FetchDetails,
         FinishPanels, SiteChanges, TaskFails, FetchPanel, PanelFails, tables, history
<1>3. PanelsOnly(task'[k]) /\ (~raced => Fits(task'[k]))
  BY LooksFit
<1>4. AtPanels'
  BY <1>1, <1>3 DEF Inv, AtPanels, PanelsOnly
<1>5. Tidy'
  <2> SUFFICES ASSUME ~raced' PROVE OwnDataOnly' /\ (\A j \in Tasks : Fits(task[j]))' /\ (\A c \in Callers : CallFits(caller[c]))'
    BY DEF Tidy
  <2>1. ~raced /\ OwnDataOnly /\ (\A j \in Tasks : Fits(task[j])) /\ \A c \in Callers : CallFits(caller[c])
    BY <1>2 DEF Inv, Tidy
  <2>2. \A j \in Tasks : Fits(task'[j])
    BY <1>1, <1>3, <2>1
  <2> QED
    BY <1>2, <2>1, <2>2 DEF OwnDataOnly, Fits, CallFits
<1> QED
  BY <1>4, <1>5

\* The row is written back by somebody whose copy is of this account.
LEMMA RewriteInv ==
  ASSUME Inv, NEW k \in Tasks,
         ~raced => account # NoAccount /\ account' # NoAccount
                   /\ account'.cred = account.cred /\ account'.gen = account.gen,
         UNCHANGED <<machines, mappings, samples, raced>>,
         \A c \in Callers : caller'[c] = caller[c] \/ caller'[c].phase \notin {"request", "panel"},
         \A j \in Tasks \ {k} : task'[j] = task[j],
         PanelsOnly(task'[k]),
         ~raced => Fits(task'[k])
  PROVE  AtPanels' /\ Tidy'
<1>1. AtPanels'
  BY DEF Inv, AtPanels, PanelsOnly
<1>2. Tidy'
  <2> SUFFICES ASSUME ~raced' PROVE OwnDataOnly' /\ (\A j \in Tasks : Fits(task[j]))' /\ (\A c \in Callers : CallFits(caller[c]))'
    BY DEF Tidy
  <2>1. ~raced /\ OwnDataOnly /\ (\A j \in Tasks : Fits(task[j])) /\ \A c \in Callers : CallFits(caller[c])
    BY DEF Inv, Tidy
  <2>2. \A j \in Tasks : Fits(task'[j])
    BY <2>1
  <2>3. OwnDataOnly'
    BY <2>1 DEF OwnDataOnly
  <2>4. (\A j \in Tasks : Fits(task[j]))'
    BY <2>1, <2>2 DEF Fits
  <2>5. (\A c \in Callers : CallFits(caller[c]))'
    BY <2>1 DEF CallFits
  <2> QED
    BY <2>3, <2>4, <2>5
<1> QED
  BY <1>1, <1>2

\* What Stored makes of a copy that is of this account.
LEMMA StoredSame ==
  ASSUME Inv, account # NoAccount, NEW copy \in AccountRow, copy.cred = account.cred, account' = Stored(copy)
  PROVE  account' # NoAccount /\ account'.cred = account.cred /\ account'.gen = account.gen
<1>1. TablesOK
  BY TypeParts DEF Inv
<1>2. Stored(copy) \in AccountRow /\ NoAccount \notin AccountRow
  BY <1>1, StoredOK, Bounds DEF AccountRow, NoAccount
<1> QED
  BY <1>1, <1>2, StoredOK

LEMMA SavesInv ==
  ASSUME Inv, NEW k \in Tasks, MarkSyncing(k) \/ SaveSiteError(k) \/ SaveSession(k) \/ SaveSummary(k)
  PROVE  AtPanels' /\ Tidy'
<1> DEFINE t == task[k]
           u == task'[k]
<1>0. /\ t \in TaskType /\ PanelsOnly(t) /\ (~raced => Fits(t)) /\ DOMAIN task = Tasks
      /\ t.phase \in {"mark", "failing", "store", "closing"} /\ t.copy \in AccountRow
  <2>1. t.phase \in {"mark", "failing", "store", "closing"}
    BY DEF MarkSyncing, SaveSiteError, SaveSession, SaveSummary
  <2>2. t \in TaskType /\ t.copy # NoAccount
    BY <2>1 DEF Inv, TypeOK, WithCopy
  <2> QED
    BY <2>1, <2>2 DEF Inv, TypeOK, AtPanels, Tidy, TaskType
<1>1. \A j \in Tasks \ {k} : task'[j] = task[j]
  <2>1. Moves(k)
    BY DEF Moves, SyncStep, MarkSyncing, SaveSiteError, SaveSession, SaveSummary, Release
  <2> QED
    BY <2>1, MovesItself DEF Inv
<1>2. ~raced => account # NoAccount /\ t.copy.cred = account.cred
  BY <1>0 DEF Fits, WithCopy
<1>3. ASSUME NEW copy \in AccountRow, copy.cred = t.copy.cred, account' = Stored(copy)
      PROVE  ~raced => account # NoAccount /\ account' # NoAccount
                       /\ account'.cred = account.cred /\ account'.gen = account.gen
  BY <1>2, <1>3, StoredSame
<1>4. ASSUME account' = Stored(t.copy) PROVE account' \in AccountRow
  <2>1. TablesOK
    BY TypeParts DEF Inv
  <2> QED
    BY <1>0, <1>4, <2>1, StoredOK
<1>5. CASE MarkSyncing(k)
  <2>1. PICK owned : task' = [task EXCEPT ![k].phase = "scan", ![k].copy = account', ![k].page = 1, ![k].total = 1,
                                ![k].site = owned]
    BY <1>5 DEF MarkSyncing
  <2>2. account' = Stored(t.copy)
    BY <1>5 DEF MarkSyncing
  <2>3. u.phase = "scan" /\ u.result = t.result /\ u.writes = t.writes /\ u.copy = account'
    BY <1>0, <2>1 DEF TaskType
  <2>4. PanelsOnly(u) /\ \A s \in Services : u.result[s] # "queued" /\ u.writes[s] = <<>>
    BY <1>0, <2>3 DEF PanelsOnly
  <2>5. ~raced => account'.cred = account.cred
    BY <1>0, <1>3, <2>2
  <2>6. ~raced => Fits(u)
    BY <2>3, <2>4, <2>5 DEF Fits, WithCopy
  <2> QED
    BY <1>0, <1>1, <1>3, <1>5, <2>2, <2>4, <2>6, RewriteInv DEF MarkSyncing
<1>6. CASE SaveSession(k)
  <2>1. u.phase = "upsert" /\ u.result = t.result /\ u.writes = t.writes /\ u.copy = t.copy
    BY <1>0, <1>6 DEF SaveSession, TaskType
  <2>2. PanelsOnly(u) /\ (~raced => Fits(u))
    BY <1>0, <1>2, <2>1, PhaseFits
  <2>3. account' = Stored(t.copy) /\ UNCHANGED <<machines, mappings, samples, caller, raced>>
    BY <1>6 DEF SaveSession, history
  <2> QED
    BY <1>0, <1>1, <1>3, <2>2, <2>3, RewriteInv
<1>7. CASE SaveSiteError(k)
  <2> DEFINE copy == [t.copy EXCEPT !.state = "error"]
  <2>1. copy \in AccountRow /\ copy.cred = t.copy.cred
    BY <1>0 DEF AccountRow
  <2>2. account' = Stored(copy) /\ End(k) /\ UNCHANGED <<machines, mappings, samples, caller, raced>>
    BY <1>7 DEF SaveSiteError, history
  <2>3. PanelsOnly(u) /\ Fits(u)
    BY <1>0, <2>2, IdleFits DEF End
  <2> QED
    BY <1>1, <1>3, <2>1, <2>2, <2>3, RewriteInv
<1>8. CASE SaveSummary(k)
  <2> DEFINE copy == Summary(t.copy, t.result)
  <2>1. copy \in AccountRow /\ copy.cred = t.copy.cred
    BY <1>0 DEF Summary, AccountRow
  <2>2. account' = Stored(copy) /\ End(k) /\ UNCHANGED <<machines, mappings, samples, caller, raced>>
    BY <1>8 DEF SaveSummary, history
  <2>3. PanelsOnly(u) /\ Fits(u)
    BY <1>0, <2>2, IdleFits DEF End
  <2> QED
    BY <1>1, <1>3, <2>1, <2>2, <2>3, RewriteInv
<1> QED
  BY <1>5, <1>6, <1>7, <1>8

\* A login puts its row where there was none, and nobody had one in hand.
LEMMA LoginSavesInv ==
  ASSUME Inv, NEW k \in Tasks, LoginSaves(k)
  PROVE  AtPanels' /\ Tidy'
<1> DEFINE t == task[k]
           u == task'[k]
<1>0. /\ t \in TaskType /\ DOMAIN task = Tasks /\ t.phase = "wiped" /\ t # Idle
      /\ UNCHANGED <<machines, mappings, samples, caller, raced>>
  BY DEF Inv, TypeOK, LoginSaves, Idle
<1>1. \A j \in Tasks \ {k} : task[j] = Idle /\ task'[j] = Idle
  BY <1>0 DEF Inv, OneTaskAtATime, LoginSaves, End
<1>2. u \in {[Idle EXCEPT !.phase = "read"], [Idle EXCEPT !.phase = "release"]}
  BY <1>0 DEF LoginSaves, End
<1>3. PanelsOnly(u) /\ u.phase \in {"read", "release"} /\ \A s \in Services : u.result[s] # "queued" /\ u.writes[s] = <<>>
  <2>1. Idle \in TaskType /\ \A s \in Services : Idle.result[s] = "none" /\ Idle.writes[s] = <<>>
    BY IdleOK DEF TaskOK, Idle
  <2> QED
    BY <1>2, <2>1 DEF PanelsOnly, TaskType
<1>4. AtPanels'
  BY <1>1, <1>3, IdleFits DEF AtPanels, PanelsOnly, Idle
<1>5. Tidy'
  <2> SUFFICES ASSUME ~raced' PROVE OwnDataOnly' /\ (\A j \in Tasks : Fits(task[j]))' /\ (\A c \in Callers : CallFits(caller[c]))'
    BY DEF Tidy
  <2>1. ~raced /\ OwnDataOnly /\ Fits(t) /\ \A c \in Callers : CallFits(caller[c])
    BY <1>0 DEF Inv, Tidy
  <2>2. account = NoAccount
    BY <1>0, <2>1 DEF Fits
  <2>3. account' = [gen |-> t.gen, cred |-> t.gen, state |-> "syncing", recent |-> FALSE]
    BY <2>2 DEF LoginSaves, Stored
  <2>4. \A s \in Services : machines[s] = NoMachine /\ mappings[s] = {} /\ s \notin samples
    BY <2>1, <2>2 DEF OwnDataOnly
  <2>5. OwnDataOnly'
    BY <1>0, <2>3, <2>4 DEF OwnDataOnly
  <2>6. \A c \in Callers : caller[c].phase \notin {"request", "panel"}
    BY <2>1, <2>2 DEF CallFits
  <2>7. (\A c \in Callers : CallFits(caller[c]))'
    BY <1>0, <2>6 DEF CallFits
  <2>8. \A j \in Tasks : /\ task'[j].phase \in {"idle", "read", "release"}
                         /\ \A s \in Services : task'[j].result[s] # "queued" /\ task'[j].writes[s] = <<>>
    BY <1>1, <1>3 DEF Idle
  <2>9. (\A j \in Tasks : Fits(task[j]))'
    BY <2>8 DEF Fits, WithCopy
  <2> QED
    BY <2>5, <2>7, <2>9
<1> QED
  BY <1>4, <1>5

\* The user's rows go, and nobody is about to write.
LEMMA WipeInv ==
  ASSUME Inv, Wipe, AtPanels',
         ~raced' => /\ \A c \in Callers : caller'[c].phase \notin {"request", "panel"}
                    /\ \A j \in Tasks : /\ task'[j].phase \notin {"mark", "failing", "store", "upsert", "closing"}
                                        /\ \A s \in Services : task'[j].writes[s] = <<>>
  PROVE  Tidy'
<1> SUFFICES ASSUME ~raced' PROVE OwnDataOnly' /\ (\A j \in Tasks : Fits(task[j]))' /\ (\A c \in Callers : CallFits(caller[c]))'
  BY DEF Tidy
<1>1. account' = NoAccount /\ \A s \in Services : machines'[s] = NoMachine /\ mappings'[s] = {} /\ s \notin samples'
  BY DEF Wipe
<1>2. OwnDataOnly'
  BY <1>1 DEF OwnDataOnly
<1>3. (\A j \in Tasks : Fits(task[j]))'
  BY <1>1 DEF Fits
<1>4. (\A c \in Callers : CallFits(caller[c]))'
  BY DEF CallFits
<1> QED
  BY <1>2, <1>3, <1>4

LEMMA LoginWipesInv ==
  ASSUME Inv, NEW k \in Tasks, LoginWipes(k)
  PROVE  AtPanels' /\ Tidy'
<1> DEFINE t == task[k]
           u == task'[k]
<1>0. /\ t \in TaskType /\ DOMAIN task = Tasks /\ t.phase = "validate" /\ t # Idle /\ PanelsOnly(t)
      /\ u = [t EXCEPT !.phase = "wiped"] /\ UNCHANGED caller
  BY DEF Inv, TypeOK, LoginWipes, Idle, AtPanels
<1>1. \A j \in Tasks \ {k} : task[j] = Idle /\ task'[j] = Idle
  BY <1>0 DEF Inv, OneTaskAtATime, LoginWipes
<1>2. u.phase = "wiped" /\ u.result = t.result /\ u.writes = t.writes
  BY <1>0 DEF TaskType
<1>3. \A s \in Services : u.result[s] # "queued" /\ u.writes[s] = <<>>
  BY <1>0, <1>2 DEF PanelsOnly
<1>4. \A j \in Tasks : /\ task'[j].phase \in {"idle", "wiped"}
                       /\ \A s \in Services : task'[j].result[s] # "queued" /\ task'[j].writes[s] = <<>>
  BY <1>1, <1>2, <1>3 DEF Idle
<1>5. AtPanels'
  BY <1>4 DEF AtPanels, PanelsOnly
<1>6. ~raced' => \A c \in Callers : caller'[c].phase \notin {"request", "panel"}
  BY <1>0 DEF LoginWipes, Holding
<1> QED
  BY <1>4, <1>5, <1>6, WipeInv DEF LoginWipes

LEMMA DisconnectInv ==
  ASSUME Inv, Disconnect
  PROVE  AtPanels' /\ Tidy'
<1>1. AtPanels'
  BY DEF Inv, AtPanels, PanelsOnly, Disconnect
<1>2. ~raced' => /\ \A c \in Callers : caller'[c].phase \notin {"request", "panel"}
                 /\ \A j \in Tasks : /\ task'[j].phase \notin {"mark", "failing", "store", "upsert", "closing"}
                                     /\ \A s \in Services : task'[j].writes[s] = <<>>
  BY DEF Disconnect, Writing, Holding
<1> QED
  BY <1>1, <1>2, WipeInv DEF Disconnect

\* What the upsert leaves, and what it does for each machine.
LEMMA UpsertInv ==
  ASSUME Inv, NEW k \in Tasks, UpsertMachines(k)
  PROVE  AtPanels' /\ Tidy'
<1> DEFINE t == task[k]
           u == task'[k]
<1>0. /\ t \in TaskType /\ DOMAIN task = Tasks /\ t.phase = "upsert" /\ t.copy \in AccountRow /\ t # Idle
      /\ UNCHANGED <<account, caller, raced>>
  <2>1. t.phase = "upsert"
    BY DEF UpsertMachines
  <2>2. t \in TaskType /\ t.copy # NoAccount
    BY <2>1 DEF Inv, TypeOK, WithCopy
  <2> QED
    <3>1. DOMAIN task = Tasks /\ t # Idle
      BY <2>1 DEF Inv, TypeOK, Idle
    <3>2. t.copy \in AccountRow
      BY <2>2 DEF TaskType
    <3> QED
      BY <2>1, <2>2, <3>1, <3>2 DEF UpsertMachines
<1>1. \A j \in Tasks \ {k} : task[j] = Idle /\ task'[j] = Idle
  BY <1>0 DEF Inv, OneTaskAtATime, UpsertMachines
<1>2. \A s \in Services : /\ s \in t.found => /\ machines'[s] # NoMachine /\ machines'[s].from = t.copy.cred
                          /\ s \notin t.found => machines'[s] = NoMachine /\ mappings'[s] = {} /\ s \notin samples'
  <2> SUFFICES ASSUME NEW s \in Services
               PROVE  /\ s \in t.found => /\ machines'[s] # NoMachine /\ machines'[s].from = t.copy.cred
                      /\ s \notin t.found => machines'[s] = NoMachine /\ mappings'[s] = {} /\ s \notin samples'
    OBVIOUS
  <2>1. machines[s] \in {NoMachine} \cup MachineRow /\ t.copy.cred \in 1 .. MaxLogins /\ t.kinds[s] \in {"container", "nat", "none"}
    BY <1>0 DEF Inv, TypeOK, TaskType, AccountRow
  <2>2. machines'[s] = IF s \in t.found THEN Upserted(machines[s], t.copy.cred, t.kinds[s]) ELSE NoMachine
    BY DEF UpsertMachines
  <2>3. s \notin t.found => mappings'[s] = {} /\ s \notin samples'
    BY DEF UpsertMachines
  <2> QED
    BY <2>1, <2>2, <2>3, UpsertedOK
<1>3. /\ u.phase = "panels" /\ u.copy = t.copy /\ u.writes = t.writes
      /\ \A s \in Services : u.result[s] = IF s \in t.found THEN "queued" ELSE "none"
  <2>1. PICK kinds : u = [t EXCEPT !.phase = "panels", !.found = {}, !.site = {}, !.patchy = FALSE, !.kinds = kinds,
                            !.result = [s \in Services |-> IF s \in t.found THEN "queued" ELSE "none"]]
    BY <1>0 DEF UpsertMachines
  <2> QED
    BY <1>0, <2>1 DEF TaskType
<1>4. PanelsOnly(u)
  BY <1>3 DEF PanelsOnly
<1>5. AtPanels'
  BY <1>1, <1>4 DEF AtPanels, PanelsOnly, Idle
<1>6. Tidy'
  <2> SUFFICES ASSUME ~raced' PROVE OwnDataOnly' /\ (\A j \in Tasks : Fits(task[j]))' /\ (\A c \in Callers : CallFits(caller[c]))'
    BY DEF Tidy
  <2>1. ~raced /\ OwnDataOnly /\ Fits(t) /\ \A c \in Callers : CallFits(caller[c])
    BY <1>0 DEF Inv, Tidy
  <2>2. account # NoAccount /\ t.copy.cred = account.cred
    BY <1>0, <2>1 DEF Fits, WithCopy
  <2>3. OwnDataOnly'
    BY <1>0, <1>2, <2>1, <2>2 DEF OwnDataOnly
  <2>4. \A s \in Services : t.writes[s] = <<>>
    BY <1>0 DEF Inv, AtPanels, PanelsOnly
  <2>5. Fits(task[k])'
    BY <1>0, <1>2, <1>3, <2>2, <2>4 DEF Fits
  <2>6. \A j \in Tasks \ {k} : Fits(task[j])'
    BY <1>1 DEF Fits, Idle, WithCopy
  <2>7. (\A c \in Callers : CallFits(caller[c]))'
    BY <1>0, <2>1 DEF CallFits
  <2> QED
    BY <2>3, <2>5, <2>6, <2>7
<1> QED
  BY <1>5, <1>6

\* A statement of a panel: it neither adds nor drops a machine, and the machine
\* it writes is there.
LEMMA WriteInv ==
  ASSUME Inv, NEW k \in Tasks, NEW s \in Services, WritePanel(k, s)
  PROVE  AtPanels' /\ Tidy'
<1> DEFINE t == task[k]
           u == task'[k]
           w == Head(t.writes[s])
<1>0. /\ t \in TaskType /\ DOMAIN task = Tasks /\ t.writes[s] # <<>> /\ PanelsOnly(t) /\ (~raced => Fits(t))
      /\ UNCHANGED <<account, caller, raced>>
  BY DEF Inv, TypeOK, AtPanels, Tidy, WritePanel
<1>1. \A j \in Tasks \ {k} : task'[j] = task[j]
  BY <1>0 DEF WritePanel
<1>2. /\ u.phase = t.phase /\ u.copy = t.copy /\ u.result = t.result
      /\ \A r \in Services \ {s} : u.writes[r] = t.writes[r]
  <2>1. u = [t EXCEPT !.writes = [t.writes EXCEPT ![s] = Tail(t.writes[s])]]
    BY <1>0 DEF WritePanel, TaskType
  <2> QED
    BY <1>0, <2>1 DEF TaskType
<1>3. PanelsOnly(u)
  BY <1>0, <1>2 DEF PanelsOnly
<1>4. AtPanels'
  BY <1>1, <1>3 DEF Inv, AtPanels, PanelsOnly
<1>5. \A r \in Services : /\ machines[r] = NoMachine <=> machines'[r] = NoMachine
                          /\ machines'[r].from = machines[r].from
  <2>1. \A r \in Services : machines[r] \in {NoMachine} \cup MachineRow
    BY DEF Inv, TypeOK
  <2>2. DOMAIN machines = Services
    BY DEF Inv, TypeOK
  <2>3. machines' = machines \/ machines' = [machines EXCEPT ![s] = DetailRow(machines[s], t.kinds[s], t.result[s])]
    BY <2>2 DEF WritePanel
  <2>4. \A m \in {NoMachine} \cup MachineRow : LET n == DetailRow(m, t.kinds[s], t.result[s]) IN
          (m = NoMachine <=> n = NoMachine) /\ n.from = m.from
    <3>1. NoMachine.from = 0 /\ \A m \in MachineRow : m.from # 0
      BY Bounds DEF NoMachine, MachineRow
    <3>2. \A m \in MachineRow : DetailRow(m, t.kinds[s], t.result[s]).from = m.from
      BY DEF DetailRow, MachineRow
    <3>3. DetailRow(NoMachine, t.kinds[s], t.result[s]) = NoMachine
      BY DEF DetailRow
    <3> QED
      BY <3>1, <3>2, <3>3
  <2> QED
    BY <2>1, <2>2, <2>3, <2>4
<1>6. Tidy'
  <2> SUFFICES ASSUME ~raced' PROVE OwnDataOnly' /\ (\A j \in Tasks : Fits(task[j]))' /\ (\A c \in Callers : CallFits(caller[c]))'
    BY DEF Tidy
  <2>1. ~raced /\ OwnDataOnly /\ (\A j \in Tasks : Fits(task[j])) /\ \A c \in Callers : CallFits(caller[c])
    BY <1>0 DEF Inv, Tidy
  <2>2. account # NoAccount /\ machines[s] # NoMachine
    BY <1>0, <2>1 DEF Fits
  <2>3. /\ \A r \in Services \ {s} : mappings'[r] = mappings[r]
        /\ samples' \subseteq samples \cup {s}
    BY DEF WritePanel, Inv, TypeOK
  <2>4. OwnDataOnly'
    BY <1>0, <1>5, <2>1, <2>2, <2>3 DEF OwnDataOnly
  <2>5. \A j \in Tasks : Fits(task[j])'
    <3>1. Fits(task[k])'
      BY <1>0, <1>2, <1>5, <2>1, <2>2 DEF Fits
    <3>2. \A j \in Tasks \ {k} : Fits(task[j])'
      BY <1>0, <1>1, <1>5, <2>1 DEF Fits
    <3> QED
      BY <3>1, <3>2
  <2>6. (\A c \in Callers : CallFits(caller[c]))'
    BY <1>0, <2>1 DEF CallFits
  <2> QED
    BY <2>4, <2>5, <2>6
<1> QED
  BY <1>4, <1>6

\* The steps of handlers that write nothing.
LEMMA HandlersInv ==
  ASSUME Inv, NEW c \in Callers, RequestReads(c) \/ AccessReads(c) \/ CallerLeaves(c)
  PROVE  AtPanels' /\ Tidy'
<1>0. DOMAIN caller = Callers /\ UNCHANGED <<account, machines, mappings, samples, task, raced>>
  BY DEF Inv, TypeOK, RequestReads, AccessReads, CallerLeaves, tables, history
<1>1. AtPanels'
  BY <1>0 DEF Inv, AtPanels, PanelsOnly
<1>2. CallFits(caller'[c])
  <2>1. account # NoAccount => account \in AccountRow
    BY DEF Inv, TypeOK
  <2>2. CASE RequestReads(c)
    <3>1. caller'[c] = [phase |-> "request", copy |-> [account EXCEPT !.state = "syncing"]] /\ account # NoAccount
      BY <1>0, <2>2 DEF RequestReads
    <3>2. caller'[c].copy.cred = account.cred
      BY <2>1, <3>1 DEF AccountRow
    <3> QED
      BY <3>1, <3>2 DEF CallFits
  <2>3. CASE AccessReads(c)
    BY <1>0, <2>3 DEF AccessReads, CallFits
  <2>4. CASE CallerLeaves(c)
    BY <1>0, <2>4 DEF CallerLeaves, CallFits, NoCall
  <2> QED
    BY <2>2, <2>3, <2>4
<1>3. \A d \in Callers \ {c} : caller'[d] = caller[d]
  BY <1>0 DEF RequestReads, AccessReads, CallerLeaves
<1>4. Tidy'
  <2> SUFFICES ASSUME ~raced' PROVE OwnDataOnly' /\ (\A j \in Tasks : Fits(task[j]))' /\ (\A d \in Callers : CallFits(caller[d]))'
    BY DEF Tidy
  <2>1. ~raced /\ OwnDataOnly /\ (\A j \in Tasks : Fits(task[j])) /\ \A d \in Callers : CallFits(caller[d])
    BY <1>0 DEF Inv, Tidy
  <2> QED
    BY <1>0, <1>2, <1>3, <2>1 DEF OwnDataOnly, Fits, CallFits
<1> QED
  BY <1>1, <1>4

\* The handlers that write the row back as they read it.
LEMMA HandlersSave ==
  ASSUME Inv, NEW c \in Callers, RequestWrites(c) \/ AccessWrites(c)
  PROVE  AtPanels' /\ Tidy'
<1>0. /\ DOMAIN caller = Callers /\ UNCHANGED <<machines, mappings, samples, task, raced>>
      /\ caller[c].phase \in {"request", "panel"} /\ caller[c].copy \in AccountRow
      /\ account' = Stored(caller[c].copy)
  BY DEF Inv, TypeOK, RequestWrites, AccessWrites, history, Holding
<1>1. AtPanels'
  BY <1>0 DEF Inv, AtPanels, PanelsOnly
<1>2. \A d \in Callers : caller'[d] = caller[d] \/ caller'[d].phase \notin {"request", "panel"}
  BY <1>0 DEF RequestWrites, AccessWrites, NoCall
<1>3. Tidy'
  <2> SUFFICES ASSUME ~raced' PROVE OwnDataOnly' /\ (\A j \in Tasks : Fits(task[j]))' /\ (\A d \in Callers : CallFits(caller[d]))'
    BY DEF Tidy
  <2>1. ~raced /\ OwnDataOnly /\ (\A j \in Tasks : Fits(task[j])) /\ \A d \in Callers : CallFits(caller[d])
    BY <1>0 DEF Inv, Tidy
  <2>2. account # NoAccount /\ caller[c].copy.cred = account.cred
    BY <1>0, <2>1 DEF CallFits
  <2>3. account' # NoAccount /\ account'.cred = account.cred /\ account'.gen = account.gen
    BY <1>0, <2>2, StoredSame
  <2>4. OwnDataOnly'
    BY <1>0, <2>1, <2>2, <2>3 DEF OwnDataOnly
  <2>5. (\A j \in Tasks : Fits(task[j]))'
    BY <1>0, <2>1, <2>2, <2>3 DEF Fits
  <2>6. (\A d \in Callers : CallFits(caller[d]))'
    BY <1>2, <2>1, <2>2, <2>3 DEF CallFits
  <2> QED
    BY <2>4, <2>5, <2>6
<1> QED
  BY <1>1, <1>3

LEMMA SpawnInv ==
  ASSUME Inv, NEW c \in Callers, RequestSpawns(c)
  PROVE  AtPanels' /\ Tidy'
<1>0. DOMAIN caller = Callers /\ UNCHANGED <<account, machines, mappings, samples, raced>>
  BY DEF Inv, TypeOK, RequestSpawns, tables, history
<1>1. \A j \in Tasks : task'[j] = task[j] \/ task'[j] = [Idle EXCEPT !.phase = "read"]
  <2>1. CASE UNCHANGED task
    BY <2>1
  <2>2. CASE \E k \in Tasks : Free(k) /\ task' = [task EXCEPT ![k].phase = "read"]
    <3>1. PICK k \in Tasks : task[k] = Idle /\ task' = [task EXCEPT ![k].phase = "read"]
      BY <2>2 DEF Free
    <3> QED
      BY <3>1 DEF Inv, TypeOK
  <2> QED
    BY <2>1, <2>2 DEF RequestSpawns
<1>2. AtPanels'
  BY <1>1, IdleFits DEF Inv, AtPanels, PanelsOnly
<1>3. \A d \in Callers : caller'[d] = caller[d] \/ caller'[d].phase \notin {"request", "panel"}
  BY <1>0 DEF RequestSpawns, NoCall
<1>4. Tidy'
  <2> SUFFICES ASSUME ~raced' PROVE OwnDataOnly' /\ (\A j \in Tasks : Fits(task[j]))' /\ (\A d \in Callers : CallFits(caller[d]))'
    BY DEF Tidy
  <2>1. ~raced /\ OwnDataOnly /\ (\A j \in Tasks : Fits(task[j])) /\ \A d \in Callers : CallFits(caller[d])
    BY <1>0 DEF Inv, Tidy
  <2>2. \A j \in Tasks : Fits(task'[j])
    BY <1>1, <2>1, IdleFits
  <2>3. (\A j \in Tasks : Fits(task[j]))'
    BY <1>0, <2>2 DEF Fits
  <2>4. OwnDataOnly' /\ (\A d \in Callers : CallFits(caller[d]))'
    BY <1>0, <1>3, <2>1 DEF OwnDataOnly, CallFits
  <2> QED
    BY <2>3, <2>4
<1> QED
  BY <1>2, <1>4

\* Time changes what is due, and nothing about whose it is.
LEMMA AgeInv ==
  ASSUME Inv, Age
  PROVE  AtPanels' /\ Tidy'
<1>1. \A row \in {NoAccount} \cup AccountRow : LET new == [row EXCEPT !.recent = FALSE] IN
        /\ new.cred = row.cred /\ new.gen = row.gen
        /\ row = NoAccount <=> new = NoAccount
  <2>1. \A row \in [gen : 0 .. MaxLogins, cred : 0 .. MaxLogins, state : {"none", "syncing", "ready", "error"}, recent : BOOLEAN] :
          LET new == [row EXCEPT !.recent = FALSE] IN
          new.cred = row.cred /\ new.gen = row.gen /\ new.state = row.state
    OBVIOUS
  <2>2. \A row \in {NoAccount} \cup AccountRow :
          row \in [gen : 0 .. MaxLogins, cred : 0 .. MaxLogins, state : {"none", "syncing", "ready", "error"}, recent : BOOLEAN]
    <3>1. NoAccount \in [gen : 0 .. MaxLogins, cred : 0 .. MaxLogins, state : {"none", "syncing", "ready", "error"}, recent : BOOLEAN]
      BY Bounds DEF NoAccount
    <3>2. 1 .. MaxLogins \subseteq 0 .. MaxLogins
      BY Bounds
    <3>3. AccountRow \subseteq [gen : 0 .. MaxLogins, cred : 0 .. MaxLogins, state : {"none", "syncing", "ready", "error"}, recent : BOOLEAN]
      BY <3>2 DEF AccountRow
    <3> QED
      BY <3>1, <3>3
  <2>3. NoAccount.gen = 0 /\ (\A row \in AccountRow : row.gen # 0)
    BY Bounds DEF NoAccount, AccountRow
  <2>4. NoAccount \in [gen : {0}, cred : {0}, state : {"none"}, recent : {FALSE}]
    BY DEF NoAccount
  <2>5. \A row \in [gen : {0}, cred : {0}, state : {"none"}, recent : {FALSE}] : [row EXCEPT !.recent = FALSE] = row
    OBVIOUS
  <2> QED
    BY <2>1, <2>2, <2>3, <2>4, <2>5
<1>2. ASSUME NEW j \in Tasks
      PROVE  /\ task'[j].phase = task[j].phase /\ task'[j].result = task[j].result /\ task'[j].writes = task[j].writes
             /\ task'[j].copy.cred = task[j].copy.cred
  <2>1. task[j] \in TaskType /\ task[j].copy \in {NoAccount} \cup AccountRow
    BY DEF Inv, TypeOK, TaskType
  <2>2. task'[j] = [task[j] EXCEPT !.copy = [task[j].copy EXCEPT !.recent = FALSE]]
    BY <2>1 DEF Age, TaskType
  <2> QED
    BY <1>1, <2>1, <2>2 DEF TaskType
<1>3. ASSUME NEW c \in Callers
      PROVE  caller'[c].phase = caller[c].phase /\ caller'[c].copy.cred = caller[c].copy.cred
  <2>1. /\ caller[c] \in [phase : {"idle", "request", "spawn", "panel"}, copy : {NoAccount} \cup AccountRow]
    BY DEF Inv, TypeOK
  <2>2. caller'[c] = [caller[c] EXCEPT !.copy = [caller[c].copy EXCEPT !.recent = FALSE]]
    BY <2>1 DEF Age
  <2> QED
    BY <1>1, <2>1, <2>2
<1>4. /\ account' = NoAccount <=> account = NoAccount
      /\ account'.cred = account.cred /\ account'.gen = account.gen
      /\ UNCHANGED <<machines, mappings, samples, raced>>
  <2>1. account \in {NoAccount} \cup AccountRow
    BY DEF Inv, TypeOK
  <2> QED
    BY <1>1, <2>1 DEF Age, history
<1>5. AtPanels'
  BY <1>2 DEF Inv, AtPanels, PanelsOnly
<1>6. Tidy'
  BY <1>2, <1>3, <1>4 DEF Inv, Tidy, OwnDataOnly, Fits, CallFits
<1> QED
  BY <1>5, <1>6

LEMMA CrashInv ==
  ASSUME Inv, Crash
  PROVE  AtPanels' /\ Tidy'
<1>1. /\ \A j \in Tasks : task'[j] = Idle
      /\ \A c \in Callers : caller'[c] = NoCall
      /\ UNCHANGED <<account, machines, mappings, samples, raced>>
  BY DEF Crash, tables
<1>2. AtPanels'
  BY <1>1, IdleFits DEF AtPanels, PanelsOnly
<1>3. Tidy'
  BY <1>1, IdleFits DEF Inv, Tidy, OwnDataOnly, Fits, CallFits, NoCall
<1> QED
  BY <1>2, <1>3

LEMMA NextInv == Inv /\ [Next]_vars => Inv'
<1> SUFFICES ASSUME Inv, [Next]_vars PROVE AtPanels' /\ Tidy'
  BY NextType, NextOneTask DEF Inv
<1>1. ASSUME NEW k \in Tasks,
             StartLogin(k) \/ LoginStep(k) \/ AbandonLogin(k) \/ Poll(k) \/ SyncStep(k) \/ SiteChanges(k) \/ TaskFault(k)
      PROVE  AtPanels' /\ Tidy'
  <2>1. CASE Looks(k)
    BY <2>1, LooksInv
  <2>2. CASE MarkSyncing(k) \/ SaveSiteError(k) \/ SaveSession(k) \/ SaveSummary(k)
    BY <2>2, SavesInv
  <2>3. CASE LoginWipes(k) \/ LoginSaves(k)
    BY <2>3, LoginWipesInv, LoginSavesInv
  <2>4. CASE UpsertMachines(k)
    BY <2>4, UpsertInv
  <2>5. CASE \E s \in Services : WritePanel(k, s)
    BY <2>5, WriteInv
  <2> QED
    BY <1>1, <2>1, <2>2, <2>3, <2>4, <2>5 DEF LoginStep, SyncStep, TaskFault, Looks
<1>2. ASSUME NEW c \in Callers, CallerStep(c) PROVE AtPanels' /\ Tidy'
  BY <1>2, HandlersInv, HandlersSave, SpawnInv DEF CallerStep
<1>3. CASE UNCHANGED vars
  BY <1>3 DEF vars, Inv, AtPanels, PanelsOnly, Tidy, OwnDataOnly, Fits, CallFits
<1> QED
  BY <1>1, <1>2, <1>3, DisconnectInv, AgeInv, CrashInv DEF Next

LEMMA InitInv == Init => Inv
<1> SUFFICES ASSUME Init PROVE AtPanels /\ Tidy
  BY InitType DEF Inv, Init, OneTaskAtATime
<1> QED
  BY IdleFits DEF Init, AtPanels, Tidy, OwnDataOnly, CallFits, NoCall

LEMMA Invariance == Spec => []Inv
  BY InitInv, NextInv, PTL DEF Spec

\* No machine, port mapping or sample outlives its account or is of another
\* login than the account, however logins, syncs, handlers, hang-ups, refused
\* statements and restarts mix, unless a deletion ran while somebody was about
\* to write.
THEOREM OwnData == Spec => []OwnDataOnly
<1>1. Inv => OwnDataOnly
  BY DEF Inv, Tidy, OwnDataOnly
<1> QED
  BY <1>1, Invariance, PTL

\* An account that was deleted comes back by a login only, with the same
\* exception.
THEOREM StaysGone == Spec => GoneUntilLogin
<1>1. Inv /\ [Next]_vars => [account = NoAccount /\ account' # NoAccount => raced \/ \E k \in Tasks : LoginSaves(k)]_vars
  <2> SUFFICES ASSUME Inv, Next, account = NoAccount, account' # NoAccount, ~raced
               PROVE  \E k \in Tasks : LoginSaves(k)
    OBVIOUS
  <2>1. (\A k \in Tasks : Fits(task[k])) /\ \A c \in Callers : CallFits(caller[c])
    BY DEF Inv, Tidy
  <2>2. ASSUME NEW k \in Tasks, MarkSyncing(k) \/ SaveSiteError(k) \/ SaveSession(k) \/ SaveSummary(k)
        PROVE  FALSE
    <3>1. task[k].phase \in {"mark", "failing", "store", "closing"}
      BY <2>2 DEF MarkSyncing, SaveSiteError, SaveSession, SaveSummary
    <3> QED
      BY <2>1, <3>1 DEF Fits
  <2>3. ASSUME NEW c \in Callers, RequestWrites(c) \/ AccessWrites(c)
        PROVE  FALSE
    <3>1. caller[c].phase \in {"request", "panel"}
      BY <2>3 DEF RequestWrites, AccessWrites
    <3> QED
      BY <2>1, <3>1 DEF CallFits
  <2>4. ASSUME NEW k \in Tasks, Looks(k) PROVE FALSE
    BY <2>4
    DEF Looks, StartLogin, LoginRejected, AbandonLogin, Poll, Release, ReadAccount, FetchPage, FetchDetails,
        FinishPanels, SiteChanges, TaskFails, FetchPanel, PanelFails, tables
  <2>5. ASSUME NEW k \in Tasks, LoginWipes(k) PROVE FALSE
    BY <2>5 DEF LoginWipes, Wipe
  <2>6. ASSUME NEW k \in Tasks, UpsertMachines(k) \/ \E s \in Services : WritePanel(k, s) PROVE FALSE
    BY <2>6 DEF UpsertMachines, WritePanel
  <2>7. ASSUME NEW c \in Callers, RequestReads(c) \/ RequestSpawns(c) \/ AccessReads(c) \/ CallerLeaves(c) PROVE FALSE
    BY <2>7 DEF RequestReads, RequestSpawns, AccessReads, CallerLeaves, tables
  <2>8. ~Disconnect /\ ~Crash
    BY DEF Disconnect, Wipe, Crash, tables
  <2>9. ~Age
    <3>1. \A row \in [gen : {0}, cred : {0}, state : {"none"}, recent : {FALSE}] : [row EXCEPT !.recent = FALSE] = row
      OBVIOUS
    <3>2. NoAccount \in [gen : {0}, cred : {0}, state : {"none"}, recent : {FALSE}]
      BY DEF NoAccount
    <3> QED
      BY <3>1, <3>2 DEF Age
  <2> QED
    BY <2>2, <2>3, <2>4, <2>5, <2>6, <2>7, <2>8, <2>9 DEF Next, LoginStep, SyncStep, CallerStep, TaskFault, Looks
<1> QED
  BY <1>1, Invariance, PTL DEF Spec, GoneUntilLogin

-----------------------------------------------------------------------------
(***************************************************************************)
(* The port mappings of a machine: what a sync has written of them, and    *)
(* what it has still to write.                                             *)
(***************************************************************************)

\* The statements of a queue, whatever their order.
Todo(q) == {q[i] : i \in 1 .. Len(q)}

LEMMA TodoOfTail ==
  ASSUME NEW S, NEW q \in Seq(S), q # <<>>
  PROVE  Todo(q) = {Head(q)} \cup Todo(Tail(q)) /\ Tail(q) \in Seq(S)
<1>1. Len(q) \in Nat \ {0} /\ Tail(q) \in Seq(S) /\ Len(Tail(q)) = Len(q) - 1 /\ Head(q) = q[1]
  OBVIOUS
<1>2. \A i \in 1 .. Len(q) - 1 : Tail(q)[i] = q[i + 1]
  BY <1>1
<1>3. ASSUME NEW i \in 1 .. Len(q) PROVE q[i] \in {Head(q)} \cup Todo(Tail(q))
  <2>1. CASE i = 1
    BY <1>1, <2>1
  <2>2. CASE i # 1
    <3>1. i - 1 \in 1 .. Len(q) - 1 /\ q[i] = Tail(q)[i - 1]
      BY <1>1, <1>2, <2>2
    <3> QED
      BY <1>1, <3>1 DEF Todo
  <2> QED
    BY <2>1, <2>2
<1>4. ASSUME NEW i \in 1 .. Len(Tail(q)) PROVE Tail(q)[i] \in Todo(q)
  <2>1. i + 1 \in 1 .. Len(q) /\ Tail(q)[i] = q[i + 1]
    BY <1>1, <1>2
  <2> QED
    BY <2>1 DEF Todo
<1>5. q[1] \in Todo(q)
  BY <1>1 DEF Todo
<1> QED
  BY <1>1, <1>3, <1>4, <1>5 DEF Todo

LEMMA TodoOfBoth ==
  ASSUME NEW S, NEW a \in Seq(S), NEW b \in Seq(S)
  PROVE  Todo(a \o b) = Todo(a) \cup Todo(b)
<1>1. /\ Len(a) \in Nat /\ Len(b) \in Nat /\ Len(a \o b) = Len(a) + Len(b)
      /\ \A i \in 1 .. Len(a) : (a \o b)[i] = a[i]
      /\ \A i \in 1 .. Len(b) : (a \o b)[Len(a) + i] = b[i]
  OBVIOUS
<1>2. ASSUME NEW i \in 1 .. Len(a \o b) PROVE (a \o b)[i] \in Todo(a) \cup Todo(b)
  <2>1. CASE i \in 1 .. Len(a)
    BY <1>1, <2>1 DEF Todo
  <2>2. CASE i \notin 1 .. Len(a)
    <3>1. i - Len(a) \in 1 .. Len(b) /\ Len(a) + (i - Len(a)) = i
      BY <1>1, <2>2
    <3> QED
      BY <1>1, <3>1 DEF Todo
  <2> QED
    BY <2>1, <2>2
<1>3. ASSUME NEW i \in 1 .. Len(a) PROVE a[i] \in Todo(a \o b)
  <2>1. i \in 1 .. Len(a \o b) /\ (a \o b)[i] = a[i]
    BY <1>1
  <2> QED
    BY <2>1 DEF Todo
<1>4. ASSUME NEW i \in 1 .. Len(b) PROVE b[i] \in Todo(a \o b)
  <2>1. Len(a) + i \in 1 .. Len(a \o b) /\ (a \o b)[Len(a) + i] = b[i]
    BY <1>1
  <2> QED
    BY <2>1 DEF Todo
<1> QED
  BY <1>2, <1>3, <1>4 DEF Todo

LEMMA TodoOfPair ==
  /\ Todo(<<>>) = {}
  /\ \A x : Todo(<<x>>) = {x}
  /\ \A x, y : Todo(<<x, y>>) = {x, y}
<1>1. Todo(<<>>) = {}
  BY DEF Todo
<1>2. ASSUME NEW x PROVE Todo(<<x>>) = {x}
  BY DEF Todo
<1>3. ASSUME NEW x, NEW y PROVE Todo(<<x, y>>) = {x, y}
  <2>1. 1 .. Len(<<x, y>>) = {1, 2}
    OBVIOUS
  <2> QED
    BY <2>1 DEF Todo
<1> QED
  BY <1>1, <1>2, <1>3

\* The statements for a panel replace every family, whatever the kind, or mark
\* the machine as failed.
LEMMA WritesTodo ==
  ASSUME NEW kind \in {"container", "nat", "none"}, NEW result \in {"ok", "empty", "error"}, NEW fresh \in BOOLEAN
  PROVE  LET q == WritesFor(kind, result, fresh) IN
         /\ q # <<>> /\ "detail" \in Todo(q)
         /\ result = "error" => Todo(q) = {"detail"}
         /\ result # "error" => Families \subseteq Todo(q)
<1> DEFINE q == WritesFor(kind, result, fresh)
<1>1. \A a, b \in Writes : <<a>> \in Seq(Writes) /\ <<a, b>> \in Seq(Writes)
  OBVIOUS
<1>2. {"detail", "sample", "nat", "container"} \subseteq Writes /\ Families = {"container", "nat"}
  BY DEF Writes, Families
<1>3. \A x : FamilyOrder(x) \in Seq(Writes) /\ Todo(FamilyOrder(x)) = {"container", "nat"}
  BY <1>1, <1>2, TodoOfPair DEF FamilyOrder
<1> DEFINE first == IF fresh THEN <<"detail", "sample">> ELSE <<"detail">>
<1>4. first \in Seq(Writes) /\ <<"detail">> \in Seq(Writes) /\ "detail" \in Todo(first) /\ Todo(<<"detail">>) = {"detail"}
  BY <1>1, <1>2, TodoOfPair
<1>5. CASE result = "ok"
  <2>1. q = first \o FamilyOrder(kind)
    BY <1>5 DEF WritesFor
  <2> HIDE DEF q, first
  <2>2. Todo(first \o FamilyOrder(kind)) = Todo(first) \cup Todo(FamilyOrder(kind))
    BY <1>3, <1>4, TodoOfBoth
  <2>3. Todo(q) = Todo(first) \cup {"container", "nat"}
    BY <1>3, <2>1, <2>2
  <2> QED
    BY <1>2, <1>4, <1>5, <2>3, TodoOfPair DEF q
<1>6. CASE result = "empty"
  <2>1. q = <<"detail">> \o FamilyOrder("none")
    BY <1>6 DEF WritesFor
  <2> HIDE DEF q
  <2> DEFINE head == <<"detail">>
  <2>2. head \in Seq(Writes) /\ Todo(head) = {"detail"}
    BY <1>4
  <2> HIDE DEF head
  <2>3. Todo(head \o FamilyOrder("none")) = Todo(head) \cup Todo(FamilyOrder("none"))
    BY <1>3, <2>2, TodoOfBoth
  <2>4. q = head \o FamilyOrder("none")
    BY <2>1 DEF head
  <2>5. Todo(q) = {"detail"} \cup {"container", "nat"}
    BY <1>3, <2>2, <2>3, <2>4
  <2> QED
    BY <1>2, <1>6, <2>5, TodoOfPair DEF q
<1>7. CASE result = "error"
  <2>1. q = <<"detail">>
    BY <1>7 DEF WritesFor
  <2> HIDE DEF q
  <2> QED
    BY <1>4, <1>7, <2>1, TodoOfPair DEF q
<1> QED
  BY <1>5, <1>6, <1>7

\* Somebody has yet to deal with the panel of s.
Ahead(t, s) == t.result[s] = "queued" \/ t.writes[s] # <<>>

AtWork(s) == \E k \in Tasks : Ahead(task[k], s)

\* A sync that is through with a family has left it its own kind's rows, and
\* one that is through with the detail has left that kind.
Progress(t, s) ==
  t.writes[s] # <<>> =>
    /\ t.result[s] \in {"ok", "empty", "error"}
    /\ t.result[s] = "error" => Todo(t.writes[s]) \subseteq {"detail"}
    /\ t.result[s] # "error" =>
         /\ "detail" \in Todo(t.writes[s]) \/ machines[s] = NoMachine \/ machines[s].kind = t.kinds[s]
         /\ mappings[s] \subseteq Todo(t.writes[s]) \cup FamiliesOf(t.kinds[s])

OwnMappings(s) ==
  \/ s \in torn \/ machines[s].detail # "ready" \/ AtWork(s)
  \/ mappings[s] \subseteq FamiliesOf(machines[s].kind)

Filled == \A s \in Services : OwnMappings(s) /\ \A k \in Tasks : Progress(task[k], s)

\* The steps of a task that are not about its panels.
Aside(k) ==
  \/ StartLogin(k) \/ LoginRejected(k) \/ LoginSaves(k) \/ AbandonLogin(k) \/ Poll(k) \/ Release(k)
  \/ ReadAccount(k) \/ MarkSyncing(k) \/ FetchPage(k) \/ FetchDetails(k) \/ SiteChanges(k)
  \/ SaveSiteError(k) \/ SaveSession(k) \/ FinishPanels(k) \/ SaveSummary(k) \/ TaskFails(k)

\* Such a step leaves the machines alone, and the task has no panel ahead.
LEMMA AsideFacts ==
  ASSUME Inv, NEW k \in Tasks, Aside(k)
  PROVE  /\ UNCHANGED <<machines, mappings, torn>>
         /\ \A s \in Services : ~Ahead(task[k], s)
         /\ \A j \in Tasks \ {k} : task'[j] = task[j]
         /\ task'[k].phase # "panels"
<1> DEFINE t == task[k]
           u == task'[k]
<1>0. t \in TaskType /\ DOMAIN task = Tasks /\ PanelsOnly(t)
  BY DEF Inv, TypeOK, AtPanels
<1>1. UNCHANGED <<machines, mappings, torn>>
  BY DEF Aside, StartLogin, LoginRejected, LoginSaves, AbandonLogin, Poll, Release, ReadAccount, MarkSyncing,
         FetchPage, FetchDetails, SiteChanges, SaveSiteError, SaveSession, FinishPanels, SaveSummary, TaskFails,
         tables, history
<1>2. \A s \in Services : ~Ahead(t, s)
  <2>1. CASE FinishPanels(k)
    BY <2>1 DEF FinishPanels, PanelsDone, Ahead
  <2>2. CASE ~FinishPanels(k)
    <3>0. StartLogin(k) \/ Poll(k) => t.phase = "idle"
      BY DEF StartLogin, Poll, Free, Idle
    <3>1. t.phase # "panels"
      BY <2>2, <3>0 DEF Aside, LoginRejected, LoginSaves, AbandonLogin, Release, ReadAccount, MarkSyncing,
         FetchPage, FetchDetails, SiteChanges, SaveSiteError, SaveSession, SaveSummary, TaskFails
    <3> QED
      BY <1>0, <3>1 DEF PanelsOnly, Ahead
  <2> QED
    BY <2>1, <2>2
<1>3. \A j \in Tasks \ {k} : task'[j] = task[j]
  <2>1. CASE StartLogin(k) \/ Poll(k)
    BY <2>1, StartsAlone DEF Starts, Inv
  <2>2. CASE Release(k)
    BY <1>0, <2>2 DEF Release
  <2>3. CASE ~(StartLogin(k) \/ Poll(k) \/ Release(k))
    <3>1. LoginRejected(k) \/ LoginSaves(k) => LoginStep(k)
      BY DEF LoginStep
    <3>2. ReadAccount(k) \/ MarkSyncing(k) \/ FetchPage(k) \/ FetchDetails(k) \/ SaveSiteError(k)
          \/ SaveSession(k) \/ FinishPanels(k) \/ SaveSummary(k) => SyncStep(k)
      BY DEF SyncStep
    <3>3. Moves(k)
      BY <2>3, <3>1, <3>2 DEF Aside, Moves, TaskFault
    <3> QED
      BY <3>3, MovesItself DEF Inv
  <2> QED
    BY <2>1, <2>2, <2>3
<1>4. u.phase # "panels"
  <2>0. Idle \in TaskType /\ \A p : [Idle EXCEPT !.phase = p].phase = p
    BY IdleOK DEF TaskOK, TaskType
  <2>1. CASE End(k)
    BY <1>0, <2>0, <2>1 DEF End
  <2>2. ASSUME NEW p, task' = [task EXCEPT ![k].phase = p] PROVE u.phase = p
    BY <1>0, <2>2 DEF TaskType
  <2>3. ASSUME task' = [task EXCEPT ![k] = Checked(k, "failing")] PROVE u.phase # "panels"
    <3>1. [t EXCEPT !.phase = "failing"].phase = "failing"
      BY <1>0 DEF TaskType
    <3> QED
      BY <1>0, <2>0, <2>3, <3>1 DEF Checked
  <2>4. CASE StartLogin(k)
    <3>1. u = [t EXCEPT !.phase = "validate", !.gen = logins + 1]
      BY <1>0, <2>4 DEF StartLogin
    <3> QED
      BY <1>0, <3>1 DEF TaskType
  <2>5. CASE Poll(k) \/ SaveSession(k)
    BY <2>2, <2>5 DEF Poll, SaveSession
  <2>6. CASE Release(k)
    BY <1>0, <2>6 DEF Release, Idle
  <2>7. CASE LoginSaves(k)
    BY <1>0, <2>0, <2>1, <2>7 DEF LoginSaves
  <2>8. CASE ReadAccount(k)
    <3>1. End(k) \/ u = [t EXCEPT !.phase = "mark", !.gen = account.gen, !.copy = [account EXCEPT !.state = "syncing"]]
      BY <1>0, <2>8 DEF ReadAccount
    <3> QED
      BY <1>0, <2>1, <3>1 DEF TaskType
  <2>9. CASE MarkSyncing(k)
    <3>1. PICK owned \in SUBSET Services :
            u = [t EXCEPT !.phase = "scan", !.copy = account', !.page = 1, !.total = 1, !.site = owned]
      BY <1>0, <2>9 DEF MarkSyncing
    <3> QED
      BY <1>0, <3>1 DEF TaskType
  <2>10. CASE FetchPage(k)
    <3>1. ASSUME NEW reply \in Replies(t.site, t.page), task' = [task EXCEPT ![k] = PageTaken(k, reply)]
          PROVE  u.phase \in {"scan", "details"}
      BY <1>0, <3>1, TakenIs
    <3> QED
      BY <2>3, <2>10, <3>1, PageRead
  <2>11. CASE FetchDetails(k)
    <3>1. \/ task' = [task EXCEPT ![k] = Checked(k, "failing")]
          \/ End(k)
          \/ \E got : task' = [task EXCEPT ![k].phase = "store", ![k].page = 0, ![k].total = 0, ![k].kinds = got]
      BY <2>11 DEF FetchDetails
    <3>2. ASSUME NEW got, task' = [task EXCEPT ![k].phase = "store", ![k].page = 0, ![k].total = 0, ![k].kinds = got]
          PROVE  u.phase = "store"
      BY <1>0, <3>2 DEF TaskType
    <3> QED
      BY <2>1, <2>3, <3>1, <3>2
  <2>12. CASE SiteChanges(k)
    <3>1. t.phase = "scan" /\ \E owned : u = [t EXCEPT !.site = owned, !.patchy = TRUE]
      BY <1>0, <2>12 DEF SiteChanges
    <3> QED
      BY <1>0, <3>1 DEF TaskType
  <2>13. CASE FinishPanels(k)
    BY <2>1, <2>2, <2>13 DEF FinishPanels
  <2> QED
    BY <2>1, <2>4, <2>5, <2>6, <2>7, <2>8, <2>9, <2>10, <2>11, <2>12, <2>13
    DEF Aside, LoginRejected, AbandonLogin, SaveSiteError, SaveSummary, TaskFails
<1> QED
  BY <1>1, <1>2, <1>3, <1>4

LEMMA AsideFilled ==
  ASSUME Inv, Inv', Filled, NEW k \in Tasks, Aside(k)
  PROVE  Filled'
<1>1. \A s \in Services : ~Ahead(task[k], s) /\ ~Ahead(task'[k], s)
  <2>1. PanelsOnly(task'[k])
    BY DEF Inv, AtPanels, PanelsOnly
  <2> QED
    BY <2>1, AsideFacts DEF PanelsOnly, Ahead
<1>2. \A s \in Services, j \in Tasks : Ahead(task'[j], s) <=> Ahead(task[j], s)
  BY <1>1, AsideFacts
<1>3. \A s \in Services : OwnMappings(s)'
  BY <1>2, AsideFacts DEF Filled, OwnMappings, AtWork, Ahead
<1>4. \A s \in Services, j \in Tasks : Progress(task[j], s)'
  <2> TAKE s \in Services, j \in Tasks
  <2>1. CASE j = k
    BY <1>1, <2>1 DEF Progress, Ahead
  <2>2. CASE j # k
    BY <2>2, AsideFacts DEF Filled, Progress
  <2> QED
    BY <2>1, <2>2
<1> QED
  BY <1>3, <1>4 DEF Filled

\* A machine that is gone shows nothing, and what is dropped is nobody's.
LEMMA WipeFilled ==
  ASSUME Inv, Filled, Wipe,
         \A j \in Tasks, s \in Services : task'[j].writes[s] # <<>> =>
           task'[j].writes[s] = task[j].writes[s] /\ task'[j].result[s] = task[j].result[s] /\ task'[j].kinds[s] = task[j].kinds[s]
  PROVE  Filled'
<1>1. \A s \in Services : machines'[s] = NoMachine /\ mappings'[s] = {}
  BY DEF Wipe
<1>2. \A s \in Services : OwnMappings(s)'
  BY <1>1 DEF OwnMappings, NoMachine
<1>3. \A s \in Services, j \in Tasks : Progress(task[j], s)'
  BY <1>1 DEF Filled, Progress
<1> QED
  BY <1>2, <1>3 DEF Filled

LEMMA UpsertFilled ==
  ASSUME Inv, Filled, NEW k \in Tasks, UpsertMachines(k)
  PROVE  Filled'
<1> DEFINE t == task[k]
           u == task'[k]
<1>0. t \in TaskType /\ DOMAIN task = Tasks /\ t.phase = "upsert" /\ t # Idle
  <2>1. t.phase = "upsert"
    BY DEF UpsertMachines
  <2>2. t \in TaskType /\ DOMAIN task = Tasks
    BY DEF Inv, TypeOK
  <2>3. t # Idle
    BY <2>1 DEF Idle
  <2> QED
    BY <2>1, <2>2, <2>3
<1>1. \A j \in Tasks \ {k} : task'[j] = task[j] /\ task[j] = Idle
  BY <1>0 DEF Inv, OneTaskAtATime, UpsertMachines
<1>2. /\ u.writes = t.writes
      /\ \A s \in Services : u.result[s] = IF s \in t.found THEN "queued" ELSE "none"
  <2>1. PICK kinds : u = [t EXCEPT !.phase = "panels", !.found = {}, !.site = {}, !.patchy = FALSE, !.kinds = kinds,
                            !.result = [s \in Services |-> IF s \in t.found THEN "queued" ELSE "none"]]
    BY <1>0 DEF UpsertMachines
  <2> QED
    BY <1>0, <2>1 DEF TaskType
<1>3. \A s \in Services : t.writes[s] = <<>>
  BY <1>0 DEF Inv, AtPanels, PanelsOnly
<1>4. \A s \in Services \ t.found : machines'[s] = NoMachine
  BY DEF UpsertMachines
<1>5. \A s \in Services : OwnMappings(s)'
  <2> TAKE s \in Services
  <2>1. CASE s \in t.found
    BY <1>2, <2>1 DEF OwnMappings, AtWork, Ahead
  <2>2. CASE s \notin t.found
    BY <1>4, <2>2 DEF OwnMappings, NoMachine
  <2> QED
    BY <2>1, <2>2
<1>6. \A s \in Services, j \in Tasks : task'[j].writes[s] = <<>>
  BY <1>1, <1>2, <1>3 DEF Idle
<1> QED
  BY <1>5, <1>6 DEF Filled, Progress

\* What a panel answered is to be written; a panel that is given up on is torn.
LEMMA PanelFilled ==
  ASSUME Inv, Filled, NEW k \in Tasks, NEW s \in Services, FetchPanel(k, s) \/ PanelFails(k, s)
  PROVE  Filled'
<1> DEFINE t == task[k]
           u == task'[k]
<1>0. t \in TaskType /\ DOMAIN task = Tasks /\ machines' = machines /\ mappings' = mappings
  BY DEF Inv, TypeOK, FetchPanel, PanelFails, tables
<1>1. \A j \in Tasks \ {k} : task'[j] = task[j]
  BY <1>0 DEF FetchPanel, PanelFails
<1>2. /\ torn \subseteq torn' /\ u.kinds = t.kinds
      /\ \A r \in Services \ {s} : u.result[r] = t.result[r] /\ u.writes[r] = t.writes[r]
      /\ s \in torn' \/ Ahead(u, s)
      /\ Progress(u, s)
  <2>1. CASE PanelFails(k, s)
    <3>1. /\ torn' = torn \cup {s}
          /\ task' = [task EXCEPT ![k].result[s] = "skipped", ![k].writes[s] = <<>>, ![k].broken = TRUE]
      BY <2>1 DEF PanelFails
    <3> QED
      BY <1>0, <3>1 DEF Progress, TaskType
  <2>2. CASE FetchPanel(k, s) /\ ~Current(k)
    <3>1. /\ torn' = torn \cup {s} /\ t.result[s] = "queued" /\ t.phase = "panels"
          /\ task' = [task EXCEPT ![k].result[s] = "skipped"]
      BY <2>2 DEF FetchPanel
    <3>2. /\ u.kinds = t.kinds /\ u.writes = t.writes /\ u.result[s] = "skipped"
          /\ \A r \in Services \ {s} : u.result[r] = t.result[r]
      BY <1>0, <3>1 DEF TaskType
    <3>3. t.writes[s] = <<>>
      BY <3>1 DEF Filled, Progress
    <3> QED
      BY <3>1, <3>2, <3>3 DEF Progress
  <2>3. CASE FetchPanel(k, s) /\ Current(k)
    <3>1. PICK result \in {"ok", "empty", "error"}, fresh \in BOOLEAN :
            task' = [task EXCEPT ![k].result[s] = result, ![k].writes[s] = WritesFor(t.kinds[s], result, fresh)]
      BY <2>3 DEF FetchPanel
    <3> DEFINE q == WritesFor(t.kinds[s], result, fresh)
    <3>2. task' = [task EXCEPT ![k].result[s] = result, ![k].writes[s] = q] /\ torn' = torn
      BY <2>3, <3>1 DEF FetchPanel
    <3>3. /\ q # <<>> /\ "detail" \in Todo(q)
          /\ result = "error" => Todo(q) = {"detail"}
          /\ result # "error" => Families \subseteq Todo(q)
      <4>1. t.kinds[s] \in {"container", "nat", "none"}
        BY <1>0 DEF TaskType
      <4> QED
        BY <4>1, WritesTodo
    <3> HIDE DEF q
    <3>4. /\ u.kinds = t.kinds /\ u.result[s] = result /\ u.writes[s] = q
          /\ \A r \in Services \ {s} : u.result[r] = t.result[r] /\ u.writes[r] = t.writes[r]
      BY <1>0, <3>2 DEF TaskType
    <3>5. mappings[s] \subseteq Families
      BY DEF Inv, TypeOK
    <3> QED
      BY <3>2, <3>3, <3>4, <3>5 DEF Progress, Ahead
  <2> QED
    BY <2>1, <2>2, <2>3
<1>3. \A r \in Services : OwnMappings(r)'
  <2> TAKE r \in Services
  <2>1. CASE r = s
    BY <1>2, <2>1 DEF OwnMappings, AtWork
  <2>2. CASE r # s
    <3>1. AtWork(r)' <=> AtWork(r)
      BY <1>1, <1>2, <2>2 DEF AtWork, Ahead
    <3> QED
      BY <1>0, <1>2, <3>1 DEF Filled, OwnMappings
  <2> QED
    BY <2>1, <2>2
<1>4. \A r \in Services, j \in Tasks : Progress(task[j], r)'
  <2> TAKE r \in Services, j \in Tasks
  <2>1. CASE j # k
    BY <1>0, <1>1, <2>1 DEF Filled, Progress
  <2>2. CASE j = k /\ r # s
    BY <1>0, <1>2, <2>2 DEF Filled, Progress
  <2>3. CASE j = k /\ r = s
    BY <1>0, <1>2, <2>3 DEF Progress
  <2> QED
    BY <2>1, <2>2, <2>3
<1> QED
  BY <1>3, <1>4 DEF Filled
\* A statement that is carried out leaves the machine's rows as far as its sync
\* has got: the detail row is of the kind the sync works for, and a family that
\* has been replaced has rows if it is of that kind.
LEMMA WriteFilled ==
  ASSUME Inv, Filled, NEW k \in Tasks, NEW s \in Services, WritePanel(k, s)
  PROVE  Filled'
<1> DEFINE t == task[k]
           u == task'[k]
           q == t.writes[s]
           w == Head(q)
           kind == t.kinds[s]
<1>0. /\ t \in TaskType /\ DOMAIN task = Tasks /\ q # <<>> /\ t # Idle
      /\ q \in Seq(Writes) /\ kind \in {"container", "nat", "none"}
  <2>1. t \in TaskType /\ DOMAIN task = Tasks /\ q # <<>>
    BY DEF Inv, TypeOK, WritePanel
  <2>2. t # Idle
    BY <2>1 DEF Idle
  <2> QED
    BY <2>1, <2>2 DEF TaskType
<1>1. \A j \in Tasks \ {k} : task'[j] = Idle /\ task[j] = Idle
  BY <1>0 DEF Inv, OneTaskAtATime, WritePanel
<1>2. /\ u.kinds = t.kinds /\ u.result = t.result /\ u.writes[s] = Tail(q)
      /\ \A r \in Services \ {s} : u.writes[r] = t.writes[r]
  <2>1. u = [t EXCEPT !.writes = [t.writes EXCEPT ![s] = Tail(q)]]
    BY <1>0 DEF WritePanel, TaskType
  <2> QED
    BY <1>0, <2>1 DEF TaskType
<1>3. Todo(q) = {w} \cup Todo(Tail(q)) /\ Tail(q) \in Seq(Writes)
  BY <1>0, TodoOfTail
<1>4. \A r \in Services \ {s} : machines'[r] = machines[r] /\ mappings'[r] = mappings[r]
  BY DEF WritePanel, Inv, TypeOK
<1>5. /\ t.result[s] \in {"ok", "empty", "error"}
      /\ t.result[s] = "error" => Todo(q) \subseteq {"detail"}
      /\ t.result[s] # "error" =>
           /\ "detail" \in Todo(q) \/ machines[s] = NoMachine \/ machines[s].kind = kind
           /\ mappings[s] \subseteq Todo(q) \cup FamiliesOf(kind)
  BY <1>0 DEF Filled, Progress
<1>6. w = "detail" => \/ machines'[s] = NoMachine
                      \/ /\ machines'[s].kind = kind
                         /\ t.result[s] = "error" => machines'[s].detail = "failed"
  <2>1. machines[s] \in {NoMachine} \cup MachineRow /\ DOMAIN machines = Services
    BY DEF Inv, TypeOK
  <2>2. w = "detail" => machines'[s] = DetailRow(machines[s], kind, t.result[s])
    BY <2>1 DEF WritePanel
  <2> QED
    BY <2>1, <2>2 DEF DetailRow, MachineRow
<1>7. w # "detail" => machines'[s] = machines[s]
  BY DEF WritePanel
<1>8. /\ w \notin Families => mappings'[s] = mappings[s]
      /\ w \in Families => mappings'[s] \subseteq (mappings[s] \ {w}) \cup FamiliesOf(kind)
  <2>1. DOMAIN mappings = Services
    BY DEF Inv, TypeOK
  <2>2. mappings' = IF w \notin Families THEN mappings
                    ELSE [mappings EXCEPT ![s] = IF w \in FamiliesOf(kind) THEN @ \cup {w} ELSE @ \ {w}]
    BY DEF WritePanel
  <2> HIDE DEF w, kind
  <2> QED
    BY <2>1, <2>2
<1>9. mappings[s] \subseteq Families /\ mappings'[s] \subseteq Families /\ "detail" \notin Families
  <2>1. mappings[s] \subseteq Families
    BY DEF Inv, TypeOK
  <2> QED
    BY <1>8, <2>1 DEF Families, FamiliesOf
<1> HIDE DEF w, q, kind
<1>10. t.result[s] # "error" =>
         /\ "detail" \in Todo(Tail(q)) \/ machines'[s] = NoMachine \/ machines'[s].kind = kind
         /\ mappings'[s] \subseteq Todo(Tail(q)) \cup FamiliesOf(kind)
  <2> SUFFICES ASSUME t.result[s] # "error"
               PROVE  /\ "detail" \in Todo(Tail(q)) \/ machines'[s] = NoMachine \/ machines'[s].kind = kind
                      /\ mappings'[s] \subseteq Todo(Tail(q)) \cup FamiliesOf(kind)
    OBVIOUS
  <2>1. "detail" \in Todo(Tail(q)) \/ machines'[s] = NoMachine \/ machines'[s].kind = kind
    BY <1>3, <1>5, <1>6, <1>7
  <2>2. mappings'[s] \subseteq Todo(Tail(q)) \cup FamiliesOf(kind)
    BY <1>3, <1>5, <1>8, <1>9
  <2> QED
    BY <2>1, <2>2
<1>11. Progress(task[k], s)'
  <2>1. t.result[s] = "error" => Todo(Tail(q)) \subseteq {"detail"}
    BY <1>3, <1>5
  <2> QED
    BY <1>2, <1>5, <1>10, <2>1 DEF Progress, kind
<1>12. OwnMappings(s)'
  <2>1. CASE Tail(q) # <<>>
    <3>1. Ahead(u, s)
      BY <1>2, <2>1 DEF Ahead
    <3> QED
      BY <3>1 DEF OwnMappings, AtWork, Ahead
  <2>2. CASE Tail(q) = <<>> /\ t.result[s] = "error"
    <3>1. w = "detail"
      BY <1>3, <1>5, <2>2
    <3> QED
      BY <1>6, <2>2, <3>1 DEF OwnMappings, NoMachine
  <2>3. CASE Tail(q) = <<>> /\ t.result[s] # "error"
    <3>1. Todo(Tail(q)) = {}
      BY <2>3, TodoOfPair
    <3> QED
      BY <1>10, <2>3, <3>1 DEF OwnMappings, NoMachine
  <2> QED
    BY <2>1, <2>2, <2>3
<1>13. \A r \in Services \ {s} : OwnMappings(r)'
  <2> TAKE r \in Services \ {s}
  <2>1. r \in torn => r \in torn'
    BY DEF WritePanel
  <2>2. AtWork(r) => AtWork(r)'
    <3> SUFFICES ASSUME NEW j \in Tasks, Ahead(task[j], r) PROVE AtWork(r)'
      BY DEF AtWork
    <3>1. j = k
      BY <1>1 DEF Ahead, Idle
    <3>2. Ahead(u, r)
      BY <1>2, <3>1 DEF Ahead
    <3> QED
      BY <3>2 DEF AtWork, Ahead
  <2> QED
    BY <1>4, <2>1, <2>2 DEF Filled, OwnMappings
<1>14. \A r \in Services, j \in Tasks : Progress(task[j], r)'
  <2> TAKE r \in Services, j \in Tasks
  <2>1. CASE j # k
    BY <1>1, <2>1 DEF Progress, Idle
  <2>2. CASE j = k /\ r # s
    BY <1>2, <1>4, <2>2 DEF Filled, Progress
  <2>3. CASE j = k /\ r = s
    BY <1>11, <2>3
  <2> QED
    BY <2>1, <2>2, <2>3
<1> QED
  BY <1>12, <1>13, <1>14 DEF Filled
\* A task that is where it was with its panels, and rows that are as they were.
LEMMA SameFilled ==
  ASSUME Filled, UNCHANGED <<machines, mappings, torn>>,
         \A j \in Tasks, s \in Services :
           \/ /\ task'[j].result[s] = task[j].result[s] /\ task'[j].writes[s] = task[j].writes[s]
              /\ task'[j].kinds[s] = task[j].kinds[s]
           \/ ~Ahead(task[j], s) /\ ~Ahead(task'[j], s)
  PROVE  Filled'
<1>1. \A s \in Services, j \in Tasks : Ahead(task'[j], s) <=> Ahead(task[j], s)
  BY DEF Ahead
<1>2. \A s \in Services : AtWork(s)' <=> AtWork(s)
  BY <1>1 DEF AtWork, Ahead
<1>3. \A s \in Services : OwnMappings(s)'
  BY <1>2 DEF Filled, OwnMappings
<1>4. \A s \in Services, j \in Tasks : Progress(task[j], s)'
  BY DEF Filled, Progress, Ahead
<1> QED
  BY <1>3, <1>4 DEF Filled

LEMMA LoginWipesFilled ==
  ASSUME Inv, Filled, NEW k \in Tasks, LoginWipes(k)
  PROVE  Filled'
<1>0. task[k] \in TaskType /\ DOMAIN task = Tasks
  BY DEF Inv, TypeOK
<1>1. task' = [task EXCEPT ![k].phase = "wiped"] /\ Wipe
  BY DEF LoginWipes
<1>2. \A j \in Tasks : /\ task'[j].writes = task[j].writes /\ task'[j].result = task[j].result
                       /\ task'[j].kinds = task[j].kinds
  BY <1>0, <1>1 DEF TaskType
<1> QED
  BY <1>1, <1>2, WipeFilled

LEMMA AgeFilled ==
  ASSUME Inv, Filled, Age
  PROVE  Filled'
<1>1. ASSUME NEW j \in Tasks
      PROVE  task'[j].result = task[j].result /\ task'[j].writes = task[j].writes /\ task'[j].kinds = task[j].kinds
  <2>1. task[j] \in TaskType
    BY DEF Inv, TypeOK
  <2>2. task'[j] = [task[j] EXCEPT !.copy = [task[j].copy EXCEPT !.recent = FALSE]]
    BY <2>1 DEF Age, TaskType
  <2> QED
    BY <2>1, <2>2 DEF TaskType
<1>2. UNCHANGED <<machines, mappings, torn>>
  BY DEF Age, history
<1> QED
  BY <1>1, <1>2, SameFilled

\* A restart leaves behind, torn, whatever was ahead.
LEMMA CrashFilled ==
  ASSUME Inv, Filled, Crash
  PROVE  Filled'
<1>1. \A j \in Tasks : task'[j] = Idle
  BY DEF Crash
<1>2. /\ UNCHANGED <<machines, mappings>> /\ torn \subseteq torn'
      /\ \A s \in Services : AtWork(s) => s \in torn'
  BY DEF Crash, tables, AtWork, Ahead
<1>3. \A s \in Services : OwnMappings(s)'
  BY <1>2 DEF Filled, OwnMappings
<1>4. \A s \in Services, j \in Tasks : Progress(task[j], s)'
  BY <1>1 DEF Progress, Idle
<1> QED
  BY <1>3, <1>4 DEF Filled

LEMMA HandlersFilled ==
  ASSUME Inv, Filled, NEW c \in Callers, CallerStep(c)
  PROVE  Filled'
<1>1. UNCHANGED <<machines, mappings, torn>>
  BY DEF CallerStep, RequestReads, RequestWrites, RequestSpawns, AccessReads, AccessWrites, CallerLeaves, tables, history
<1>2. CASE RequestSpawns(c)
  <2>1. \A j \in Tasks : task'[j] = task[j] \/ (task[j] = Idle /\ task'[j] = [Idle EXCEPT !.phase = "read"])
    <3>1. CASE UNCHANGED task
      BY <3>1
    <3>2. CASE \E k \in Tasks : Free(k) /\ task' = [task EXCEPT ![k].phase = "read"]
      <4>1. PICK k \in Tasks : task[k] = Idle /\ task' = [task EXCEPT ![k].phase = "read"]
        BY <3>2 DEF Free
      <4> QED
        BY <4>1 DEF Inv, TypeOK
    <3> QED
      BY <1>2, <3>1, <3>2 DEF RequestSpawns
  <2>2. LET new == [Idle EXCEPT !.phase = "read"] IN
        new.result = Idle.result /\ new.writes = Idle.writes /\ new.kinds = Idle.kinds
    BY DEF Idle
  <2>3. \A j \in Tasks : /\ task'[j].result = task[j].result /\ task'[j].writes = task[j].writes
                         /\ task'[j].kinds = task[j].kinds
    BY <2>1, <2>2
  <2> QED
    BY <1>1, <2>3, SameFilled
<1>3. CASE ~RequestSpawns(c)
  <2>1. UNCHANGED task
    BY <1>3 DEF CallerStep, RequestReads, RequestWrites, AccessReads, AccessWrites, CallerLeaves
  <2> QED
    BY <1>1, <2>1, SameFilled
<1> QED
  BY <1>2, <1>3

LEMMA NextFilled == Inv /\ Filled /\ [Next]_vars => Filled'
<1> SUFFICES ASSUME Inv, Filled, [Next]_vars PROVE Filled'
  OBVIOUS
<1>0. Inv'
  BY NextInv
<1>1. ASSUME NEW k \in Tasks,
             StartLogin(k) \/ LoginStep(k) \/ AbandonLogin(k) \/ Poll(k) \/ SyncStep(k) \/ SiteChanges(k) \/ TaskFault(k)
      PROVE  Filled'
  <2>1. CASE Aside(k)
    BY <1>0, <2>1, AsideFilled
  <2>2. CASE LoginWipes(k)
    BY <2>2, LoginWipesFilled
  <2>3. CASE UpsertMachines(k)
    BY <2>3, UpsertFilled
  <2>4. CASE \E s \in Services : FetchPanel(k, s) \/ PanelFails(k, s)
    BY <2>4, PanelFilled
  <2>5. CASE \E s \in Services : WritePanel(k, s)
    BY <2>5, WriteFilled
  <2> QED
    BY <1>1, <2>1, <2>2, <2>3, <2>4, <2>5 DEF Aside, LoginStep, SyncStep, TaskFault
<1>2. ASSUME NEW c \in Callers, CallerStep(c) PROVE Filled'
  BY <1>2, HandlersFilled
<1>3. CASE Disconnect
  BY <1>3, WipeFilled DEF Disconnect
<1>4. CASE UNCHANGED vars
  <2>1. UNCHANGED <<machines, mappings, torn, task>>
    BY <1>4 DEF vars
  <2> QED
    BY <2>1, SameFilled
<1> QED
  BY <1>1, <1>2, <1>3, <1>4, AgeFilled, CrashFilled DEF Next

LEMMA InitFilled == Init => Filled
  BY DEF Init, Filled, OwnMappings, Progress, NoMachine, Idle

\* A machine that shows as ready shows the port mappings of its own kind of
\* panel only: a sync that finds the panel of another kind deletes what the old
\* one had before it is done (stale_port_mapping_families), in whatever order
\* its statements and those of other machines run, and a sync that is overtaken,
\* refused or restarted leaves none but the machines it had begun to write.
THEOREM OwnMappingsOnly == Spec => []NoForeignMappings
<1>1. Filled => NoForeignMappings
  BY DEF Filled, OwnMappings, AtWork, Ahead, NoForeignMappings
<1>2. Inv /\ Filled /\ [Next]_vars => Inv' /\ Filled'
  BY NextInv, NextFilled
<1> QED
  BY <1>1, <1>2, InitInv, InitFilled, PTL DEF Spec
-----------------------------------------------------------------------------
(***************************************************************************)
(* The pages of the site's list, and what a sync knows of it.              *)
(***************************************************************************)

LEMMA Between ==
  ASSUME NEW a \in Nat, NEW P \in Nat \ {0}
  PROVE  LET q == a \div P IN q \in Nat /\ q * P <= a /\ a < (q + 1) * P
  OBVIOUS

\* The place before the n-th is on one of the pages that n places fill.
LEMMA Pages ==
  ASSUME NEW P \in Nat \ {0}, NEW c \in Nat, NEW n \in Nat, c < n
  PROVE  c \div P < (n + P - 1) \div P
<1> DEFINE q == c \div P
           m == (n + P - 1) \div P
<1>1. n + P - 1 \in Nat
  OBVIOUS
<1>2. q \in Nat /\ q * P <= c
  BY Between
<1>3. m \in Nat /\ n + P - 1 < (m + 1) * P
  BY <1>1, Between
<1> HIDE DEF q, m
<1>4. SUFFICES ASSUME m <= q PROVE FALSE
  BY <1>2, <1>3 DEF q, m
<1>5. (m + 1) * P <= (q + 1) * P
  BY <1>2, <1>3, <1>4
<1>6. (q + 1) * P = q * P + P
  BY <1>2
<1>7. q * P \in Nat /\ (m + 1) * P \in Nat /\ (q + 1) * P \in Nat
  BY <1>2, <1>3
<1> QED
  BY <1>2, <1>3, <1>5, <1>6, <1>7

\* How many pages come before the one that lists s.
Place(site, s) == Cardinality({x \in site : x < s}) \div PageSize

\* Whatever the site lists is on one of the pages it counts.
LEMMA Placed ==
  ASSUME NEW site \in SUBSET Services, NEW s \in site
  PROVE  Place(site, s) \in Nat /\ Place(site, s) < PageCount(site)
<1> DEFINE before == {x \in site : x < s}
<1>1. PageSize \in Nat \ {0} /\ s \in Nat
  BY SyncAssumption
<1>2. IsFiniteSet(site)
  BY SyncAssumption, FS_Subset
<1>3. before \subseteq site \ {s}
  BY <1>1
<1>4. IsFiniteSet(site \ {s}) /\ Cardinality(site \ {s}) = Cardinality(site) - 1
  BY <1>2, FS_RemoveElement
<1>5. IsFiniteSet(before) /\ Cardinality(before) <= Cardinality(site \ {s})
  BY <1>3, <1>4, FS_Subset
<1>6. Cardinality(before) \in Nat /\ Cardinality(site) \in Nat
  BY <1>2, <1>5, FS_CardinalityType
<1>7. Cardinality(before) < Cardinality(site)
  BY <1>4, <1>5, <1>6
<1> DEFINE c == Cardinality(before)
           n == Cardinality(site)
<1>8. c \in Nat /\ n \in Nat /\ c < n
  BY <1>6, <1>7
<1>9. Place(site, s) = c \div PageSize /\ PageCount(site) = (n + PageSize - 1) \div PageSize
  BY DEF Place, PageCount
<1> HIDE DEF c, n
<1> QED
  BY <1>1, <1>8, <1>9, Pages, Between

\* A sync has found what the pages it has read list, and, once it reads details,
\* all that the site lists.
Scanned(t) ==
  ~t.patchy =>
    /\ t.phase = "scan" => \A s \in t.site : Place(t.site, s) + 1 < t.page => s \in t.found
    /\ t.phase \in {"details", "store", "upsert"} => t.site \subseteq t.found

AllScanned == \A k \in Tasks : Scanned(task[k])

LEMMA FetchScanned ==
  ASSUME Inv, NEW k \in Tasks, Scanned(task[k]), FetchPage(k)
  PROVE  Scanned(task'[k])
<1> DEFINE t == task[k]
           u == task'[k]
<1>0. t \in TaskType /\ DOMAIN task = Tasks /\ t.phase = "scan"
  BY DEF Inv, TypeOK, FetchPage
<1>1. CASE task' = [task EXCEPT ![k] = Checked(k, "failing")]
  <2>1. u.phase \in {"failing", "release"}
    <3>1. Idle \in TaskType
      BY IdleOK DEF TaskOK
    <3>2. u = [t EXCEPT !.phase = "failing"] \/ u = [Idle EXCEPT !.phase = "release"]
      BY <1>0, <1>1 DEF Checked
    <3> QED
      BY <1>0, <3>1, <3>2 DEF TaskType
  <2> QED
    BY <2>1 DEF Scanned
<1>2. ASSUME NEW reply \in Replies(t.site, t.page), ~Rejected(k, reply),
             task' = [task EXCEPT ![k] = PageTaken(k, reply)]
      PROVE  Scanned(u)
  <2> DEFINE found == t.found \cup reply.ids
             total == TotalAfter(k, reply)
             patchy == t.patchy \/ LeavesOut(k, reply)
             phase == IF t.page < total THEN "scan" ELSE "details"
  <2>3. /\ u.found = found /\ u.page = t.page + 1 /\ u.phase = phase /\ u.site = t.site
        /\ u.patchy = patchy
    BY <1>0, <1>2, TakenIs
  <2>1. CASE patchy
    BY <2>1, <2>3 DEF Scanned
  <2>2. CASE ~patchy
    <3>1. ~t.patchy /\ reply.ids = PageOf(t.site, t.page) /\ ~(total < PageCount(t.site))
      BY <1>0, <1>2, <2>2, TakenIsWhole
    <3>2. t.site \in SUBSET Services /\ t.page \in Nat /\ t.total \in Nat
      BY <1>0 DEF TaskType
    <3>3. PageCount(t.site) \in Nat /\ total \in Nat
      BY <3>2, PageCountType, ReplyType DEF TotalAfter
    <3>4. phase = "details" => t.page >= PageCount(t.site)
      BY <3>1, <3>2, <3>3
    <3>5. phase \in {"scan", "details"}
      OBVIOUS
    <3>6. \A s \in t.site : Place(t.site, s) = t.page - 1 => s \in found
      BY <3>1 DEF PageOf, Place
    <3>7. u.found = found /\ u.page = t.page + 1 /\ u.phase = phase /\ u.site = t.site
      BY <2>3
    <3> HIDE DEF found, phase, patchy, total
    <3>8. ASSUME NEW s \in t.site, Place(t.site, s) < t.page PROVE s \in found
      <4>1. Place(t.site, s) \in Nat
        BY <3>2, Placed
      <4>2. CASE Place(t.site, s) + 1 < t.page
        BY <1>0, <3>1, <4>2 DEF Scanned, found
      <4>3. CASE Place(t.site, s) = t.page - 1
        BY <3>6, <4>3
      <4> QED
        BY <3>2, <3>8, <4>1, <4>2, <4>3
    <3>9. ASSUME phase = "details", NEW s \in t.site PROVE s \in found
      <4>1. Place(t.site, s) \in Nat /\ Place(t.site, s) < PageCount(t.site)
        BY <3>2, Placed
      <4> QED
        BY <3>2, <3>3, <3>4, <3>8, <3>9, <4>1
    <3>10. ASSUME NEW s \in t.site, Place(t.site, s) + 1 < u.page PROVE s \in u.found
      <4>1. Place(t.site, s) \in Nat
        BY <3>2, Placed
      <4> QED
        BY <3>2, <3>7, <3>8, <3>10, <4>1
    <3> QED
      BY <3>5, <3>7, <3>9, <3>10 DEF Scanned
  <2> QED
    BY <2>1, <2>2
<1> QED
  BY <1>1, <1>2, PageRead

\* The phases in which a task relies on what it has read of the list.
Reading == {"scan", "details", "store", "upsert"}

LEMMA NotReading ==
  \A t : t.phase \notin Reading => Scanned(t)
  BY DEF Scanned, Reading

\* A step of a task: it reads on, goes on with what it has, or is not (or no
\* longer) reading.
LEMMA TaskScanned ==
  ASSUME Inv, NEW k \in Tasks, Scanned(task[k]),
         StartLogin(k) \/ LoginStep(k) \/ AbandonLogin(k) \/ Poll(k) \/ SyncStep(k) \/ SiteChanges(k) \/ TaskFault(k)
  PROVE  Scanned(task'[k])
<1> DEFINE t == task[k]
           u == task'[k]
<1>0. t \in TaskType /\ DOMAIN task = Tasks /\ PanelsOnly(t)
  BY DEF Inv, TypeOK, AtPanels
<1>1. Idle \in TaskType /\ Idle.phase = "idle" /\ \A p : [Idle EXCEPT !.phase = p].phase = p
  BY IdleOK DEF TaskOK, TaskType, Idle
<1>2. End(k) => u.phase = "release"
  BY <1>0, <1>1 DEF End
<1>3. ASSUME NEW p, task' = [task EXCEPT ![k].phase = p] PROVE u.phase = p
  BY <1>0, <1>3 DEF TaskType
<1>4. CASE LoginRejected(k) \/ AbandonLogin(k) \/ SaveSiteError(k) \/ SaveSummary(k) \/ TaskFails(k)
  BY <1>2, <1>4, NotReading DEF LoginRejected, AbandonLogin, SaveSiteError, SaveSummary, TaskFails, Reading
<1>5. CASE Poll(k) \/ LoginWipes(k) \/ FinishPanels(k)
  BY <1>2, <1>3, <1>5, NotReading DEF Poll, LoginWipes, FinishPanels, Reading
<1>6. CASE StartLogin(k)
  <2>1. u = [t EXCEPT !.phase = "validate", !.gen = logins + 1]
    BY <1>0, <1>6 DEF StartLogin
  <2>2. u.phase = "validate"
    BY <1>0, <2>1 DEF TaskType
  <2> QED
    BY <2>2, NotReading DEF Reading
<1>7. CASE LoginSaves(k) \/ Release(k)
  <2>1. u.phase \in {"idle", "read", "release"}
    BY <1>0, <1>1, <1>2, <1>7 DEF LoginSaves, Release
  <2> QED
    BY <2>1, NotReading DEF Reading
<1>8. CASE ReadAccount(k)
  <2>1. End(k) \/ u = [t EXCEPT !.phase = "mark", !.gen = account.gen, !.copy = [account EXCEPT !.state = "syncing"]]
    BY <1>0, <1>8 DEF ReadAccount
  <2>2. u.phase \in {"release", "mark"}
    BY <1>0, <1>2, <2>1 DEF TaskType
  <2> QED
    BY <2>2, NotReading DEF Reading
<1>9. CASE MarkSyncing(k)
  <2>1. PICK owned \in SUBSET Services :
          u = [t EXCEPT !.phase = "scan", !.copy = account', !.page = 1, !.total = 1, !.site = owned]
    BY <1>0, <1>9 DEF MarkSyncing
  <2>2. u.phase = "scan" /\ u.page = 1 /\ u.site = owned
    BY <1>0, <2>1 DEF TaskType
  <2>3. \A s \in owned : Place(owned, s) \in Nat
    BY Placed
  <2> QED
    BY <2>2, <2>3 DEF Scanned
<1>10. CASE FetchPage(k)
  BY <1>10, FetchScanned
<1>11. CASE FetchDetails(k)
  <2>0. t.phase = "details"
    BY <1>11 DEF FetchDetails
  <2>1. \/ task' = [task EXCEPT ![k] = Checked(k, "failing")]
        \/ End(k)
        \/ \E got : task' = [task EXCEPT ![k].phase = "store", ![k].page = 0, ![k].total = 0, ![k].kinds = got]
    BY <1>11 DEF FetchDetails
  <2>2. CASE task' = [task EXCEPT ![k] = Checked(k, "failing")]
    <3>1. u = [t EXCEPT !.phase = "failing"] \/ u = [Idle EXCEPT !.phase = "release"]
      BY <1>0, <2>2 DEF Checked
    <3>2. u.phase \in {"failing", "release"}
      BY <1>0, <1>1, <3>1 DEF TaskType
    <3> QED
      BY <3>2, NotReading DEF Reading
  <2>3. ASSUME NEW got, task' = [task EXCEPT ![k].phase = "store", ![k].page = 0, ![k].total = 0, ![k].kinds = got]
        PROVE  u.phase = "store" /\ u.found = t.found /\ u.site = t.site /\ u.patchy = t.patchy
    BY <1>0, <2>3 DEF TaskType
  <2> QED
    BY <1>2, <2>0, <2>1, <2>2, <2>3, NotReading DEF Scanned, Reading
<1>12. CASE SaveSession(k)
  <2>1. t.phase = "store" /\ task' = [task EXCEPT ![k].phase = "upsert"]
    BY <1>12 DEF SaveSession
  <2>2. u.phase = "upsert" /\ u.found = t.found /\ u.site = t.site /\ u.patchy = t.patchy
    BY <1>0, <2>1 DEF TaskType
  <2> QED
    BY <2>1, <2>2 DEF Scanned
<1>13. CASE SiteChanges(k)
  <2>1. \E owned : u = [t EXCEPT !.site = owned, !.patchy = TRUE]
    BY <1>0, <1>13 DEF SiteChanges
  <2>2. u.patchy
    BY <1>0, <2>1 DEF TaskType
  <2> QED
    BY <2>2 DEF Scanned
<1>14. CASE UpsertMachines(k) \/ \E s \in Services : FetchPanel(k, s) \/ WritePanel(k, s) \/ PanelFails(k, s)
  <2>1. CASE UpsertMachines(k)
    <3>1. \E kinds, result : u = [t EXCEPT !.phase = "panels", !.found = {}, !.site = {}, !.patchy = FALSE,
                                   !.kinds = kinds, !.result = result]
      BY <1>0, <2>1 DEF UpsertMachines
    <3>2. u.phase = "panels"
      BY <1>0, <3>1 DEF TaskType
    <3> QED
      BY <3>2, NotReading DEF Reading
  <2>2. ASSUME NEW s \in Services, FetchPanel(k, s) \/ WritePanel(k, s) \/ PanelFails(k, s)
        PROVE  u.phase = "panels"
    <3>1. t.phase = "panels"
      <4>1. WritePanel(k, s) => t.writes[s] # <<>>
        BY DEF WritePanel
      <4> QED
        BY <1>0, <2>2, <4>1 DEF FetchPanel, PanelFails, PanelsOnly
    <3>2. CASE WritePanel(k, s)
      <4>1. u = [t EXCEPT !.writes = [t.writes EXCEPT ![s] = Tail(t.writes[s])]]
        BY <1>0, <3>2 DEF WritePanel, TaskType
      <4> QED
        BY <1>0, <3>1, <4>1 DEF TaskType
    <3>3. CASE PanelFails(k, s)
      <4>1. task' = [task EXCEPT ![k].result[s] = "skipped", ![k].writes[s] = <<>>, ![k].broken = TRUE]
        BY <3>3 DEF PanelFails
      <4> QED
        BY <1>0, <3>1, <4>1 DEF TaskType
    <3>4. CASE FetchPanel(k, s)
      <4>1. ASSUME NEW result, NEW q, task' = [task EXCEPT ![k].result[s] = result, ![k].writes[s] = q]
            PROVE  u.phase = t.phase
        BY <1>0, <4>1 DEF TaskType
      <4>2. CASE Current(k)
        <5>1. PICK result \in {"ok", "empty", "error"}, fresh \in BOOLEAN :
                task' = [task EXCEPT ![k].result[s] = result, ![k].writes[s] = WritesFor(t.kinds[s], result, fresh)]
          BY <3>4, <4>2 DEF FetchPanel
        <5> QED
          BY <3>1, <4>1, <5>1
      <4>3. CASE ~Current(k)
        <5>1. task' = [task EXCEPT ![k].result[s] = "skipped"]
          BY <3>4, <4>3 DEF FetchPanel
        <5> QED
          BY <1>0, <3>1, <5>1 DEF TaskType
      <4> QED
        BY <4>2, <4>3
    <3> QED
      BY <2>2, <3>2, <3>3, <3>4
  <2>3. \A s \in Services : FetchPanel(k, s) \/ WritePanel(k, s) \/ PanelFails(k, s) => Scanned(u)
    BY <2>2, NotReading DEF Reading
  <2> QED
    BY <1>14, <2>1, <2>3
<1> QED
  BY <1>4, <1>5, <1>6, <1>7, <1>8, <1>9, <1>10, <1>11, <1>12, <1>13, <1>14 DEF LoginStep, SyncStep, TaskFault

LEMMA NextScanned == Inv /\ AllScanned /\ [Next]_vars => AllScanned'
<1> SUFFICES ASSUME Inv, AllScanned, [Next]_vars PROVE \A j \in Tasks : Scanned(task'[j])
  BY DEF AllScanned, Scanned, Place
<1>0. \A j \in Tasks : Scanned(task[j])
  BY DEF AllScanned
<1>1. ASSUME NEW k \in Tasks,
             StartLogin(k) \/ LoginStep(k) \/ AbandonLogin(k) \/ Poll(k) \/ SyncStep(k) \/ SiteChanges(k) \/ TaskFault(k)
      PROVE  \A j \in Tasks : Scanned(task'[j])
  <2>1. \A j \in Tasks \ {k} : task'[j] = task[j]
    <3>1. CASE StartLogin(k) \/ Poll(k)
      BY <3>1, StartsAlone DEF Starts, Inv
    <3>2. CASE Release(k)
      BY <3>2 DEF Release, Inv, TypeOK
    <3>3. CASE ~(StartLogin(k) \/ Poll(k) \/ Release(k))
      <4>1. Moves(k)
        BY <1>1, <3>3 DEF Moves
      <4> QED
        BY <4>1, MovesItself DEF Inv
    <3> QED
      BY <3>1, <3>2, <3>3
  <2>2. Scanned(task'[k])
    BY <1>0, <1>1, TaskScanned
  <2> QED
    BY <1>0, <2>1, <2>2
<1>2. ASSUME NEW c \in Callers, CallerStep(c) PROVE \A j \in Tasks : Scanned(task'[j])
  <2>1. CASE UNCHANGED task
    BY <1>0, <2>1
  <2>2. CASE \E k \in Tasks : Free(k) /\ task' = [task EXCEPT ![k].phase = "read"]
    <3>1. PICK k \in Tasks : task[k] = Idle /\ task' = [task EXCEPT ![k].phase = "read"]
      BY <2>2 DEF Free
    <3>2. \A j \in Tasks : task'[j] = task[j] \/ task'[j] = [Idle EXCEPT !.phase = "read"]
      BY <3>1 DEF Inv, TypeOK
    <3>3. [Idle EXCEPT !.phase = "read"].phase = "read"
      BY DEF Idle
    <3>4. Scanned([Idle EXCEPT !.phase = "read"])
      BY <3>3, NotReading DEF Reading
    <3> QED
      BY <1>0, <3>2, <3>4
  <2> QED
    BY <1>2, <2>1, <2>2
    DEF CallerStep, RequestReads, RequestWrites, RequestSpawns, AccessReads, AccessWrites, CallerLeaves
<1>3. CASE Disconnect \/ UNCHANGED vars
  BY <1>0, <1>3 DEF Disconnect, vars
<1>4. CASE Age
  <2> TAKE j \in Tasks
  <2>1. task[j] \in TaskType
    BY DEF Inv, TypeOK
  <2>2. task'[j] = [task[j] EXCEPT !.copy = [task[j].copy EXCEPT !.recent = FALSE]]
    BY <1>4, <2>1 DEF Age, TaskType
  <2>3. /\ task'[j].phase = task[j].phase /\ task'[j].site = task[j].site /\ task'[j].patchy = task[j].patchy
        /\ task'[j].page = task[j].page /\ task'[j].found = task[j].found
    BY <2>1, <2>2 DEF TaskType
  <2> QED
    BY <1>0, <2>3 DEF Scanned
<1>5. CASE Crash
  <2>1. Scanned(Idle)
    BY NotReading DEF Reading, Idle
  <2> QED
    BY <1>5, <2>1 DEF Crash
<1> QED
  BY <1>1, <1>2, <1>3, <1>4, <1>5 DEF Next

LEMMA InitScanned == Init => AllScanned
  BY NotReading DEF Init, AllScanned, Idle, Reading

\* What deletes the row of a machine.
LEMMA Drops ==
  ASSUME Inv, Next, NEW s \in Services, machines[s] # NoMachine, machines'[s] = NoMachine
  PROVE  account' = NoAccount \/ \E k \in Tasks : task[k].phase = "upsert" /\ s \notin task[k].found
<1>0. machines[s] \in MachineRow /\ DOMAIN machines = Services
  BY DEF Inv, TypeOK
<1>1. ASSUME NEW k \in Tasks, UpsertMachines(k) PROVE task[k].phase = "upsert" /\ s \notin task[k].found
  <2>1. task[k].phase = "upsert"
    BY <1>1 DEF UpsertMachines
  <2>2. task[k] \in TaskType /\ task[k].copy # NoAccount
    BY <2>1 DEF Inv, TypeOK, WithCopy
  <2>3. task[k].copy.cred \in 1 .. MaxLogins /\ task[k].kinds[s] \in {"container", "nat", "none"}
    BY <2>2 DEF TaskType, AccountRow
  <2>4. s \in task[k].found => machines'[s] = Upserted(machines[s], task[k].copy.cred, task[k].kinds[s])
    BY <1>1 DEF UpsertMachines
  <2> QED
    BY <1>0, <2>1, <2>3, <2>4, UpsertedOK
<1>2. ASSUME NEW k \in Tasks, NEW r \in Services, WritePanel(k, r) PROVE FALSE
  <2>1. machines' = machines \/ machines' = [machines EXCEPT ![r] = DetailRow(machines[r], task[k].kinds[r], task[k].result[r])]
    BY <1>0, <1>2 DEF WritePanel
  <2>2. \A kind, result : DetailRow(machines[s], kind, result).from = machines[s].from
    BY <1>0 DEF DetailRow, MachineRow
  <2>3. machines'[s].from = machines[s].from
    BY <1>0, <2>1, <2>2
  <2>4. NoMachine.from = 0 /\ machines[s].from # 0
    BY <1>0, Bounds DEF NoMachine, MachineRow
  <2> QED
    BY <2>3, <2>4
<1>3. ASSUME NEW k \in Tasks, LoginWipes(k) PROVE account' = NoAccount
  BY <1>3 DEF LoginWipes, Wipe
<1>4. ASSUME NEW k \in Tasks, Aside(k) PROVE FALSE
  BY <1>4, AsideFacts
<1>5. ASSUME NEW k \in Tasks, NEW r \in Services, FetchPanel(k, r) \/ PanelFails(k, r) PROVE FALSE
  BY <1>5 DEF FetchPanel, PanelFails, tables
<1>6. ASSUME NEW c \in Callers, CallerStep(c) PROVE FALSE
  BY <1>6 DEF CallerStep, RequestReads, RequestWrites, RequestSpawns, AccessReads, AccessWrites, CallerLeaves, tables
<1>7. ~Age /\ ~Crash
  BY DEF Age, Crash, tables
<1>8. Disconnect => account' = NoAccount
  BY DEF Disconnect, Wipe
<1> QED
  BY <1>1, <1>2, <1>3, <1>4, <1>5, <1>6, <1>7, <1>8 DEF Next, Aside, LoginStep, SyncStep, TaskFault

\* A sync deletes a machine, with its port mappings and samples, only when the
\* site no longer lists it, when the list changed while it was being read, or
\* when an accepted page left something out unseen: pages that fail, list
\* nothing or have unknown links end the sync before it deletes anything
\* (list_service_ids), and however many pages there are, all have been read
\* when it does.
THEOREM DropsOnlyGone == Spec => OnlyGoneMachinesDropped
<1>1. Inv /\ AllScanned /\ [Next]_vars =>
        [\A s \in Services :
           machines[s] # NoMachine /\ machines'[s] = NoMachine =>
             \/ account' = NoAccount
             \/ \E k \in Tasks : task[k].phase = "upsert" /\ (s \notin task[k].site \/ task[k].patchy)]_vars
  <2> SUFFICES ASSUME Inv, AllScanned, Next, NEW s \in Services, machines[s] # NoMachine, machines'[s] = NoMachine,
                      account' # NoAccount
               PROVE  \E k \in Tasks : task[k].phase = "upsert" /\ (s \notin task[k].site \/ task[k].patchy)
    OBVIOUS
  <2>1. PICK k \in Tasks : task[k].phase = "upsert" /\ s \notin task[k].found
    BY Drops
  <2> QED
    BY <2>1 DEF AllScanned, Scanned
<1>2. Inv /\ AllScanned /\ [Next]_vars => Inv' /\ AllScanned'
  BY NextInv, NextScanned
<1> QED
  BY <1>1, <1>2, InitInv, InitScanned, PTL DEF Spec, OnlyGoneMachinesDropped
=============================================================================
