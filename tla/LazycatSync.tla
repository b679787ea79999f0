----------------------------- MODULE LazycatSync -----------------------------
(***************************************************************************)
(* The Lazycat account of one user (src/src/lazycat.rs, and its tables in  *)
(* src/src/db.rs): login, background sync of the machines and of their     *)
(* panels, a sync on request, panel access, and disconnecting.  Users share *)
(* nothing, so one user stands for all.                                    *)
(*                                                                         *)
(* The account is a row that its writers read, carry over network calls    *)
(* and write back whole.  A login and a sync exclude each other by a guard *)
(* (the user's entry in lazycat_sync_users); a sync also checks, before it *)
(* writes, that the row is still of the login it started from.  Nothing    *)
(* else is guarded.  One step is the code between two awaits at which      *)
(* somebody else can get in.                                               *)
(***************************************************************************)
EXTENDS Naturals, Sequences, FiniteSets

CONSTANTS
  Services,   \* service ids; the site lists them in this order
  PageSize,   \* services on one page of the site's list
  SiteKinds,  \* the kinds of panel the site reports
  PanelConcurrency, \* lazycat_panel_concurrency: panels dealt with at once
  Tasks,      \* logins and syncs under way at once
  Callers,    \* handlers of sync requests and of panel access
  MaxLogins,  \* bound on login attempts
  MaxFaults   \* bound on refused statements and crashes

ASSUME SyncAssumption ==
  /\ Services \subseteq Nat /\ IsFiniteSet(Services)
  /\ PageSize \in Nat \ {0}
  /\ SiteKinds \subseteq {"container", "nat", "none"}
  /\ PanelConcurrency \in Nat \ {0}
  /\ MaxLogins \in Nat /\ MaxFaults \in Nat

VARIABLES
  account,   \* lazycat_accounts
  machines,  \* lazycat_machines
  mappings,  \* lazycat_port_mappings: families a machine has rows of
  samples,   \* machines with lazycat_traffic_samples
  active,    \* the user is in lazycat_sync_users
  task,      \* logins and syncs
  caller,    \* handlers that hold no guard
  logins,    \* login attempts so far
  faults,    \* refused statements and crashes so far
  raced,     \* history: the last deletion of the account ran while somebody
             \* was about to write what it had read before
  torn       \* history: machines whose panel rows were left half written

tables == <<account, machines, mappings, samples>>
history == <<raced, torn>>
vars == <<account, machines, mappings, samples, active, task, caller,
          logins, faults, raced, torn>>

-----------------------------------------------------------------------------
\* An account row: gen is created_at, which a later write never changes, cred
\* the login whose email, password and cookies it has.  recent says that neither
\* last_site_sync_at nor last_panel_sync_at is due again; a sync sets the
\* latter last, so that is when it becomes true.
NoAccount == [gen |-> 0, cred |-> 0, state |-> "none", recent |-> FALSE]
AccountRow == [gen : 1 .. MaxLogins, cred : 1 .. MaxLogins,
               state : {"syncing", "ready", "error"}, recent : BOOLEAN]

\* A machine row: the login whose session listed it, its panel_kind and its
\* detail_state.
NoMachine == [from |-> 0, kind |-> "none", detail |-> "none"]
MachineRow == [from : 1 .. MaxLogins, kind : {"container", "nat", "none"},
               detail : {"pending", "ready", "failed"}]

\* Families of port mappings.  A container has "v4" and "v6", which are one
\* here: they are always replaced one after the other.
Families == {"container", "nat"}
FamiliesOf(kind) == {kind} \cap Families

\* The statements a sync runs for one machine, in order.
Writes == {"detail", "sample"} \cup Families
FamilyOrder(kind) == IF kind = "nat" THEN <<"nat", "container">> ELSE <<"container", "nat">>

Results == {"none", "queued", "ok", "empty", "error", "skipped"}

Idle == [phase |-> "idle", gen |-> 0, copy |-> NoAccount, site |-> {}, patchy |-> FALSE, page |-> 0, total |-> 0,
         found |-> {}, kinds |-> [s \in Services |-> "none"], result |-> [s \in Services |-> "none"],
         writes |-> [s \in Services |-> <<>>], broken |-> FALSE]

NoCall == [phase |-> "idle", copy |-> NoAccount]

Init ==
  /\ account = NoAccount
  /\ machines = [s \in Services |-> NoMachine]
  /\ mappings = [s \in Services |-> {}]
  /\ samples = {}
  /\ active = FALSE
  /\ task = [k \in Tasks |-> Idle]
  /\ caller = [c \in Callers |-> NoCall]
  /\ logins = 0 /\ faults = 0
  /\ raced = FALSE /\ torn = {}

-----------------------------------------------------------------------------
\* put_lazycat_account: an existing row keeps its created_at, whoever wrote it.
Stored(copy) == IF account = NoAccount THEN copy ELSE [copy EXCEPT !.gen = account.gen]

\* sync_account_is_current: the row is still of the login the sync started from.
Current(k) == account # NoAccount /\ account.gen = task[k].gen

\* A sync that has read or checked the row and has yet to write.
Writing(k) ==
  \/ task[k].phase \in {"mark", "failing", "store", "upsert", "closing"}
  \/ \E s \in Services : task[k].writes[s] # <<>>

\* A handler that holds a copy of the row and has yet to write it back.
Holding(c) == caller[c].phase \in {"request", "panel"}

\* Where a new login or sync is put: the places have no identity.
Free(k) == task[k] = Idle /\ k = CHOOSE j \in Tasks : task[j] = Idle

\* SyncActiveGuard::drop: the entry goes once a task spawned for it has run.
End(k) == task' = [task EXCEPT ![k] = [Idle EXCEPT !.phase = "release"]]

Wipe ==
  /\ account' = NoAccount
  /\ machines' = [s \in Services |-> NoMachine]
  /\ mappings' = [s \in Services |-> {}]
  /\ samples' = {}

-----------------------------------------------------------------------------
(* login_account, and how a sync starts. *)

\* Mutant: a login does not wait for the sync that is under way.
StartLoginAnyway(k) ==
  /\ Free(k) /\ logins < MaxLogins
  /\ active' = TRUE
  /\ logins' = logins + 1
  /\ task' = [task EXCEPT ![k].phase = "validate", ![k].gen = logins + 1]
  /\ UNCHANGED <<tables, caller, faults, history>>

\* try_acquire_sync_guard.
StartLogin(k) ==
  /\ ~active /\ Free(k) /\ logins < MaxLogins
  /\ active' = TRUE
  /\ logins' = logins + 1
  /\ task' = [task EXCEPT ![k].phase = "validate", ![k].gen = logins + 1]
  /\ UNCHANGED <<tables, caller, faults, history>>

LoginRejected(k) ==
  /\ task[k].phase = "validate"
  /\ End(k)
  /\ UNCHANGED <<tables, active, caller, logins, faults, history>>

\* The credentials are good: whatever the user had is deleted.
LoginWipes(k) ==
  /\ task[k].phase = "validate"
  /\ Wipe
  /\ raced' = (\E c \in Callers : Holding(c))
  /\ torn' = {}
  /\ task' = [task EXCEPT ![k].phase = "wiped"]
  /\ UNCHANGED <<active, caller, logins, faults>>

\* The new row, and spawn_sync_task: the guard goes to the sync, or is dropped
\* with the handler when the client hung up meanwhile.
LoginSaves(k) ==
  /\ task[k].phase = "wiped"
  /\ account' = Stored([gen |-> task[k].gen, cred |-> task[k].gen, state |-> "syncing", recent |-> FALSE])
  /\ \/ task' = [task EXCEPT ![k] = [Idle EXCEPT !.phase = "read"]]
     \/ End(k)
  /\ UNCHANGED <<machines, mappings, samples, active, caller, logins, faults, raced, torn>>

\* The client hangs up before the handler has answered.
AbandonLogin(k) ==
  /\ task[k].phase \in {"validate", "wiped"}
  /\ End(k)
  /\ UNCHANGED <<tables, active, caller, logins, faults, history>>


Release(k) ==
  /\ task[k].phase = "release"
  /\ active' = FALSE
  /\ task' = [task EXCEPT ![k] = Idle]
  /\ UNCHANGED <<tables, caller, logins, faults, history>>

\* maybe_spawn_due_sync: the site or the panels are due, or were never synced.
Due == account # NoAccount /\ ~account.recent

Poll(k) ==
  /\ Due /\ ~active /\ Free(k)
  /\ active' = TRUE
  /\ task' = [task EXCEPT ![k].phase = "read"]
  /\ UNCHANGED <<tables, caller, logins, faults, history>>

-----------------------------------------------------------------------------
(* sync_user_inner *)

ReadAccount(k) ==
  /\ task[k].phase = "read"
  /\ IF account = NoAccount THEN End(k)
     ELSE task' = [task EXCEPT ![k].phase = "mark", ![k].gen = account.gen, ![k].copy = [account EXCEPT !.state = "syncing"]]
  /\ UNCHANGED <<tables, active, caller, logins, faults, history>>

\* The row is marked as syncing, unchecked, and read back.  What the user owns
\* at the site may be anything by now.
MarkSyncing(k) ==
  /\ task[k].phase = "mark"
  /\ account' = Stored(task[k].copy)
  /\ \E owned \in SUBSET Services :
       task' = [task EXCEPT ![k].phase = "scan", ![k].copy = account', ![k].page = 1, ![k].total = 1,
                  ![k].site = owned]
  /\ UNCHANGED <<machines, mappings, samples, active, caller, logins, faults, raced, torn>>

\* Page p of what the site lists, and how many pages that has.
PageOf(site, p) == {s \in site : Cardinality({t \in site : t < s}) \div PageSize = p - 1}
PageCount(site) == IF site = {} THEN 1 ELSE (Cardinality(site) + PageSize - 1) \div PageSize

\* A page some of whose machines, or whose links to the other pages, are missing
\* from what the site sent: the parser takes what it finds.
Partial(site, p) ==
  [ids : SUBSET PageOf(site, p) \ {{}}, total : {1, PageCount(site)}, unresolved : {FALSE}, empty : {"no"}]

\* What a page request can return (parse_clientarea_page): the page, which
\* says so when it lists nothing; a part of it; a page that failed to render;
\* and one whose links to other pages are not understood.
Replies(site, p) ==
  Partial(site, p) \cup
  {[ids |-> PageOf(site, p), total |-> PageCount(site), unresolved |-> FALSE,
    empty |-> IF PageOf(site, p) = {} THEN "authoritative" ELSE "no"],
   [ids |-> {}, total |-> 1, unresolved |-> FALSE, empty |-> "ambiguous"],
   [ids |-> PageOf(site, 1), total |-> 1, unresolved |-> TRUE, empty |-> "no"]}

\* Mutant: a page that lists nothing and does not say why counts as empty.
TrustsEmptyPages(k, reply) == reply.unresolved

\* A reply that list_service_ids does not accept: the caches stay.
Rejected(k, reply) ==
  \/ reply.unresolved
  \/ reply.empty = "ambiguous"
  \/ /\ reply.empty = "authoritative"
     /\ task[k].page # 1 \/ task[k].total > 1 \/ reply.total > 1 \/ task[k].found # {}

\* The number of pages, after a reply.
TotalAfter(k, reply) == IF reply.total > task[k].total THEN reply.total ELSE task[k].total

\* A page that lists some machines, and leaves out others or ends the list early.
LeavesOut(k, reply) ==
  /\ reply \in Partial(task[k].site, task[k].page)
  /\ reply.ids # PageOf(task[k].site, task[k].page) \/ TotalAfter(k, reply) < PageCount(task[k].site)

\* A reply is accepted.
PageTaken(k, reply) ==
  [task[k] EXCEPT !.found = @ \cup reply.ids, !.total = TotalAfter(k, reply), !.page = @ + 1,
                  !.patchy = @ \/ LeavesOut(k, reply),
                  !.phase = IF task[k].page < TotalAfter(k, reply) THEN "scan" ELSE "details"]

\* Mutant: a failed sync does not look whether the account is still its own.
Unchecked(k, to) == [task[k] EXCEPT !.phase = to]

\* The phase after a check that is made apart from the write it guards.
Checked(k, to) == IF Current(k) THEN [task[k] EXCEPT !.phase = to] ELSE [Idle EXCEPT !.phase = "release"]

FetchPage(k) ==
  /\ task[k].phase = "scan"
  /\ \/ task' = [task EXCEPT ![k] = Checked(k, "failing")]
     \/ \E reply \in Replies(task[k].site, task[k].page) :
          task' = [task EXCEPT ![k] = IF Rejected(k, reply) THEN Checked(k, "failing") ELSE PageTaken(k, reply)]
  /\ UNCHANGED <<tables, active, caller, logins, faults, history>>

\* The rest of sync_site: one service's detail that cannot be had fails all.
FetchDetails(k) ==
  /\ task[k].phase = "details"
  /\ \/ task' = [task EXCEPT ![k] = Checked(k, "failing")]
     \/ ~Current(k) /\ End(k)
     \/ /\ Current(k)
        /\ \E kinds \in [Services -> SiteKinds] :
             task' = [task EXCEPT ![k].phase = "store", ![k].page = 0, ![k].total = 0,
                        ![k].kinds = [s \in Services |-> IF s \in task[k].found THEN kinds[s] ELSE "none"]]
  /\ UNCHANGED <<tables, active, caller, logins, faults, history>>

\* The site could not be read: the caches stay, the account shows the error.
SaveSiteError(k) ==
  /\ task[k].phase = "failing"
  /\ account' = Stored([task[k].copy EXCEPT !.state = "error"])
  /\ End(k)
  /\ UNCHANGED <<machines, mappings, samples, active, caller, logins, faults, history>>

SaveSession(k) ==
  /\ task[k].phase = "store"
  /\ account' = Stored(task[k].copy)
  /\ task' = [task EXCEPT ![k].phase = "upsert"]
  /\ UNCHANGED <<machines, mappings, samples, active, caller, logins, faults, history>>

\* A machine the site lists: its kind is kept when the site reports none, and
\* so is what its panel said.
Upserted(m, cred, kind) ==
  [from |-> cred,
   kind |-> IF kind = "none" THEN m.kind ELSE kind,
   detail |-> IF m = NoMachine THEN "pending" ELSE m.detail]

\* upsert_lazycat_site_machines, and list_lazycat_machines after it.
UpsertMachines(k) ==
  LET listed == task[k].found
      rows == [s \in Services |->
                 IF s \in listed THEN Upserted(machines[s], task[k].copy.cred, task[k].kinds[s])
                 ELSE NoMachine]
  IN
  /\ task[k].phase = "upsert"
  /\ machines' = rows
  /\ mappings' = [s \in Services |-> IF s \in listed THEN mappings[s] ELSE {}]
  /\ samples' = samples \cap listed
  /\ task' = [task EXCEPT ![k].phase = "panels", ![k].found = {}, ![k].site = {}, ![k].patchy = FALSE,
                ![k].kinds = [s \in Services |-> rows[s].kind],
                ![k].result = [s \in Services |-> IF s \in listed THEN "queued" ELSE "none"]]
  /\ torn' = torn \cap listed
  /\ UNCHANGED <<account, active, caller, logins, faults, raced>>

\* Mutant: only the families of the new kind are replaced.
WritesOwnFamilies(kind, result, fresh) ==
  IF result = "ok" THEN <<"detail", kind>>
  ELSE <<"detail">>

\* What has to be written for a machine whose panel gave `result`; `fresh`
\* says whether it reported its traffic.
WritesFor(kind, result, fresh) ==
  CASE result = "ok"    -> (IF fresh THEN <<"detail", "sample">> ELSE <<"detail">>) \o FamilyOrder(kind)
    [] result = "empty" -> <<"detail">> \o FamilyOrder("none")
    [] OTHER            -> <<"detail">>

\* sync_machine_detail, and the check after it.  A machine without a panel
\* has nothing to fetch; only a container reports traffic.
FetchPanel(k, s) ==
  /\ task[k].phase = "panels" /\ task[k].result[s] = "queued"
  /\ Cardinality({r \in Services : task[k].writes[r] # <<>>}) < PanelConcurrency
  /\ LET kind == task[k].kinds[s] IN
     IF Current(k)
     THEN /\ \E result \in {"ok", "empty", "error"}, fresh \in BOOLEAN :
               /\ (result = "empty") = (kind = "none")
               /\ fresh => result = "ok" /\ kind = "container"
               /\ task' = [task EXCEPT ![k].result[s] = result,
                             ![k].writes[s] = WritesFor(kind, result, fresh)]
          /\ UNCHANGED torn
     ELSE /\ task' = [task EXCEPT ![k].result[s] = "skipped"]
          /\ torn' = torn \cup {s}
  /\ UNCHANGED <<tables, active, caller, logins, faults, raced>>

\* Mutant: a machine that is gone is inserted.
DetailInserted(m, kind, result) ==
  [m EXCEPT !.kind = kind, !.detail = IF result = "error" THEN "failed" ELSE "ready"]

\* update_lazycat_machine_detail, which inserts nothing; "failed" stands for
\* the states stale and error.
DetailRow(m, kind, result) ==
  IF m = NoMachine THEN m
  ELSE [m EXCEPT !.kind = kind, !.detail = IF result = "error" THEN "failed" ELSE "ready"]

\* The next statement for machine s: its detail, its sample, or
\* replace_lazycat_port_mappings, which does not ask whether it is still there.
WritePanel(k, s) ==
  LET t == task[k]
      w == Head(t.writes[s])
  IN
  /\ t.writes[s] # <<>>
  /\ task' = [task EXCEPT ![k].writes[s] = Tail(@)]
  /\ machines' = IF w # "detail" THEN machines
                 ELSE [machines EXCEPT ![s] = DetailRow(@, t.kinds[s], t.result[s])]
  /\ samples' = IF w = "sample" THEN samples \cup {s} ELSE samples
  /\ mappings' = IF w \notin Families THEN mappings
                 ELSE [mappings EXCEPT ![s] = IF w \in FamiliesOf(t.kinds[s]) THEN @ \cup {w} ELSE @ \ {w}]
  /\ torn' = IF Len(t.writes[s]) = 1 /\ t.result[s] # "error" THEN torn \ {s} ELSE torn
  /\ UNCHANGED <<account, active, caller, logins, faults, raced>>

PanelsDone(k) == \A s \in Services : task[k].result[s] # "queued" /\ task[k].writes[s] = <<>>

\* Every panel has been dealt with; one refused statement ends the sync here.
FinishPanels(k) ==
  /\ task[k].phase = "panels" /\ PanelsDone(k)
  /\ IF task[k].broken \/ ~Current(k) THEN End(k)
     ELSE task' = [task EXCEPT ![k].phase = "closing"]
  /\ UNCHANGED <<tables, active, caller, logins, faults, history>>

\* apply_panel_sync_summary.
Summary(copy, result) ==
  IF /\ \E s \in Services : result[s] = "error"
     /\ \A s \in Services : result[s] # "ok"
  THEN [copy EXCEPT !.state = "error"]
  ELSE [copy EXCEPT !.state = "ready", !.recent = TRUE]

SaveSummary(k) ==
  /\ task[k].phase = "closing"
  /\ account' = Stored(Summary(task[k].copy, task[k].result))
  /\ End(k)
  /\ UNCHANGED <<machines, mappings, samples, active, caller, logins, faults, history>>

-----------------------------------------------------------------------------
(* Handlers that hold no guard. *)

\* request_sync reads the row,
RequestReads(c) ==
  /\ caller[c] = NoCall /\ account # NoAccount
  /\ caller' = [caller EXCEPT ![c] = [phase |-> "request", copy |-> [account EXCEPT !.state = "syncing"]]]
  /\ UNCHANGED <<tables, active, task, logins, faults, history>>

\* writes it back as syncing,
RequestWrites(c) ==
  /\ caller[c].phase = "request"
  /\ account' = Stored(caller[c].copy)
  /\ caller' = [caller EXCEPT ![c] = [phase |-> "spawn", copy |-> NoAccount]]
  /\ UNCHANGED <<machines, mappings, samples, active, task, logins, faults, history>>

\* and starts a sync unless one is under way.
RequestSpawns(c) ==
  /\ caller[c].phase = "spawn"
  /\ \/ active /\ UNCHANGED <<active, task>>
     \/ /\ ~active /\ active' = TRUE
        /\ \E k \in Tasks : Free(k) /\ task' = [task EXCEPT ![k].phase = "read"]
  /\ caller' = [caller EXCEPT ![c] = NoCall]
  /\ UNCHANGED <<tables, logins, faults, history>>

\* resolve_live_machine_panel_access_from_state: the row and a container are
\* read before the site is asked,
AccessReads(c) ==
  /\ caller[c] = NoCall /\ account # NoAccount
  /\ \E s \in Services : machines[s].kind = "container"
  /\ caller' = [caller EXCEPT ![c] = [phase |-> "panel", copy |-> account]]
  /\ UNCHANGED <<tables, active, task, logins, faults, history>>

\* and the row is written back when the session has new cookies.
AccessWrites(c) ==
  /\ caller[c].phase = "panel"
  /\ account' = Stored(caller[c].copy)
  /\ caller' = [caller EXCEPT ![c] = NoCall]
  /\ UNCHANGED <<machines, mappings, samples, active, task, logins, faults, history>>

\* The session is unchanged, the site fails, or the client hangs up.
CallerLeaves(c) ==
  /\ caller[c] # NoCall
  /\ caller' = [caller EXCEPT ![c] = NoCall]
  /\ UNCHANGED <<tables, active, task, logins, faults, history>>

\* Mutant: the account goes, its machines stay.
DisconnectKeepsMachines ==
  /\ account' = NoAccount
  /\ raced' = ((\E k \in Tasks : Writing(k)) \/ (\E c \in Callers : Holding(c)))
  /\ UNCHANGED <<machines, mappings, samples, active, task, caller, logins, faults, torn>>

\* disconnect_account: one transaction, whatever is under way.
Disconnect ==
  /\ Wipe
  /\ raced' = ((\E k \in Tasks : Writing(k)) \/ (\E c \in Callers : Holding(c)))
  /\ torn' = {}
  /\ UNCHANGED <<active, task, caller, logins, faults>>

-----------------------------------------------------------------------------
(* The environment *)

\* The user buys or gives up services while a sync is reading their list.
SiteChanges(k) ==
  /\ task[k].phase = "scan"
  /\ \E owned \in SUBSET Services \ {task[k].site} :
       task' = [task EXCEPT ![k].site = owned, ![k].patchy = TRUE]
  /\ UNCHANGED <<tables, active, caller, logins, faults, history>>

\* The sync intervals pass.
Age ==
  /\ account' = [account EXCEPT !.recent = FALSE]
  /\ task' = [k \in Tasks |-> [task[k] EXCEPT !.copy.recent = FALSE]]
  /\ caller' = [c \in Callers |-> [caller[c] EXCEPT !.copy.recent = FALSE]]
  /\ UNCHANGED <<machines, mappings, samples, active, logins, faults, history>>

\* A statement is refused: the login or the sync ends where it is.
TaskFails(k) ==
  /\ faults < MaxFaults /\ task[k].phase \notin {"idle", "release", "panels"}
  /\ faults' = faults + 1
  /\ End(k)
  /\ UNCHANGED <<tables, active, caller, logins, history>>

\* A statement of one machine's panel is refused: the others go on.
PanelFails(k, s) ==
  /\ faults < MaxFaults
  /\ task[k].phase = "panels" /\ (task[k].result[s] = "queued" \/ task[k].writes[s] # <<>>)
  /\ faults' = faults + 1
  /\ task' = [task EXCEPT ![k].result[s] = "skipped", ![k].writes[s] = <<>>, ![k].broken = TRUE]
  /\ torn' = torn \cup {s}
  /\ UNCHANGED <<tables, active, caller, logins, raced>>

\* The process is restarted.
Crash ==
  /\ faults < MaxFaults
  /\ faults' = faults + 1
  /\ active' = FALSE
  /\ task' = [k \in Tasks |-> Idle]
  /\ caller' = [c \in Callers |-> NoCall]
  /\ torn' = torn \cup {s \in Services : \E k \in Tasks :
                          task[k].result[s] = "queued" \/ task[k].writes[s] # <<>>}
  /\ UNCHANGED <<tables, logins, raced>>

-----------------------------------------------------------------------------
LoginStep(k) == LoginRejected(k) \/ LoginWipes(k) \/ LoginSaves(k)

SyncStep(k) ==
  \/ ReadAccount(k) \/ MarkSyncing(k) \/ FetchPage(k) \/ FetchDetails(k)
  \/ SaveSiteError(k) \/ SaveSession(k) \/ UpsertMachines(k)
  \/ \E s \in Services : FetchPanel(k, s) \/ WritePanel(k, s)
  \/ FinishPanels(k) \/ SaveSummary(k) \/ Release(k)

CallerStep(c) ==
  \/ RequestReads(c) \/ RequestWrites(c) \/ RequestSpawns(c)
  \/ AccessReads(c) \/ AccessWrites(c) \/ CallerLeaves(c)

TaskFault(k) == TaskFails(k) \/ \E s \in Services : PanelFails(k, s)

Next ==
  \/ \E k \in Tasks : StartLogin(k) \/ LoginStep(k) \/ AbandonLogin(k) \/ Poll(k) \/ SyncStep(k) \/ SiteChanges(k) \/ TaskFault(k)
  \/ \E c \in Callers : CallerStep(c)
  \/ Disconnect \/ Age \/ Crash

\* A login and a sync go on: every request to the site and to a panel has a
\* timeout.  The poller looks again every two seconds, and time passes.
Fairness ==
  /\ \A k \in Tasks : WF_vars(LoginStep(k) \/ SyncStep(k))
  /\ WF_vars(\E k \in Tasks : Poll(k))
  /\ WF_vars(Age)

Spec == Init /\ [][Next]_vars
LiveSpec == Spec /\ Fairness

-----------------------------------------------------------------------------
Phases == {"idle", "validate", "wiped", "read", "mark", "scan", "details", "failing",
           "store", "upsert", "panels", "closing", "release"}

\* What a login or a sync carries, and in which phases it has a copy.
TaskType ==
  [phase : Phases, gen : 0 .. MaxLogins, copy : {NoAccount} \cup AccountRow,
   site : SUBSET Services, patchy : BOOLEAN, page : Nat, total : Nat,
   found : SUBSET Services, kinds : [Services -> {"container", "nat", "none"}],
   result : [Services -> Results], writes : [Services -> Seq(Writes)], broken : BOOLEAN]

WithCopy == {"mark", "scan", "details", "failing", "store", "upsert", "panels", "closing"}

\* The tables, the tasks and the handlers have the values their types allow,
\* and whoever is to write an account has one.
TypeOK ==
  /\ account \in {NoAccount} \cup AccountRow
  /\ machines \in [Services -> {NoMachine} \cup MachineRow]
  /\ mappings \in [Services -> SUBSET Families]
  /\ samples \in SUBSET Services
  /\ active \in BOOLEAN
  /\ task \in [Tasks -> TaskType]
  /\ \A k \in Tasks : /\ task[k].phase \in {"validate", "wiped"} => task[k].gen # 0
                      /\ task[k].phase \in WithCopy => task[k].copy # NoAccount
  /\ caller \in [Callers -> [phase : {"idle", "request", "spawn", "panel"},
                             copy : {NoAccount} \cup AccountRow]]
  /\ \A c \in Callers : Holding(c) => caller[c].copy # NoAccount
  /\ logins \in 0 .. MaxLogins /\ faults \in 0 .. MaxFaults
  /\ raced \in BOOLEAN /\ torn \in SUBSET Services

\* The guard works: at any time at most one login or sync of the user is
\* under way, and its entry is in the set until it is over.
OneTaskAtATime ==
  \A k \in Tasks : task[k] # Idle => active /\ \A j \in Tasks \ {k} : task[j] = Idle

\* An account that is gone comes back by a login only (disconnect_account),
\* unless the deletion ran while somebody was about to write what it had read
\* before.
GoneUntilLogin ==
  [][account = NoAccount /\ account' # NoAccount =>
       raced \/ \E k \in Tasks : LoginSaves(k)]_vars

\* Nothing in the tables belongs to anybody but the login the account is of:
\* its credentials, and every machine was listed with them; no machine, port
\* mapping or sample is left behind without an account.  The same exception.
OwnDataOnly ==
  ~raced =>
    /\ account # NoAccount => account.cred = account.gen
    /\ \A s \in Services :
         IF machines[s] = NoMachine THEN mappings[s] = {} /\ s \notin samples
         ELSE account # NoAccount /\ machines[s].from = account.cred

\* A machine that is shown as ready has port mappings of its own kind of
\* panel only (stale_port_mapping_families), once its sync is over and unless
\* a crash, a refused statement or a new login cut its writes short.
NoForeignMappings ==
  \A s \in Services \ torn :
    \/ machines[s].detail # "ready"
    \/ \E k \in Tasks : task[k].result[s] = "queued" \/ task[k].writes[s] # <<>>
    \/ mappings[s] \subseteq FamiliesOf(machines[s].kind)

\* A sync drops a machine with its mappings and samples only when the site no
\* longer lists it: pages that fail, list nothing without saying why, or have
\* links that are not understood cost nothing, and all the pages are read
\* (list_service_ids).  The two exceptions are in `patchy`: the list, which is
\* read page by page, changed meanwhile; or an accepted page left out some of
\* its machines or all its links to other pages, which nothing in it shows.
\* Such a page costs the machines it leaves out.
OnlyGoneMachinesDropped ==
  [][\A s \in Services :
       machines[s] # NoMachine /\ machines'[s] = NoMachine =>
         \/ account' = NoAccount
         \/ \E k \in Tasks : task[k].phase = "upsert" /\ (s \notin task[k].site \/ task[k].patchy)]_vars

=============================================================================
