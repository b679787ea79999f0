--------------------------- MODULE CatalogTopology ---------------------------
(***************************************************************************)
(* The list of targets: the countries of the cart and their regions, as    *)
(* stored in the database and as served from memory (src/src/poller.rs,    *)
(* src/src/db.rs, src/src/upstream.rs), and the full refresh job that may  *)
(* build the first list (src/src/catalog_refresh.rs).                      *)
(*                                                                         *)
(* A refresh reads the site, replaces the stored list, retires the configs *)
(* of targets that are gone, fetches those that are new, tells the users,  *)
(* and only then replaces the served list; a probe does the same but never *)
(* drops a target.  Each of these is a step of its own, any of them may be *)
(* the last (a refused statement, a restart), pages of targets are applied *)
(* in between, and the poller and the refresh job may both be at it.       *)
(***************************************************************************)
EXTENDS FiniteSets, Naturals

CONSTANTS
  Roots,     \* countries, each a target (fid:0)
  Regions,   \* regions, each a target (fid:gid)
  Parent,    \* the country of a region
  SiteLists, \* the lists the site may show
  Sellers,   \* targets whose page may list configs
  MaxFaults  \* bound on refused statements and restarts

ASSUME TopologyAssumption ==
  /\ Roots \cap Regions = {}
  /\ Parent \in [Regions -> Roots]
  /\ \A l \in SiteLists : l \subseteq Roots \cup Regions /\ \A r \in l \cap Regions : Parent[r] \in l
  /\ Sellers \subseteq Roots \cup Regions
  /\ MaxFaults \in Nat

VARIABLES
  listed,   \* catalog_countries and catalog_regions
  configs,  \* what catalog_configs has of a target
  snap,     \* the list in AppState::catalog
  polling,  \* the poller's loop: it goes on, waits in vain, or has ended
  op,       \* refreshes and probes under way
  job,      \* the full refresh job
  faults,   \* refused statements and restarts so far
  told      \* history: targets whose last announcement was an addition

vars == <<listed, configs, snap, polling, op, job, faults, told>>

-----------------------------------------------------------------------------
Targets == Roots \cup Regions

\* The lists there are: a region comes with its country.
Lists == {l \in SUBSET Targets : \A r \in l \cap Regions : Parent[r] \in l}

ConfigStates == {"none", "active", "delisted"}

\* Who refreshes the list: the poller, one at a time, and the refresh job.
Actors == {"poller", "job"}

Phases == {"idle", "fetch", "survey", "store", "compare", "retire",
           "prefetch", "notify", "show"}

\* An operation: whether anything was known when it began, the served list it
\* copied, the list it got, the regions kept because the page of their country
\* said nothing, the targets known before, those to retire, those yet to
\* prefetch; and, as history, whether no other operation ran since it copied.
NoOp == [phase |-> "idle", kind |-> "refresh", known |-> FALSE, copy |-> {}, fresh |-> {}, kept |-> {},
         before |-> {}, gone |-> {}, todo |-> {}, alone |-> TRUE]

\* The job is running unless its phase is "none".
NoJob == [phase |-> "none", tasks |-> {}]

Init ==
  /\ listed = {} /\ snap = {}
  /\ configs = [t \in Targets |-> "none"]
  /\ polling = "going"
  /\ op = [a \in Actors |-> NoOp]
  /\ job = NoJob
  /\ faults = 0
  /\ told = {}

-----------------------------------------------------------------------------
\* list_known_catalog_targets: where the active configs come from.
Live == {t \in Targets : configs[t] = "active"}

\* Mutant: what has configs but is on no list is forgotten.
KnownOnLists == listed \cup snap

\* known_catalog_targets.
Known == listed \cup Live \cup snap

\* What a reading of the site can say (fetch_topology): what it lists, except
\* for the regions of countries whose page shows neither regions nor configs.
Readings ==
  {[countries |-> l \cap Roots, unread |-> u, regions |-> {r \in l \cap Regions : Parent[r] \notin u}] :
     l \in SiteLists, u \in SUBSET Roots}

Sensible(reading) == reading.unread \subseteq reading.countries

Kept(reading, previous) == {r \in previous \cap Regions : Parent[r] \in reading.unread}

\* Mutant: a country whose page says nothing loses its regions.
NothingPreserved(reading, previous) == reading.countries \cup reading.regions

\* preserve_ambiguous_country_regions.
Preserved(reading, previous) ==
  reading.countries \cup reading.regions \cup Kept(reading, previous)

\* Mutant: the countries of the merged list are those of the reading.
MergesRegionsOnly(previous, list) == (previous \cap Regions) \cup list

\* merge_topology_probe_result.
Merged(previous, list) == previous \cup list

\* collect_topology_notification_changes; a refresh compares the additions
\* with the merged list, which comes to the same.
Added(a) == op[a].fresh \ op[a].copy
Removed(a) == IF op[a].kind = "refresh" THEN op[a].copy \ op[a].fresh ELSE {}

Others(a) == Actors \ {a}

\* An operation ends; the job draws up its list anew, or fails with it.
Ended(a, ok) ==
  /\ op' = [op EXCEPT ![a] = NoOp]
  /\ job' = IF a # "job" THEN job
            ELSE IF ok THEN [phase |-> "pages", tasks |-> listed \cup Live \cup op[a].fresh]
            ELSE NoJob

-----------------------------------------------------------------------------
(* refresh_catalog_topology and probe_catalog_topology *)

\* The poller's loop, when one of the two is due.
Start(kind) ==
  /\ polling = "going" /\ op["poller"] = NoOp
  /\ op' = [op EXCEPT !["poller"].phase = "fetch", !["poller"].kind = kind,
              !["poller"].known = (listed # {} \/ Live # {})]
  /\ UNCHANGED <<listed, configs, snap, polling, job, faults, told>>

\* The site or one of its pages cannot be read.
FetchFails(a) ==
  /\ op[a].phase = "fetch"
  /\ Ended(a, FALSE)
  /\ UNCHANGED <<listed, configs, snap, polling, faults, told>>

\* A reading without countries is refused when something is known already.
Refused(a, reading) == reading.countries = {} /\ op[a].known

FetchRefused(a) ==
  /\ op[a].phase = "fetch"
  /\ \E reading \in Readings : Sensible(reading) /\ Refused(a, reading)
  /\ Ended(a, FALSE)
  /\ UNCHANGED <<listed, configs, snap, polling, faults, told>>

\* The reading, and the copy of the served list it is compared with.
FetchOk(a) ==
  /\ op[a].phase = "fetch"
  /\ \E reading \in Readings :
       /\ Sensible(reading) /\ ~Refused(a, reading)
       /\ op' = [b \in Actors |->
            IF b = a
            THEN [op[a] EXCEPT !.phase = "survey", !.copy = snap, !.kept = IF op[a].kind = "probe" THEN {} ELSE Kept(reading, snap),
                    !.fresh = IF op[a].kind = "probe" THEN Merged(snap, Preserved(reading, snap))
                              ELSE Preserved(reading, snap),
                    !.alone = \A c \in Others(a) : op[c].phase \in {"idle", "fetch"}]
            ELSE [op[b] EXCEPT !.alone = @ /\ op[b].phase \in {"idle", "fetch"}]]
  /\ UNCHANGED <<listed, configs, snap, polling, job, faults, told>>

Survey(a) ==
  /\ op[a].phase = "survey"
  /\ op' = [op EXCEPT ![a].phase = "store", ![a].before = IF op[a].kind = "refresh" THEN Known ELSE {}]
  /\ UNCHANGED <<listed, configs, snap, polling, job, faults, told>>

\* replace_catalog_topology, one transaction.
Store(a) ==
  /\ op[a].phase = "store"
  /\ listed' = op[a].fresh
  /\ op' = [op EXCEPT ![a].known = FALSE, ![a].phase = IF op[a].kind = "refresh" THEN "compare" ELSE "prefetch",
                      ![a].todo = IF op[a].kind = "refresh" THEN {} ELSE Added(a)]
  /\ UNCHANGED <<configs, snap, polling, job, faults, told>>

\* list_catalog_task_keys: what was known and is on the stored list no more.
Compare(a) ==
  /\ op[a].phase = "compare"
  /\ op' = [op EXCEPT ![a].phase = "retire", ![a].gone = op[a].before \ listed, ![a].before = {}]
  /\ UNCHANGED <<listed, configs, snap, polling, job, faults, told>>

\* retire_catalog_targets, one transaction.
Retire(a) ==
  /\ op[a].phase = "retire"
  /\ configs' = [t \in Targets |-> IF t \in op[a].gone /\ configs[t] = "active" THEN "delisted" ELSE configs[t]]
  /\ op' = [op EXCEPT ![a].phase = "prefetch", ![a].gone = {}, ![a].kept = {}, ![a].todo = Added(a)]
  /\ UNCHANGED <<listed, snap, polling, job, faults, told>>

\* What applying a page of t does (apply_catalog_url_fetch_success): configs
\* are active again, or the page shows that there are none.
Applied(t) ==
  \/ t \in Sellers /\ configs' = [configs EXCEPT ![t] = "active"]
  \/ configs' = [configs EXCEPT ![t] = IF @ = "active" THEN "delisted" ELSE @]

\* prefetch_added_target_catalogs: a page that fails is only noted; that of a
\* country is applied after those of its regions.
Prefetch(a, t) ==
  /\ op[a].phase = "prefetch" /\ t \in op[a].todo
  /\ \A r \in Regions \cap op[a].todo : Parent[r] # t
  /\ op' = [op EXCEPT ![a].todo = @ \ {t}]
  /\ Applied(t) \/ UNCHANGED configs
  /\ UNCHANGED <<listed, snap, polling, job, faults, told>>

\* notify_topology_changes, whose failure is only logged.
Notify(a) ==
  /\ op[a].phase = "prefetch" /\ op[a].todo = {}
  /\ told' = (told \cup Added(a)) \ Removed(a)
  /\ op' = [op EXCEPT ![a].phase = "show"]
  /\ UNCHANGED <<listed, configs, snap, polling, job, faults>>

\* Mutant: what the served list had is kept.
ServedKept(a) == snap \cup op[a].fresh

\* Mutant: the served list is left as it was copied.
ServedStale(a) == op[a].copy

Served(a) == op[a].fresh

\* apply_topology_snapshot.  With two at work, one may undo what the other
\* has announced.
Show(a) ==
  /\ op[a].phase = "show"
  /\ snap' = Served(a)
  /\ told' = IF op[a].alone THEN told ELSE told \cap op[a].fresh
  /\ Ended(a, TRUE)
  /\ UNCHANGED <<listed, configs, polling, faults>>

\* A statement is refused between the copy and the prefetch, the last ones
\* being those of persist_topology_region_notices (the texts are left out):
\* the list may be stored, but nothing is announced or served.
Fails(a) ==
  /\ faults < MaxFaults
  /\ \/ op[a].phase \in {"survey", "store", "compare", "retire"}
     \/ op[a].phase = "prefetch" /\ op[a].todo = Added(a)
  /\ faults' = faults + 1
  /\ Ended(a, FALSE)
  /\ UNCHANGED <<listed, configs, snap, polling, told>>

-----------------------------------------------------------------------------
(* Pages, the refresh job, the environment *)

\* A worker applies the page of a target: for discovery, or for a user's
\* configs, which include those of targets that are gone.
Page(t) ==
  /\ t \in Known \/ configs[t] # "none"
  /\ Applied(t)
  /\ UNCHANGED <<listed, snap, polling, op, job, faults, told>>

\* CatalogRefreshManager::trigger; a running job is left alone.
Trigger ==
  /\ job = NoJob
  /\ job' = [NoJob EXCEPT !.phase = "start"]
  /\ UNCHANGED <<listed, configs, snap, polling, op, faults, told>>

\* run_full_refresh_job: when nothing is known, the list comes first.
JobSurveys ==
  /\ job.phase = "start"
  /\ IF Known # {}
     THEN job' = [job EXCEPT !.phase = "pages", !.tasks = Known] /\ UNCHANGED op
     ELSE /\ job' = [job EXCEPT !.phase = "topology"]
          /\ op' = [op EXCEPT !["job"].phase = "fetch"]
  /\ UNCHANGED <<listed, configs, snap, polling, faults, told>>

\* One target after another, from the list it drew up, whatever has become of
\* it; a run that fails ends the job.
JobRuns(t) ==
  /\ job.phase = "pages" /\ job.tasks # {} /\ t = CHOOSE u \in job.tasks : TRUE
  /\ \/ /\ Applied(t) \/ UNCHANGED configs
        /\ job' = [job EXCEPT !.tasks = @ \ {t}]
     \/ job' = NoJob /\ UNCHANGED configs
  /\ UNCHANGED <<listed, snap, polling, op, faults, told>>

JobDone ==
  /\ job.phase = "pages" /\ job.tasks = {}
  /\ job' = NoJob
  /\ UNCHANGED <<listed, configs, snap, polling, op, faults, told>>

\* A statement of the poller's loop is refused: the task ends.
PollerEnds ==
  /\ polling = "going" /\ op["poller"] = NoOp /\ faults < MaxFaults
  /\ polling' = "ended"
  /\ faults' = faults + 1
  /\ UNCHANGED <<listed, configs, snap, op, job, told>>

\* The poller polls a user between two refreshes and waits for the queue, with
\* no time limit, on a key whose run row was refused: the answer never comes
\* (the wedged key of OpsQueue), and the loop stays where it is.
PollerHangs ==
  /\ polling = "going" /\ op["poller"] = NoOp /\ faults < MaxFaults
  /\ polling' = "hung"
  /\ faults' = faults + 1
  /\ UNCHANGED <<listed, configs, snap, op, job, told>>

\* A restart serves the stored list (load_catalog_snapshot).
Restart ==
  /\ faults < MaxFaults
  /\ faults' = faults + 1
  /\ snap' = listed
  /\ polling' = "going"
  /\ op' = [a \in Actors |-> NoOp]
  /\ job' = NoJob
  /\ told' = told \cap listed
  /\ UNCHANGED <<listed, configs>>

-----------------------------------------------------------------------------
Step(a) ==
  \/ Survey(a) \/ Store(a) \/ Compare(a) \/ Retire(a)
  \/ (\E t \in Targets : Prefetch(a, t)) \/ Notify(a) \/ Show(a)

JobStep == JobSurveys \/ (\E t \in Targets : JobRuns(t)) \/ JobDone

Next ==
  \/ Start("refresh") \/ Start("probe")
  \/ \E a \in Actors : FetchFails(a) \/ FetchRefused(a) \/ FetchOk(a) \/ Step(a) \/ Fails(a)
  \/ \E t \in Targets : Page(t)
  \/ Trigger \/ JobStep
  \/ PollerEnds \/ PollerHangs \/ Restart

\* An operation of the poller goes on, since each request has a timeout.  The
\* loop comes round again and again while it goes on: the polls between two
\* refreshes end, unless PollerHangs; and a due refresh comes before a due
\* probe.  The site, when it is asked again and again, is read now and then.
Fairness ==
  /\ WF_vars(Step("poller"))
  /\ WF_vars(FetchFails("poller") \/ FetchOk("poller"))
  /\ SF_vars(Start("refresh"))
  /\ SF_vars(op["poller"].kind = "refresh" /\ FetchOk("poller"))

Spec == Init /\ [][Next]_vars
LiveSpec == Spec /\ Fairness

-----------------------------------------------------------------------------
\* Every variable has its type; the stored and the served list never show a
\* region without its country, however refreshes, probes and restarts mix.
TypeOK ==
  /\ listed \in Lists /\ snap \in Lists
  /\ configs \in [Targets -> ConfigStates]
  /\ polling \in {"going", "hung", "ended"}
  /\ op \in [Actors -> [phase : Phases, kind : {"refresh", "probe"}, known : BOOLEAN, copy : Lists, fresh : Lists,
                        kept : SUBSET Regions, before : SUBSET Targets, gone : SUBSET Targets,
                        todo : SUBSET Targets, alone : BOOLEAN]]
  /\ job \in [phase : {"none", "start", "topology", "pages"},
              tasks : SUBSET Targets]
  /\ faults \in 0 .. MaxFaults
  /\ told \in SUBSET Targets

\* A refresh retires configs only of targets that are off the stored list by
\* then, and never those of a region it knew whose country's page said
\* nothing, unless another operation ran at the same time.
RetiresOnlyVanished ==
  [][\A a \in Actors : Retire(a) /\ op[a].alone =>
       \A t \in Targets : configs[t] # configs'[t] =>
         /\ t \notin listed
         /\ t \notin op[a].kept]_vars

\* The stored list is emptied only by an operation that began when nothing
\* was known.
NeverWiped ==
  [][listed # {} /\ listed' = {} => \E a \in Actors : op[a].phase = "store" /\ ~op[a].known]_vars

\* A target is announced as new once: not again before it was announced as
\* gone, or was lost with a restart, unless two operations ran at once.
AddedOnce ==
  [][\A a \in Actors : Notify(a) /\ op[a].alone => told \cap Added(a) = {}]_vars

\* Active configs of a target that is off the list are retired sooner or later
\* although an operation was refused half-way, a page was in flight or the
\* process was restarted, as long as the poller's loop goes on: one that has
\* ended, or waits on a wedged key, refreshes nothing until the next restart.
OrphansRetired ==
  \A t \in Sellers : configs[t] = "active" /\ t \notin listed
                      ~> polling # "going" \/ configs[t] # "active" \/ t \in listed

\* Sooner or later the list that is served is the one that is stored, as long
\* as the poller's loop goes on.
ServedIsStored == snap # listed ~> polling # "going" \/ snap = listed

TargetView == INSTANCE TargetConfigs

\* Of the configs of a target, refreshes, probes and jobs assume what
\* TargetConfigs says, and CatalogLifecycle does.
AssumesTargetConfigs == TargetView!Spec
=============================================================================
