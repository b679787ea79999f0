-------------------------- MODULE CatalogLifecycle --------------------------
(***************************************************************************)
(* The lifecycle of a config in the database (src/src/db.rs): a config is  *)
(* listed when a fetched page of its target shows it, delisted when one    *)
(* does not, retired with its target when the topology drops the target,   *)
(* and archived by a user once it is delisted.                             *)
(*                                                                         *)
(* Each action is one SQLite transaction.  Ops workers, the topology       *)
(* poller's prefetch, the refresh job and HTTP handlers run them against   *)
(* the same tables in any order, so a page may be applied long after it    *)
(* was fetched, twice, or after its target was retired.                    *)
(***************************************************************************)
EXTENDS Naturals

CONSTANTS
  Configs,  \* config ids "lc:{fid}:{gid}:{pid}"
  Targets,  \* catalog targets (fid, gid)
  Users,
  TargetOf  \* the target of a config: its fid and gid are part of its id

ASSUME TargetAssumption == TargetOf \in [Configs -> Targets]

VARIABLES
  row,       \* catalog_configs: state, whether lifecycle_listed_event_at is
             \* set, whether inventory_quantity is positive
  cached,    \* targets that have a catalog_url_cache row
  ids,       \* config_ids_json of that row
  archived,  \* user_config_archives
  report,    \* what the last transaction returned to its caller
  told       \* history: listed events returned for each config since it was
             \* last listed, no more than ToldCap counted

vars == <<row, cached, ids, archived, report, told>>

ToldCap == 2

\* A config that was never listed has no row.
Absent == [state |-> "absent", event |-> FALSE, stock |-> FALSE]
Stored == [state : {"active", "delisted"}, event : BOOLEAN, stock : BOOLEAN]
Row    == {Absent} \cup Stored

Report == [listed : SUBSET Configs, events : SUBSET Configs, delisted : SUBSET Configs]
Silent == [listed |-> {}, events |-> {}, delisted |-> {}]

Active       == {c \in Configs : row[c].state = "active"}
DelistedRows == {c \in Configs : row[c].state = "delisted"}

\* The configs a page of target t can show, and the pages: which configs it
\* shows and whether each is in stock.
Of(t)    == {c \in Configs : TargetOf[c] = t}
Pages(t) == UNION {[S -> BOOLEAN] : S \in SUBSET Of(t)}

\* A database of an earlier version may hold active configs from before the
\* URL cache existed; the migration marks them as announced.
Init ==
  /\ row \in [Configs -> {Absent} \cup
                [state : {"active"}, event : {TRUE}, stock : BOOLEAN]]
  /\ cached = {}
  /\ ids = [t \in Targets |-> {}]
  /\ archived = [u \in Users |-> {}]
  /\ report = Silent
  /\ told = [c \in Configs |-> IF row[c].state = "active" THEN 1 ELSE 0]

-----------------------------------------------------------------------------
\* The configs t had before this page: those of its cache row, or else its
\* active rows.
Previous(t) == IF t \in cached THEN ids[t] ELSE Of(t) \cap Active

\* The configs whose listing is announced now: in stock, and either new on the
\* page or listed so far without having been in stock.
Announced(t, page) ==
  {c \in DOMAIN page :
     /\ page[c]
     /\ c \notin Previous(t) \/ (row[c].state = "active" /\ ~row[c].event)}

\* Mutant: the column follows the stock.
EventFollowsStock(r, inStock) == inStock

\* Mutant: COALESCE(old, new), whatever the old state.
EventCoalesced(r, inStock) == r.event \/ inStock

\* lifecycle_listed_event_at of a row the page shows: a listing that ended is
\* forgotten, a mark that is set stays, one that is missing needs stock.
EventColumn(r, inStock) ==
  IF r.state = "delisted" THEN inStock ELSE r.event \/ inStock

\* INSERT ... ON CONFLICT DO UPDATE of a config the page shows.
Upserted(r, inStock) ==
  [state |-> "active", event |-> EventColumn(r, inStock), stock |-> inStock]

\* UPDATE of a config the page no longer shows.
Delisted(r) ==
  IF r.state = "delisted" THEN r
  ELSE [state |-> "delisted", event |-> FALSE, stock |-> r.stock]

\* How often the current listing of c has been announced once `events` have
\* been returned; `listed` begin a new listing.
Tally(c, listed, events) ==
  LET before == IF c \in listed THEN 0 ELSE told[c]
  IN  IF c \notin events THEN before
      ELSE IF before < ToldCap THEN before + 1 ELSE ToldCap

\* Mutant: only configs that were on the page before leave the archives.
UnarchiveKnown(t, page) == archived' = [u \in Users |-> archived[u] \ (DOMAIN page \cap Previous(t))]

\* DELETE FROM user_config_archives of the configs on the page.
Unarchive(t, page) == archived' = [u \in Users |-> archived[u] \ DOMAIN page]

\* apply_catalog_url_fetch_success.  An empty page is refused when it would
\* delist something, unless the page proves that the target is empty.
Apply(t, page, authoritative) ==
  LET prev     == Previous(t)
      listed   == DOMAIN page \ prev
      delisted == prev \ DOMAIN page
  IN
  /\ DOMAIN page = {} /\ prev # {} => authoritative
  /\ row' = [c \in Configs |->
               IF c \in DOMAIN page THEN Upserted(row[c], page[c])
               ELSE IF c \in delisted THEN Delisted(row[c])
               ELSE row[c]]
  /\ Unarchive(t, page)
  /\ cached' = cached \cup {t}
  /\ ids' = [ids EXCEPT ![t] = DOMAIN page]
  /\ report' = [listed |-> listed, events |-> Announced(t, page), delisted |-> delisted]
  /\ told' = [c \in Configs |-> Tally(c, listed, Announced(t, page))]

\* The row of a config whose target is retired; the mark of its listing stays.
Retired(r) == [state |-> "delisted", event |-> r.event, stock |-> r.stock]

\* Mutant: the cache row survives its target.
RetireRowsOnly(t) ==
  LET gone == {c \in Of(t) : row[c].state = "active"} IN
  /\ row' = [c \in Configs |-> IF c \in gone THEN Retired(row[c]) ELSE row[c]]
  /\ report' = [listed |-> {}, events |-> {}, delisted |-> gone]
  /\ UNCHANGED <<cached, ids, archived, told>>

\* retire_catalog_targets, for one of its targets.
Retire(t) ==
  LET gone == {c \in Of(t) : row[c].state = "active"} IN
  /\ row' = [c \in Configs |-> IF c \in gone THEN Retired(row[c]) ELSE row[c]]
  /\ cached' = cached \ {t}
  /\ ids' = [ids EXCEPT ![t] = {}]
  /\ report' = [listed |-> {}, events |-> {}, delisted |-> gone]
  /\ UNCHANGED <<archived, told>>

\* Mutant: the columns of the INSERT are swapped.
ArchiveSwapped(u) ==
  /\ archived' = [archived EXCEPT ![u] = @ \cup {u}]
  /\ report' = Silent
  /\ UNCHANGED <<row, cached, ids, told>>

\* archive_all_delisted_configs.
Archive(u) ==
  /\ archived' = [archived EXCEPT ![u] = @ \cup DelistedRows]
  /\ report' = Silent
  /\ UNCHANGED <<row, cached, ids, told>>

Next ==
  \/ \E t \in Targets, authoritative \in BOOLEAN :
       \E page \in Pages(t) : Apply(t, page, authoritative)
  \/ \E t \in Targets : Retire(t)
  \/ \E u \in Users : Archive(u)

Spec == Init /\ [][Next]_vars

-----------------------------------------------------------------------------
\* The tables hold what their columns allow, and the cache row of a target
\* lists configs of that target.
TypeOK ==
  /\ row \in [Configs -> Row]
  /\ cached \in SUBSET Targets
  /\ ids \in [Targets -> SUBSET Configs]
  /\ \A t \in Targets : ids[t] \subseteq Of(t)
  /\ archived \in [Users -> SUBSET Configs]
  /\ report \in Report
  /\ told \in [Configs -> 0 .. ToldCap]

\* The cache row of a target, when there is one, lists exactly the active
\* configs of the target: the diff of the next page (prev_ids in
\* apply_catalog_url_fetch_success) starts from the truth, whatever order the
\* workers, the prefetch and the retirement ran in.
CacheMatchesRows ==
  \A t \in Targets : IF t \in cached THEN ids[t] = Of(t) \cap Active ELSE ids[t] = {}

\* A listing is announced at most once, however often the config sells out and
\* comes back in stock.
AnnouncedOnce == \A c \in Active : told[c] <= 1

\* A listed config that is in stock has been announced: going unlisted, being
\* retired or having been listed without stock loses no announcement.
InStockIsAnnounced == \A c \in Active : row[c].stock => told[c] >= 1

\* A user's archive holds delisted configs only: a config that is listed
\* again leaves every archive in the same transaction.
ArchivedAreDelisted == \A u \in Users : archived[u] \subseteq DelistedRows

\* What a transaction returns is what it did: the configs reported as listed
\* and as delisted are those whose row became and ceased to be active.
ReportsTellTruth ==
  [][/\ report'.listed   = Active' \ Active
     /\ report'.delisted = Active \ Active']_vars

\* What the list of targets sees of the rows (list_known_catalog_targets).
ConfigsOf(t) ==
  IF Of(t) \cap Active # {} THEN "active"
  ELSE IF Of(t) \cap DelistedRows # {} THEN "delisted" ELSE "none"

Seen == [t \in Targets |-> ConfigsOf(t)]

TargetView == INSTANCE TargetConfigs WITH configs <- Seen, Sellers <- {t \in Targets : Of(t) # {}}

\* Seen by target, the transactions do what TargetConfigs says.
ImplementsTargetConfigs == TargetView!Spec
=============================================================================
