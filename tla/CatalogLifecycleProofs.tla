----------------------- MODULE CatalogLifecycleProofs -----------------------
(***************************************************************************)
(* Proofs that the lifecycle of configs is sound, for every set of         *)
(* configs, targets and users and every assignment of configs to targets.  *)
(*                                                                         *)
(* Everything rests on one fact: the cache row of a target lists its       *)
(* active configs, so that the diff of a page starts from the truth.       *)
(***************************************************************************)
EXTENDS CatalogLifecycle, TLAPS

\* The mark of a listing and the count of its announcements agree.
MarksAgree == \A c \in Active : told[c] = IF row[c].event THEN 1 ELSE 0

\* A row that is in stock is marked.
StockIsMarked == \A c \in Active : row[c].stock => row[c].event

Inv ==
  /\ TypeOK
  /\ CacheMatchesRows
  /\ MarksAgree
  /\ StockIsMarked
  /\ ArchivedAreDelisted

-----------------------------------------------------------------------------
\* What a page of t is.
LEMMA PageType ==
  ASSUME NEW t \in Targets, NEW page \in Pages(t)
  PROVE  /\ DOMAIN page \subseteq Of(t)
         /\ \A c \in DOMAIN page : page[c] \in BOOLEAN
  BY DEF Pages

LEMMA InitInv == Init => Inv
<1> SUFFICES ASSUME Init PROVE Inv
  OBVIOUS
<1>1. \A c \in Configs :
        /\ row[c] \in Row
        /\ row[c].state \in {"absent", "active"}
        /\ row[c].state = "active" => row[c].event
  <2> SUFFICES ASSUME NEW c \in Configs
               PROVE  /\ row[c] \in Row
                      /\ row[c].state \in {"absent", "active"}
                      /\ row[c].state = "active" => row[c].event
    OBVIOUS
  <2>1. \/ row[c] = Absent
        \/ row[c] \in [state : {"active"}, event : {TRUE}, stock : BOOLEAN]
    BY DEF Init
  <2>2. CASE row[c] = Absent
    BY <2>2 DEF Row, Absent
  <2>3. CASE row[c] \in [state : {"active"}, event : {TRUE}, stock : BOOLEAN]
    <3>1. row[c].state = "active" /\ row[c].event \in {TRUE} /\ row[c] \in Stored
      BY <2>3 DEF Stored
    <3> QED
      BY <3>1 DEF Row
  <2> QED
    BY <2>1, <2>2, <2>3
<1>2. row \in [Configs -> Row]
  BY <1>1 DEF Init
<1>3. TypeOK
  BY <1>2 DEF Init, TypeOK, Report, Silent, ToldCap
<1>4. CacheMatchesRows
  BY DEF Init, CacheMatchesRows
<1>5. MarksAgree /\ StockIsMarked
  BY <1>1 DEF Init, MarksAgree, StockIsMarked, Active
<1>6. ArchivedAreDelisted
  BY DEF Init, ArchivedAreDelisted
<1> QED
  BY <1>3, <1>4, <1>5, <1>6 DEF Inv

-----------------------------------------------------------------------------
(***************************************************************************)
(* Apply.                                                                  *)
(***************************************************************************)

\* The rows after a page of t: what is on it is active, the rest of t is not,
\* and other targets are untouched.
LEMMA ApplyRows ==
  ASSUME Inv, NEW t \in Targets, NEW page \in Pages(t), NEW authoritative \in BOOLEAN,
         Apply(t, page, authoritative)
  PROVE  /\ Previous(t) = Of(t) \cap Active
         /\ row' \in [Configs -> Row]
         /\ Active' = (Active \ Of(t)) \cup DOMAIN page
         /\ \A c \in DOMAIN page :
              row'[c] = [state |-> "active", event |-> EventColumn(row[c], page[c]),
                         stock |-> page[c]]
         /\ \A c \in Configs \ Of(t) : row'[c] = row[c]
         /\ \A c \in DelistedRows \ DOMAIN page : row'[c].state = "delisted"
<1>1. DOMAIN page \subseteq Of(t) /\ \A c \in DOMAIN page : page[c] \in BOOLEAN
  BY PageType
<1>2. Of(t) \subseteq Configs /\ row \in [Configs -> Row]
  BY DEF Inv, TypeOK, Of
<1>3. Previous(t) = Of(t) \cap Active
  BY DEF Inv, CacheMatchesRows, Previous
<1>4. \A c \in Configs :
        row'[c] = IF c \in DOMAIN page THEN Upserted(row[c], page[c])
                  ELSE IF c \in Previous(t) \ DOMAIN page THEN Delisted(row[c])
                  ELSE row[c]
  BY DEF Apply
<1>5. ASSUME NEW c \in DOMAIN page
      PROVE  /\ row'[c] = [state |-> "active", event |-> EventColumn(row[c], page[c]),
                           stock |-> page[c]]
             /\ row'[c].state = "active"
             /\ row'[c] \in Row
  <2>1. row'[c] = [state |-> "active", event |-> EventColumn(row[c], page[c]),
                   stock |-> page[c]]
    BY <1>1, <1>2, <1>4 DEF Upserted
  <2>2. EventColumn(row[c], page[c]) \in BOOLEAN
    BY <1>1, <1>2 DEF EventColumn, Row, Absent, Stored
  <2> QED
    BY <2>1, <2>2, <1>1 DEF Row, Stored
<1>6. ASSUME NEW c \in Previous(t) \ DOMAIN page
      PROVE  row'[c].state = "delisted" /\ row'[c] \in Row
  <2>1. row'[c] = Delisted(row[c]) /\ row[c] \in Row
    BY <1>2, <1>3, <1>4
  <2>2. row[c].state = "active"
    BY <1>3 DEF Active
  <2> QED
    BY <2>1, <2>2 DEF Delisted, Row, Absent, Stored
<1>7. ASSUME NEW c \in Configs, c \notin DOMAIN page, c \notin Previous(t)
      PROVE  row'[c] = row[c] /\ row'[c] \in Row
  BY <1>2, <1>4, <1>7
<1>8. row' \in [Configs -> Row]
  <2>1. \A c \in Configs : row'[c] \in Row
    BY <1>5, <1>6, <1>7
  <2> QED
    BY <2>1 DEF Apply
<1>9. Active' = (Active \ Of(t)) \cup DOMAIN page
  <2>1. ASSUME NEW c \in Configs
        PROVE  row'[c].state = "active" <=> c \in (Active \ Of(t)) \cup DOMAIN page
    <3>1. CASE c \in DOMAIN page
      BY <3>1, <1>5
    <3>2. CASE c \in Previous(t) \ DOMAIN page
      BY <3>2, <1>3, <1>6
    <3>3. CASE c \notin DOMAIN page /\ c \notin Previous(t)
      BY <3>3, <1>3, <1>7 DEF Active
    <3> QED
      BY <3>1, <3>2, <3>3
  <2> QED
    BY <2>1, <1>1, <1>2 DEF Active
<1>10. \A c \in Configs \ Of(t) : row'[c] = row[c]
  BY <1>1, <1>3, <1>7
<1>11. \A c \in DelistedRows \ DOMAIN page : row'[c].state = "delisted"
  BY <1>3, <1>7 DEF DelistedRows, Active
<1> QED
  BY <1>3, <1>5, <1>8, <1>9, <1>10, <1>11

\* The count of a config the page shows is that of its mark.
LEMMA ApplyMarks ==
  ASSUME Inv, NEW t \in Targets, NEW page \in Pages(t), NEW authoritative \in BOOLEAN,
         Apply(t, page, authoritative)
  PROVE  MarksAgree' /\ StockIsMarked'
<1>1. DOMAIN page \subseteq Of(t) /\ \A c \in DOMAIN page : page[c] \in BOOLEAN
  BY PageType
<1>2. Of(t) \subseteq Configs /\ row \in [Configs -> Row] /\ told \in [Configs -> 0 .. ToldCap]
  BY DEF Inv, TypeOK, Of
<1>3. \A c \in Configs :
        told'[c] = Tally(c, DOMAIN page \ Previous(t), Announced(t, page))
  BY DEF Apply
<1>4. ASSUME NEW c \in DOMAIN page
      PROVE  /\ told'[c] = IF row'[c].event THEN 1 ELSE 0
             /\ row'[c].stock => row'[c].event
  <2>1. /\ row'[c] = [state |-> "active", event |-> EventColumn(row[c], page[c]),
                      stock |-> page[c]]
        /\ c \in Configs
        /\ c \in Previous(t) <=> row[c].state = "active"
    BY <1>1, <1>2, ApplyRows DEF Active
  <2>2. /\ row'[c].event = EventColumn(row[c], page[c])
        /\ row'[c].stock = page[c]
    BY <2>1
  <2>3. c \in Announced(t, page) <=> page[c] /\ (row[c].state # "active" \/ ~row[c].event)
    BY <2>1 DEF Announced
  <2>4. CASE row[c].state = "active"
    <3>1. told[c] = IF row[c].event THEN 1 ELSE 0
      BY <2>1, <2>4 DEF Inv, MarksAgree, Active
    <3>2. told'[c] = IF page[c] /\ ~row[c].event
                     THEN IF told[c] < ToldCap THEN told[c] + 1 ELSE ToldCap
                     ELSE told[c]
      BY <2>1, <2>3, <2>4, <1>3 DEF Tally
    <3>3. CASE row[c].event
      BY <3>1, <3>2, <3>3, <2>2, <2>4 DEF EventColumn
    <3>4. CASE ~row[c].event
      <4>1. row'[c].event <=> page[c]
        BY <3>4, <2>2, <2>4, <1>1 DEF EventColumn
      <4>2. told'[c] = IF page[c] THEN 1 ELSE 0
        BY <3>1, <3>2, <3>4, <1>1 DEF ToldCap
      <4> QED
        BY <4>1, <4>2, <2>2
    <3> QED
      BY <3>3, <3>4
  <2>5. CASE row[c].state # "active"
    <3>1. told'[c] = IF page[c] THEN 1 ELSE 0
      BY <2>1, <2>3, <2>5, <1>1, <1>3 DEF Tally, ToldCap
    <3>2. EventColumn(row[c], page[c]) <=> page[c]
      BY <2>5, <2>1, <1>1, <1>2 DEF EventColumn, Row, Absent, Stored
    <3> QED
      BY <3>1, <3>2, <2>2
  <2> QED
    BY <2>4, <2>5
<1>5. ASSUME NEW c \in Active' \ DOMAIN page
      PROVE  /\ told'[c] = IF row'[c].event THEN 1 ELSE 0
             /\ row'[c].stock => row'[c].event
  <2>1. c \in Active \ Of(t) /\ c \in Configs
    BY ApplyRows DEF Active
  <2>2. row'[c] = row[c]
    BY <2>1, ApplyRows
  <2>3. told'[c] = told[c]
    BY <2>1, <1>1, <1>3 DEF Tally, Announced
  <2> QED
    BY <2>1, <2>2, <2>3 DEF Inv, MarksAgree, StockIsMarked
<1> QED
  BY <1>4, <1>5 DEF MarksAgree, StockIsMarked

\* The types of what Apply computes.
LEMMA ApplyTypes ==
  ASSUME Inv, NEW t \in Targets, NEW page \in Pages(t), NEW authoritative \in BOOLEAN,
         Apply(t, page, authoritative)
  PROVE  TypeOK'
<1>1. DOMAIN page \subseteq Of(t) /\ Of(t) \subseteq Configs
  BY PageType DEF Of
<1>2. row' \in [Configs -> Row]
  BY ApplyRows
<1>3. cached' \in SUBSET Targets
  BY DEF Inv, TypeOK, Apply
<1>4. /\ ids' \in [Targets -> SUBSET Configs]
      /\ \A u \in Targets : ids'[u] \subseteq Of(u)
  BY <1>1 DEF Inv, TypeOK, Apply
<1>5. archived' \in [Users -> SUBSET Configs]
  BY DEF Inv, TypeOK, Apply, Unarchive
<1>6. report' \in Report
  <2>1. Previous(t) \subseteq Configs
    BY <1>1, ApplyRows
  <2> QED
    BY <2>1, <1>1 DEF Apply, Announced, Report
<1>7. told' \in [Configs -> 0 .. ToldCap]
  <2>1. \A c \in Configs :
          Tally(c, DOMAIN page \ Previous(t), Announced(t, page)) \in 0 .. ToldCap
    BY DEF Inv, TypeOK, Tally, ToldCap
  <2> QED
    BY <2>1 DEF Apply
<1> QED
  BY <1>2, <1>3, <1>4, <1>5, <1>6, <1>7 DEF TypeOK, Of

LEMMA ApplyInv ==
  ASSUME Inv, NEW t \in Targets, NEW page \in Pages(t), NEW authoritative \in BOOLEAN,
         Apply(t, page, authoritative)
  PROVE  Inv'
<1>1. DOMAIN page \subseteq Of(t)
  BY PageType
<1>2. CacheMatchesRows'
  <2> SUFFICES ASSUME NEW u \in Targets
               PROVE  IF u \in cached' THEN ids'[u] = Of(u) \cap Active' ELSE ids'[u] = {}
    BY DEF CacheMatchesRows, Of
  <2>1. ids \in [Targets -> SUBSET Configs] /\ Active' = (Active \ Of(t)) \cup DOMAIN page
    BY ApplyRows DEF Inv, TypeOK
  <2>2. CASE u = t
    BY <2>1, <2>2, <1>1 DEF Apply
  <2>3. CASE u # t
    <3>1. ids'[u] = ids[u] /\ (u \in cached' <=> u \in cached)
      BY <2>1, <2>3 DEF Apply
    <3>2. Of(u) \cap Active' = Of(u) \cap Active
      BY <2>1, <2>3, <1>1 DEF Of
    <3> QED
      BY <3>1, <3>2 DEF Inv, CacheMatchesRows
  <2> QED
    BY <2>2, <2>3
<1>3. ArchivedAreDelisted'
  <2> SUFFICES ASSUME NEW u \in Users, NEW c \in archived'[u]
               PROVE  c \in DelistedRows'
    BY DEF ArchivedAreDelisted
  <2>1. c \in archived[u] /\ c \notin DOMAIN page
    BY DEF Inv, TypeOK, Apply, Unarchive
  <2>2. c \in DelistedRows
    BY <2>1 DEF Inv, ArchivedAreDelisted
  <2> QED
    BY <2>1, <2>2, ApplyRows DEF DelistedRows
<1> QED
  BY <1>2, <1>3, ApplyTypes, ApplyMarks DEF Inv

-----------------------------------------------------------------------------
(***************************************************************************)
(* Retire and Archive.                                                     *)
(***************************************************************************)

\* The rows after t is retired.
LEMMA RetireRows ==
  ASSUME Inv, NEW t \in Targets, Retire(t)
  PROVE  /\ row' \in [Configs -> Row]
         /\ Active' = Active \ Of(t)
         /\ \A c \in Active' : row'[c] = row[c]
         /\ \A c \in DelistedRows : row'[c].state = "delisted"
<1>1. row \in [Configs -> Row]
  BY DEF Inv, TypeOK
<1>2. \A c \in Configs :
        row'[c] = IF c \in Of(t) \cap Active THEN Retired(row[c]) ELSE row[c]
  BY DEF Retire, Of, Active
<1>3. ASSUME NEW c \in Of(t) \cap Active
      PROVE  row'[c].state = "delisted" /\ row'[c] \in Row
  <2>1. row'[c] = Retired(row[c]) /\ row[c] \in Row /\ row[c].state = "active"
    BY <1>1, <1>2 DEF Of, Active
  <2> QED
    BY <2>1 DEF Retired, Row, Absent, Stored
<1>4. ASSUME NEW c \in Configs, c \notin Of(t) \cap Active
      PROVE  row'[c] = row[c] /\ row'[c] \in Row
  BY <1>1, <1>2, <1>4
<1>5. row' \in [Configs -> Row]
  <2>1. \A c \in Configs : row'[c] \in Row
    BY <1>3, <1>4
  <2> QED
    BY <2>1 DEF Retire
<1>6. Active' = Active \ Of(t)
  <2>1. ASSUME NEW c \in Configs
        PROVE  row'[c].state = "active" <=> c \in Active \ Of(t)
    <3>1. CASE c \in Of(t) \cap Active
      BY <3>1, <1>3
    <3>2. CASE c \notin Of(t) \cap Active
      BY <3>2, <1>4 DEF Active
    <3> QED
      BY <3>1, <3>2
  <2> QED
    BY <2>1 DEF Active
<1>7. \A c \in Active' : row'[c] = row[c]
  BY <1>4, <1>6 DEF Active
<1>8. \A c \in DelistedRows : row'[c].state = "delisted"
  BY <1>4 DEF DelistedRows, Active
<1> QED
  BY <1>5, <1>6, <1>7, <1>8

LEMMA RetireInv ==
  ASSUME Inv, NEW t \in Targets, Retire(t)
  PROVE  Inv'
<1>1. TypeOK'
  <2>1. /\ cached' \in SUBSET Targets
        /\ ids' \in [Targets -> SUBSET Configs]
        /\ \A u \in Targets : ids'[u] \subseteq Of(u)
        /\ archived' \in [Users -> SUBSET Configs]
        /\ report' \in Report
        /\ told' \in [Configs -> 0 .. ToldCap]
    BY DEF Inv, TypeOK, Retire, Report, Of
  <2> QED
    BY <2>1, RetireRows DEF TypeOK, Of
<1>2. CacheMatchesRows'
  <2> SUFFICES ASSUME NEW u \in Targets
               PROVE  IF u \in cached' THEN ids'[u] = Of(u) \cap Active' ELSE ids'[u] = {}
    BY DEF CacheMatchesRows, Of
  <2>1. ids \in [Targets -> SUBSET Configs] /\ Active' = Active \ Of(t)
    BY RetireRows DEF Inv, TypeOK
  <2>2. CASE u = t
    BY <2>1, <2>2 DEF Retire
  <2>3. CASE u # t
    <3>1. ids'[u] = ids[u] /\ (u \in cached' <=> u \in cached)
      BY <2>1, <2>3 DEF Retire
    <3>2. Of(u) \cap Active' = Of(u) \cap Active
      BY <2>1, <2>3 DEF Of
    <3> QED
      BY <3>1, <3>2 DEF Inv, CacheMatchesRows
  <2> QED
    BY <2>2, <2>3
<1>3. MarksAgree' /\ StockIsMarked'
  <2>1. told' = told /\ \A c \in Active' : c \in Active /\ row'[c] = row[c]
    BY RetireRows DEF Retire
  <2> QED
    BY <2>1 DEF Inv, MarksAgree, StockIsMarked
<1>4. ArchivedAreDelisted'
  <2>1. archived' = archived /\ \A c \in DelistedRows : c \in DelistedRows'
    BY RetireRows DEF Retire, DelistedRows
  <2> QED
    BY <2>1 DEF Inv, ArchivedAreDelisted
<1> QED
  BY <1>1, <1>2, <1>3, <1>4 DEF Inv

LEMMA ArchiveInv ==
  ASSUME Inv, NEW u \in Users, Archive(u)
  PROVE  Inv'
<1>1. row' = row /\ cached' = cached /\ ids' = ids /\ told' = told /\ report' = Silent
  BY DEF Archive
<1>2. /\ archived' \in [Users -> SUBSET Configs]
      /\ \A v \in Users : archived'[v] \subseteq archived[v] \cup DelistedRows
  BY DEF Inv, TypeOK, Archive, DelistedRows
<1>3. TypeOK'
  BY <1>1, <1>2 DEF Inv, TypeOK, Silent, Report, Of
<1>4. CacheMatchesRows' /\ MarksAgree' /\ StockIsMarked'
  BY <1>1 DEF Inv, CacheMatchesRows, MarksAgree, StockIsMarked, Active, Of
<1>5. ArchivedAreDelisted'
  BY <1>1, <1>2 DEF Inv, ArchivedAreDelisted, DelistedRows
<1> QED
  BY <1>3, <1>4, <1>5 DEF Inv

-----------------------------------------------------------------------------
(***************************************************************************)
(* The theorems.                                                           *)
(***************************************************************************)

LEMMA StepInv == Inv /\ [Next]_vars => Inv'
<1> SUFFICES ASSUME Inv, [Next]_vars PROVE Inv'
  OBVIOUS
<1>1. CASE \E t \in Targets, authoritative \in BOOLEAN :
             \E page \in Pages(t) : Apply(t, page, authoritative)
  BY <1>1, ApplyInv
<1>2. CASE \E t \in Targets : Retire(t)
  BY <1>2, RetireInv
<1>3. CASE \E u \in Users : Archive(u)
  BY <1>3, ArchiveInv
<1>4. CASE UNCHANGED vars
  BY <1>4 DEF vars, Inv, TypeOK, CacheMatchesRows, MarksAgree, StockIsMarked,
              ArchivedAreDelisted, Active, DelistedRows, Of
<1> QED
  BY <1>1, <1>2, <1>3, <1>4 DEF Next

LEMMA Invariant == Spec => []Inv
<1> QED
  BY InitInv, StepInv, PTL DEF Spec

\* The tables keep their types.
THEOREM TypeCorrect == Spec => []TypeOK
<1>1. Inv => TypeOK
  BY DEF Inv
<1> QED
  BY <1>1, Invariant, PTL

\* The cache row of every target lists exactly its active configs.
THEOREM CacheIsTrue == Spec => []CacheMatchesRows
<1>1. Inv => CacheMatchesRows
  BY DEF Inv
<1> QED
  BY <1>1, Invariant, PTL

\* No listing is announced twice.
THEOREM NoSecondAnnouncement == Spec => []AnnouncedOnce
<1>1. Inv => AnnouncedOnce
  BY DEF Inv, MarksAgree, AnnouncedOnce
<1> QED
  BY <1>1, Invariant, PTL

\* No listing that is in stock is left unannounced.
THEOREM NoMissedAnnouncement == Spec => []InStockIsAnnounced
<1>1. Inv => InStockIsAnnounced
  BY DEF Inv, MarksAgree, StockIsMarked, InStockIsAnnounced
<1> QED
  BY <1>1, Invariant, PTL

\* No listed config is in an archive.
THEOREM ArchivesAreSound == Spec => []ArchivedAreDelisted
<1>1. Inv => ArchivedAreDelisted
  BY DEF Inv
<1> QED
  BY <1>1, Invariant, PTL

\* Every transaction reports the listings and delistings it made.
THEOREM ReportsAreTrue == Spec => ReportsTellTruth
<1> DEFINE Truthful == /\ report'.listed   = Active' \ Active
                   /\ report'.delisted = Active \ Active'
<1>1. ASSUME Inv, [Next]_vars PROVE [Truthful]_vars
  <2>1. ASSUME NEW t \in Targets, NEW authoritative \in BOOLEAN,
               NEW page \in Pages(t), Apply(t, page, authoritative)
        PROVE  Truthful
    <3>1. DOMAIN page \subseteq Of(t)
      BY PageType
    <3>2. /\ report'.listed = DOMAIN page \ Previous(t)
          /\ report'.delisted = Previous(t) \ DOMAIN page
      BY <2>1 DEF Apply
    <3>3. Previous(t) = Of(t) \cap Active /\ Active' = (Active \ Of(t)) \cup DOMAIN page
      BY <1>1, <2>1, ApplyRows
    <3> QED
      BY <3>1, <3>2, <3>3
  <2>2. ASSUME NEW t \in Targets, Retire(t)
        PROVE  Truthful
    <3>1. report'.listed = {} /\ report'.delisted = Of(t) \cap Active
      BY <2>2 DEF Retire, Of, Active
    <3>2. Active' = Active \ Of(t)
      BY <1>1, <2>2, RetireRows
    <3> QED
      BY <3>1, <3>2
  <2>3. ASSUME NEW u \in Users, Archive(u)
        PROVE  Truthful
    BY <2>3 DEF Archive, Silent, Active
  <2>4. CASE UNCHANGED vars
    BY <2>4
  <2> QED
    BY <1>1, <2>1, <2>2, <2>3, <2>4 DEF Next
<1>2. Spec => []Inv
  BY Invariant
<1> QED
  BY <1>1, <1>2, PTL DEF Spec, ReportsTellTruth

-----------------------------------------------------------------------------
(***************************************************************************)
(* The targets.                                                            *)
(***************************************************************************)

\* What is seen of a target depends on the states of its rows.
LEMMA SeenAs ==
  ASSUME NEW t \in Targets
  PROVE  /\ ConfigsOf(t) = "active" <=> \E c \in Of(t) : row[c].state = "active"
         /\ ConfigsOf(t) = "delisted" <=> /\ \A c \in Of(t) : row[c].state # "active"
                                          /\ \E c \in Of(t) : row[c].state = "delisted"
         /\ ConfigsOf(t) \in {"none", "active", "delisted"}
  BY DEF ConfigsOf, Of, Active, DelistedRows

LEMMA SeenAsNext ==
  ASSUME NEW t \in Targets
  PROVE  /\ ConfigsOf(t)' = "active" <=> \E c \in Of(t) : row'[c].state = "active"
         /\ ConfigsOf(t)' = "delisted" <=> /\ \A c \in Of(t) : row'[c].state # "active"
                                           /\ \E c \in Of(t) : row'[c].state = "delisted"
         /\ ConfigsOf(t)' \in {"none", "active", "delisted"}
  BY DEF ConfigsOf, Of, Active, DelistedRows

\* Rows that stay leave their target as it was seen.
LEMMA SeenStays ==
  ASSUME NEW t \in Targets, \A c \in Of(t) : row'[c].state = row[c].state
  PROVE  ConfigsOf(t)' = ConfigsOf(t)
  BY SeenAs, SeenAsNext

\* A target whose active rows are all delisted is seen as ended.
LEMMA SeenEnds ==
  ASSUME NEW t \in Targets,
         \A c \in Of(t) : row'[c].state = IF row[c].state = "active" THEN "delisted" ELSE row[c].state
  PROVE  ConfigsOf(t)' = TargetView!Ended(ConfigsOf(t))
  BY SeenAs, SeenAsNext DEF TargetView!Ended

LEMMA ApplySeen ==
  ASSUME Inv, NEW t \in Targets, NEW page \in Pages(t), NEW authoritative \in BOOLEAN,
         Apply(t, page, authoritative)
  PROVE  TargetView!Page(t)
<1>1. DOMAIN page \subseteq Of(t)
  BY PageType
<1>2. ASSUME NEW s \in Targets \ {t} PROVE ConfigsOf(s)' = ConfigsOf(s)
  <2>1. \A c \in Of(s) : c \in Configs \ Of(t)
    BY DEF Of
  <2>2. \A c \in Of(s) : row'[c].state = row[c].state
    BY <2>1, ApplyRows
  <2> QED
    BY <2>2, SeenStays
<1>3. CASE DOMAIN page # {}
  <2>1. \E c \in Of(t) : row'[c].state = "active"
    <3>1. PICK c \in DOMAIN page : TRUE
      BY <1>3
    <3>2. row'[c] = [state |-> "active", event |-> EventColumn(row[c], page[c]), stock |-> page[c]]
      BY ApplyRows
    <3> QED
      BY <1>1, <3>2
  <2>2. ConfigsOf(t)' = "active" /\ Of(t) # {}
    BY <2>1, SeenAsNext
  <2>3. Seen' = [Seen EXCEPT ![t] = "active"]
    BY <1>2, <2>2 DEF Seen
  <2> QED
    BY <2>2, <2>3 DEF TargetView!Page
<1>4. CASE DOMAIN page = {}
  <2>1. ASSUME NEW c \in Of(t)
        PROVE  row'[c].state = IF row[c].state = "active" THEN "delisted" ELSE row[c].state
    <3>1. Previous(t) = Of(t) \cap Active /\ c \in Configs
      BY ApplyRows DEF Of
    <3>2. row'[c] = IF c \in Previous(t) \ DOMAIN page THEN Delisted(row[c]) ELSE row[c]
      BY <1>4, <3>1 DEF Apply
    <3> QED
      BY <1>4, <3>1, <3>2 DEF Active, Delisted
  <2>2. ConfigsOf(t)' = TargetView!Ended(ConfigsOf(t))
    BY <2>1, SeenEnds
  <2>3. Seen' = [Seen EXCEPT ![t] = TargetView!Ended(@)]
    BY <1>2, <2>2 DEF Seen
  <2> QED
    BY <2>3 DEF TargetView!Page
<1> QED
  BY <1>3, <1>4

LEMMA RetireSeen ==
  ASSUME Inv, NEW t \in Targets, Retire(t)
  PROVE  TargetView!Retire({t})
<1>1. \A c \in Configs :
        row'[c] = IF c \in Of(t) /\ row[c].state = "active" THEN Retired(row[c]) ELSE row[c]
  BY DEF Retire
<1>2. ASSUME NEW s \in Targets \ {t} PROVE ConfigsOf(s)' = ConfigsOf(s)
  <2>1. \A c \in Of(s) : c \in Configs /\ c \notin Of(t)
    BY DEF Of
  <2> QED
    BY <1>1, <2>1, SeenStays
<1>3. ConfigsOf(t)' = TargetView!Ended(ConfigsOf(t))
  <2>1. ASSUME NEW c \in Of(t)
        PROVE  row'[c].state = IF row[c].state = "active" THEN "delisted" ELSE row[c].state
    <3>1. row'[c] = IF row[c].state = "active" THEN Retired(row[c]) ELSE row[c]
      BY <1>1 DEF Of
    <3>2. Retired(row[c]).state = "delisted"
      BY DEF Retired
    <3> QED
      BY <3>1, <3>2
  <2> QED
    BY <2>1, SeenEnds
<1> QED
  BY <1>2, <1>3 DEF TargetView!Retire, Seen

\* Whatever pages, retirements and archives do to rows, marks, caches and
\* archives, of a target's configs one sees what TargetConfigs promises: the
\* list of targets is right to know no more of them (list_known_catalog_targets).
THEOREM KeepsTargetConfigs == Spec => ImplementsTargetConfigs
<1>1. Init => TargetView!Init
  <2> SUFFICES ASSUME Init, NEW t \in Targets PROVE ConfigsOf(t) \in {"none", "active"}
    BY DEF TargetView!Init, Seen
  <2>1. \A c \in Configs : row[c].state \in {"absent", "active"}
    <3>1. ASSUME NEW c \in Configs PROVE row[c].state \in {"absent", "active"}
      <4>1. row[c] = Absent \/ row[c] \in [state : {"active"}, event : {TRUE}, stock : BOOLEAN]
        BY DEF Init
      <4>2. Absent.state = "absent"
        BY DEF Absent
      <4> QED
        BY <4>1, <4>2
    <3> QED
      BY <3>1
  <2>2. \A c \in Of(t) : row[c].state # "delisted"
    BY <2>1 DEF Of
  <2> QED
    BY <2>2, SeenAs
<1>2. Inv /\ [Next]_vars => [TargetView!Next]_Seen
  <2> SUFFICES ASSUME Inv, [Next]_vars PROVE TargetView!Next \/ UNCHANGED Seen
    OBVIOUS
  <2>1. ASSUME NEW t \in Targets, NEW authoritative \in BOOLEAN,
               NEW page \in Pages(t), Apply(t, page, authoritative)
        PROVE  TargetView!Next
    BY <2>1, ApplySeen DEF TargetView!Next
  <2>2. ASSUME NEW t \in Targets, Retire(t) PROVE TargetView!Next
    <3>1. {t} \in SUBSET Targets /\ TargetView!Retire({t})
      BY <2>2, RetireSeen
    <3> QED
      BY <3>1 DEF TargetView!Next
  <2>3. CASE (\E u \in Users : Archive(u)) \/ UNCHANGED vars
    <3>1. row' = row
      BY <2>3 DEF Archive, vars
    <3>2. \A t \in Targets : ConfigsOf(t)' = ConfigsOf(t)
      BY <3>1, SeenStays
    <3> QED
      BY <3>2 DEF Seen
  <2> QED
    BY <2>1, <2>2, <2>3 DEF Next
<1> QED
  BY <1>1, <1>2, Invariant, PTL DEF Spec, ImplementsTargetConfigs, TargetView!Spec
=============================================================================
