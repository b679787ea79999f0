------------------------ MODULE CatalogTopologyProofs ------------------------
(***************************************************************************)
(* Proofs about the list of targets, for every site, every set of countries *)
(* and regions and every number of faults.                                 *)
(*                                                                         *)
(* They rest on what the history of an operation, whether it was alone,    *)
(* says of the others: while it is, nobody else is past its reading of the *)
(* site, so the served list is the one it copied and the stored list, once *)
(* it has stored it, its own.                                              *)
(***************************************************************************)
EXTENDS CatalogTopology, TLAPS

-----------------------------------------------------------------------------
(***************************************************************************)
(* Types.                                                                  *)
(***************************************************************************)

OpType == [phase : Phases, kind : {"refresh", "probe"}, known : BOOLEAN, copy : Lists, fresh : Lists,
           kept : SUBSET Regions, before : SUBSET Targets, gone : SUBSET Targets,
           todo : SUBSET Targets, alone : BOOLEAN]

JobType == [phase : {"none", "start", "topology", "pages"}, tasks : SUBSET Targets]

\* The empty list is one, and so are two lists together.
LEMMA ListsJoin ==
  /\ {} \in Lists
  /\ \A l, m \in Lists : l \cup m \in Lists /\ l \in SUBSET Targets /\ l \ m \in SUBSET Targets
  BY DEF Lists

\* What a refresh makes of a reading is a list: the regions it keeps are of
\* countries it has read.
LEMMA PreservedList ==
  ASSUME NEW reading \in Readings, Sensible(reading), NEW previous \in Lists
  PROVE  Preserved(reading, previous) \in Lists /\ Kept(reading, previous) \in SUBSET Regions
<1>1. PICK l \in SiteLists, u \in SUBSET Roots :
        reading = [countries |-> l \cap Roots, unread |-> u, regions |-> {r \in l \cap Regions : Parent[r] \notin u}]
  BY DEF Readings
<1>2. /\ reading.countries = l \cap Roots /\ reading.unread = u
      /\ reading.regions = {r \in l \cap Regions : Parent[r] \notin u} /\ u \subseteq l \cap Roots
  BY <1>1 DEF Sensible
<1>3. \A r \in l \cap Regions : Parent[r] \in l /\ Parent[r] \in Roots
  BY TopologyAssumption
<1>4. Kept(reading, previous) = {r \in previous \cap Regions : Parent[r] \in u}
  BY <1>2 DEF Kept
<1>5. Preserved(reading, previous) = (l \cap Roots) \cup {r \in l \cap Regions : Parent[r] \notin u}
                                     \cup {r \in previous \cap Regions : Parent[r] \in u}
  BY <1>2, <1>4 DEF Preserved
<1>6. Preserved(reading, previous) \subseteq Targets
  BY <1>5 DEF Targets
<1>7. \A r \in Preserved(reading, previous) \cap Regions : Parent[r] \in Preserved(reading, previous)
  BY <1>2, <1>3, <1>5, TopologyAssumption
<1> QED
  BY <1>4, <1>6, <1>7 DEF Lists

LEMMA NoOpType == NoOp \in OpType /\ NoJob \in JobType
<1>1. {} \in Lists
  BY ListsJoin
<1> QED
  BY <1>1 DEF NoOp, OpType, Phases, NoJob, JobType

LEMMA EndedType ==
  ASSUME TypeOK, NEW a \in Actors, NEW ok \in BOOLEAN, Ended(a, ok)
  PROVE  op' \in [Actors -> OpType] /\ job' \in JobType
<1>1. op \in [Actors -> OpType] /\ job \in JobType /\ listed \in Lists /\ op[a].fresh \in Lists
  BY DEF TypeOK, OpType, JobType
<1>2. op' \in [Actors -> OpType]
  BY <1>1, NoOpType DEF Ended
<1>3. listed \cup Live \cup op[a].fresh \in SUBSET Targets
  BY <1>1 DEF Live, Lists
<1>4. [phase |-> "pages", tasks |-> listed \cup Live \cup op[a].fresh] \in JobType
  BY <1>3 DEF JobType
<1> QED
  BY <1>1, <1>2, <1>4, NoOpType DEF Ended

\* The rest of the types.
StateOK ==
  /\ listed \in Lists /\ snap \in Lists
  /\ configs \in [Targets -> ConfigStates]
  /\ polling \in {"going", "hung", "ended"}
  /\ faults \in 0 .. MaxFaults
  /\ told \in SUBSET Targets

LEMMA TypeParts == TypeOK <=> StateOK /\ op \in [Actors -> OpType] /\ job \in JobType
  BY DEF TypeOK, StateOK, OpType, JobType

LEMMA FaultsType == 0 \in 0 .. MaxFaults /\ \A n \in 0 .. MaxFaults : n < MaxFaults => n + 1 \in 0 .. MaxFaults
<1>1. MaxFaults \in Nat
  BY TopologyAssumption
<1> QED
  BY <1>1

LEMMA AppliedType ==
  ASSUME StateOK, NEW t \in Targets, Applied(t)
  PROVE  configs' \in [Targets -> ConfigStates]
  BY DEF StateOK, Applied, ConfigStates

LEMMA FetchOkType ==
  ASSUME TypeOK, NEW a \in Actors, FetchOk(a)
  PROVE  op' \in [Actors -> OpType]
<1>0. snap \in Lists /\ op \in [Actors -> OpType]
  BY DEF TypeOK, OpType
<1>1. PICK reading \in Readings :
       /\ Sensible(reading) /\ ~Refused(a, reading)
       /\ op' = [b \in Actors |->
            IF b = a
            THEN [op[a] EXCEPT !.phase = "survey", !.copy = snap, !.kept = IF op[a].kind = "probe" THEN {} ELSE Kept(reading, snap),
                    !.fresh = IF op[a].kind = "probe" THEN Merged(snap, Preserved(reading, snap))
                              ELSE Preserved(reading, snap),
                    !.alone = \A c \in Others(a) : op[c].phase \in {"idle", "fetch"}]
            ELSE [op[b] EXCEPT !.alone = @ /\ op[b].phase \in {"idle", "fetch"}]]
  BY DEF FetchOk
<1> DEFINE kept == IF op[a].kind = "probe" THEN {} ELSE Kept(reading, snap)
           fresh == IF op[a].kind = "probe" THEN Merged(snap, Preserved(reading, snap)) ELSE Preserved(reading, snap)
           alone == \A c \in Others(a) : op[c].phase \in {"idle", "fetch"}
<1>2. kept \in SUBSET Regions /\ fresh \in Lists
  BY <1>0, <1>1, PreservedList, ListsJoin DEF Merged
<1> HIDE DEF kept, fresh
<1>3. alone \in BOOLEAN
  OBVIOUS
<1> HIDE DEF alone
<1>4. op[a] \in OpType
  BY <1>0
<1>5. [op[a] EXCEPT !.phase = "survey", !.copy = snap, !.kept = kept, !.fresh = fresh, !.alone = alone] \in OpType
  BY <1>0, <1>2, <1>3, <1>4 DEF OpType, Phases
<1>6. \A b \in Actors : [op[b] EXCEPT !.alone = op[b].alone /\ op[b].phase \in {"idle", "fetch"}] \in OpType
  BY <1>0 DEF OpType
<1> QED
  BY <1>0, <1>1, <1>5, <1>6 DEF kept, fresh, alone

\* The steps of an operation between its reading and its end.
LEMMA StepType ==
  ASSUME TypeOK, NEW a \in Actors, Survey(a) \/ Store(a) \/ Compare(a) \/ Retire(a)
                                   \/ (\E t \in Targets : Prefetch(a, t)) \/ Notify(a)
  PROVE  op' \in [Actors -> OpType] /\ StateOK'
<1>0. op \in [Actors -> OpType] /\ op[a] \in OpType /\ StateOK /\ listed \in Lists /\ snap \in Lists
      /\ Live \in SUBSET Targets /\ Known \in SUBSET Targets
  BY DEF TypeOK, OpType, StateOK, Live, Known, Lists
<1>1. Added(a) \in SUBSET Targets /\ Removed(a) \in SUBSET Targets
  BY <1>0 DEF Added, Removed, OpType, Lists
<1>2. CASE Survey(a)
  <2>1. (IF op[a].kind = "refresh" THEN Known ELSE {}) \in SUBSET Targets
    BY <1>0
  <2> QED
    BY <1>0, <1>2, <2>1 DEF Survey, OpType, Phases, StateOK
<1>3. CASE Store(a)
  <2>1. (IF op[a].kind = "refresh" THEN {} ELSE Added(a)) \in SUBSET Targets
    BY <1>1
  <2>2. op' \in [Actors -> OpType]
    BY <1>0, <1>3, <2>1 DEF Store, OpType, Phases
  <2>3. StateOK'
    BY <1>0, <1>3 DEF Store, StateOK, OpType
  <2> QED
    BY <2>2, <2>3
<1>4. CASE Compare(a)
  <2>1. op[a].before \ listed \in SUBSET Targets
    BY <1>0 DEF OpType
  <2> QED
    BY <1>0, <1>4, <2>1 DEF Compare, OpType, Phases, StateOK
<1>5. CASE Retire(a)
  <2>1. op' \in [Actors -> OpType]
    BY <1>0, <1>1, <1>5 DEF Retire, OpType, Phases
  <2>2. StateOK'
    BY <1>0, <1>5 DEF Retire, StateOK, ConfigStates
  <2> QED
    BY <2>1, <2>2
<1>6. CASE \E t \in Targets : Prefetch(a, t)
  <2>1. PICK t \in Targets : Prefetch(a, t)
    BY <1>6
  <2>2. op[a].todo \ {t} \in SUBSET Targets
    BY <1>0 DEF OpType
  <2>3. op' \in [Actors -> OpType]
    BY <1>0, <2>1, <2>2 DEF Prefetch, OpType
  <2>4. configs' \in [Targets -> ConfigStates]
    BY <1>0, <2>1, AppliedType DEF Prefetch, StateOK
  <2> QED
    BY <1>0, <2>1, <2>3, <2>4 DEF Prefetch, StateOK
<1>7. CASE Notify(a)
  <2>1. op' \in [Actors -> OpType]
    BY <1>0, <1>7 DEF Notify, OpType, Phases
  <2>2. told' \in SUBSET Targets
    BY <1>0, <1>1, <1>7 DEF Notify, StateOK
  <2> QED
    BY <1>0, <1>7, <2>1, <2>2 DEF Notify, StateOK
<1> QED
  BY <1>2, <1>3, <1>4, <1>5, <1>6, <1>7

LEMMA InitType == Init => TypeOK
<1> SUFFICES ASSUME Init PROVE TypeOK
  OBVIOUS
<1>1. StateOK
  BY ListsJoin, FaultsType DEF Init, StateOK, ConfigStates
<1> QED
  BY <1>1, NoOpType, TypeParts DEF Init

LEMMA NextType == TypeOK /\ [Next]_vars => TypeOK'
<1> SUFFICES ASSUME TypeOK, [Next]_vars
             PROVE  StateOK' /\ op' \in [Actors -> OpType] /\ job' \in JobType
  BY DEF TypeOK, StateOK, OpType, JobType
<1>0. StateOK /\ op \in [Actors -> OpType] /\ job \in JobType
  BY TypeParts
<1>1. ASSUME UNCHANGED <<listed, snap, configs, polling, faults, told>> PROVE StateOK'
  BY <1>0, <1>1 DEF StateOK
<1>2. ASSUME NEW kind \in {"refresh", "probe"}, Start(kind)
      PROVE  StateOK' /\ op' \in [Actors -> OpType] /\ job' \in JobType
  <2> DEFINE known == listed # {} \/ Live # {}
  <2>1. known \in BOOLEAN /\ op["poller"] \in OpType
    BY <1>0 DEF Actors
  <2>2. op' \in [Actors -> OpType]
    <3>1. op' = [op EXCEPT !["poller"] = [op["poller"] EXCEPT !.phase = "fetch", !.kind = kind, !.known = known]]
      BY <1>0, <1>2 DEF Start, Actors
    <3> HIDE DEF known
    <3>2. [op["poller"] EXCEPT !.phase = "fetch", !.kind = kind, !.known = known] \in OpType
      BY <2>1 DEF OpType, Phases
    <3> QED
      BY <1>0, <3>1, <3>2
  <2> QED
    BY <1>0, <1>1, <1>2, <2>2 DEF Start
<1>3. ASSUME NEW a \in Actors, FetchFails(a) \/ FetchRefused(a)
      PROVE  StateOK' /\ op' \in [Actors -> OpType] /\ job' \in JobType
  BY <1>1, <1>3, EndedType DEF FetchFails, FetchRefused
<1>4. ASSUME NEW a \in Actors, FetchOk(a)
      PROVE  StateOK' /\ op' \in [Actors -> OpType] /\ job' \in JobType
  <2>1. UNCHANGED <<listed, snap, configs, polling, faults, told, job>>
    BY <1>4 DEF FetchOk
  <2> QED
    BY <1>0, <1>1, <1>4, <2>1, FetchOkType
<1>5. ASSUME NEW a \in Actors, Survey(a) \/ Store(a) \/ Compare(a) \/ Retire(a)
                               \/ (\E t \in Targets : Prefetch(a, t)) \/ Notify(a)
      PROVE  StateOK' /\ op' \in [Actors -> OpType] /\ job' \in JobType
  <2>1. UNCHANGED job
    BY <1>5 DEF Survey, Store, Compare, Retire, Prefetch, Notify
  <2> QED
    BY <1>0, <1>5, <2>1, StepType
<1>6. ASSUME NEW a \in Actors, Show(a)
      PROVE  StateOK' /\ op' \in [Actors -> OpType] /\ job' \in JobType
  <2>1. op[a].fresh \in Lists
    BY <1>0 DEF OpType
  <2>2. StateOK'
    BY <1>0, <1>6, <2>1 DEF Show, Served, StateOK, Lists
  <2> QED
    BY <1>6, <2>2, EndedType DEF Show
<1>7. ASSUME NEW a \in Actors, Fails(a)
      PROVE  StateOK' /\ op' \in [Actors -> OpType] /\ job' \in JobType
  <2>1. StateOK'
    BY <1>0, <1>7, FaultsType DEF Fails, StateOK
  <2> QED
    BY <1>7, <2>1, EndedType DEF Fails
<1>8. ASSUME NEW t \in Targets, Page(t) \/ JobRuns(t)
      PROVE  StateOK' /\ op' \in [Actors -> OpType] /\ job' \in JobType
  <2>1. configs' \in [Targets -> ConfigStates]
    BY <1>0, <1>8, AppliedType DEF Page, JobRuns, StateOK
  <2>2. StateOK' /\ op' \in [Actors -> OpType]
    BY <1>0, <1>8, <2>1 DEF Page, JobRuns, StateOK
  <2>3. job' \in JobType
    <3>1. [job EXCEPT !.tasks = @ \ {t}] \in JobType
      BY <1>0 DEF JobType
    <3> QED
      BY <1>0, <1>8, <3>1, NoOpType DEF Page, JobRuns
  <2> QED
    BY <2>2, <2>3
<1>9. CASE Trigger \/ JobSurveys \/ JobDone
  <2>1. StateOK'
    BY <1>1, <1>9 DEF Trigger, JobSurveys, JobDone
  <2>2. op' \in [Actors -> OpType]
    BY <1>0, <1>9 DEF Trigger, JobSurveys, JobDone, OpType, Phases
  <2>3. job' \in JobType
    <3>1. Known \in SUBSET Targets
      BY <1>0 DEF StateOK, Known, Live, Lists
    <3>2. NoJob \in JobType /\ [NoJob EXCEPT !.phase = "start"] \in JobType
      <4>1. \A j \in JobType : [j EXCEPT !.phase = "start"] \in JobType
        BY DEF JobType
      <4> QED
        BY <4>1, NoOpType
    <3>3. /\ [job EXCEPT !.phase = "pages", !.tasks = Known] \in JobType
          /\ [job EXCEPT !.phase = "topology"] \in JobType
      BY <1>0, <3>1 DEF JobType
    <3> QED
      BY <1>9, <3>2, <3>3 DEF Trigger, JobSurveys, JobDone
  <2> QED
    BY <2>1, <2>2, <2>3
<1>10. CASE PollerEnds \/ PollerHangs
  BY <1>0, <1>10, FaultsType DEF PollerEnds, PollerHangs, StateOK
<1>11. CASE Restart
  <2>1. StateOK'
    BY <1>0, <1>11, FaultsType DEF Restart, StateOK
  <2> QED
    BY <1>11, <2>1, NoOpType DEF Restart
<1>12. CASE UNCHANGED vars
  BY <1>0, <1>1, <1>12 DEF vars
<1> QED
  BY <1>2, <1>3, <1>4, <1>5, <1>6, <1>7, <1>8, <1>9, <1>10, <1>11, <1>12 DEF Next, Step, JobStep

\* The stored and the served list show no region without its country, whatever
\* the site shows and however refreshes, probes, faults and restarts mix.
THEOREM Typed == Spec => []TypeOK
  BY InitType, NextType, PTL DEF Spec

-----------------------------------------------------------------------------
(***************************************************************************)
(* What an operation that is alone can rely on.                            *)
(***************************************************************************)

\* The operation has read the site and is not over.
PastReading(a) == op[a].phase \notin {"idle", "fetch"}

\* The job works at the list only in a phase of its own.
JobWaits == job.phase # "topology" => op["job"].phase = "idle"

\* Who is alone works on the served list, and on the stored list once it is its.
Lone ==
  \A a \in Actors : PastReading(a) /\ op[a].alone =>
    /\ \A b \in Others(a) : ~PastReading(b)
    /\ op[a].copy = snap
    /\ op[a].phase \in {"compare", "retire"} => listed = op[a].fresh
    /\ op[a].phase = "retire" => op[a].gone \cap listed = {}

\* What the list got from its reading is in it.
ReadingKept ==
  \A a \in Actors : PastReading(a) =>
    /\ op[a].kept \subseteq op[a].fresh
    /\ op[a].known => op[a].fresh # {}
    /\ op[a].kind = "probe" => op[a].copy \subseteq op[a].fresh

\* What was announced last as new is served, or about to be.
ToldServed ==
  /\ \A t \in told : t \in snap \/ \E a \in Actors : op[a].phase = "show" /\ t \in op[a].fresh
  /\ \A a \in Actors : op[a].phase = "show" /\ op[a].alone => told \subseteq op[a].fresh

Inv == TypeOK /\ JobWaits /\ Lone /\ ReadingKept /\ ToldServed

\* An operation that ends takes nothing with it that the others rely on.
LEMMA EndedInv ==
  ASSUME Inv, NEW a \in Actors, NEW ok \in BOOLEAN, Ended(a, ok), op[a].phase # "show",
         UNCHANGED <<listed, snap, told>>
  PROVE  JobWaits' /\ Lone' /\ ReadingKept' /\ ToldServed'
<1>1. /\ DOMAIN op = Actors /\ op'[a] = NoOp
      /\ \A b \in Actors \ {a} : op'[b] = op[b]
  BY DEF Inv, TypeOK, Ended
<1>2. NoOp.phase = "idle"
  BY DEF NoOp
<1>3. JobWaits'
  <2>1. CASE a = "job"
    BY <1>1, <1>2, <2>1 DEF JobWaits, Actors
  <2>2. CASE a # "job"
    BY <1>1, <2>2 DEF Inv, JobWaits, Actors, Ended
  <2> QED
    BY <2>1, <2>2
<1>4. Lone'
  BY <1>1, <1>2 DEF Inv, Lone, PastReading, Others
<1>5. ReadingKept'
  BY <1>1, <1>2 DEF Inv, ReadingKept, PastReading
<1>6. ToldServed'
  BY <1>1, <1>2 DEF Inv, ToldServed
<1> QED
  BY <1>3, <1>4, <1>5, <1>6

LEMMA FetchOkInv ==
  ASSUME Inv, NEW a \in Actors, FetchOk(a)
  PROVE  JobWaits' /\ Lone' /\ ReadingKept' /\ ToldServed'
<1>0. op \in [Actors -> OpType] /\ snap \in Lists /\ op[a].phase = "fetch"
      /\ UNCHANGED <<listed, snap, told, job>>
  BY DEF Inv, TypeOK, OpType, FetchOk
<1>1. PICK reading \in Readings :
       /\ Sensible(reading) /\ ~Refused(a, reading)
       /\ op' = [b \in Actors |->
            IF b = a
            THEN [op[a] EXCEPT !.phase = "survey", !.copy = snap, !.kept = IF op[a].kind = "probe" THEN {} ELSE Kept(reading, snap),
                    !.fresh = IF op[a].kind = "probe" THEN Merged(snap, Preserved(reading, snap))
                              ELSE Preserved(reading, snap),
                    !.alone = \A c \in Others(a) : op[c].phase \in {"idle", "fetch"}]
            ELSE [op[b] EXCEPT !.alone = @ /\ op[b].phase \in {"idle", "fetch"}]]
  BY DEF FetchOk
<1> DEFINE kept == IF op[a].kind = "probe" THEN {} ELSE Kept(reading, snap)
           fresh == IF op[a].kind = "probe" THEN Merged(snap, Preserved(reading, snap)) ELSE Preserved(reading, snap)
           alone == \A c \in Others(a) : op[c].phase \in {"idle", "fetch"}
<1>2. /\ kept \subseteq fresh
      /\ op[a].kind = "probe" => snap \subseteq fresh
      /\ reading.countries \subseteq fresh
  BY DEF Preserved, Merged
<1>3. op[a].known => fresh # {}
  BY <1>1, <1>2 DEF Refused
<1> HIDE DEF kept, fresh
<1>4. alone \in BOOLEAN
  OBVIOUS
<1> HIDE DEF alone
<1>5. op'[a] = [op[a] EXCEPT !.phase = "survey", !.copy = snap, !.kept = kept, !.fresh = fresh, !.alone = alone]
  BY <1>1 DEF kept, fresh, alone
<1>6. /\ op'[a].phase = "survey" /\ op'[a].copy = snap /\ op'[a].kept = kept /\ op'[a].fresh = fresh
      /\ op'[a].alone = alone /\ op'[a].kind = op[a].kind /\ op'[a].known = op[a].known
  BY <1>0, <1>5 DEF OpType
<1>7. \A b \in Actors \ {a} :
        /\ op'[b].phase = op[b].phase /\ op'[b].copy = op[b].copy /\ op'[b].kept = op[b].kept
        /\ op'[b].fresh = op[b].fresh /\ op'[b].kind = op[b].kind /\ op'[b].known = op[b].known
        /\ op'[b].gone = op[b].gone
        /\ op'[b].alone => op[b].alone /\ op[b].phase \in {"idle", "fetch"}
  BY <1>0, <1>1 DEF OpType
<1>8. JobWaits'
  <2>1. CASE a = "job"
    BY <1>0, <2>1 DEF Inv, JobWaits
  <2>2. CASE a # "job"
    BY <1>0, <1>7, <2>2 DEF Inv, JobWaits, Actors
  <2> QED
    BY <2>1, <2>2
<1>9. Lone'
  <2> SUFFICES ASSUME NEW b \in Actors, op'[b].phase \notin {"idle", "fetch"}, op'[b].alone
               PROVE  /\ \A c \in Actors \ {b} : op'[c].phase \in {"idle", "fetch"}
                      /\ op'[b].copy = snap'
                      /\ op'[b].phase \in {"compare", "retire"} => listed' = op'[b].fresh
                      /\ op'[b].phase = "retire" => op'[b].gone \cap listed' = {}
    BY DEF Lone, PastReading, Others
  <2>1. b = a
    BY <1>7
  <2> QED
    BY <1>0, <1>6, <1>7, <2>1 DEF alone, Others
<1>10. ReadingKept'
  BY <1>2, <1>3, <1>6, <1>7 DEF Inv, ReadingKept, PastReading
<1>11. ToldServed'
  BY <1>0, <1>6, <1>7 DEF Inv, ToldServed
<1> QED
  BY <1>8, <1>9, <1>10, <1>11

\* An operation goes on to a phase that is not the last, and the lists stay.
LEMMA AdvanceInv ==
  ASSUME Inv, NEW a \in Actors, NEW o \in OpType, op' = [op EXCEPT ![a] = o],
         PastReading(a), o.phase \notin {"idle", "fetch", "show"}, op[a].phase # "show",
         o.alone = op[a].alone, o.kind = op[a].kind, o.copy = op[a].copy, o.fresh = op[a].fresh,
         o.kept \subseteq o.fresh, o.known => op[a].known, UNCHANGED <<snap, told, job>>,
         op[a].alone => /\ o.phase \in {"compare", "retire"} => listed' = o.fresh
                        /\ o.phase = "retire" => o.gone \cap listed' = {}
  PROVE  JobWaits' /\ Lone' /\ ReadingKept' /\ ToldServed'
<1>1. DOMAIN op = Actors
  BY DEF Inv, TypeOK
<1>2. op'[a] = o /\ \A b \in Actors \ {a} : op'[b] = op[b]
  BY <1>1
<1>3. JobWaits'
  <2>1. CASE a = "job"
    BY <2>1 DEF Inv, JobWaits, PastReading
  <2>2. CASE a # "job"
    BY <1>2, <2>2 DEF Inv, JobWaits, Actors
  <2> QED
    BY <2>1, <2>2
<1>4. Lone'
  <2> SUFFICES ASSUME NEW b \in Actors, op'[b].phase \notin {"idle", "fetch"}, op'[b].alone
               PROVE  /\ \A c \in Actors \ {b} : op'[c].phase \in {"idle", "fetch"}
                      /\ op'[b].copy = snap'
                      /\ op'[b].phase \in {"compare", "retire"} => listed' = op'[b].fresh
                      /\ op'[b].phase = "retire" => op'[b].gone \cap listed' = {}
    BY DEF Lone, PastReading, Others
  <2>1. b = a
    BY <1>2 DEF Inv, Lone, PastReading, Others
  <2> QED
    BY <1>2, <2>1 DEF Inv, Lone, PastReading, Others
<1>5. ReadingKept'
  BY <1>2 DEF Inv, ReadingKept, PastReading
<1>6. ToldServed'
  BY <1>2 DEF Inv, ToldServed
<1> QED
  BY <1>3, <1>4, <1>5, <1>6

LEMMA StepInv ==
  ASSUME Inv, NEW a \in Actors, Survey(a) \/ Store(a) \/ Compare(a) \/ Retire(a) \/ (\E t \in Targets : Prefetch(a, t))
  PROVE  JobWaits' /\ Lone' /\ ReadingKept' /\ ToldServed'
<1>0. op \in [Actors -> OpType] /\ op[a] \in OpType /\ op' \in [Actors -> OpType]
  BY StepType DEF Inv, TypeOK, OpType
<1> DEFINE o == op'[a]
<1>1. o \in OpType /\ UNCHANGED <<snap, told, job>> /\ op[a].phase \notin {"idle", "fetch", "show"} /\ PastReading(a)
  BY <1>0 DEF Survey, Store, Compare, Retire, Prefetch, PastReading
<1>2. op' = [op EXCEPT ![a] = o]
  BY <1>0 DEF Survey, Store, Compare, Retire, Prefetch
<1>3. op[a].kept \subseteq op[a].fresh
  BY <1>1 DEF Inv, ReadingKept
<1>4. CASE Survey(a)
  <2>1. /\ o.phase = "store" /\ o.alone = op[a].alone /\ o.kind = op[a].kind /\ o.copy = op[a].copy
        /\ o.fresh = op[a].fresh /\ o.kept = op[a].kept /\ o.known = op[a].known
    BY <1>0, <1>4 DEF Survey, OpType
  <2> HIDE DEF o
  <2> QED
    BY <1>1, <1>2, <1>3, <2>1, AdvanceInv
<1>5. CASE Store(a)
  <2>1. /\ o.phase \in {"compare", "prefetch"} /\ o.alone = op[a].alone /\ o.kind = op[a].kind /\ o.copy = op[a].copy
        /\ o.fresh = op[a].fresh /\ o.kept = op[a].kept /\ o.known = FALSE /\ listed' = op[a].fresh
    BY <1>0, <1>5 DEF Store, OpType
  <2> HIDE DEF o
  <2> QED
    BY <1>1, <1>2, <1>3, <2>1, AdvanceInv
<1>6. CASE Compare(a)
  <2>1. /\ o.phase = "retire" /\ o.alone = op[a].alone /\ o.kind = op[a].kind /\ o.copy = op[a].copy
        /\ o.fresh = op[a].fresh /\ o.kept = op[a].kept /\ o.known = op[a].known
        /\ o.gone = op[a].before \ listed /\ listed' = listed /\ op[a].phase = "compare"
    BY <1>0, <1>6 DEF Compare, OpType
  <2>2. op[a].alone => listed = op[a].fresh
    BY <1>1, <2>1 DEF Inv, Lone
  <2> HIDE DEF o
  <2> QED
    BY <1>1, <1>2, <1>3, <2>1, <2>2, AdvanceInv
<1>7. CASE Retire(a)
  <2>1. /\ o.phase = "prefetch" /\ o.alone = op[a].alone /\ o.kind = op[a].kind /\ o.copy = op[a].copy
        /\ o.fresh = op[a].fresh /\ o.kept = {} /\ o.known = op[a].known
    BY <1>0, <1>7 DEF Retire, OpType
  <2> HIDE DEF o
  <2> QED
    BY <1>1, <1>2, <2>1, AdvanceInv
<1>8. CASE \E t \in Targets : Prefetch(a, t)
  <2>1. PICK t \in Targets : Prefetch(a, t)
    BY <1>8
  <2>2. /\ o.phase = "prefetch" /\ o.alone = op[a].alone /\ o.kind = op[a].kind /\ o.copy = op[a].copy
        /\ o.fresh = op[a].fresh /\ o.kept = op[a].kept /\ o.known = op[a].known
    BY <1>0, <2>1 DEF Prefetch, OpType
  <2> HIDE DEF o
  <2> QED
    BY <1>1, <1>2, <1>3, <2>2, AdvanceInv
<1> QED
  BY <1>4, <1>5, <1>6, <1>7, <1>8

\* What is announced by one that is alone is what the served list lacks.
LEMMA NotifyInv ==
  ASSUME Inv, NEW a \in Actors, Notify(a)
  PROVE  JobWaits' /\ Lone' /\ ReadingKept' /\ ToldServed'
<1>0. /\ op \in [Actors -> OpType] /\ op[a] \in OpType /\ op[a].phase = "prefetch" /\ PastReading(a)
      /\ UNCHANGED <<listed, snap, job>>
  BY DEF Inv, TypeOK, OpType, Notify, PastReading
<1>1. op' = [op EXCEPT ![a].phase = "show"]
  BY DEF Notify
<1>2. /\ op'[a] = [op[a] EXCEPT !.phase = "show"]
      /\ \A b \in Actors \ {a} : op'[b] = op[b]
  BY <1>0, <1>1
<1>3. /\ op'[a].phase = "show" /\ op'[a].alone = op[a].alone /\ op'[a].kind = op[a].kind /\ op'[a].copy = op[a].copy
      /\ op'[a].fresh = op[a].fresh /\ op'[a].kept = op[a].kept /\ op'[a].known = op[a].known
  BY <1>0, <1>2 DEF OpType
<1>4. JobWaits'
  <2>1. CASE a = "job"
    BY <1>0, <2>1 DEF Inv, JobWaits
  <2>2. CASE a # "job"
    BY <1>0, <1>2, <2>2 DEF Inv, JobWaits, Actors
  <2> QED
    BY <2>1, <2>2
<1>5. Lone'
  BY <1>0, <1>2, <1>3 DEF Inv, Lone, PastReading, Others
<1>6. ReadingKept'
  BY <1>0, <1>2, <1>3 DEF Inv, ReadingKept, PastReading
<1>7. told' = (told \cup (op[a].fresh \ op[a].copy)) \ (IF op[a].kind = "refresh" THEN op[a].copy \ op[a].fresh ELSE {})
  BY DEF Notify, Added, Removed
<1>8. ASSUME NEW t \in told' PROVE t \in snap' \/ \E b \in Actors : op'[b].phase = "show" /\ t \in op'[b].fresh
  <2>1. CASE t \in op[a].fresh
    BY <1>3, <2>1
  <2>2. CASE t \notin op[a].fresh
    <3>1. t \in told
      BY <1>7, <2>2
    <3>2. t \in snap \/ \E b \in Actors : op[b].phase = "show" /\ t \in op[b].fresh
      BY <3>1 DEF Inv, ToldServed
    <3> QED
      BY <1>0, <1>2, <2>2, <3>2
  <2> QED
    BY <2>1, <2>2
<1>9. ASSUME op[a].alone PROVE told' \subseteq op[a].fresh
  <2>1. told \subseteq snap /\ op[a].copy = snap
    BY <1>0, <1>9 DEF Inv, ToldServed, Lone, PastReading, Others
  <2>2. op[a].kind = "probe" => op[a].copy \subseteq op[a].fresh
    BY <1>0 DEF Inv, ReadingKept
  <2>3. op[a].kind \in {"refresh", "probe"}
    BY <1>0 DEF OpType
  <2> QED
    BY <1>7, <2>1, <2>2, <2>3
<1>10. \A b \in Actors \ {a} : op[b].phase = "show" => ~op[b].alone
  BY <1>0 DEF Inv, Lone, PastReading, Others
<1>11. ToldServed'
  BY <1>2, <1>3, <1>8, <1>9, <1>10 DEF ToldServed
<1> QED
  BY <1>4, <1>5, <1>6, <1>11

LEMMA ShowInv ==
  ASSUME Inv, NEW a \in Actors, Show(a)
  PROVE  JobWaits' /\ Lone' /\ ReadingKept' /\ ToldServed'
<1>1. /\ DOMAIN op = Actors /\ op'[a] = NoOp /\ op[a].phase = "show" /\ snap' = op[a].fresh /\ listed' = listed
      /\ \A b \in Actors \ {a} : op'[b] = op[b]
      /\ told' = IF op[a].alone THEN told ELSE told \cap op[a].fresh
  BY DEF Inv, TypeOK, Show, Served, Ended
<1>2. NoOp.phase = "idle"
  BY DEF NoOp
<1>3. JobWaits'
  <2>1. CASE a = "job"
    BY <1>1, <1>2, <2>1 DEF JobWaits, Actors
  <2>2. CASE a # "job"
    BY <1>1, <2>2 DEF Inv, JobWaits, Actors, Show, Ended
  <2> QED
    BY <2>1, <2>2
<1>4. \A b \in Actors \ {a} : PastReading(b) => ~op[b].alone
  BY <1>1 DEF Inv, Lone, PastReading, Others
<1>5. Lone'
  BY <1>1, <1>2, <1>4 DEF Lone, PastReading
<1>6. ReadingKept'
  BY <1>1, <1>2 DEF Inv, ReadingKept, PastReading
<1>7. told' \subseteq snap'
  BY <1>1 DEF Inv, ToldServed
<1>8. ToldServed'
  BY <1>1, <1>2, <1>4, <1>7 DEF ToldServed, PastReading
<1> QED
  BY <1>3, <1>5, <1>6, <1>8

LEMMA InitInv == Init => Inv
<1> SUFFICES ASSUME Init PROVE JobWaits /\ Lone /\ ReadingKept /\ ToldServed
  BY InitType DEF Inv
<1>1. \A a \in Actors : op[a] = NoOp /\ NoOp.phase = "idle"
  BY DEF Init, NoOp
<1> QED
  BY <1>1 DEF Init, JobWaits, Lone, ReadingKept, ToldServed, PastReading, Actors

LEMMA NextInv == Inv /\ [Next]_vars => Inv'
<1> SUFFICES ASSUME Inv, [Next]_vars PROVE JobWaits' /\ Lone' /\ ReadingKept' /\ ToldServed'
  BY NextType DEF Inv
<1>0. op \in [Actors -> OpType]
  BY DEF Inv, TypeOK, OpType
<1>1. ASSUME UNCHANGED <<listed, snap, told, op>>, job'.phase # "topology" => job.phase # "topology"
      PROVE  JobWaits' /\ Lone' /\ ReadingKept' /\ ToldServed'
  BY <1>1 DEF Inv, JobWaits, Lone, ReadingKept, ToldServed, PastReading
<1>2. ASSUME NEW kind \in {"refresh", "probe"}, Start(kind)
      PROVE  JobWaits' /\ Lone' /\ ReadingKept' /\ ToldServed'
  <2>1. /\ op["poller"].phase = "idle" /\ op'["poller"].phase = "fetch"
        /\ \A b \in Actors \ {"poller"} : op'[b] = op[b]
        /\ UNCHANGED <<listed, snap, told, job>>
    BY <1>0, <1>2 DEF Start, NoOp, Actors, OpType
  <2>2. JobWaits'
    BY <2>1 DEF Inv, JobWaits, Actors
  <2>3. Lone' /\ ReadingKept'
    BY <2>1 DEF Inv, Lone, ReadingKept, PastReading, Others
  <2>4. ToldServed'
    BY <2>1 DEF Inv, ToldServed
  <2> QED
    BY <2>2, <2>3, <2>4
<1>3. ASSUME NEW a \in Actors, FetchFails(a) \/ FetchRefused(a) \/ Fails(a)
      PROVE  JobWaits' /\ Lone' /\ ReadingKept' /\ ToldServed'
  <2>1. Ended(a, FALSE) /\ op[a].phase # "show" /\ UNCHANGED <<listed, snap, told>>
    BY <1>3 DEF FetchFails, FetchRefused, Fails
  <2> QED
    BY <2>1, EndedInv
<1>4. ASSUME NEW a \in Actors, FetchOk(a) \/ Step(a)
      PROVE  JobWaits' /\ Lone' /\ ReadingKept' /\ ToldServed'
  BY <1>4, FetchOkInv, StepInv, NotifyInv, ShowInv DEF Step
<1>5. CASE Trigger \/ JobDone \/ PollerEnds \/ PollerHangs \/ \E t \in Targets : Page(t) \/ JobRuns(t)
  <2>1. UNCHANGED <<listed, snap, told, op>> /\ (job'.phase # "topology" => job.phase # "topology")
    BY <1>5 DEF Trigger, JobDone, PollerEnds, PollerHangs, Page, JobRuns, NoJob
  <2> QED
    BY <1>1, <2>1
<1>6. CASE JobSurveys
  <2>1. CASE Known # {}
    <3>1. UNCHANGED <<listed, snap, told, op>> /\ job.phase # "topology"
      BY <1>6, <2>1 DEF JobSurveys
    <3> QED
      BY <1>1, <3>1
  <2>2. CASE Known = {}
    <3>1. /\ job' = [job EXCEPT !.phase = "topology"] /\ job.phase = "start"
          /\ op' = [op EXCEPT !["job"].phase = "fetch"]
          /\ UNCHANGED <<listed, snap, told>>
      BY <1>6, <2>2 DEF JobSurveys
    <3>2. job'.phase = "topology"
      BY <3>1 DEF Inv, TypeOK
    <3>3. /\ op["job"].phase = "idle" /\ op'["job"].phase = "fetch"
          /\ \A b \in Actors \ {"job"} : op'[b] = op[b]
      BY <1>0, <3>1 DEF Inv, JobWaits, Actors, OpType
    <3>4. JobWaits'
      BY <3>2 DEF JobWaits
    <3>5. Lone' /\ ReadingKept'
      BY <3>1, <3>3 DEF Inv, Lone, ReadingKept, PastReading, Others
    <3>6. ToldServed'
      BY <3>1, <3>3 DEF Inv, ToldServed
    <3> QED
      BY <3>4, <3>5, <3>6
  <2> QED
    BY <2>1, <2>2
<1>7. CASE Restart
  <2>1. \A a \in Actors : op'[a] = NoOp /\ NoOp.phase = "idle"
    BY <1>7 DEF Restart, NoOp
  <2>2. told' \subseteq snap'
    BY <1>7 DEF Restart
  <2> QED
    BY <2>1, <2>2 DEF JobWaits, Lone, ReadingKept, ToldServed, PastReading, Actors
<1>8. CASE UNCHANGED vars
  BY <1>1, <1>8 DEF vars
<1> QED
  BY <1>2, <1>3, <1>4, <1>5, <1>6, <1>7, <1>8 DEF Next, JobStep

LEMMA Invariance == Spec => []Inv
  BY InitInv, NextInv, PTL DEF Spec

-----------------------------------------------------------------------------
(***************************************************************************)
(* What the steps may not do.                                              *)
(***************************************************************************)

\* The configs a refresh retires are of targets that are off the stored list,
\* and never of a region whose country's page said nothing, if no other
\* operation ran at the same time.
THEOREM Retires == Spec => RetiresOnlyVanished
<1>1. Inv /\ [Next]_vars =>
        [\A a \in Actors : Retire(a) /\ op[a].alone =>
           \A t \in Targets : configs[t] # configs'[t] =>
             /\ t \notin listed
             /\ t \notin op[a].kept]_vars
  <2> SUFFICES ASSUME Inv, NEW a \in Actors, Retire(a), op[a].alone, NEW t \in Targets, configs[t] # configs'[t]
               PROVE  t \notin listed /\ t \notin op[a].kept
    OBVIOUS
  <2>1. op[a].phase = "retire" /\ t \in op[a].gone
    BY DEF Retire, Inv, TypeOK
  <2>2. listed = op[a].fresh /\ op[a].gone \cap listed = {}
    BY <2>1 DEF Inv, Lone, PastReading
  <2>3. op[a].kept \subseteq op[a].fresh
    BY <2>1 DEF Inv, ReadingKept, PastReading
  <2> QED
    BY <2>1, <2>2, <2>3
<1> QED
  BY <1>1, Invariance, PTL DEF Spec, RetiresOnlyVanished

\* A stored list is emptied only by an operation that began when nothing was
\* known.
THEOREM StaysKnown == Spec => NeverWiped
<1>1. Inv /\ [Next]_vars =>
        [listed # {} /\ listed' = {} => \E a \in Actors : op[a].phase = "store" /\ ~op[a].known]_vars
  <2> SUFFICES ASSUME Inv, Next, listed # {}, listed' = {}
               PROVE  \E a \in Actors : op[a].phase = "store" /\ ~op[a].known
    OBVIOUS
  <2>1. \E a \in Actors : Store(a)
    <3>1. ASSUME NEW a \in Actors, FetchFails(a) \/ FetchRefused(a) \/ FetchOk(a) \/ Fails(a) \/ Survey(a) \/ Compare(a)
                                   \/ Retire(a) \/ (\E t \in Targets : Prefetch(a, t)) \/ Notify(a) \/ Show(a)
          PROVE  FALSE
      BY <3>1 DEF FetchFails, FetchRefused, FetchOk, Fails, Survey, Compare, Retire, Prefetch, Notify, Show
    <3>2. ASSUME (\E kind \in {"refresh", "probe"} : Start(kind)) \/ Trigger \/ JobStep \/ PollerEnds \/ PollerHangs \/ Restart
                 \/ \E t \in Targets : Page(t)
          PROVE  FALSE
      BY <3>2 DEF Start, Trigger, JobStep, JobSurveys, JobRuns, JobDone, PollerEnds, PollerHangs, Restart, Page
    <3> QED
      BY <3>1, <3>2 DEF Next, Step
  <2>2. PICK a \in Actors : Store(a)
    BY <2>1
  <2>3. op[a].phase = "store" /\ op[a].fresh = {}
    BY <2>2 DEF Store
  <2> QED
    BY <2>3 DEF Inv, ReadingKept, PastReading
<1> QED
  BY <1>1, Invariance, PTL DEF Spec, NeverWiped

\* Of a target that is announced as new, the last announcement was not that it
\* is new, unless two operations ran at once or a restart lost the list.
THEOREM Announces == Spec => AddedOnce
<1>1. Inv /\ [Next]_vars => [\A a \in Actors : Notify(a) /\ op[a].alone => told \cap Added(a) = {}]_vars
  <2> SUFFICES ASSUME Inv, NEW a \in Actors, Notify(a), op[a].alone
               PROVE  told \cap Added(a) = {}
    OBVIOUS
  <2>1. op[a].phase = "prefetch"
    BY DEF Notify
  <2>2. op[a].copy = snap /\ \A b \in Others(a) : ~PastReading(b)
    BY <2>1 DEF Inv, Lone, PastReading
  <2>3. \A b \in Actors : op[b].phase # "show"
    BY <2>1, <2>2 DEF PastReading, Others
  <2>4. told \subseteq snap
    BY <2>3 DEF Inv, ToldServed
  <2> QED
    BY <2>2, <2>4 DEF Added
<1> QED
  BY <1>1, Invariance, PTL DEF Spec, AddedOnce
-----------------------------------------------------------------------------
(***************************************************************************)
(* The configs of the targets.                                             *)
(***************************************************************************)

LEMMA AppliedIsPage ==
  ASSUME NEW t \in Targets, Applied(t)
  PROVE  TargetView!Next
  BY DEF Applied, TargetView!Next, TargetView!Page, TargetView!Ended

LEMMA RetireIsRetirement ==
  ASSUME TypeOK, NEW a \in Actors, Retire(a)
  PROVE  TargetView!Next
<1>1. op[a].gone \in SUBSET Targets
  BY TypeParts DEF OpType
<1>2. TargetView!Retire(op[a].gone)
  BY DEF Retire, TargetView!Retire, TargetView!Ended
<1> QED
  BY <1>1, <1>2 DEF TargetView!Next

\* All that refreshes, probes, jobs, pages and restarts do to the configs of a
\* target (apply_catalog_url_fetch_success, retire_catalog_targets) is what
\* TargetConfigs allows, and the transactions of CatalogLifecycle implement.
THEOREM AssumesNoMore == Spec => AssumesTargetConfigs
<1>1. Init => TargetView!Init
  BY DEF Init, TargetView!Init
<1>2. TypeOK /\ [Next]_vars => [TargetView!Next]_configs
  <2> SUFFICES ASSUME TypeOK, [Next]_vars PROVE TargetView!Next \/ UNCHANGED configs
    OBVIOUS
  <2>1. ASSUME NEW a \in Actors, Retire(a) PROVE TargetView!Next
    BY <2>1, RetireIsRetirement
  <2>2. ASSUME NEW a \in Actors, NEW t \in Targets, Prefetch(a, t)
        PROVE  TargetView!Next \/ UNCHANGED configs
    BY <2>2, AppliedIsPage DEF Prefetch
  <2>3. ASSUME NEW t \in Targets, Page(t) PROVE TargetView!Next
    BY <2>3, AppliedIsPage DEF Page
  <2>4. ASSUME NEW t \in Targets, JobRuns(t) PROVE TargetView!Next \/ UNCHANGED configs
    BY <2>4, AppliedIsPage DEF JobRuns
  <2>5. ASSUME NEW a \in Actors,
               \/ Survey(a) \/ Store(a) \/ Compare(a) \/ Notify(a) \/ Show(a)
               \/ FetchFails(a) \/ FetchRefused(a) \/ FetchOk(a) \/ Fails(a)
        PROVE  UNCHANGED configs
    BY <2>5 DEF Survey, Store, Compare, Notify, Show, FetchFails, FetchRefused, FetchOk, Fails
  <2>6. CASE Start("refresh") \/ Start("probe") \/ Trigger \/ JobSurveys \/ JobDone
             \/ PollerEnds \/ PollerHangs \/ Restart \/ UNCHANGED vars
    BY <2>6 DEF Start, Trigger, JobSurveys, JobDone, PollerEnds, PollerHangs, Restart, vars
  <2> QED
    BY <2>1, <2>2, <2>3, <2>4, <2>5, <2>6 DEF Next, Step, JobStep
<1> QED
  BY <1>1, <1>2, Typed, PTL DEF Spec, AssumesTargetConfigs, TargetView!Spec
=============================================================================
