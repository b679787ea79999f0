---------------------------- MODULE TrafficCycle ----------------------------
(***************************************************************************)
(* The traffic of one machine: the billing cycle a moment falls in, the    *)
(* row and the hourly samples that a panel's answers leave behind, and     *)
(* what the machine list makes of them later.  Pure operators; the calls   *)
(* that run them are in LazycatSync.                                       *)
(*                                                                         *)
(* A moment (OffsetDateTime) is an instant and the offset it is written    *)
(* with, both in half hours; days count from the first day of FirstMonth,  *)
(* and a month is year * 12 + month - 1.                                   *)
(***************************************************************************)
EXTENDS Integers

CONSTANTS
    FirstMonth, LastMonth,  \* the months the calendar covers
    Moments,     \* the instants at which a panel is read or a list asked for
    ResetDays,   \* the reset days a panel may report
    Resets       \* the last resets a panel may report

Hour == 2
Day == 24 * Hour
UTC == 0
Provider == 8 * Hour

\* Option::None.
None == -1
NoReset == [at |-> None, off |-> None]

Moment == [at : Int, off : Int]

ASSUME CalendarAssumption ==
    /\ FirstMonth \in Nat /\ LastMonth \in Nat /\ FirstMonth < LastMonth
    /\ Moments \subseteq Nat /\ ResetDays \subseteq Nat /\ Resets \subseteq Moment

-----------------------------------------------------------------------------
(* The calendar.                                                           *)

Leap(year) == year % 4 = 0 /\ (year % 100 # 0 \/ year % 400 = 0)

DaysInMonth(m) ==
    CASE m % 12 = 1 -> IF Leap(m \div 12) THEN 29 ELSE 28
      [] m % 12 \in {3, 5, 8, 10} -> 30
      [] OTHER -> 31

FirstDay[m \in FirstMonth - 1 .. LastMonth + 1] ==
    IF m <= FirstMonth THEN 0 ELSE FirstDay[m - 1] + DaysInMonth(m - 1)

DayOf(t) == (t.at + t.off) \div Day
TimeOf(t) == (t.at + t.off) % Day

MonthOf(t) ==
    CHOOSE m \in FirstMonth .. LastMonth :
        FirstDay[m] <= DayOf(t) /\ DayOf(t) < FirstDay[m + 1]

\* The calendar holds the reset before and the reset after each moment, and
\* each reported reset, by whichever offset their month is told.
ASSUME SpanAssumption ==
    /\ \A at \in Moments, off \in {Provider} \cup {r.off : r \in Resets} :
          DayOf([at |-> at, off |-> off]) \in FirstDay[FirstMonth + 1] - 1 .. FirstDay[LastMonth] - 1
    /\ \A r \in Resets : 0 <= DayOf(r)

\* Mutant: a month may end before the reset day.
UnclampedDay(m, resetDay) == IF resetDay < 1 THEN 1 ELSE resetDay

\* The reset day of a month, counted from 1: never past the month's last day.
ResetDayIn(m, resetDay) ==
    CASE resetDay < 1 -> 1
      [] resetDay > DaysInMonth(m) -> DaysInMonth(m)
      [] OTHER -> resetDay

\* create_monthly_anchor: the reset day, months after t's, at a time of day.
Anchor(t, months, resetDay, time) ==
    LET m == MonthOf(t) + months
    IN  [at |-> (FirstDay[m] + ResetDayIn(m, resetDay) - 1) * Day + time - t.off,
         off |-> t.off]

NextAnchor(t, resetDay) == Anchor(t, 1, resetDay, TimeOf(t))

-----------------------------------------------------------------------------
(* The cycle.                                                              *)

\* Without a usable reset: the last midnight, where the provider is, on the
\* reset day.
InferredStart(resetDay, at) ==
    LET now == [at |-> at, off |-> Provider]
        this == Anchor(now, 0, resetDay, 0)
    IN  IF this.at <= at THEN this ELSE Anchor(now, -1, resetDay, 0)

\* From the reported reset on, month by month, to the cycle that holds `at`:
\* the first whose end is later.
RolledStart(resetDay, last, at) ==
    LET starts[k \in 0 .. LastMonth - FirstMonth] ==
            IF k = 0 THEN last ELSE NextAnchor(starts[k - 1], resetDay)
        end == CHOOSE k \in 1 .. LastMonth - FirstMonth :
                   /\ at < starts[k].at
                   /\ \A j \in 1 .. k - 1 : starts[j].at <= at
    IN  starts[end - 1]

CycleStart(resetDay, last, at) ==
    IF last # NoReset /\ last.at <= at THEN RolledStart(resetDay, last, at)
                                    ELSE InferredStart(resetDay, at)

\* Stored and compared in UTC.
CycleWindow(resetDay, last, at) ==
    LET start == CycleStart(resetDay, last, at)
    IN  <<start.at, NextAnchor(start, resetDay).at>>

-----------------------------------------------------------------------------
(* What a panel answers: a whole snapshot, the usage without its schedule  *)
(* (the top-level fallbacks of an answer with no traffic object), or       *)
(* nothing about traffic.                                                  *)

Answers(at) ==
    [kind : {"whole"}, at : {at}, used : {1, 2}, day : ResetDays,
     last : {r \in Resets : r.at <= at} \cup {NoReset}]
    \cup [kind : {"usage"}, at : {at}, used : {1, 2}, day : {None}, last : {NoReset}]
    \cup {[kind |-> "nothing", at |-> at, used |-> None, day |-> None, last |-> NoReset]}

\* What stays of the cached row where the answer is silent.
Or(new, old) == IF new # None THEN new ELSE old

\* `from` is the answer that the row's usage comes from: history, which the
\* code does not keep.
EmptyRow == [used |-> None, day |-> None, last |-> NoReset, from |-> None]

Preserved(answer, row) ==
    [used |-> Or(answer.used, row.used), day |-> Or(answer.day, row.day),
     last |-> IF answer.last # NoReset THEN answer.last ELSE row.last,
     from |-> IF answer.used # None THEN answer ELSE row.from]

HasFreshSnapshot(answer) == answer.used # None /\ answer.day # None

\* The sample of a whole snapshot, as the preserved row dates it.
SamplesOf(answer, row) ==
    IF HasFreshSnapshot(answer)
    THEN {[bucket |-> answer.at \div Hour, at |-> answer.at, used |-> row.used,
           last |-> row.last, cycle |-> CycleWindow(row.day, row.last, answer.at)]}
    ELSE {}

\* One sample per cycle and hour: the later one replaces.
UpsertSample(samples, new) ==
    {s \in samples :
        \A n \in new : s.bucket # n.bucket \/ s.cycle[1] # n.cycle[1]} \cup new

\* A panel is read: the row, then the sample.
Read(stored, answer) ==
    LET row == Preserved(answer, stored.row)
    IN  [row |-> row, samples |-> UpsertSample(stored.samples, SamplesOf(answer, row))]

-----------------------------------------------------------------------------
(* What the machine list shows at a later moment.                          *)

Latest(samples) == {s \in samples : \A o \in samples : o.at <= s.at}

\* Mutant: only a panel that reports its resets has a stale cycle.
HidesAfterResets(stored, cycle, history) ==
    /\ history = {}
    /\ stored.row.last # NoReset
    /\ IF stored.samples = {}
       THEN stored.row.last.at < cycle[1]
       ELSE \E s \in Latest(stored.samples) :
                s.cycle # cycle /\ s.last = stored.row.last /\ s.used = stored.row.used

\* should_hide_stale_previous_cycle_traffic.
HidesStale(stored, cycle, history) ==
    /\ history = {}
    /\ IF stored.samples = {}
       THEN stored.row.last # NoReset /\ stored.row.last.at < cycle[1]
       ELSE \E s \in Latest(stored.samples) :
                /\ s.cycle # cycle
                /\ s.last = stored.row.last
                /\ s.used = stored.row.used

\* The cycle of a row at a moment, with the reset that is kept in the row.
CycleOf(row, at) == CycleWindow(row.day, row.last, at)

SamplesOfCycle(samples, cycle) == {s \in samples : s.cycle = cycle}

Views(row, cycle, history) ==
    IF row.day = None \/ row.used = None THEN {}
    ELSE {[cycle |-> cycle, history |-> history, used |-> row.used]}

\* The traffic shown with a machine: none or one view.
Shown(stored, at) ==
    LET cycle == CycleOf(stored.row, at)
        history == SamplesOfCycle(stored.samples, cycle)
    IN  IF stored.row.day = None \/ HidesStale(stored, cycle, history)
        THEN {}
        ELSE Views(stored.row, cycle, history)

-----------------------------------------------------------------------------
(* What the properties of the algorithm count.                             *)

LastDay == FirstDay[LastMonth + 1] - 1

\* The reset day said day by day: the day of that number, the last day of a
\* month too short for it, the first for a number below one.
IsResetDay(d, resetDay) ==
    \E m \in FirstMonth .. LastMonth :
        LET number == d - FirstDay[m] + 1
        IN  /\ number \in 1 .. DaysInMonth(m)
            /\ \/ number = resetDay
               \/ number < resetDay /\ d + 1 = FirstDay[m + 1]
               \/ resetDay < 1 /\ number = 1

ResetInstants(resetDay, last, at) ==
    IF last # NoReset /\ last.at <= at
    THEN {last.at} \cup
         {d * Day + TimeOf(last) - last.off :
             d \in {d \in FirstDay[MonthOf(last) + 1] .. LastDay : IsResetDay(d, resetDay)}}
    ELSE {d * Day - Provider : d \in {d \in 0 .. LastDay : IsResetDay(d, resetDay)}}

\* The cases in which compute_traffic_cycle_window disagrees with the list of all
\* resets: the cycle of a moment runs from the last one before it to the first
\* one after it.
Misdated ==
    {c \in ResetDays \X (Resets \cup {NoReset}) \X Moments :
        LET resets == ResetInstants(c[1], c[2], c[3])
            cycle == CycleWindow(c[1], c[2], c[3])
        IN  ~ /\ {cycle[1], cycle[2]} \subseteq resets
              /\ cycle[1] <= c[3] /\ c[3] < cycle[2]
              /\ \A r \in resets : r <= cycle[1] \/ cycle[2] <= r}

\* What two answers of a panel, at different moments, leave behind.
Histories ==
    UNION {Answers(m[1]) \X Answers(m[2]) : m \in {m \in Moments \X Moments : m[1] < m[2]}}
After(h) == Read(Read([row |-> EmptyRow, samples |-> {}], h[1]), h[2])
From(at) == {m \in Moments : at <= m}

\* The histories that end with a whole snapshot and after which some moment of
\* the same cycle is shown without it or without its sample.
Unshown ==
    {h \in Histories :
        LET stored == After(h)
            cycle == CycleOf(stored.row, h[2].at)
        IN  /\ h[2].kind = "whole"
            /\ \E later \in From(h[2].at) :
                /\ later < cycle[2]
                /\ \A view \in Shown(stored, later) :
                    \/ view.cycle # cycle
                    \/ view.used # h[2].used
                    \/ \A s \in view.history : s.at # h[2].at \/ s.used # h[2].used}

\* The histories after which some moment is shown usage of an earlier cycle.
Outlived ==
    {h \in Histories :
        LET stored == After(h)
        IN  \E later \in From(h[2].at) : \E view \in Shown(stored, later) :
                stored.row.from.at < view.cycle[1]}
=============================================================================
