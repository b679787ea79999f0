------------------------- MODULE TrafficCycleProofs -------------------------
(***************************************************************************)
(* Proofs about TrafficCycle, for every calendar, every reset day and all  *)
(* moments and reported resets in the calendar.  The properties are those  *)
(* that MC_LazycatPanels hands to TLC.                                     *)
(***************************************************************************)
EXTENDS MC_LazycatPanels, WellFoundedInduction, TLAPS

-----------------------------------------------------------------------------
(***************************************************************************)
(* Induction over numbers: the least counterexample has a smaller one.     *)
(***************************************************************************)

LEMMA Least ==
  ASSUME NEW T \in SUBSET Nat, T # {}
  PROVE  \E n \in T : \A m \in T : n <= m
<1> DEFINE R == {p \in Nat \X Nat : p[1] < p[2]}
<1>1. IsWellFoundedOn(R, Nat)
  BY NatLessThanWellFounded DEF OpToRel
<1>2. \A n, m \in T : <<m, n>> \in R <=> m < n
  OBVIOUS
<1> HIDE DEF R
<1>3. \E n \in T : \A m \in T : ~(<<m, n>> \in R)
  BY <1>1, WFMin
<1>4. \A n, m \in T : ~(m < n) => n <= m
  OBVIOUS
<1> QED
  BY <1>2, <1>3, <1>4

\* What holds at zero, and of a number if it holds of the one before.
LEMMA Climb ==
  ASSUME NEW S \in SUBSET Nat, 0 \in S, \A n \in S : n + 1 \in S
  PROVE  S = Nat
<1> SUFFICES ASSUME Nat \ S # {} PROVE FALSE
  OBVIOUS
<1>1. PICK n \in Nat \ S : \A m \in Nat \ S : n <= m
  BY Least
<1>2. n # 0 /\ n - 1 \in Nat /\ n - 1 < n /\ (n - 1) + 1 = n
  BY <1>1
<1>3. n - 1 \in S
  BY <1>1, <1>2
<1> QED
  BY <1>1, <1>2, <1>3

-----------------------------------------------------------------------------
(***************************************************************************)
(* The calendar.                                                           *)
(***************************************************************************)

Months == FirstMonth .. LastMonth

LEMMA MonthsAre ==
  /\ FirstMonth \in Nat /\ LastMonth \in Nat /\ FirstMonth < LastMonth
  /\ Months \subseteq Nat /\ \A m \in Months : m + 1 \in FirstMonth .. LastMonth + 1
  BY CalendarAssumption DEF Months

LEMMA MonthLengths == \A m \in Nat : DaysInMonth(m) \in 28 .. 31
  BY DEF DaysInMonth

\* The first days up to any month exist.
LEMMA DaysCount ==
  /\ \A m \in FirstMonth .. LastMonth + 1 : FirstDay[m] \in Nat
  /\ FirstDay[FirstMonth] = 0
  /\ \A m \in Months : FirstDay[m + 1] = FirstDay[m] + DaysInMonth(m)
<1> DEFINE D == FirstMonth - 1 .. LastMonth + 1
           day(f, m) == IF m <= FirstMonth THEN 0 ELSE f[m - 1] + DaysInMonth(m - 1)
           Good(n) == \E f \in [D -> Nat] : \A m \in D : m < FirstMonth - 1 + n => f[m] = day(f, m)
           S == {n \in Nat : Good(n)}
<1>0. D \subseteq Int /\ \A m \in D : ~(m <= FirstMonth) => m - 1 \in D /\ DaysInMonth(m - 1) \in Nat
  <2>1. D \subseteq Int /\ \A m \in D : ~(m <= FirstMonth) => m - 1 \in D /\ m - 1 \in Nat
    BY MonthsAre
  <2> HIDE DEF D
  <2> QED
    BY <2>1, MonthLengths
<1> HIDE DEF D
<1>1. Good(0)
  <2>1. [m \in D |-> 0] \in [D -> Nat] /\ \A m \in D : ~(m < FirstMonth - 1 + 0)
    BY <1>0, MonthsAre DEF D
  <2> QED
    BY <2>1
<1>2. ASSUME NEW n \in Nat, Good(n) PROVE Good(n + 1)
  <2>1. PICK f \in [D -> Nat] : \A m \in D : m < FirstMonth - 1 + n => f[m] = day(f, m)
    BY <1>2
  <2> DEFINE g == [m \in D |-> day(f, m)]
  <2>2. g \in [D -> Nat]
    BY <1>0
  <2>3. \A m \in D : g[m] = day(f, m)
    OBVIOUS
  <2> HIDE DEF g
  <2>4. ASSUME NEW m \in D, m < FirstMonth - 1 + (n + 1) PROVE g[m] = day(g, m)
    <3>1. CASE m <= FirstMonth
      BY <2>3, <3>1
    <3>2. CASE ~(m <= FirstMonth)
      <4>1. m - 1 \in D /\ m - 1 < FirstMonth - 1 + n
        BY <1>0, <2>4, <3>2, MonthsAre
      <4>2. g[m - 1] = f[m - 1]
        BY <2>1, <2>3, <4>1
      <4> QED
        BY <2>3, <3>2, <4>2
    <3> QED
      BY <3>1, <3>2
  <2> QED
    BY <2>2, <2>4
<1>3. S = Nat
  <2>1. S \in SUBSET Nat /\ 0 \in S /\ \A n \in S : n + 1 \in S
    BY <1>1, <1>2
  <2> HIDE DEF S
  <2> QED
    BY <2>1, Climb
<1>4. PICK f \in [D -> Nat] : \A m \in D : f[m] = day(f, m)
  <2>1. LastMonth + 3 \in Nat /\ \A m \in D : m < FirstMonth - 1 + (LastMonth + 3)
    BY MonthsAre DEF D
  <2>2. Good(LastMonth + 3)
    BY <1>3, <2>1
  <2> QED
    BY <2>1, <2>2
<1>5. f = [m \in D |-> day(f, m)]
  BY <1>4
<1>6. \E h : h = [m \in D |-> day(h, m)]
  BY <1>5
<1>7. FirstDay = CHOOSE h : h = [m \in D |-> day(h, m)]
  BY DEF FirstDay, D
<1>8. FirstDay = [m \in D |-> day(FirstDay, m)]
  BY <1>6, <1>7
<1>9. \A m \in D : FirstDay[m] = day(FirstDay, m)
  BY <1>8
<1>10. FirstMonth \in D /\ FirstMonth <= FirstMonth /\ \A m \in Months : m + 1 \in D /\ ~(m + 1 <= FirstMonth) /\ (m + 1) - 1 = m
  BY MonthsAre DEF Months, D
<1>11. FirstDay[FirstMonth] = 0 /\ \A m \in Months : FirstDay[m + 1] = FirstDay[m] + DaysInMonth(m)
  BY <1>9, <1>10
<1> DEFINE T == {n \in Nat : FirstMonth + n \in D => FirstDay[FirstMonth + n] \in Nat}
<1>12. T = Nat
  <2>1. 0 \in T
    BY <1>11, MonthsAre
  <2>2. ASSUME NEW n \in T PROVE n + 1 \in T
    <3>1. CASE FirstMonth + (n + 1) \in D
      <4>1. FirstMonth + n \in D /\ FirstMonth + n \in Months /\ (FirstMonth + n) + 1 = FirstMonth + (n + 1)
        BY <3>1, MonthsAre DEF D, Months
      <4>2. FirstDay[FirstMonth + (n + 1)] = FirstDay[FirstMonth + n] + DaysInMonth(FirstMonth + n)
        BY <1>11, <4>1
      <4>3. FirstDay[FirstMonth + n] \in Nat /\ DaysInMonth(FirstMonth + n) \in Nat
        BY <4>1, MonthLengths, MonthsAre
      <4> QED
        BY <4>2, <4>3
    <3> QED
      BY <3>1
  <2>3. T \in SUBSET Nat
    OBVIOUS
  <2> HIDE DEF T
  <2> QED
    BY <2>1, <2>2, <2>3, Climb
<1>13. \A m \in FirstMonth .. LastMonth + 1 : FirstDay[m] \in Nat
  <2> TAKE m \in FirstMonth .. LastMonth + 1
  <2>1. m - FirstMonth \in Nat /\ FirstMonth + (m - FirstMonth) = m /\ m \in D
    BY MonthsAre DEF D
  <2>2. m - FirstMonth \in T
    BY <1>12, <2>1
  <2> QED
    BY <2>1, <2>2
<1> QED
  BY <1>11, <1>13

\* A month begins after every earlier one has ended.
LEMMA Rising ==
  \A m \in Months, n \in FirstMonth .. LastMonth + 1 : m < n => FirstDay[m + 1] <= FirstDay[n]
<1> DEFINE D == FirstMonth .. LastMonth + 1
           S == {k \in Nat : \A m \in Months : (m + 1) + k \in D => FirstDay[m + 1] <= FirstDay[(m + 1) + k]}
<1>1. 0 \in S
  <2>1. \A m \in Months : (m + 1) + 0 = m + 1 /\ FirstDay[m + 1] \in Nat
    BY MonthsAre, DaysCount
  <2> QED
    BY <2>1
<1>2. ASSUME NEW k \in S, NEW m \in Months, (m + 1) + (k + 1) \in D
      PROVE  FirstDay[m + 1] <= FirstDay[(m + 1) + (k + 1)]
  <2> DEFINE n == (m + 1) + k
  <2>1. k \in Nat /\ n \in D /\ n \in Months /\ n + 1 = (m + 1) + (k + 1) /\ n \in Nat
    BY <1>2, MonthsAre DEF Months
  <2>2. FirstDay[m + 1] <= FirstDay[n]
    BY <2>1
  <2> HIDE DEF n
  <2>3. FirstDay[n + 1] = FirstDay[n] + DaysInMonth(n) /\ DaysInMonth(n) \in Nat
    BY <2>1, DaysCount, MonthLengths
  <2>4. FirstDay[m + 1] \in Nat /\ FirstDay[n] \in Nat
    BY <2>1, MonthsAre, DaysCount
  <2> QED
    BY <2>1, <2>2, <2>3, <2>4
<1>3. S = Nat
  <2>1. S \in SUBSET Nat /\ \A k \in S : k + 1 \in S
    BY <1>2
  <2> HIDE DEF S
  <2> QED
    BY <1>1, <2>1, Climb
<1>4. ASSUME NEW m \in Months, NEW n \in D, m < n PROVE FirstDay[m + 1] <= FirstDay[n]
  <2>1. n - (m + 1) \in Nat /\ (m + 1) + (n - (m + 1)) = n
    BY <1>4, MonthsAre
  <2>2. n - (m + 1) \in S
    BY <1>3, <2>1
  <2> QED
    BY <2>1, <2>2
<1> QED
  BY <1>4

Holds(m, day) == m \in Months /\ FirstDay[m] <= day /\ day < FirstDay[m + 1]

\* Each day of the calendar is in one month.
LEMMA OneMonth ==
  /\ \A day \in 0 .. LastDay : \E m \in Months : Holds(m, day)
  /\ \A day \in Int : \A m, n : Holds(m, day) /\ Holds(n, day) => m = n
<1> DEFINE D == FirstMonth .. LastMonth + 1
<1>0. /\ \A m \in D : FirstDay[m] \in Nat
      /\ \A m \in Months : m \in D /\ m + 1 \in D /\ m \in Nat
      /\ D \subseteq Nat /\ LastMonth + 1 \in D
  BY MonthsAre, DaysCount DEF Months
<1>1. ASSUME NEW day \in 0 .. LastDay PROVE \E m \in Months : Holds(m, day)
  <2> DEFINE T == {n \in D : day < FirstDay[n]}
  <2>1. day \in Nat /\ LastMonth + 1 \in T
    BY <1>0 DEF LastDay
  <2>2. PICK n \in T : \A m \in T : n <= m
    <3>1. T \in SUBSET Nat /\ T # {}
      BY <1>0, <2>1
    <3> HIDE DEF T
    <3> QED
      BY <3>1, Least
  <2>3. n # FirstMonth
    BY <2>1, <2>2, DaysCount
  <2>4. n \in Nat /\ n - 1 \in Months /\ (n - 1) + 1 = n /\ n - 1 \in D
    BY <2>2, <2>3, MonthsAre DEF Months
  <2>5. n - 1 \notin T
    BY <2>2, <2>4
  <2>6. FirstDay[n - 1] <= day /\ day < FirstDay[n]
    BY <1>0, <2>1, <2>2, <2>4, <2>5
  <2> QED
    BY <2>4, <2>6 DEF Holds
<1>2. ASSUME NEW day \in Int, NEW m, NEW n, Holds(m, day), Holds(n, day) PROVE m = n
  <2>1. m \in Months /\ n \in Months
    BY <1>2 DEF Holds
  <2>2. ~(m < n) /\ ~(n < m)
    BY <1>0, <1>2, <2>1, Rising DEF Holds
  <2> QED
    BY <1>0, <2>1, <2>2
<1> QED
  BY <1>1, <1>2

\* The month of a moment is the month that holds its day.
LEMMA MonthOfDay ==
  ASSUME NEW t, DayOf(t) \in Int
  PROVE  /\ \A m : Holds(m, DayOf(t)) => MonthOf(t) = m
         /\ DayOf(t) \in 0 .. LastDay => Holds(MonthOf(t), DayOf(t))
<1>1. MonthOf(t) = CHOOSE m \in Months : Holds(m, DayOf(t))
  BY DEF MonthOf, Holds, Months
<1>2. \A m : Holds(m, DayOf(t)) => m \in Months
  BY DEF Holds
<1> QED
  BY <1>1, <1>2, OneMonth

-----------------------------------------------------------------------------
(***************************************************************************)
(* Reset days and anchors.                                                 *)
(***************************************************************************)

LEMMA DayIs == Day = 48
  BY DEF Day, Hour

\* An instant, its day and the time of day.
LEMMA Clock ==
  /\ \A x \in Int : x \div 48 \in Int /\ x % 48 \in 0 .. 47 /\ x = (x \div 48) * 48 + (x % 48)
  /\ \A d \in Int, time \in 0 .. 47 : (d * 48 + time) \div 48 = d /\ (d * 48 + time) % 48 = time
<1>1. ASSUME NEW x \in Int PROVE x \div 48 \in Int /\ x % 48 \in 0 .. 47 /\ x = (x \div 48) * 48 + (x % 48)
  OBVIOUS
<1>2. ASSUME NEW d \in Int, NEW time \in 0 .. 47 PROVE (d * 48 + time) \div 48 = d
  OBVIOUS
<1>3. ASSUME NEW d \in Int, NEW time \in 0 .. 47 PROVE (d * 48 + time) % 48 = time
  OBVIOUS
<1> QED
  BY <1>1, <1>2, <1>3

ResetDate(m, resetDay) == FirstDay[m] + ResetDayIn(m, resetDay) - 1

LEMMA ResetDates ==
  ASSUME NEW resetDay \in Int
  PROVE  /\ \A m \in Months : ResetDate(m, resetDay) \in Nat /\ Holds(m, ResetDate(m, resetDay))
         /\ \A m, n \in Months : m < n => ResetDate(m, resetDay) < ResetDate(n, resetDay)
         /\ \A d \in Int : IsResetDay(d, resetDay) <=> \E m \in Months : d = ResetDate(m, resetDay)
         /\ \A m \in Months : ResetDate(m, resetDay) <= LastDay
<1>0. \A m \in Months : /\ m \in Nat /\ FirstDay[m] \in Nat /\ FirstDay[m + 1] \in Nat
                        /\ DaysInMonth(m) \in 28 .. 31
                        /\ FirstDay[m + 1] = FirstDay[m] + DaysInMonth(m)
  BY MonthsAre, MonthLengths, DaysCount DEF Months
<1>1. \A m \in Months : ResetDayIn(m, resetDay) \in 1 .. DaysInMonth(m)
  BY <1>0 DEF ResetDayIn
<1>2. \A m \in Months : ResetDate(m, resetDay) \in Nat /\ Holds(m, ResetDate(m, resetDay))
  BY <1>0, <1>1 DEF Holds, ResetDate
<1>3. \A m, n \in Months : m < n => FirstDay[m + 1] <= FirstDay[n]
  BY Rising, MonthsAre DEF Months
<1>4. \A m, n \in Months : m < n => ResetDate(m, resetDay) < ResetDate(n, resetDay)
  BY <1>0, <1>2, <1>3 DEF Holds
<1>5. \A m \in Months : m <= LastMonth
  BY MonthsAre DEF Months
<1>6. \A m \in Months : FirstDay[m + 1] <= FirstDay[LastMonth + 1]
  <2>1. \A m \in Months : m < LastMonth + 1 /\ LastMonth + 1 \in FirstMonth .. LastMonth + 1
    BY MonthsAre DEF Months
  <2> QED
    BY <2>1, Rising
<1>7. \A m \in Months : ResetDate(m, resetDay) <= LastDay
  <2>1. FirstDay[LastMonth + 1] \in Nat
    BY DaysCount, MonthsAre
  <2> QED
    BY <1>0, <1>2, <1>6, <2>1 DEF LastDay, Holds
<1>8. ASSUME NEW d \in Int, NEW m \in Months
      PROVE  d = ResetDate(m, resetDay) <=>
               LET number == d - FirstDay[m] + 1
               IN  /\ number \in 1 .. DaysInMonth(m)
                   /\ \/ number = resetDay
                      \/ number < resetDay /\ d + 1 = FirstDay[m + 1]
                      \/ resetDay < 1 /\ number = 1
  BY <1>0 DEF ResetDate, ResetDayIn
<1>9. \A d \in Int : IsResetDay(d, resetDay) <=> \E m \in Months : d = ResetDate(m, resetDay)
  BY <1>8 DEF IsResetDay, Months
<1> QED
  BY <1>2, <1>4, <1>7, <1>9

\* The anchor of a moment is on the reset day of its month, at the given time
\* of day and with the moment's offset.
LEMMA Anchors ==
  ASSUME NEW t \in Moment, NEW resetDay \in Int, NEW months \in Int, NEW time \in 0 .. 47,
         MonthOf(t) \in Months, MonthOf(t) + months \in Months
  PROVE  LET a == Anchor(t, months, resetDay, time)
             d == ResetDate(MonthOf(t) + months, resetDay)
         IN  /\ a = [at |-> d * 48 + time - t.off, off |-> t.off]
             /\ a \in Moment /\ DayOf(a) = d /\ TimeOf(a) = time /\ MonthOf(a) = MonthOf(t) + months
<1> DEFINE m == MonthOf(t) + months
           a == Anchor(t, months, resetDay, time)
           d == ResetDate(m, resetDay)
<1>1. a = [at |-> d * 48 + time - t.off, off |-> t.off]
  BY DayIs DEF Anchor, ResetDate
<1>2. d \in Nat /\ Holds(m, d) /\ t.off \in Int
  BY ResetDates DEF Moment
<1> HIDE DEF m, d, a
<1>3. a \in Moment /\ a.at + a.off = d * 48 + time
  BY <1>1, <1>2 DEF Moment
<1>4. DayOf(a) = d /\ TimeOf(a) = time
  <2>1. DayOf(a) = (d * 48 + time) \div 48 /\ TimeOf(a) = (d * 48 + time) % 48
    BY <1>3, DayIs DEF DayOf, TimeOf
  <2>2. d \in Int
    BY <1>2
  <2> QED
    BY <2>1, <2>2, Clock
<1>5. MonthOf(a) = m
  BY <1>2, <1>4, MonthOfDay
<1> QED
  BY <1>1, <1>3, <1>4, <1>5 DEF m, d, a

-----------------------------------------------------------------------------
(***************************************************************************)
(* The cycle of a moment.                                                  *)
(***************************************************************************)

\* A cycle of a moment: between two neighbours in the list of resets.
Exact(cycle, resets, at) ==
  /\ {cycle[1], cycle[2]} \subseteq resets
  /\ cycle[1] <= at /\ at < cycle[2]
  /\ \A r \in resets : r <= cycle[1] \/ cycle[2] <= r

LEMMA Spans ==
  ASSUME NEW at \in Moments, NEW off \in {Provider} \cup {r.off : r \in Resets}
  PROVE  LET t == [at |-> at, off |-> off]
         IN  /\ t \in Moment /\ DayOf(t) \in Nat
             /\ Holds(MonthOf(t), DayOf(t)) /\ MonthOf(t) < LastMonth
             /\ FirstDay[FirstMonth + 1] <= DayOf(t) + 1
<1> DEFINE t == [at |-> at, off |-> off]
<1>1. t \in Moment
  BY CalendarAssumption DEF Moment, Provider, Hour
<1>2. /\ FirstMonth \in Months /\ LastMonth \in Months /\ FirstMonth + 1 \in FirstMonth .. LastMonth + 1
      /\ FirstDay[FirstMonth + 1] \in Nat /\ FirstDay[FirstMonth + 1] >= 1
      /\ FirstDay[LastMonth] \in Nat /\ FirstDay[LastMonth] <= LastDay
  <2>1. FirstMonth \in Months /\ LastMonth \in Months /\ FirstMonth + 1 \in FirstMonth .. LastMonth + 1
    BY MonthsAre DEF Months
  <2>2. FirstDay[FirstMonth + 1] = 0 + DaysInMonth(FirstMonth)
    BY <2>1, DaysCount
  <2>3. FirstDay[LastMonth + 1] = FirstDay[LastMonth] + DaysInMonth(LastMonth)
    BY <2>1, DaysCount
  <2>4. FirstDay[LastMonth] \in Nat /\ FirstDay[FirstMonth + 1] \in Nat
    BY <2>1, DaysCount, MonthsAre
  <2>5. DaysInMonth(FirstMonth) \in 28 .. 31 /\ DaysInMonth(LastMonth) \in 28 .. 31
    BY MonthLengths, MonthsAre
  <2> QED
    BY <2>1, <2>2, <2>3, <2>4, <2>5 DEF LastDay
<1>3. DayOf(t) \in FirstDay[FirstMonth + 1] - 1 .. FirstDay[LastMonth] - 1
  BY SpanAssumption
<1> HIDE DEF t
<1>4. DayOf(t) \in 0 .. LastDay /\ DayOf(t) \in Nat /\ FirstDay[FirstMonth + 1] <= DayOf(t) + 1
      /\ DayOf(t) < FirstDay[LastMonth]
  <2> DEFINE a == FirstDay[FirstMonth + 1]
             b == FirstDay[LastMonth]
             d == DayOf(t)
  <2>1. a \in Nat /\ a >= 1 /\ b \in Nat /\ b <= LastDay /\ d \in a - 1 .. b - 1
    BY <1>2, <1>3
  <2>2. LastDay \in Int
    BY DaysCount, MonthsAre DEF LastDay
  <2> HIDE DEF a, b, d
  <2>3. d \in 0 .. LastDay /\ d \in Nat /\ a <= d + 1 /\ d < b
    BY <2>1, <2>2
  <2> QED
    BY <2>3 DEF a, b, d
<1>5. Holds(MonthOf(t), DayOf(t))
  BY <1>4, MonthOfDay
<1>6. MonthOf(t) # LastMonth
  <2>1. FirstDay[MonthOf(t)] <= DayOf(t)
    BY <1>5 DEF Holds
  <2> QED
    BY <1>2, <1>4, <2>1
<1>7. MonthOf(t) < LastMonth
  BY <1>5, <1>6, MonthsAre DEF Holds, Months
<1> QED
  BY <1>1, <1>4, <1>5, <1>7 DEF t

\* The resets of a day of the month, where the provider is.
LEMMA InferredExact ==
  ASSUME NEW resetDay \in Int, NEW at \in Moments
  PROVE  LET start == InferredStart(resetDay, at)
         IN  Exact(<<start.at, NextAnchor(start, resetDay).at>>,
                   {d * Day - Provider : d \in {d \in 0 .. LastDay : IsResetDay(d, resetDay)}}, at)
<1> DEFINE now == [at |-> at, off |-> Provider]
           M == MonthOf(now)
           R(m) == ResetDate(m, resetDay)
           this == Anchor(now, 0, resetDay, 0)
           prev == Anchor(now, -1, resetDay, 0)
           start == InferredStart(resetDay, at)
           resets == {d * Day - Provider : d \in {d \in 0 .. LastDay : IsResetDay(d, resetDay)}}
<1>0. at \in Int /\ Provider = 16 /\ M \in Months /\ now \in Moment
  BY Spans, CalendarAssumption DEF Holds, Provider, Hour
<1>1. /\ \A m \in Months : m \in Nat /\ R(m) \in Nat /\ R(m) <= LastDay /\ FirstDay[m] \in Nat /\ FirstDay[m + 1] \in Nat
                           /\ FirstDay[m] <= R(m) /\ R(m) < FirstDay[m + 1]
      /\ \A m, n \in Months : m < n => R(m) < R(n)
  <2>1. /\ \A m \in Months : R(m) \in Nat /\ Holds(m, R(m)) /\ R(m) <= LastDay
        /\ \A m, n \in Months : m < n => R(m) < R(n)
    BY ResetDates
  <2>2. \A m \in Months : m \in Nat /\ FirstDay[m] \in Nat /\ FirstDay[m + 1] \in Nat
    BY MonthsAre, DaysCount DEF Months
  <2> HIDE DEF R
  <2> QED
    BY <2>1, <2>2 DEF Holds
<1>2. \A r : r \in resets <=> \E m \in Months : r = R(m) * 48 - 16
  <2>1. \A m \in Months : R(m) \in 0 .. LastDay
    BY <1>1, DaysCount, MonthsAre DEF LastDay
  <2>2. \A d \in 0 .. LastDay : IsResetDay(d, resetDay) <=> \E m \in Months : d = R(m)
    BY ResetDates
  <2> HIDE DEF R
  <2> QED
    BY <1>0, <2>1, <2>2, DayIs
<1>4. PICK d \in Int, time \in 0 .. 47 :
        /\ at = d * 48 + time - 16
        /\ FirstDay[M] <= d /\ d < FirstDay[M + 1]
        /\ FirstDay[FirstMonth + 1] <= d + 1
  <2>1. at + 16 \in Int /\ DayOf(now) = (at + 16) \div 48
    BY <1>0, DayIs DEF DayOf
  <2>2. Holds(M, DayOf(now)) /\ FirstDay[FirstMonth + 1] <= DayOf(now) + 1
    BY Spans
  <2>3. DayOf(now) \in Int /\ (at + 16) % 48 \in 0 .. 47 /\ at + 16 = DayOf(now) * 48 + ((at + 16) % 48)
    BY <2>1, Clock
  <2>4. at = DayOf(now) * 48 + ((at + 16) % 48) - 16
    BY <1>0, <2>3
  <2> QED
    BY <2>2, <2>3, <2>4 DEF Holds
<1>5. this.at = R(M) * 48 - 16 /\ this \in Moment /\ MonthOf(this) = M /\ TimeOf(this) = 0
  <2>1. M + 0 = M
    BY <1>0, <1>1
  <2>2. LET dd == R(M + 0) IN this = [at |-> dd * 48 + 0 - now.off, off |-> now.off] /\ this \in Moment
                              /\ MonthOf(this) = M + 0 /\ TimeOf(this) = 0
    BY <1>0, <2>1, Anchors
  <2> HIDE DEF this, M, R
  <2> QED
    BY <1>0, <1>1, <2>1, <2>2
<1>6. M # FirstMonth => M - 1 \in Months /\ (M - 1) + 1 = M /\ M + (-1) = M - 1
  BY <1>0, MonthsAre DEF Months
<1>7. M # FirstMonth => prev.at = R(M - 1) * 48 - 16 /\ prev \in Moment /\ MonthOf(prev) = M - 1 /\ TimeOf(prev) = 0
  <2> SUFFICES ASSUME M # FirstMonth PROVE prev.at = R(M - 1) * 48 - 16 /\ prev \in Moment /\ MonthOf(prev) = M - 1 /\ TimeOf(prev) = 0
    OBVIOUS
  <2>2. LET dd == R(M + (-1)) IN prev = [at |-> dd * 48 + 0 - now.off, off |-> now.off] /\ prev \in Moment
                              /\ MonthOf(prev) = M + (-1) /\ TimeOf(prev) = 0
    BY <1>0, <1>6, Anchors
  <2> HIDE DEF prev, M, R
  <2> QED
    BY <1>0, <1>1, <1>6, <2>2
<1>8. start = IF this.at <= at THEN this ELSE prev
  BY DEF InferredStart
<1> HIDE DEF this, prev, start, resets, now
\* Which month the cycle starts in.
<1>10. PICK s \in Months : /\ s + 1 \in Months /\ start \in Moment /\ MonthOf(start) = s /\ TimeOf(start) = 0
                          /\ start.at = R(s) * 48 - 16 /\ start.at <= at /\ at < R(s + 1) * 48 - 16
  <2>1. M + 1 \in Months /\ R(M + 1) >= FirstDay[M + 1]
    <3>1. M < LastMonth
      BY Spans DEF now
    <3>2. M + 1 \in Months
      BY <1>0, <3>1, MonthsAre DEF Months
    <3> QED
      BY <1>1, <3>2
  <2>2. CASE this.at <= at
    <3>1. at < R(M + 1) * 48 - 16
      BY <1>0, <1>1, <1>4, <2>1
    <3> QED
      BY <1>0, <1>5, <1>8, <2>1, <2>2, <3>1
  <2>3. CASE ~(this.at <= at)
    <3>1. M # FirstMonth
      <4>1. CASE M = FirstMonth
        <5>1. R(M) <= d
          <6>1. R(M) < FirstDay[M + 1] /\ FirstDay[M + 1] <= d + 1
            BY <1>0, <1>1, <1>4, <4>1
          <6> QED
            BY <1>0, <1>1, <6>1
        <5>2. R(M) * 48 - 16 <= at
          BY <1>0, <1>1, <1>4, <5>1
        <5> QED
          BY <1>5, <2>3, <5>2
      <4> QED
        BY <4>1
    <3>2. M - 1 \in Months /\ (M - 1) + 1 = M
      BY <1>6, <3>1
    <3>3. R(M - 1) < FirstDay[M]
      BY <1>1, <3>2
    <3>4. R(M - 1) * 48 - 16 <= at
      BY <1>0, <1>1, <1>4, <3>2, <3>3
    <3>5. at < R(M) * 48 - 16
      <4>1. this.at \in Int
        BY <1>5 DEF Moment
      <4> QED
        BY <1>0, <1>5, <2>3, <4>1
    <3> QED
      BY <1>0, <1>7, <1>8, <2>3, <3>1, <3>2, <3>4, <3>5
  <2> QED
    BY <2>2, <2>3
<1>11. NextAnchor(start, resetDay).at = R(s + 1) * 48 - 16
  <2>1. NextAnchor(start, resetDay).at = R(s + 1) * 48 + 0 - start.off
    BY <1>10, Anchors DEF NextAnchor
  <2>2. start.off = 16
    BY <1>0, <1>8 DEF this, prev, now, Anchor
  <2>3. R(s + 1) \in Nat
    BY <1>1, <1>10
  <2> QED
    BY <2>1, <2>2, <2>3
<1>12. ASSUME NEW r \in resets PROVE r <= R(s) * 48 - 16 \/ R(s + 1) * 48 - 16 <= r
  <2>1. PICK m \in Months : r = R(m) * 48 - 16
    BY <1>2
  <2>2. s \in Nat /\ m \in Nat
    BY <1>1, <1>10
  <2>3. m < s \/ m = s \/ m = s + 1 \/ s + 1 < m
    BY <2>2
  <2>4. R(m) < R(s) \/ R(m) = R(s) \/ R(m) = R(s + 1) \/ R(s + 1) < R(m)
    BY <1>1, <1>10, <2>3
  <2>5. R(m) \in Nat /\ R(s) \in Nat /\ R(s + 1) \in Nat
    BY <1>1, <1>10
  <2> HIDE DEF R
  <2> QED
    BY <2>1, <2>4, <2>5
<1>13. R(s) * 48 - 16 \in resets /\ R(s + 1) * 48 - 16 \in resets
  BY <1>2, <1>10
<1> QED
  BY <1>10, <1>11, <1>12, <1>13 DEF Exact, resets, start

\* The starts of RolledStart, as a function of how many months have gone by.
StartOf(f, last, resetDay, k) == IF k = 0 THEN last ELSE NextAnchor(f[k - 1], resetDay)
Turns == 0 .. LastMonth - FirstMonth

LEMMA StartsUnfold ==
  ASSUME NEW last, NEW resetDay
  PROVE  \E f : f = [k \in Turns |-> StartOf(f, last, resetDay, k)]
<1> DEFINE Good(n) == \E f : /\ f = [k \in Turns |-> f[k]]
                             /\ \A k \in Turns : k < n => f[k] = StartOf(f, last, resetDay, k)
           S == {n \in Nat : Good(n)}
<1>0. Turns \subseteq Nat /\ \A k \in Turns : k # 0 => k - 1 \in Turns
  BY MonthsAre DEF Turns
<1>1. Good(0)
  <2> DEFINE f == [k \in Turns |-> last]
  <2>1. f = [k \in Turns |-> f[k]] /\ \A k \in Turns : ~(k < 0)
    BY <1>0
  <2> HIDE DEF f
  <2> QED
    BY <2>1
<1>2. ASSUME NEW n \in Nat, Good(n) PROVE Good(n + 1)
  <2>1. PICK f : /\ f = [k \in Turns |-> f[k]]
                 /\ \A k \in Turns : k < n => f[k] = StartOf(f, last, resetDay, k)
    BY <1>2
  <2> DEFINE g == [k \in Turns |-> StartOf(f, last, resetDay, k)]
  <2>2. g = [k \in Turns |-> g[k]] /\ \A k \in Turns : g[k] = StartOf(f, last, resetDay, k)
    OBVIOUS
  <2> HIDE DEF g
  <2>3. ASSUME NEW k \in Turns, k < n + 1 PROVE g[k] = StartOf(g, last, resetDay, k)
    <3>1. CASE k = 0
      BY <2>2, <3>1 DEF StartOf
    <3>2. CASE k # 0
      <4>1. k - 1 \in Turns /\ k - 1 < n
        BY <1>0, <2>3, <3>2
      <4>2. g[k - 1] = f[k - 1]
        BY <2>1, <2>2, <4>1
      <4> QED
        BY <2>2, <3>2, <4>2 DEF StartOf
    <3> QED
      BY <3>1, <3>2
  <2> QED
    BY <2>2, <2>3
<1>3. S = Nat
  <2>1. S \in SUBSET Nat /\ 0 \in S /\ \A n \in S : n + 1 \in S
    BY <1>1, <1>2
  <2> HIDE DEF S
  <2> QED
    BY <2>1, Climb
<1>4. LastMonth + 1 \in Nat /\ \A k \in Turns : k < LastMonth + 1
  BY MonthsAre DEF Turns
<1>5. Good(LastMonth + 1)
  BY <1>3, <1>4
<1>6. PICK f : /\ f = [k \in Turns |-> f[k]]
               /\ \A k \in Turns : f[k] = StartOf(f, last, resetDay, k)
  BY <1>4, <1>5
<1>7. f = [k \in Turns |-> StartOf(f, last, resetDay, k)]
  BY <1>6
<1> QED
  BY <1>7

\* Some function of the starts is the one RolledStart works with.
LEMMA Rolls ==
  ASSUME NEW last, NEW resetDay, NEW at
  PROVE  \E f : /\ f = [k \in Turns |-> StartOf(f, last, resetDay, k)]
                /\ RolledStart(resetDay, last, at) =
                     f[(CHOOSE k \in 1 .. LastMonth - FirstMonth :
                          /\ at < f[k].at
                          /\ \A j \in 1 .. k - 1 : f[j].at <= at) - 1]
<1> DEFINE f == CHOOSE f : f = [k \in Turns |-> StartOf(f, last, resetDay, k)]
<1>1. f = [k \in Turns |-> StartOf(f, last, resetDay, k)]
  BY StartsUnfold
<1>2. RolledStart(resetDay, last, at) =
        f[(CHOOSE k \in 1 .. LastMonth - FirstMonth :
             /\ at < f[k].at
             /\ \A j \in 1 .. k - 1 : f[j].at <= at) - 1]
  BY DEF RolledStart, StartOf, Turns
<1> HIDE DEF f
<1> QED
  BY <1>1, <1>2

\* The resets a month apart, from the reported one on.
LEMMA RolledExact ==
  ASSUME NEW resetDay \in Int, NEW last \in Resets, NEW at \in Moments, last.at <= at
  PROVE  LET start == RolledStart(resetDay, last, at)
         IN  Exact(<<start.at, NextAnchor(start, resetDay).at>>,
                   {last.at} \cup
                   {d * Day + TimeOf(last) - last.off :
                       d \in {d \in FirstDay[MonthOf(last) + 1] .. LastDay : IsResetDay(d, resetDay)}}, at)
<1> DEFINE off == last.off
           now == [at |-> at, off |-> off]
           M0 == MonthOf(last)
           M == MonthOf(now)
           T == TimeOf(last)
           R(m) == ResetDate(m, resetDay)
           c(k) == IF k = 0 THEN last.at ELSE R(M0 + k) * 48 + T - off
           start == RolledStart(resetDay, last, at)
           resets == {last.at} \cup {d * Day + T - off :
                       d \in {d \in FirstDay[M0 + 1] .. LastDay : IsResetDay(d, resetDay)}}
<1>1. /\ \A m \in Months : R(m) \in Nat /\ R(m) <= LastDay /\ FirstDay[m] <= R(m) /\ R(m) < FirstDay[m + 1]
      /\ \A m \in Months : m \in Nat /\ FirstDay[m] \in Nat /\ FirstDay[m + 1] \in Nat
      /\ \A m, n \in Months : m < n => R(m) < R(n) /\ FirstDay[m + 1] <= FirstDay[n]
      /\ LastDay \in Int
  <2>1. /\ \A m \in Months : R(m) \in Nat /\ Holds(m, R(m)) /\ R(m) <= LastDay
        /\ \A m, n \in Months : m < n => R(m) < R(n)
    BY ResetDates
  <2>2. \A m \in Months : m \in Nat /\ m \in FirstMonth .. LastMonth + 1
                          /\ FirstDay[m] \in Nat /\ FirstDay[m + 1] \in Nat
    BY MonthsAre, DaysCount DEF Months
  <2>3. LastDay \in Int
    BY DaysCount, MonthsAre DEF LastDay
  <2> HIDE DEF R
  <2> QED
    BY <2>1, <2>2, <2>3, Rising DEF Holds
<1>2. last \in Moment /\ last.at \in Int /\ off \in Int /\ at \in Int /\ last = [at |-> last.at, off |-> off]
  BY CalendarAssumption DEF Moment
\* Where the moment and the reported reset are in the calendar.
<1>3. /\ DayOf(last) \in Nat /\ T \in 0 .. 47 /\ last.at + off = DayOf(last) * 48 + T
      /\ DayOf(now) \in Nat /\ at + off < DayOf(now) * 48 + 48 /\ DayOf(last) <= DayOf(now)
  <2>1. DayOf(last) = (last.at + off) \div 48 /\ DayOf(now) = (at + off) \div 48 /\ T = (last.at + off) % 48
    BY DayIs DEF DayOf, TimeOf
  <2>2. last.at + off \in Int /\ at + off \in Int /\ last.at + off <= at + off
    BY <1>2
  <2>3. 0 <= DayOf(last)
    BY SpanAssumption
  <2> DEFINE x == last.at + off
             y == at + off
  <2>4. x \in Int /\ y \in Int /\ x <= y /\ DayOf(last) = x \div 48 /\ DayOf(now) = y \div 48 /\ T = x % 48
    BY <2>1, <2>2
  <2> HIDE DEF x, y, T, off, now
  <2>5. /\ x \div 48 \in Int /\ y \div 48 \in Int /\ x % 48 \in 0 .. 47 /\ y % 48 \in 0 .. 47
        /\ x = (x \div 48) * 48 + (x % 48) /\ y = (y \div 48) * 48 + (y % 48)
    BY <2>4, Clock
  <2>6. x \div 48 <= y \div 48
    BY <2>4
  <2>7. /\ DayOf(last) \in Nat /\ T \in 0 .. 47 /\ x = DayOf(last) * 48 + T
        /\ DayOf(now) \in Nat /\ DayOf(last) <= DayOf(now)
    BY <2>3, <2>4, <2>5, <2>6
  <2>8. y < DayOf(now) * 48 + 48
    BY <2>4, <2>5
  <2> QED
    BY <2>7, <2>8 DEF x, y
<1>4. M \in Months /\ M + 1 \in Months /\ Holds(M, DayOf(now))
  <2>1. off \in {Provider} \cup {r.off : r \in Resets}
    OBVIOUS
  <2>2. Holds(M, DayOf(now)) /\ M < LastMonth
    BY <2>1, Spans
  <2> QED
    BY <2>2, MonthsAre DEF Holds, Months
<1> HIDE DEF now
<1>5. M0 \in Months /\ Holds(M0, DayOf(last)) /\ M0 <= M
  <2>1. FirstDay[M + 1] - 1 <= LastDay
    <3>1. FirstDay[M + 1] <= R(M + 1) /\ R(M + 1) <= LastDay
      BY <1>1, <1>4
    <3> QED
      BY <1>1, <1>4, <3>1
  <2>2. DayOf(last) \in 0 .. LastDay
    <3>1. DayOf(now) < FirstDay[M + 1] /\ FirstDay[M + 1] \in Nat
      BY <1>1, <1>4 DEF Holds
    <3> QED
      BY <1>1, <1>3, <2>1, <3>1
  <2>3. Holds(M0, DayOf(last)) /\ M0 \in Months
    BY <1>3, <2>2, MonthOfDay DEF Holds
  <2>4. ~(M < M0)
    <3>1. ASSUME M < M0 PROVE FALSE
      <4>1. FirstDay[M + 1] <= FirstDay[M0]
        BY <1>1, <1>4, <2>3, <3>1
      <4>2. FirstDay[M0] <= DayOf(last) /\ DayOf(now) < FirstDay[M + 1]
        BY <1>4, <2>3 DEF Holds
      <4> QED
        BY <1>1, <1>3, <1>4, <2>3, <4>1, <4>2
    <3> QED
      BY <3>1
  <2> QED
    BY <1>1, <1>4, <2>3, <2>4
<1>6. \A k \in Nat : M0 + k \in Months => c(k) \in Int
  BY <1>1, <1>2, <1>3
<1>7. \A j, k \in Nat : M0 + j \in Months /\ M0 + k \in Months /\ j < k => c(j) < c(k)
  <2> SUFFICES ASSUME NEW j \in Nat, NEW k \in Nat, M0 + j \in Months, M0 + k \in Months, j < k PROVE c(j) < c(k)
    OBVIOUS
  <2>1. M0 \in Nat /\ M0 + j < M0 + k /\ M0 < M0 + k /\ k # 0
    BY <1>1, <1>5
  <2>2. c(k) = R(M0 + k) * 48 + T - off
    BY <2>1
  <2>3. CASE j = 0
    <3>1. DayOf(last) + 1 <= R(M0 + k)
      <4>1. DayOf(last) < FirstDay[M0 + 1] /\ FirstDay[M0 + 1] <= FirstDay[M0 + k] /\ FirstDay[M0 + k] <= R(M0 + k)
        BY <1>1, <1>5, <2>1 DEF Holds
      <4> QED
        BY <1>1, <1>3, <1>5, <4>1
    <3>2. R(M0 + k) \in Nat
      BY <1>1
    <3> HIDE DEF R, T, off, M0
    <3>3. last.at = DayOf(last) * 48 + T - off
      BY <1>2, <1>3
    <3> QED
      BY <1>2, <1>3, <2>2, <2>3, <3>1, <3>2, <3>3
  <2>4. CASE j # 0
    <3>1. R(M0 + j) < R(M0 + k) /\ R(M0 + j) \in Nat /\ R(M0 + k) \in Nat
      BY <1>1, <2>1
    <3>2. c(j) = R(M0 + j) * 48 + T - off
      BY <2>4
    <3> HIDE DEF R, T, off, M0, c
    <3> QED
      BY <1>2, <1>3, <2>2, <3>1, <3>2
  <2> QED
    BY <2>3, <2>4
<1>8. \A r : r \in resets <=> \E k \in Nat : M0 + k \in Months /\ r = c(k)
  <2>1. \A d : d \in FirstDay[M0 + 1] .. LastDay /\ IsResetDay(d, resetDay)
                 <=> \E k \in Nat \ {0} : M0 + k \in Months /\ d = R(M0 + k)
    <3>1. ASSUME NEW d \in FirstDay[M0 + 1] .. LastDay, IsResetDay(d, resetDay)
          PROVE  \E k \in Nat \ {0} : M0 + k \in Months /\ d = R(M0 + k)
      <4>1. d \in Int /\ FirstDay[M0 + 1] <= d
        BY <1>1, <1>5
      <4>2. PICK m \in Months : d = R(m)
        BY <3>1, <4>1, ResetDates
      <4>3. ~(m <= M0)
        <5>1. ASSUME m <= M0 PROVE FALSE
          <6>1. R(m) < FirstDay[m + 1] /\ FirstDay[m + 1] <= FirstDay[M0 + 1]
            <7>1. CASE m = M0
              BY <1>1, <1>5, <7>1
            <7>2. CASE m < M0
              <8>1. R(m) < FirstDay[m + 1] /\ FirstDay[m + 1] <= FirstDay[M0] /\ FirstDay[M0] <= FirstDay[M0 + 1]
                BY <1>1, <1>5, <7>2
              <8> QED
                BY <1>1, <1>5, <8>1
            <7> QED
              BY <1>1, <1>5, <5>1, <7>1, <7>2
          <6> QED
            BY <1>1, <1>5, <4>1, <4>2, <6>1
        <5> QED
          BY <5>1
      <4>4. m - M0 \in Nat \ {0} /\ M0 + (m - M0) = m
        BY <1>1, <1>5, <4>3
      <4> QED
        BY <4>2, <4>4
    <3>2. ASSUME NEW k \in Nat \ {0}, M0 + k \in Months
          PROVE  R(M0 + k) \in FirstDay[M0 + 1] .. LastDay /\ IsResetDay(R(M0 + k), resetDay)
      <4>1. M0 \in Nat /\ M0 < M0 + k
        BY <1>1, <1>5
      <4>2. FirstDay[M0 + 1] <= FirstDay[M0 + k] /\ FirstDay[M0 + k] <= R(M0 + k) /\ R(M0 + k) <= LastDay
        BY <1>1, <1>5, <3>2, <4>1
      <4>3. R(M0 + k) \in Int /\ FirstDay[M0 + 1] \in Int /\ FirstDay[M0 + k] \in Int /\ LastDay \in Int
        BY <1>1, <1>5, <3>2
      <4>4. IsResetDay(R(M0 + k), resetDay)
        BY <3>2, <4>3, ResetDates
      <4> QED
        BY <4>2, <4>3, <4>4
    <3> QED
      BY <3>1, <3>2
  <2>2. M0 + 0 = M0 /\ c(0) = last.at
    BY <1>1, <1>5
  <2>3. \A k \in Nat \ {0} : c(k) = R(M0 + k) * Day + T - off
    BY DayIs
  <2> HIDE DEF c, R, M0, T, off
  <2> QED
    BY <1>5, <2>1, <2>2, <2>3
\* The starts are those resets.
<1> DEFINE L == LastMonth - FirstMonth
           Past(f, k) == at < f[k].at /\ \A j \in 1 .. k - 1 : f[j].at <= at
           Is(t, k) == /\ t \in Moment /\ t.at = c(k) /\ t.off = off
                       /\ MonthOf(t) = M0 + k /\ TimeOf(t) = T
<1>9. PICK f : /\ f = [k \in Turns |-> StartOf(f, last, resetDay, k)]
               /\ start = f[(CHOOSE k \in 1 .. L : Past(f, k)) - 1]
  BY Rolls
<1>10. /\ Turns = 0 .. L /\ L \in Nat
       /\ f[0] = last
       /\ \A k \in 1 .. L : f[k] = NextAnchor(f[k - 1], resetDay)
  <2>1. Turns = 0 .. L /\ L \in Nat
    BY MonthsAre DEF Turns
  <2>2. \A k \in Turns : f[k] = StartOf(f, last, resetDay, k)
    BY <1>9
  <2>3. 0 \in Turns /\ \A k \in 1 .. L : k \in Turns /\ k # 0
    BY <2>1
  <2> QED
    BY <2>1, <2>2, <2>3 DEF StartOf
<1>11. \A k \in Nat : M0 + k \in Months => k \in 0 .. L
  BY <1>1, <1>5, MonthsAre DEF Months
<1>12. \A k \in Nat : M0 + k \in Months => Is(f[k], k)
  <2> DEFINE S == {k \in Nat : M0 + k \in Months => Is(f[k], k)}
  <2>1. 0 \in S
    <3>1. M0 + 0 = M0 /\ c(0) = last.at
      BY <1>1, <1>5
    <3> QED
      BY <1>2, <1>10, <3>1
  <2>2. ASSUME NEW k \in S PROVE k + 1 \in S
    <3> SUFFICES ASSUME M0 + (k + 1) \in Months PROVE Is(f[k + 1], k + 1)
      OBVIOUS
    <3>1. k \in Nat /\ M0 + k \in Months /\ (M0 + k) + 1 = M0 + (k + 1)
      BY <1>1, <1>5, MonthsAre DEF Months
    <3>2. Is(f[k], k)
      BY <2>2, <3>1
    <3>3. f[k + 1] = Anchor(f[k], 1, resetDay, T)
      <4>1. k + 1 \in 1 .. L /\ (k + 1) - 1 = k
        BY <1>10, <1>11, <3>1
      <4>2. f[k + 1] = NextAnchor(f[k], resetDay)
        BY <1>10, <4>1
      <4> QED
        BY <3>2, <4>2 DEF NextAnchor
    <3>4. c(k + 1) = R(M0 + (k + 1)) * 48 + T - off
      BY <3>1
    <3> DEFINE t == f[k]
               u == f[k + 1]
    <3>5. /\ t \in Moment /\ MonthOf(t) = M0 + k /\ t.off = off /\ u = Anchor(t, 1, resetDay, T)
          /\ T \in 0 .. 47 /\ 1 \in Int
      BY <1>3, <3>2, <3>3
    <3> HIDE DEF t, u, T, M0, off, c
    <3>6. MonthOf(t) \in Months /\ MonthOf(t) + 1 \in Months /\ MonthOf(t) + 1 = M0 + (k + 1)
      BY <3>1, <3>5
    <3>7. /\ u = [at |-> R(MonthOf(t) + 1) * 48 + T - t.off, off |-> t.off]
          /\ u \in Moment /\ TimeOf(u) = T /\ MonthOf(u) = MonthOf(t) + 1
      BY <3>5, <3>6, Anchors
    <3>8. Is(u, k + 1)
      BY <3>4, <3>5, <3>6, <3>7
    <3> QED
      BY <3>8 DEF u
  <2>3. S = Nat
    <3>1. S \in SUBSET Nat
      OBVIOUS
    <3> HIDE DEF S
    <3> QED
      BY <2>1, <2>2, <3>1, Climb
  <2> QED
    BY <2>3
<1> HIDE DEF R, T
\* The one after the moment's month is past the moment.
<1>13. PICK K \in Nat : M0 + K = M /\ M0 + (K + 1) = M + 1 /\ K + 1 \in 1 .. L /\ at < c(K + 1)
  <2>1. M - M0 \in Nat /\ M0 + (M - M0) = M /\ M0 + ((M - M0) + 1) = M + 1 /\ (M - M0) + 1 # 0
    BY <1>1, <1>4, <1>5
  <2>2. (M - M0) + 1 \in 1 .. L
    BY <1>4, <1>10, <1>11, <2>1
  <2>3. DayOf(now) + 1 <= R(M + 1) /\ R(M + 1) \in Nat
    <3>1. DayOf(now) < FirstDay[M + 1] /\ FirstDay[M + 1] <= R(M + 1)
      BY <1>1, <1>4 DEF Holds
    <3> QED
      BY <1>1, <1>3, <1>4, <3>1
  <2>4. at < R(M + 1) * 48 + T - off
    BY <1>2, <1>3, <2>3
  <2>5. c((M - M0) + 1) = R(M + 1) * 48 + T - off
    BY <2>1
  <2> QED
    BY <2>1, <2>2, <2>4, <2>5
<1> DEFINE e == CHOOSE k \in 1 .. L : Past(f, k)
<1>14. \A k \in 0 .. K + 1 : M0 + k \in Months /\ f[k].at = c(k) /\ c(k) \in Int
  <2>1. \A k \in 0 .. K + 1 : k \in Nat /\ M0 + k \in Months
    BY <1>1, <1>4, <1>5, <1>13, MonthsAre DEF Months
  <2> QED
    BY <1>6, <1>12, <2>1
<1>15. e \in 1 .. L /\ Past(f, e)
  <2> DEFINE E == {k \in 1 .. K + 1 : at < f[k].at}
  <2>1. K + 1 \in E
    BY <1>13, <1>14
  <2>2. PICK k \in E : \A j \in E : k <= j
    <3>1. E \in SUBSET Nat /\ E # {}
      BY <2>1
    <3> HIDE DEF E
    <3> QED
      BY <3>1, Least
  <2>3. \A j \in 1 .. k - 1 : f[j].at <= at
    <3> SUFFICES ASSUME NEW j \in 1 .. k - 1 PROVE f[j].at <= at
      OBVIOUS
    <3>1. j \in 1 .. K + 1 /\ j \notin E
      BY <2>2
    <3>2. f[j].at \in Int
      BY <1>14, <3>1
    <3> QED
      BY <1>2, <3>1, <3>2
  <2>4. k \in 1 .. L
    BY <1>10, <1>13, <2>2
  <2>5. at < f[k].at
    BY <2>2
  <2>6. Past(f, k)
    BY <2>3, <2>5
  <2> HIDE DEF Past
  <2> QED
    BY <2>4, <2>6
<1> HIDE DEF e
<1>16. e <= K + 1 /\ e \in Nat \ {0} /\ e - 1 \in 0 .. K + 1 /\ e \in 0 .. K + 1 /\ (e - 1) + 1 = e
  <2>1. ASSUME K + 1 < e PROVE FALSE
    <3>1. K + 1 \in 1 .. e - 1
      BY <1>13, <1>15, <2>1
    <3>2. f[K + 1].at <= at /\ f[K + 1].at = c(K + 1) /\ c(K + 1) \in Int
      BY <1>14, <1>15, <3>1
    <3> QED
      BY <1>2, <1>13, <3>2
  <2> QED
    BY <1>10, <1>13, <1>15, <2>1
<1>17. start = f[e - 1] /\ start.at = c(e - 1) /\ NextAnchor(start, resetDay).at = c(e)
  BY <1>9, <1>10, <1>14, <1>15, <1>16 DEF e
<1>18. c(e - 1) <= at /\ at < c(e)
  <2>1. at < c(e)
    BY <1>14, <1>15, <1>16
  <2>2. CASE e - 1 = 0
    BY <2>1, <2>2
  <2>3. CASE e - 1 # 0
    <3>1. e - 1 \in 1 .. e - 1
      BY <1>16, <2>3
    <3> QED
      BY <1>14, <1>15, <1>16, <2>1, <3>1
  <2> QED
    BY <2>2, <2>3
<1>19. M0 + (e - 1) \in Months /\ M0 + e \in Months /\ e - 1 \in Nat /\ e \in Nat
  BY <1>14, <1>16
<1> HIDE DEF c, resets
<1>20. c(e - 1) \in resets /\ c(e) \in resets
  BY <1>8, <1>19
<1>21. ASSUME NEW r \in resets PROVE r <= c(e - 1) \/ c(e) <= r
  <2>1. PICK k \in Nat : M0 + k \in Months /\ r = c(k)
    BY <1>8
  <2>2. k < e - 1 \/ k = e - 1 \/ k = e \/ e < k
    BY <1>19
  <2>3. c(k) < c(e - 1) \/ c(k) = c(e - 1) \/ c(k) = c(e) \/ c(e) < c(k)
    BY <1>7, <1>19, <2>1, <2>2
  <2>4. c(k) \in Int /\ c(e - 1) \in Int /\ c(e) \in Int
    BY <1>6, <1>19, <2>1
  <2> QED
    BY <2>1, <2>3, <2>4
<1>22. Exact(<<start.at, NextAnchor(start, resetDay).at>>, resets, at)
  BY <1>17, <1>18, <1>20, <1>21 DEF Exact
<1> QED
  BY <1>22 DEF start, resets, T

LEMMA Dated ==
  ASSUME NEW resetDay \in Int, NEW last \in Resets \cup {NoReset}, NEW at \in Moments
  PROVE  Exact(CycleWindow(resetDay, last, at), ResetInstants(resetDay, last, at), at)
<1>1. CASE last # NoReset /\ last.at <= at
  BY <1>1, RolledExact DEF CycleWindow, CycleStart, ResetInstants
<1>2. CASE ~(last # NoReset /\ last.at <= at)
  BY <1>2, InferredExact DEF CycleWindow, CycleStart, ResetInstants
<1> QED
  BY <1>1, <1>2

LEMMA NothingMisdated == Misdated = {}
<1> SUFFICES ASSUME NEW c \in ResetDays \X (Resets \cup {NoReset}) \X Moments
             PROVE  Exact(CycleWindow(c[1], c[2], c[3]), ResetInstants(c[1], c[2], c[3]), c[3])
  BY DEF Misdated, Exact
<1>1. c[1] \in ResetDays /\ c[2] \in Resets \cup {NoReset} /\ c[3] \in Moments
  OBVIOUS
<1>2. ResetDays \subseteq Int
  BY CalendarAssumption
<1>3. c[1] \in Int
  BY <1>1, <1>2
<1> QED
  BY <1>1, <1>3, Dated

\* The cycle of a moment begins at the last reset before it and ends at the first
\* one after it, in every month of every calendar, whatever the reset day, the
\* reported reset and its offset, and however many months ago that was
\* (compute_traffic_cycle_window, create_monthly_anchor).
THEOREM CyclesExact == Misdated = {} /\ (Spec => []CycleIsExact)
<1>1. CycleIsExact
  BY NothingMisdated DEF CycleIsExact
<1> QED
  BY <1>1, NothingMisdated, PTL

-----------------------------------------------------------------------------
(***************************************************************************)
(* What is shown of a machine's traffic.                                   *)
(***************************************************************************)

\* A reset that was reported by then, or none.
Known(last, at) == last \in Resets \cup {NoReset} /\ (last # NoReset => last.at <= at)

LEMMA ResetsAreInstants ==
  ASSUME NEW resetDay \in Int, NEW last \in Resets \cup {NoReset}, NEW at \in Moments
  PROVE  \A r \in ResetInstants(resetDay, last, at) : r \in Int
<1>1. /\ LastDay \in Int /\ Provider \in Int /\ Day \in Int
      /\ \A m \in Months : FirstDay[m + 1] \in Int
  BY DaysCount, MonthsAre, DayIs DEF LastDay, Provider, Hour, Months
<1>2. CASE last # NoReset /\ last.at <= at
  <2>1. last \in Moment /\ last.at \in Int /\ last.off \in Int
    BY <1>2, CalendarAssumption DEF Moment
  <2>2. TimeOf(last) \in Int
    BY <2>1, DayIs, Clock DEF TimeOf
  <2>3. ASSUME NEW r \in ResetInstants(resetDay, last, at), r # last.at PROVE r \in Int
    <3>1. PICK d \in {d \in FirstDay[MonthOf(last) + 1] .. LastDay : IsResetDay(d, resetDay)} :
            r = d * Day + TimeOf(last) - last.off
      BY <1>2, <2>3 DEF ResetInstants
    <3>2. d \in Int
      OBVIOUS
    <3> QED
      BY <1>1, <2>1, <2>2, <3>1, <3>2
  <2> QED
    BY <2>1, <2>3
<1>3. CASE ~(last # NoReset /\ last.at <= at)
  BY <1>1, <1>3 DEF ResetInstants
<1> QED
  BY <1>2, <1>3

\* A later moment is in the same cycle or in a later one.
LEMMA Later ==
  ASSUME NEW resetDay \in Int, NEW at \in Moments, NEW later \in Moments, at <= later,
         NEW last, Known(last, at)
  PROVE  LET c == CycleWindow(resetDay, last, at)
             d == CycleWindow(resetDay, last, later)
         IN  /\ c[1] \in Int /\ c[2] \in Int /\ c[1] <= at /\ at < c[2]
             /\ d[1] \in Int
             /\ later < c[2] => d = c
             /\ c[2] <= later => c[2] <= d[1]
<1> DEFINE c == CycleWindow(resetDay, last, at)
           d == CycleWindow(resetDay, last, later)
           resets == ResetInstants(resetDay, last, at)
<1>1. at \in Int /\ later \in Int /\ last \in Resets \cup {NoReset} /\ (last # NoReset => last.at \in Int)
  BY CalendarAssumption DEF Known, Moment
<1>2. ResetInstants(resetDay, last, later) = resets
  <2>1. (last # NoReset /\ last.at <= later) <=> (last # NoReset /\ last.at <= at)
    BY <1>1 DEF Known
  <2> QED
    BY <2>1 DEF ResetInstants
<1>3. Exact(c, resets, at) /\ Exact(d, resets, later)
  BY <1>1, <1>2, Dated
<1>4. \A r \in resets : r \in Int
  BY <1>1, ResetsAreInstants
<1>5. c = <<c[1], c[2]>> /\ d = <<d[1], d[2]>>
  BY DEF CycleWindow
<1> HIDE DEF c, d, resets
<1>6. c[1] \in Int /\ c[2] \in Int /\ d[1] \in Int /\ d[2] \in Int
  BY <1>3, <1>4 DEF Exact
<1>7. /\ c[1] <= at /\ at < c[2] /\ d[1] <= later /\ later < d[2]
      /\ d[1] <= c[1] \/ c[2] <= d[1]
      /\ c[1] <= d[1] \/ d[2] <= c[1]
      /\ d[2] <= c[1] \/ c[2] <= d[2]
      /\ c[2] <= d[1] \/ d[2] <= c[2]
  BY <1>3 DEF Exact
<1>8. later < c[2] => d[1] = c[1] /\ d[2] = c[2]
  BY <1>1, <1>6, <1>7
<1>9. c[2] <= later => c[2] <= d[1]
  BY <1>1, <1>6, <1>7
<1> QED
  BY <1>5, <1>6, <1>7, <1>8, <1>9 DEF c, d

\* The sample s is of the usage in the row, and of nothing later.
Backs(stored, s) ==
  /\ s \in stored.samples /\ s.at \in Moments /\ s.used # None
  /\ s.used = stored.row.used /\ s.last = stored.row.last
  /\ stored.row.day \in ResetDays /\ Known(stored.row.last, s.at)
  /\ s.cycle = CycleWindow(stored.row.day, stored.row.last, s.at)
  /\ \A o \in stored.samples : o.at <= s.at /\ o.cycle[1] <= s.at

\* Then it is shown until its cycle ends, and no older usage ever.
LEMMA BackedShown ==
  ASSUME NEW stored, NEW s, Backs(stored, s), NEW later \in Moments, s.at <= later
  PROVE  /\ later < s.cycle[2] =>
              \E view \in Shown(stored, later) :
                 view.cycle = s.cycle /\ view.used = s.used /\ s \in view.history
         /\ \A view \in Shown(stored, later) : view.cycle[1] \in Int /\ view.cycle[1] <= s.at
<1> DEFINE row == stored.row
           cycle == CycleOf(row, later)
           past == SamplesOfCycle(stored.samples, cycle)
           view == [cycle |-> cycle, history |-> past, used |-> row.used]
<1>0. row.day \in Int /\ row.day # None /\ row.used # None /\ s.at \in Int /\ later \in Int
  <2>1. \A n \in Nat : n \in Int /\ n # None
    BY DEF None
  <2>2. row.day \in ResetDays /\ s.at \in Moments /\ row.used # None
    BY DEF Backs
  <2> HIDE DEF row
  <2> QED
    BY <2>1, <2>2, CalendarAssumption
<1>1. /\ s.cycle[1] \in Int /\ s.cycle[2] \in Int /\ s.cycle[1] <= s.at /\ s.at < s.cycle[2] /\ cycle[1] \in Int
      /\ later < s.cycle[2] => cycle = s.cycle
      /\ s.cycle[2] <= later => s.cycle[2] <= cycle[1]
  BY <1>0, Later DEF Backs, CycleOf
<1>2. Shown(stored, later) = IF HidesStale(stored, cycle, past) THEN {} ELSE {view}
  BY <1>0 DEF Shown, Views
<1>3. CASE later < s.cycle[2]
  <2>1. cycle = s.cycle /\ s \in past
    BY <1>1, <1>3 DEF SamplesOfCycle, Backs
  <2>2. ~HidesStale(stored, cycle, past)
    BY <2>1 DEF HidesStale
  <2>3. Shown(stored, later) = {view}
    BY <1>2, <2>2
  <2>4. view.cycle = s.cycle /\ view.used = s.used /\ view.history = past
    BY <2>1 DEF Backs
  <2> HIDE DEF view, past, cycle
  <2>5. view.cycle[1] \in Int /\ view.cycle[1] <= s.at
    BY <1>1, <2>4
  <2> QED
    BY <2>1, <2>3, <2>4, <2>5
<1>4. CASE ~(later < s.cycle[2])
  <2>1. s.at < cycle[1]
    BY <1>0, <1>1, <1>4
  <2>2. past = {}
    <3>1. ASSUME NEW o \in past PROVE FALSE
      <4>1. o \in stored.samples /\ o.cycle = cycle
        BY <3>1 DEF SamplesOfCycle
      <4>2. cycle[1] <= s.at
        BY <4>1 DEF Backs
      <4> QED
        BY <1>0, <1>1, <2>1, <4>2
    <3> QED
      BY <3>1
  <2>3. s \in Latest(stored.samples) /\ stored.samples # {}
    BY DEF Latest, Backs
  <2>4. s.cycle # cycle
    BY <1>0, <1>1, <2>1
  <2>5. HidesStale(stored, cycle, past)
    BY <2>2, <2>3, <2>4 DEF HidesStale, Backs
  <2>6. Shown(stored, later) = {}
    BY <1>2, <2>5
  <2> QED
    BY <1>4, <2>6
<1> QED
  BY <1>3, <1>4

\* The answers of a moment, told apart.
LEMMA AnswersAre ==
  ASSUME NEW at \in Moments, NEW a \in Answers(at)
  PROVE  /\ a.at = at /\ a.kind \in {"whole", "usage", "nothing"} /\ Known(a.last, at)
         /\ a.kind = "whole" => a.used \in {1, 2} /\ a.day \in ResetDays
         /\ a.kind = "usage" => a.used \in {1, 2} /\ a.day = None /\ a.last = NoReset
         /\ a.kind = "nothing" => a.used = None /\ a.day = None /\ a.last = NoReset
         /\ HasFreshSnapshot(a) <=> a.kind = "whole"
<1>0. /\ 1 # None /\ 2 # None /\ ResetDays \subseteq Nat /\ \A n \in Nat : n # None
  BY CalendarAssumption DEF None
<1>1. CASE a \in [kind : {"whole"}, at : {at}, used : {1, 2}, day : ResetDays,
                  last : {r \in Resets : r.at <= at} \cup {NoReset}]
  BY <1>0, <1>1 DEF HasFreshSnapshot, Known
<1>2. CASE a \in [kind : {"usage"}, at : {at}, used : {1, 2}, day : {None}, last : {NoReset}]
  BY <1>0, <1>2 DEF HasFreshSnapshot, Known
<1>3. CASE a = [kind |-> "nothing", at |-> at, used |-> None, day |-> None, last |-> NoReset]
  BY <1>0, <1>3 DEF HasFreshSnapshot, Known
<1> QED
  BY <1>1, <1>2, <1>3 DEF Answers

SampleOf(answer, row) ==
  [bucket |-> answer.at \div Hour, at |-> answer.at, used |-> row.used,
   last |-> row.last, cycle |-> CycleWindow(row.day, row.last, answer.at)]

\* A whole answer is backed by its sample, whatever is stored from before it.
LEMMA WholeBacked ==
  ASSUME NEW at \in Moments, NEW a \in Answers(at), a.kind = "whole",
         NEW stored, stored.row.last = NoReset \/ Known(stored.row.last, at),
         \A o \in stored.samples : o.at <= at /\ o.cycle[1] <= at
  PROVE  LET new == Read(stored, a)
             s == SampleOf(a, new.row)
         IN  Backs(new, s) /\ s.at = at /\ s.used = a.used /\ new.row.from = a /\ s.cycle = CycleOf(new.row, at)
<1> DEFINE row == Preserved(a, stored.row)
           s == SampleOf(a, row)
           new == Read(stored, a)
<1>1. a.at = at /\ a.used # None /\ a.day \in ResetDays /\ a.day # None /\ HasFreshSnapshot(a) /\ Known(a.last, at)
  <2>1. a.at = at /\ HasFreshSnapshot(a) /\ a.day \in ResetDays /\ Known(a.last, at)
    BY AnswersAre
  <2> QED
    BY <2>1 DEF HasFreshSnapshot
<1>2. /\ row.used = a.used /\ row.day = a.day /\ row.from = a
      /\ row.last = IF a.last # NoReset THEN a.last ELSE stored.row.last
  BY <1>1 DEF Preserved, Or
<1>3. Known(row.last, at)
  BY <1>1, <1>2 DEF Known
<1>4. new.row = row /\ new.samples = UpsertSample(stored.samples, {s})
  BY <1>1 DEF Read, SamplesOf, SampleOf
<1> HIDE DEF row, new
<1>5. s.at = at /\ s.used = row.used /\ s.last = row.last /\ s.cycle = CycleWindow(row.day, row.last, at)
  BY <1>1 DEF SampleOf
<1> HIDE DEF s
<1>6. s \in new.samples /\ \A o \in new.samples : o = s \/ o \in stored.samples
  BY <1>4 DEF UpsertSample
<1>7. s.cycle[1] <= at /\ at <= at
  <2>1. row.day \in Int /\ at \in Int
    <3>1. ResetDays \subseteq Int /\ Moments \subseteq Int
      BY CalendarAssumption
    <3> QED
      BY <1>1, <1>2, <3>1
  <2> QED
    BY <1>3, <1>5, <2>1, Later
<1>8. Backs(new, s)
  BY <1>1, <1>2, <1>3, <1>4, <1>5, <1>6, <1>7 DEF Backs
<1> QED
  BY <1>1, <1>2, <1>4, <1>5, <1>8 DEF s, new, row, CycleOf

Unread == [row |-> EmptyRow, samples |-> {}]

\* What the first answer leaves.
LEMMA FirstRead ==
  ASSUME NEW at \in Moments, NEW a \in Answers(at)
  PROVE  LET stored == Read(Unread, a)
         IN  /\ stored.row.last = a.last /\ stored.row.used = a.used /\ stored.row.day = a.day
             /\ stored.row.from = IF a.used # None THEN a ELSE None
             /\ \A o \in stored.samples : o.at = at /\ o.cycle[1] \in Int /\ o.cycle[1] <= at
             /\ a.kind = "whole" => \E s : Backs(stored, s) /\ s.at = at
<1> DEFINE stored == Read(Unread, a)
           row == Preserved(a, EmptyRow)
           s == SampleOf(a, row)
<1>1. row.used = a.used /\ row.day = a.day /\ row.last = a.last /\ row.from = IF a.used # None THEN a ELSE None
  BY DEF Preserved, EmptyRow, Or
<1>2. stored.row = row /\ stored.samples = IF HasFreshSnapshot(a) THEN {s} ELSE {}
  BY DEF Read, Unread, SamplesOf, SampleOf, UpsertSample
<1>3. Unread.row.last = NoReset /\ Unread.samples = {}
  BY DEF Unread, EmptyRow
<1> HIDE DEF row
<1>4. ASSUME a.kind = "whole" PROVE Backs(stored, s) /\ s.at = at
  BY <1>2, <1>3, <1>4, WholeBacked
<1>5. ASSUME NEW o \in stored.samples PROVE o.at = at /\ o.cycle[1] \in Int /\ o.cycle[1] <= at
  <2>1. HasFreshSnapshot(a) /\ o = s
    BY <1>2, <1>5
  <2>2. a.kind = "whole" /\ a.day \in ResetDays /\ Known(a.last, at) /\ a.at = at
    BY <2>1, AnswersAre
  <2>3. o.at = at /\ o.cycle = CycleWindow(a.day, a.last, at)
    BY <1>1, <2>1, <2>2 DEF SampleOf
  <2>4. a.day \in Int /\ at \in Int
    <3>1. ResetDays \subseteq Int /\ Moments \subseteq Int
      BY CalendarAssumption
    <3> QED
      BY <2>2, <3>1
  <2>5. at <= at
    BY <2>4
  <2> QED
    BY <2>2, <2>3, <2>4, <2>5, Later
<1> HIDE DEF stored, s
<1>6. a.kind = "whole" => \E t : Backs(stored, t) /\ t.at = at
  BY <1>4
<1> QED
  BY <1>1, <1>2, <1>5, <1>6 DEF stored

\* What both leave: a row that is backed, unless its usage came without its
\* schedule or there is none to show.
LEMMA BothRead ==
  ASSUME NEW h \in Histories
  PROVE  /\ h[2].at \in Moments
         /\ h[2].kind = "whole" =>
              \E s : /\ Backs(After(h), s) /\ s.at = h[2].at /\ s.used = h[2].used
                     /\ s.cycle = CycleOf(After(h).row, h[2].at)
         /\ \/ After(h).row.day = None \/ After(h).row.used = None \/ After(h).row.from.kind = "usage"
            \/ \E s : Backs(After(h), s) /\ s.at = After(h).row.from.at /\ s.at <= h[2].at
<1>1. PICK m \in Moments \X Moments : m[1] < m[2] /\ h \in Answers(m[1]) \X Answers(m[2])
  BY DEF Histories
<1> DEFINE a == h[1]
           b == h[2]
           mid == Read(Unread, a)
           stored == After(h)
<1>2. /\ m[1] \in Moments /\ m[2] \in Moments /\ m[1] \in Int /\ m[2] \in Int /\ m[1] <= m[2] /\ m[2] <= m[2]
      /\ a \in Answers(m[1]) /\ b \in Answers(m[2])
  <2>1. m[1] \in Moments /\ m[2] \in Moments /\ a \in Answers(m[1]) /\ b \in Answers(m[2])
    BY <1>1
  <2>2. Moments \subseteq Int
    BY CalendarAssumption
  <2>3. m[1] \in Int /\ m[2] \in Int
    BY <2>1, <2>2
  <2> HIDE DEF a, b
  <2> QED
    BY <1>1, <2>1, <2>3
<1>3. stored = Read(mid, b)
  BY DEF After, Unread
<1> HIDE DEF a, b, stored
<1>4. /\ a.at = m[1] /\ Known(a.last, m[1]) /\ a.kind \in {"whole", "usage", "nothing"}
      /\ a.kind = "usage" => a.day = None
      /\ a.kind = "nothing" => a.used = None
      /\ a.kind = "whole" => a.used # None
  BY <1>2, AnswersAre DEF HasFreshSnapshot
<1>5. /\ b.at = m[2] /\ b.kind \in {"whole", "usage", "nothing"}
      /\ b.kind = "usage" => b.used # None
      /\ b.kind = "nothing" => b.used = None /\ b.day = None /\ b.last = NoReset /\ ~HasFreshSnapshot(b)
  <2>1. 1 # None /\ 2 # None
    BY DEF None
  <2> QED
    BY <1>2, <2>1, AnswersAre
<1>6. /\ mid.row.last = a.last /\ mid.row.used = a.used /\ mid.row.day = a.day
      /\ mid.row.from = IF a.used # None THEN a ELSE None
      /\ \A o \in mid.samples : o.at = m[1] /\ o.cycle[1] \in Int /\ o.cycle[1] <= m[1]
      /\ a.kind = "whole" => \E s : Backs(mid, s) /\ s.at = m[1]
  BY <1>2, FirstRead
<1> HIDE DEF mid
<1>7. CASE b.kind = "whole"
  <2>1. mid.row.last = NoReset \/ Known(mid.row.last, m[2])
    <3>1. a.last \in Resets => a.last.at \in Int
      BY CalendarAssumption DEF Moment
    <3> QED
      BY <1>2, <1>4, <1>6, <3>1 DEF Known
  <2>2. \A o \in mid.samples : o.at <= m[2] /\ o.cycle[1] <= m[2]
    BY <1>2, <1>6
  <2> DEFINE s == SampleOf(b, stored.row)
  <2>3. Backs(stored, s) /\ s.at = m[2] /\ s.used = b.used /\ stored.row.from = b /\ s.cycle = CycleOf(stored.row, m[2])
    BY <1>2, <1>3, <1>7, <2>1, <2>2, WholeBacked
  <2> HIDE DEF s
  <2> QED
    BY <1>2, <1>5, <2>3 DEF b, stored
<1>8. CASE b.kind = "usage"
  <2>1. stored.row.from = b
    BY <1>3, <1>5, <1>8 DEF Read, Preserved
  <2> QED
    BY <1>2, <1>5, <1>8, <2>1 DEF b, stored
<1>9. CASE b.kind = "nothing"
  <2>1. /\ stored.row.used = mid.row.used /\ stored.row.day = mid.row.day
        /\ stored.row.last = mid.row.last /\ stored.row.from = mid.row.from
    BY <1>3, <1>5, <1>9 DEF Read, Preserved, Or
  <2>2. stored.samples = mid.samples
    BY <1>3, <1>5, <1>9 DEF Read, SamplesOf, UpsertSample
  <2>3. CASE a.kind = "whole"
    <3>1. PICK s : Backs(mid, s) /\ s.at = m[1]
      BY <1>6, <2>3
    <3>2. Backs(stored, s)
      BY <2>1, <2>2, <3>1 DEF Backs
    <3>3. stored.row.from = a
      BY <1>4, <1>6, <2>1, <2>3
    <3> QED
      BY <1>2, <1>4, <1>5, <1>9, <3>1, <3>2, <3>3 DEF b, stored
  <2>4. CASE a.kind # "whole"
    <3>1. stored.row.day = None \/ stored.row.used = None
      BY <1>4, <1>6, <2>1, <2>4
    <3> QED
      BY <1>2, <1>5, <1>9, <3>1 DEF b, stored
  <2> QED
    BY <2>3, <2>4
<1> QED
  BY <1>5, <1>7, <1>8, <1>9

\* A whole snapshot is shown, with its sample, until its cycle ends.
LEMMA NothingUnshown == Unshown = {}
<1> SUFFICES ASSUME NEW h \in Histories, h[2].kind = "whole",
                    NEW later \in From(h[2].at), later < CycleOf(After(h).row, h[2].at)[2]
             PROVE  \E view \in Shown(After(h), later) :
                      /\ view.cycle = CycleOf(After(h).row, h[2].at) /\ view.used = h[2].used
                      /\ \E s \in view.history : s.at = h[2].at /\ s.used = h[2].used
  BY DEF Unshown
<1>1. PICK s : /\ Backs(After(h), s) /\ s.at = h[2].at /\ s.used = h[2].used
               /\ s.cycle = CycleOf(After(h).row, h[2].at)
  BY BothRead
<1>2. later \in Moments /\ s.at <= later
  BY <1>1 DEF From
<1> QED
  BY <1>1, <1>2, BackedShown

\* Usage of an earlier cycle is shown only if no sample says when it was read.
LEMMA OutlivedIsUndated == \A h \in Outlived : After(h).row.from.kind = "usage"
<1> SUFFICES ASSUME NEW h \in Histories, NEW later \in From(h[2].at), NEW view \in Shown(After(h), later),
                    After(h).row.from.at < view.cycle[1], After(h).row.from.kind # "usage"
             PROVE  FALSE
  BY DEF Outlived
<1>1. After(h).row.day # None /\ After(h).row.used # None
  BY DEF Shown, Views
<1>2. PICK s : Backs(After(h), s) /\ s.at = After(h).row.from.at /\ s.at <= h[2].at
  BY <1>1, BothRead
<1>3. later \in Moments /\ s.at <= later
  <2>1. later \in Moments /\ h[2].at <= later /\ h[2].at \in Moments /\ s.at \in Moments
    BY <1>2, BothRead DEF From, Backs
  <2>2. Moments \subseteq Int
    BY CalendarAssumption
  <2>3. later \in Int /\ h[2].at \in Int /\ s.at \in Int
    BY <2>1, <2>2
  <2>4. s.at <= later
    BY ONLY <1>2, <2>1, <2>3
  <2> QED
    BY <2>1, <2>4
<1>4. view.cycle[1] \in Int /\ view.cycle[1] <= s.at /\ s.at \in Int
  <2>1. view.cycle[1] \in Int /\ view.cycle[1] <= s.at
    BY <1>2, <1>3, BackedShown
  <2>2. s.at \in Moments /\ Moments \subseteq Int
    BY <1>2, CalendarAssumption DEF Backs
  <2> QED
    BY <2>1, <2>2
<1>5. s.at < view.cycle[1]
  BY <1>2
<1> QED
  BY ONLY <1>4, <1>5

\* Whatever two answers of a panel say and whenever the list is asked for, a
\* whole snapshot is shown through its cycle with its sample, and no usage
\* outlives its cycle but one that came without its schedule
\* (preserve_machine_traffic_cache, build_traffic_sample, get_machines_response,
\* should_hide_stale_previous_cycle_traffic).
THEOREM ShowsTheCycle ==
  /\ Unshown = {} /\ \A h \in Outlived : After(h).row.from.kind = "usage"
  /\ Spec => []ShownIsOfTheCycle
<1>1. ShownIsOfTheCycle
  BY NothingUnshown, OutlivedIsUndated DEF ShownIsOfTheCycle
<1> QED
  BY <1>1, NothingUnshown, OutlivedIsUndated, PTL
=============================================================================
