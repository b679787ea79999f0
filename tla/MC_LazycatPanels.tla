-------------------------- MODULE MC_LazycatPanels --------------------------
(***************************************************************************)
(* Two machines on two pages, and what their panels say of the traffic:    *)
(* an instance of LazycatSync with that of TrafficCycle.  The calendar is  *)
(* November 2023 to April 2024, with a leap February; the panels are read  *)
(* around the ends of months, where the provider is and in UTC.            *)
(***************************************************************************)
EXTENDS LazycatSync, TrafficCycle

CONSTANTS k1, r1

\* 1 December 2023 is day 30, 1 February 2024 day 92 and 1 March day 121.
AroundMonthEnds ==
    {30 * Day - Provider - 1, 30 * Day - Provider, 30 * Day - 1, 30 * Day, 40 * Day + 21,
     60 * Day, 92 * Day - Provider - 1, 92 * Day - Provider, 91 * Day - Provider,
     120 * Day - Provider, 121 * Day - Provider - 1, 121 * Day - Provider}

\* 31 January, just after midnight, where the provider is; 10 December in UTC.
ReportedResets ==
    {[at |-> 91 * Day - Provider + 1, off |-> Provider], [at |-> 39 * Day + 21, off |-> UTC]}

-----------------------------------------------------------------------------
(* The algorithm of TrafficCycle, over all its inputs: it does not depend  *)
(* on the state, so the initial state is the one to see it.                *)

\* The cycle of a moment runs from the last reset before it to the first one
\* after it, whatever the reset day, the month's length and the offset
\* (compute_traffic_cycle_window).
CycleIsExact == Init => Misdated = {}

\* A whole snapshot is shown, with its sample in the history, until the cycle it
\* was read in ends, whatever was stored before it: the sample's cycle,
\* computed as it is stored, and the list's, computed when it is asked for,
\* are the same (build_traffic_sample, get_machines_response).  From then on it
\* is not shown any more (should_hide_stale_previous_cycle_traffic); a panel
\* that answers with the usage and without its schedule is the exception: no
\* sample says when it was read.
ShownIsOfTheCycle ==
    Init => Unshown = {} /\ \A h \in Outlived : After(h).row.from.kind = "usage"

=============================================================================
