----------------------------- MODULE RecordFeed -----------------------------
(***************************************************************************)
(* The list of a user's notification records, read page by page from the   *)
(* newest on while records arrive and are cleaned up                       *)
(* (list_notification_records, cleanup_notification_records).  A record is *)
(* its creation time and its id; several may be of the same time.          *)
(***************************************************************************)
EXTENDS FiniteSets, Naturals, Sequences

CONSTANTS
  Times,     \* creation times
  Ids,       \* ids of records, as numbers in their order
  PageSizes, \* limits a client asks for, after the handler's clamp
  MaxRows    \* values of notification_records_max_rows, zero for none

ASSUME FeedAssumption ==
  /\ Times \subseteq Nat /\ IsFiniteSet(Times)
  /\ Ids \subseteq Nat /\ IsFiniteSet(Ids)
  /\ PageSizes \subseteq 1 .. 50 /\ MaxRows \subseteq Nat

Feed == Times \X Ids

\* NOTIFICATION_RECORD_CURSOR_MAX_TS: where a list without a cursor starts.
Top == <<1 + CHOOSE t \in Times : \A u \in Times : u <= t, 0>>

-----------------------------------------------------------------------------
\* Mutant: the page goes on below the moment of the cursor.
BelowMoment(r, cursor) == r[1] < cursor[1]

\* The order of the list: by creation time, then by id.
Below(r, cursor) == r[1] < cursor[1] \/ (r[1] = cursor[1] /\ r[2] < cursor[2])

Place(r, rows) == Cardinality({q \in rows : r[1] < q[1] \/ (r[1] = q[1] /\ r[2] <= q[2])})

\* One page: the rows below the cursor, the first of them, and where the next
\* page starts if there are more.
RowsBelow(records, cursor) == {r \in records : Below(r, cursor)}
Visible(records, cursor, limit) ==
  LET rows == RowsBelow(records, cursor) IN {r \in rows : Place(r, rows) <= limit}
HasMore(records, cursor, limit) == Cardinality(RowsBelow(records, cursor)) > limit
NextCursor(page) == CHOOSE r \in page : Place(r, page) = Cardinality(page)

\* cleanup_notification_records: by age, then down to maxRows of a user.
Cleaned(records, cutoff, maxRows) ==
  LET young == {r \in records : r[1] >= cutoff}
  IN  IF maxRows = 0 THEN young ELSE {r \in young : Place(r, young) <= maxRows}

-----------------------------------------------------------------------------
(* A reader takes the first page, then the records change, then it follows *)
(* the cursors to the end.                                                 *)

PagesFrom(records, start, limit) ==
  LET pages[c \in Nat \X Nat] ==
        LET page == Visible(records, c, limit)
        IN  IF HasMore(records, c, limit) THEN <<page>> \o pages[NextCursor(page)] ELSE <<page>>
  IN  pages[start]

PagesRead(before, after, limit) ==
  LET page == Visible(before, Top, limit)
  IN  IF HasMore(before, Top, limit)
      THEN <<page>> \o PagesFrom(after, NextCursor(page), limit)
      ELSE <<page>>

\* The readings that miss a record that was there all the time, or show one
\* twice or out of order.
Misread ==
  {c \in [before : SUBSET Feed, new : SUBSET Feed, cutoff : Times, max : MaxRows, limit : PageSizes] :
     LET after == Cleaned(c.before \cup c.new, c.cutoff, c.max)
         pages == PagesRead(c.before, after, c.limit)
     IN  /\ c.before \cap c.new = {}
         /\ ~ /\ c.before \cap after \subseteq UNION {pages[i] : i \in DOMAIN pages}
              /\ \A i, j \in DOMAIN pages : i < j =>
                   \A r \in pages[i], q \in pages[j] :
                     q[1] < r[1] \/ (q[1] = r[1] /\ q[2] < r[2])}
=============================================================================
