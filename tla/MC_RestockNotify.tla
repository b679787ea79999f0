--------------------------- MODULE MC_RestockNotify ---------------------------
(***************************************************************************)
(* An instance of RestockNotify for TLC: one config; one user monitors it  *)
(* and follows the page, one only monitors it, one only follows.  With it  *)
(* goes an instance of RecordFeed, for the records that are left behind.   *)
(***************************************************************************)
EXTENDS RestockNotify, RecordFeed, TLC

CONSTANTS c1, both, watcher, follower, t1, t2

MCWatches == {both, watcher} \X {c1}
MCChats == (both :> {t1, t2}) @@ (watcher :> {t1}) @@ (follower :> {})

\* Who pages through the records sees each record that is there from the first
\* page to the last, once and in order, whatever arrives or is cleaned up in
\* between and however many records are of the same time.  It does not depend
\* on the state, so the initial state is the one to see it
\* (list_notification_records, cleanup_notification_records).
FeedIsWhole == Init => Misread = {}
=============================================================================
