---------------------------- MODULE SingleFlight ----------------------------
(***************************************************************************)
(* What the queue of the ops manager promises its callers, without workers,*)
(* queue or locks: the calls for a key form a group, a key has at most one *)
(* run in flight, the run that ends answers the whole group at once with   *)
(* one result, and a group with a caller that asked for a real fetch is    *)
(* never answered from the cache.                                          *)
(***************************************************************************)
EXTENDS Naturals

CONSTANTS Keys, Requests

VARIABLES
  group,   \* the calls of each key that its next result is for
  flight,  \* the keys with a run in flight
  sealed,  \* groups with their result, on the way to the callers
  call     \* the calls

abstract == <<group, flight, sealed, call>>

NoCall == [phase |-> "idle", force |-> FALSE, answer |-> "none"]

Init ==
  /\ group = [k \in Keys |-> {}]
  /\ flight = {}
  /\ sealed = {}
  /\ call = [r \in Requests |-> NoCall]

\* A call joins the group of its key, running or not.  It may not wait.
Join(r, k, force, p) ==
  /\ call[r].phase = "idle"
  /\ group' = [group EXCEPT ![k] = @ \cup {r}]
  /\ call' = [call EXCEPT ![r] = [phase |-> p, force |-> force, answer |-> "none"]]
  /\ UNCHANGED <<flight, sealed>>

\* A caller stops waiting; its call stays in the group.
Leave(r) ==
  /\ call[r].phase = "waiting"
  /\ call' = [call EXCEPT ![r] = [phase |-> "gone", force |-> @.force, answer |-> "none"]]
  /\ UNCHANGED <<group, flight, sealed>>

StartRun(k) ==
  /\ group[k] # {}
  /\ k \notin flight
  /\ flight' = flight \cup {k}
  /\ UNCHANGED <<group, sealed, call>>

EndRun(k, result) ==
  /\ k \in flight
  /\ result = "cache" => \A r \in group[k] : ~call[r].force
  /\ flight' = flight \ {k}
  /\ group' = [group EXCEPT ![k] = {}]
  /\ sealed' = sealed \cup {[joiners |-> group[k], result |-> result]}
  /\ UNCHANGED call

\* Those of the group that still wait are answered, all of them.
Deliver(batch) ==
  /\ sealed' = sealed \ {batch}
  /\ call' = [r \in Requests |->
       IF r \notin batch.joiners THEN call[r]
       ELSE IF call[r].phase = "gone" THEN NoCall
       ELSE [phase |-> "answered", force |-> call[r].force, answer |-> batch.result]]
  /\ UNCHANGED <<group, flight>>

Return(r) ==
  /\ call[r].phase = "answered"
  /\ call' = [call EXCEPT ![r] = NoCall]
  /\ UNCHANGED <<group, flight, sealed>>

Next ==
  \/ \E r \in Requests, k \in Keys, force \in BOOLEAN, p \in {"waiting", "gone"} :
       Join(r, k, force, p)
  \/ \E r \in Requests : Leave(r) \/ Return(r)
  \/ \E k \in Keys : StartRun(k)
  \/ \E k \in Keys, result \in {"cache", "fetch", "error"} : EndRun(k, result)
  \/ \E batch \in sealed : Deliver(batch)

Spec == Init /\ [][Next]_abstract
=============================================================================
