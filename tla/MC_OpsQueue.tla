---------------------------- MODULE MC_OpsQueue ----------------------------
(***************************************************************************)
(* Instances of OpsQueue for TLC.                                          *)
(***************************************************************************)
EXTENDS OpsQueue, TLC

\* A background caller that any cache row may serve, and an HTTP client that
\* asks for a real fetch.
BackgroundAndForced == {DiscoveryDue, PartitionRefresh}

\* Two callers that wait, with and without a real fetch.
PlainAndForced == {AutoRefresh, PartitionRefresh}

\* Callers, keys and workers are interchangeable.
Symmetry == Permutations(Keys) \cup Permutations(Workers) \cup Permutations(Requests)

\* The calls of the partition refresh endpoint alone.
PartitionCalls == {PartitionRefresh}
=============================================================================
