---------------------------- MODULE TargetConfigs ----------------------------
(***************************************************************************)
(* What the list of targets may count on of the configs of a target,       *)
(* without rows, marks and caches: a page of a target that can have        *)
(* configs makes it active, a page without configs ends what was active,   *)
(* and so does the retirement of the target.  A target with configs never  *)
(* becomes one without.                                                    *)
(***************************************************************************)

CONSTANTS Targets, Sellers

VARIABLE configs

Init == configs \in [Targets -> {"none", "active"}]

Ended(state) == IF state = "active" THEN "delisted" ELSE state

\* A page of t.
Page(t) ==
  \/ t \in Sellers /\ configs' = [configs EXCEPT ![t] = "active"]
  \/ configs' = [configs EXCEPT ![t] = Ended(@)]

\* The targets of a list that are gone.
Retire(gone) == configs' = [t \in Targets |-> IF t \in gone THEN Ended(configs[t]) ELSE configs[t]]

Next == (\E t \in Targets : Page(t)) \/ (\E gone \in SUBSET Targets : Retire(gone))

Spec == Init /\ [][Next]_configs
=============================================================================
