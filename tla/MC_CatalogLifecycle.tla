------------------------ MODULE MC_CatalogLifecycle ------------------------
(***************************************************************************)
(* An instance of CatalogLifecycle for TLC: a target with two configs and  *)
(* one with a single config.                                               *)
(***************************************************************************)
EXTENDS CatalogLifecycle

CONSTANTS c1, c2, c3, t1, t2

TwoAndOne == [c \in {c1, c2, c3} |-> IF c = c3 THEN t2 ELSE t1]
=============================================================================
