--------------------------- MODULE MC_CatalogRefresh ---------------------------
(***************************************************************************)
(* An instance of CatalogRefresh for TLC: one page; its user and others    *)
(* start jobs.                                                             *)
(***************************************************************************)
EXTENDS CatalogRefresh, TLC

CONSTANTS p1, u1

MCUserOf == p1 :> u1
=============================================================================
