------------------------- MODULE MC_CatalogTopology -------------------------
(***************************************************************************)
(* An instance of CatalogTopology for TLC: a country with a region, and a  *)
(* site that may show both, the country alone, or nothing.                 *)
(***************************************************************************)
EXTENDS CatalogTopology

CONSTANTS c1, r1

MCSiteLists == {{}, {c1}, {c1, r1}}

MCParent == [r \in Regions |-> c1]
=============================================================================
