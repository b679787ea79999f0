--------------------------- MODULE MC_LazycatSync ---------------------------
(***************************************************************************)
(* Instances of LazycatSync for TLC.  The account and its races need one   *)
(* machine; pages and panels need two machines and no races.               *)
(***************************************************************************)
EXTENDS LazycatSync

CONSTANTS k1, k2, r1
=============================================================================
