------------------------------ MODULE MCDiskCache ------------------------------
EXTENDS DiskCache

CONSTANTS k1, k2

(* Either blob alone fits in the small budget, both do not. *)
MCSize == (k1 :> 1) @@ (k2 :> 2)
=============================================================================
