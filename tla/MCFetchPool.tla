----------------------------- MODULE MCFetchPool -----------------------------
(* The fetch pool on small instances: lanes of one slot, so that a second  *)
(* job of either priority finds its lane full; model values name the jobs  *)
(* (h high, l low) and the workers.                                        *)
EXTENDS FetchPool

CONSTANTS h1, h2, l1, l2, w1, w2
=============================================================================
