--------------------------- MODULE MCPackLifecycle ---------------------------
(* Two workers reading, and as many names as can be held at once: one per   *)
(* worker, the layer's, the walk's and the one being made.                 *)
EXTENDS PackLifecycle

CONSTANTS i1, i2, i3, i4, i5, r1, r2
=============================================================================
