--------------------------- MODULE MCProcessPool ----------------------------
(* Model checking ProcessPool with pages p1 and p2.                         *)
EXTENDS ProcessPool

CONSTANTS p1, p2
=============================================================================
