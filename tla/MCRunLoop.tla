------------------------------ MODULE MCRunLoop -----------------------------
(* Model checking RunLoop: the main thread and one other thread dispatch two  *)
(* functions, and pages spin nested loops.                                    *)
EXTENDS RunLoop, TLC

CONSTANTS f1, f2, other, p1, p2
=============================================================================
