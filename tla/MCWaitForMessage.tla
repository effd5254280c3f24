-------------------------- MODULE MCWaitForMessage --------------------------
(* Model checking WaitForMessage: a few messages against two waits. *)
EXTENDS WaitForMessage, TLC
=============================================================================
