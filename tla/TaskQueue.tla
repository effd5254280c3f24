----------------------------- MODULE TaskQueue ------------------------------
(***************************************************************************)
(* What WTF::RunLoop::dispatch promises its callers: functions given to a  *)
(* run loop start in the order in which they were given, each once, and    *)
(* every one of them starts unless the run loop ends first.                *)
(***************************************************************************)
EXTENDS Sequences

CONSTANT Functions

VARIABLES
    pending,    \* functions dispatched and not yet started
    running     \* whether the run loop has not ended

taskVars == <<pending, running>>

TaskInit ==
    /\ pending = <<>>
    /\ running = TRUE

Add ==
    /\ \E f \in Functions : pending' = Append(pending, f)
    /\ UNCHANGED running

Start ==
    /\ running
    /\ pending # <<>>
    /\ pending' = Tail(pending)
    /\ UNCHANGED running

Finish ==
    /\ running' = FALSE
    /\ UNCHANGED pending

TaskNext == Add \/ Start \/ Finish

TaskSafety == TaskInit /\ [][TaskNext]_taskVars

TaskSpec == TaskSafety /\ WF_taskVars(Start)
=============================================================================
