------------------------------- MODULE UvPump -------------------------------
(***************************************************************************)
(* What the web process promises its libuv loop, without the threads that  *)
(* keep the promise.  The loop is pumped in turns: the main thread runs it *)
(* once, then somebody waits for something to happen in it, then it is the *)
(* main thread's turn again.  Work that has become ready is taken by the   *)
(* next run.  NodeBindings implements this with a second thread, a         *)
(* semaphore and a function dispatched to the main run loop.               *)
(***************************************************************************)

\* The kinds of work libuv distinguishes here: a readable descriptor of the
\* loop's backend ("io") and an expired timer, which no descriptor announces.
Kinds == {"io", "timer"}

VARIABLES
    work,   \* the kinds of work that are ready and not yet taken by uv_run
    turn,   \* "main": uv_run is due; "running": inside it; "poll": waiting
    open    \* whether the pump is still to be kept going

pumpVars == <<work, turn, open>>

PumpInit ==
    /\ work = {}
    /\ turn = "main"
    /\ open = TRUE

Arrive ==
    /\ \E k \in Kinds : work' = work \cup {k}
    /\ UNCHANGED <<turn, open>>

Run ==
    /\ open
    /\ turn = "main"
    /\ turn' = "running"
    /\ work' = {}
    /\ UNCHANGED open

Yield ==
    /\ turn = "running"
    /\ turn' = "poll"
    /\ UNCHANGED <<work, open>>

Poll ==
    /\ turn = "poll"
    /\ turn' = "main"
    /\ UNCHANGED <<work, open>>

Close ==
    /\ turn # "running"
    /\ open' = FALSE
    /\ UNCHANGED <<work, turn>>

PumpNext == Arrive \/ Run \/ Yield \/ Poll \/ Close

PumpSafety == PumpInit /\ [][PumpNext]_pumpVars

PumpSpec ==
    /\ PumpSafety
    /\ WF_pumpVars(Run)
    /\ WF_pumpVars(Yield)
    /\ WF_pumpVars(open /\ Poll)
=============================================================================
