------------------------------ MODULE NodeMain ------------------------------
(***************************************************************************)
(* The web process's main thread as it really is: one WTF::RunLoop that    *)
(* serves both WebKit's own functions and node's.  NodeBindings' function  *)
(* UvRunOnce travels through the run loop's queue, may be started by an    *)
(* outer or by a nested performWork, and may itself spin a nested loop     *)
(* when a libuv callback reaches page script that opens a modal page.      *)
(*                                                                         *)
(* Each action is a joint step of the two components: an action of RunLoop *)
(* together with what NodeBindings does in it, or a step of one of them    *)
(* alone.  The bindings are never deleted: nothing in the web process      *)
(* deletes them, and the process is not shut down here.                    *)
(***************************************************************************)
EXTENDS Naturals, Sequences, FiniteSets

CONSTANTS
    Threads, Main, Functions, Callers, MaxSources, MaxLoops, None, Timer,
    Embed,      \* the thread that runs EmbedThreadRunner
    Uv          \* the function [this] { this->UvRunOnce(); }

ASSUME NodeMainAssumption ==
    /\ Embed \in Threads \ {Main}
    /\ Uv \in Functions

VARIABLES
    queue, sources, waking, loops, frames, modal, quitting,  \* RunLoop
    mainPc, sem, closed, embedPc, work,                      \* NodeBindings
    bootRun     \* RunMessageLoop's own UvRunOnce, before the loop runs, is active

loopVars == <<queue, sources, waking, loops, frames, modal, quitting>>
nodeVars == <<mainPc, sem, closed, embedPc, work, bootRun>>
vars == <<loopVars, nodeVars>>

RL == INSTANCE RunLoop

\* UvRunOnce functions in the run loop's queue, and on the main thread's stack.
Posted == Cardinality({i \in 1..Len(queue) : queue[i] = Uv})
UvRuns ==
    Cardinality({i \in 1..Len(frames) : frames[i].fn = Uv})
        + (IF bootRun THEN 1 ELSE 0)

NB == INSTANCE NodeBindings WITH
    AllowDelete <- FALSE, posted <- Posted, uvRuns <- UvRuns

Init ==
    /\ RL!Init
    /\ mainPc = "initNode"
    /\ sem = 0
    /\ closed = FALSE
    /\ embedPc = "unborn"
    /\ work = {}
    /\ bootRun = FALSE

-----------------------------------------------------------------------------
(* initNode, before the run loop runs. *)

Boot ==
    /\ UNCHANGED <<loopVars, bootRun>>
    /\ NB!InitNode \/ NB!PrepareMessageLoop

BootRunOnce ==
    /\ UNCHANGED loopVars
    /\ bootRun' = TRUE
    /\ NB!RunMessageLoop

BootRunOnceReturn ==
    /\ UNCHANGED loopVars
    /\ bootRun
    /\ bootRun' = FALSE
    /\ NB!UvRunOnceEnd

RunOutermost ==
    /\ mainPc = "loop"
    /\ ~bootRun
    /\ RL!RunOutermost
    /\ UNCHANGED nodeVars

-----------------------------------------------------------------------------
(* The main thread in its run loop. *)

\* performWork starts a function, as its first or as a later one.
StartFunction == RL!PerformWork \/ RL!TakeNext

StartUv ==
    /\ queue # <<>> /\ Head(queue) = Uv
    /\ StartFunction
    /\ UNCHANGED bootRun
    /\ NB!UvRunOnceBegin

StartOther ==
    /\ queue # <<>> /\ Head(queue) # Uv
    /\ StartFunction
    /\ UNCHANGED nodeVars

ReturnUv ==
    /\ RL!Executing /\ RL!InnerWork.fn = Uv
    /\ RL!FunctionReturn
    /\ UNCHANGED bootRun
    /\ NB!UvRunOnceEnd

ReturnOther ==
    /\ RL!Executing /\ RL!InnerWork.fn # Uv
    /\ RL!FunctionReturn
    /\ UNCHANGED nodeVars

\* Steps of the run loop that node takes no part in.
RunLoopOnly ==
    /\ \/ RL!PerformNoWork
       \/ RL!PerformWorkReturn
       \/ RL!TimerReturn
       \/ RL!NestedReturn
    /\ UNCHANGED nodeVars

\* A timer of WebKit's fires.
TimerFired == RL!TimerFired /\ UNCHANGED nodeVars

\* Page script, reached from a WebKit function, a timer or a libuv callback,
\* opens or closes a modal page.
Modal ==
    /\ \E c \in Callers : RL!RunNested(c) \/ RL!StopNested(c)
    /\ UNCHANGED nodeVars

\* WebKit dispatches functions of its own, from any thread but the embed one.
Dispatch ==
    /\ \E t \in Threads \ {Embed}, f \in Functions \ {Uv} : RL!Dispatch(t, f)
    /\ UNCHANGED nodeVars

WakeUp(t) == RL!WakeUp(t) /\ UNCHANGED nodeVars

-----------------------------------------------------------------------------
(* The embed thread, and libuv. *)

\* It does not go on before the wakeUp of its last dispatch.
EmbedStep ==
    /\ Embed \notin waking
    /\ UNCHANGED <<loopVars, bootRun>>
    /\ \/ NB!EmbedSemWait
       \/ NB!EmbedCheckOpen
       \/ NB!PollTimeout
       \/ NB!EmbedCheckAgain

EmbedPolled ==
    /\ UNCHANGED <<loopVars, bootRun>>
    /\ NB!PollEvents

\* RunLoop::main().dispatch: nothing stops the same function from being queued
\* twice but the turn the embed thread holds.
WakeupMainThread ==
    /\ RL!Enqueue(Embed, Uv)
    /\ UNCHANGED bootRun
    /\ NB!WakeupMainThread

UvEvent ==
    /\ UNCHANGED <<loopVars, bootRun>>
    /\ NB!UvEvent

MainProgress ==
    \/ Boot
    \/ BootRunOnce
    \/ BootRunOnceReturn
    \/ RunOutermost
    \/ StartUv
    \/ StartOther
    \/ ReturnUv
    \/ ReturnOther
    \/ RunLoopOnly

Next ==
    \/ MainProgress
    \/ TimerFired
    \/ Modal
    \/ Dispatch
    \/ \E t \in Threads : WakeUp(t)
    \/ EmbedStep
    \/ EmbedPolled
    \/ WakeupMainThread
    \/ UvEvent

\* The fairness of the two components.
Spec ==
    /\ Init
    /\ [][Next]_vars
    /\ WF_vars(MainProgress)
    /\ SF_vars(StartUv \/ StartOther)
    /\ \A t \in Threads : WF_vars(WakeUp(t))
    /\ WF_vars(EmbedStep \/ WakeupMainThread)

-----------------------------------------------------------------------------
(* Properties. *)

\* With the real run loop in place of the counter, node's side still behaves as
\* NodeBindings says: what is proved there (strict alternation, no re-entry of
\* uv_run) holds in the web process, nested loops included.
ImplementsNodeBindings == NB!BindingsSafety

\* The run loop is used as RunLoop assumes: in particular UvRunOnce is never
\* dispatched while it is still queued.
ImplementsRunLoop == RL!Safety

=============================================================================
