------------------------------- MODULE RunLoop ------------------------------
(***************************************************************************)
(* WTF::RunLoop of the main thread, as the GTK port builds it: a queue of  *)
(* functions under a lock, one GLib source per dispatch to wake the loop,  *)
(* performWork, which a source runs and which may be re-entered, and the   *)
(* stack of GMainLoops that RunLoop::run pushes when a nested loop is spun *)
(* (WebPage::runModal is the caller that does).                            *)
(*                                                                         *)
(* A GMainLoop also serves other sources than performWork's: timers, which *)
(* run page script too and may spin nested loops.  The main thread's stack *)
(* alternates: a GMainLoop, the callback it dispatched (a performWork or a *)
(* timer), the GMainLoop that callback spins, and so on.  The innermost    *)
(* frame is a loop when there are more loops than callbacks.               *)
(***************************************************************************)
EXTENDS Naturals, Sequences, FiniteSets

CONSTANTS
    Threads,        \* the threads that dispatch functions to this run loop
    Main,           \* the thread the run loop belongs to
    Functions,      \* the functions they dispatch
    Callers,        \* the callers that spin nested loops (modal pages)
    MaxSources,     \* bound: wake-up sources remembered beyond need are dropped
    MaxLoops,       \* bound: loops on the stack, the outermost included
    None,           \* no function
    Timer           \* the callback of a source that is not performWork's

ASSUME RunLoopAssumption ==
    /\ Main \in Threads
    /\ IsFiniteSet(Threads)
    /\ IsFiniteSet(Functions)
    /\ IsFiniteSet(Callers)
    /\ None \notin Functions
    /\ Timer \notin Functions \cup {None}
    /\ MaxSources \in Nat
    /\ MaxLoops \in Nat \ {0}
    /\ Cardinality(Functions) <= MaxSources

VARIABLES
    queue,      \* m_functionQueue
    sources,    \* scheduled "[WebKit] RunLoop work" sources
    waking,     \* threads inside dispatch, between the append and wakeUp
    loops,      \* activations of g_main_loop_run, outermost first
    frames,     \* callbacks dispatched by those loops, outermost first
    modal,      \* callers whose m_isRunningModal is set
    quitting    \* stopRunLoop has been called to end the process

vars == <<queue, sources, waking, loops, frames, modal, quitting>>

\* An activation of g_main_loop_run: whether its GMainLoop is "ready" to run,
\* "running", "quit" by g_main_loop_quit or, the outermost one, "ended"; once
\* quit, how many of the sources that its last iteration had collected it still
\* has to fire; and whether it runs the outermost GMainLoop again instead of one
\* of its own.  The GMainLoops of m_runLoopMainLoops are those of the other
\* activations.
Loop == [state : {"ready", "running", "quit", "ended"},
         rest : 0..MaxSources, again : BOOLEAN]

\* performWork: the functions it may still take after the current one
\* (functionsToHandle - functionsHandled), and the function it is inside.  A
\* timer's callback is inside Timer until it returns.
Frame == [left : Nat, fn : Functions \cup {None, Timer}]

TypeOK ==
    /\ queue \in Seq(Functions)
    /\ sources \in 0..MaxSources
    /\ waking \in SUBSET Threads
    /\ loops \in Seq(Loop) /\ loops # <<>>
    /\ frames \in Seq(Frame)
    /\ modal \in SUBSET Callers
    /\ quitting \in BOOLEAN

Init ==
    /\ queue = <<>>
    /\ sources = 0
    /\ waking = {}
    /\ loops = <<[state |-> "ready", rest |-> 0, again |-> FALSE]>>
    /\ frames = <<>>
    /\ modal = {}
    /\ quitting = FALSE

InnerLoop == loops[Len(loops)]
InnerWork == frames[Len(frames)]

\* The main thread is in the innermost GMainLoop, not inside a callback.
InLoop == Len(frames) < Len(loops) /\ InnerLoop.state \in {"running", "quit"}

\* That loop dispatches a source: any ready one, or after g_main_loop_quit one
\* of those that its iteration had collected.
CanDispatch ==
    /\ InLoop
    /\ InnerLoop.state = "quit" => InnerLoop.rest > 0
Dispatched ==
    loops' = IF InnerLoop.state = "quit"
             THEN [loops EXCEPT ![Len(loops)].rest = @ - 1]
             ELSE loops

\* It is one of performWork's.
CanFire == CanDispatch /\ sources > 0
Fire == sources' = sources - 1 /\ Dispatched

\* g_main_loop_run returns when the loop is quit and its iteration is over.
CanReturn ==
    /\ InLoop
    /\ InnerLoop.state = "quit"
    /\ InnerLoop.rest = 0 \/ sources = 0

\* The main thread is inside a performWork, between two functions.
BetweenFunctions == Len(frames) = Len(loops) /\ InnerWork.fn = None

\* The main thread is executing a function or a timer's callback and has not
\* left it for dispatch.
Executing ==
    Len(frames) = Len(loops) /\ InnerWork.fn # None /\ Main \notin waking

\* The activations of the i-th activation's GMainLoop.
SameLoop(i) ==
    IF i = 1 \/ loops[i].again THEN {j \in DOMAIN loops : j = 1 \/ loops[j].again}
    ELSE {i}

Queued(f) == \E i \in 1..Len(queue) : queue[i] = f

-----------------------------------------------------------------------------
(* dispatch: append under the lock, then wakeUp outside it. *)

Enqueue(t, f) ==
    /\ t \notin waking
    /\ t = Main => Executing
    /\ queue' = Append(queue, f)
    /\ waking' = waking \cup {t}
    /\ UNCHANGED <<sources, loops, frames, modal, quitting>>

\* Bound: a function is not dispatched again while it is still queued.
Dispatch(t, f) == ~Queued(f) /\ Enqueue(t, f)

\* Mutated form: wakeUp only when no source is scheduled yet.
WakeUpOnce(t) ==
    /\ t \in waking
    /\ waking' = waking \ {t}
    /\ sources' = 1
    /\ UNCHANGED <<queue, loops, frames, modal, quitting>>

\* One GLib source per dispatch.  More than MaxSources of them are counted as
\* MaxSources, which is enough for one source per queued function.
WakeUp(t) ==
    /\ t \in waking
    /\ waking' = waking \ {t}
    /\ sources' = IF sources < MaxSources THEN sources + 1 ELSE sources
    /\ UNCHANGED <<queue, loops, frames, modal, quitting>>

-----------------------------------------------------------------------------
(* performWork. *)

\* A source fires and performWork finds nothing.
PerformNoWork ==
    /\ CanFire
    /\ queue = <<>>
    /\ Fire
    /\ UNCHANGED <<queue, waking, frames, modal, quitting>>

\* A source fires; performWork notes how many functions there are and takes
\* the first.
PerformWork ==
    /\ CanFire
    /\ queue # <<>>
    /\ Fire
    /\ queue' = Tail(queue)
    /\ frames' = Append(frames, [left |-> Len(queue) - 1, fn |-> Head(queue)])
    /\ UNCHANGED <<waking, modal, quitting>>

FunctionReturn ==
    /\ Executing
    /\ InnerWork.fn # Timer
    /\ frames' = [frames EXCEPT ![Len(frames)].fn = None]
    /\ UNCHANGED <<queue, sources, waking, loops, modal, quitting>>

\* Mutated form: performWork goes on until the queue is empty.
TakeNextUnbounded ==
    /\ BetweenFunctions
    /\ queue # <<>>
    /\ queue' = Tail(queue)
    /\ frames' = [frames EXCEPT ![Len(frames)] =
                    [left |-> InnerWork.left, fn |-> Head(queue)]]
    /\ UNCHANGED <<sources, waking, loops, modal, quitting>>

\* Mutated form: the last function is taken first.
TakeNextLast ==
    /\ BetweenFunctions
    /\ InnerWork.left > 0
    /\ queue # <<>>
    /\ queue' = SubSeq(queue, 1, Len(queue) - 1)
    /\ frames' = [frames EXCEPT ![Len(frames)] =
                    [left |-> InnerWork.left - 1, fn |-> queue[Len(queue)]]]
    /\ UNCHANGED <<sources, waking, loops, modal, quitting>>

TakeNext ==
    /\ BetweenFunctions
    /\ InnerWork.left > 0
    /\ queue # <<>>
    /\ queue' = Tail(queue)
    /\ frames' = [frames EXCEPT ![Len(frames)] =
                    [left |-> InnerWork.left - 1, fn |-> Head(queue)]]
    /\ UNCHANGED <<sources, waking, loops, modal, quitting>>

\* All were handled, or an inner performWork has emptied the queue.
PerformWorkReturn ==
    /\ BetweenFunctions
    /\ InnerWork.left = 0 \/ queue = <<>>
    /\ frames' = SubSeq(frames, 1, Len(frames) - 1)
    /\ UNCHANGED <<queue, sources, waking, loops, modal, quitting>>

-----------------------------------------------------------------------------
(* The other sources of the same GMainContext. *)

\* A RunLoop::Timer or the shared timer, which runs page timers, is dispatched
\* without performWork.  After g_main_loop_quit it must have been collected.
TimerFired ==
    /\ CanDispatch
    /\ Dispatched
    /\ frames' = Append(frames, [left |-> 0, fn |-> Timer])
    /\ UNCHANGED <<queue, sources, waking, modal, quitting>>

TimerReturn ==
    /\ Executing
    /\ InnerWork.fn = Timer
    /\ frames' = SubSeq(frames, 1, Len(frames) - 1)
    /\ UNCHANGED <<queue, sources, waking, loops, modal, quitting>>

-----------------------------------------------------------------------------
(* run and stop. *)

RunOutermost ==
    /\ frames = <<>>
    /\ InnerLoop.state = "ready"
    /\ loops' = [loops EXCEPT ![1].state = "running"]
    /\ UNCHANGED <<queue, sources, waking, frames, modal, quitting>>

\* A callback calls runModal.  If run finds the outermost loop running it pushes
\* a nested one; if that loop has been quit it runs it again.  A caller that is
\* already modal returns at once.
RunNested(c) ==
    /\ Executing
    /\ Len(loops) < MaxLoops
    /\ c \notin modal
    /\ modal' = modal \cup {c}
    /\ LET again == loops[1].state # "running"
           others == [i \in DOMAIN loops |->
                        IF again /\ i \in SameLoop(1)
                        THEN [loops[i] EXCEPT !.state = "running"] ELSE loops[i]]
       IN  loops' = Append(others, [state |-> "running", rest |-> 0, again |-> again])
    /\ UNCHANGED <<queue, sources, waking, frames, quitting>>

\* stop quits the last loop of m_runLoopMainLoops, if it is running.  That loop
\* is the innermost activation's: only the outermost loop is run again, and
\* only while there is no other.
QuitLast ==
    \/ /\ InnerLoop.state = "running"
       /\ \E r \in 0..MaxSources :
             loops' = [i \in DOMAIN loops |->
                        [loops[i] EXCEPT
                            !.state = IF i \in SameLoop(Len(loops)) THEN "quit" ELSE @,
                            !.rest = IF i = Len(loops) THEN r ELSE @]]
    \/ /\ InnerLoop.state # "running"
       /\ loops' = loops

\* Mutated form: close forgets to reset m_isRunningModal.
StopNestedKeepsFlag(c) ==
    /\ Executing
    /\ c \in modal
    /\ QuitLast
    /\ UNCHANGED <<queue, sources, waking, frames, modal, quitting>>

\* A callback closes the page c, which is modal; closing any other page leaves
\* the loops alone.
StopNested(c) ==
    /\ Executing
    /\ c \in modal
    /\ modal' = modal \ {c}
    /\ QuitLast
    /\ UNCHANGED <<queue, sources, waking, frames, quitting>>

\* The UI process is gone: didClose calls stopRunLoop to end the process.
StopRunLoop ==
    /\ Executing
    /\ ~quitting
    /\ quitting' = TRUE
    /\ QuitLast
    /\ UNCHANGED <<queue, sources, waking, frames, modal>>

\* g_main_loop_run returns and the nested loop is popped.
NestedReturn ==
    /\ Len(loops) > 1
    /\ CanReturn
    /\ loops' = SubSeq(loops, 1, Len(loops) - 1)
    /\ UNCHANGED <<queue, sources, waking, frames, modal, quitting>>

OutermostReturn ==
    /\ Len(loops) = 1
    /\ CanReturn
    /\ loops' = [loops EXCEPT ![1].state = "ended"]
    /\ UNCHANGED <<queue, sources, waking, frames, modal, quitting>>

-----------------------------------------------------------------------------
\* What the main thread does on its own account: GLib fires performWork's
\* sources, callbacks return, quit loops return.
MainProgress ==
    \/ PerformNoWork
    \/ PerformWork
    \/ FunctionReturn
    \/ TakeNext
    \/ PerformWorkReturn
    \/ TimerReturn
    \/ RunOutermost
    \/ NestedReturn
    \/ OutermostReturn

\* What callbacks may do: dispatch, spin a nested loop, stop one.
Next ==
    \/ MainProgress
    \/ TimerFired
    \/ \E t \in Threads, f \in Functions : Dispatch(t, f)
    \/ \E t \in Threads : WakeUp(t)
    \/ \E c \in Callers : RunNested(c) \/ StopNested(c)
    \/ StopRunLoop

Safety == Init /\ [][Next]_vars

\* Callbacks return and threads that have appended go on to wakeUp.  A source of
\* performWork is ready from the start and has the default priority, so that
\* timers of that priority or a lower one cannot keep GLib from it for ever.
Spec ==
    /\ Safety
    /\ WF_vars(MainProgress)
    /\ SF_vars(PerformWork)
    /\ \A t \in Threads : WF_vars(WakeUp(t))

Ended == loops[1].state = "ended"

\* How the main thread's stack is built: loops and callbacks alternate, every
\* nested loop is spun by a callback that is still executing, and the outermost
\* loop is run again only directly inside itself.
StackShape ==
    /\ Len(loops) - Len(frames) \in {0, 1}
    /\ \A i \in 1..Len(loops) - 1 : frames[i].fn # None
    /\ \A i \in 2..Len(loops) : loops[i].state \in {"running", "quit"}
    /\ frames # <<>> => loops[1].state \in {"running", "quit"}
    /\ \A i \in 2..Len(loops) : loops[i].again =>
          i = 2 \/ loops[i - 1].again
    /\ \A i \in 2..Len(loops) : loops[i].again => loops[i].state = loops[1].state

RunningNested == {i \in 2..Len(loops) : loops[i].state = "running"}

\* For every page that is still modal there is a nested loop left to stop.
LoopForEveryModal == ~quitting => Cardinality(modal) <= Cardinality(RunningNested)

\* The loop the process lives in is quit only by stopRunLoop.
OwnLoopRuns == loops[1].state \in {"quit", "ended"} => quitting

\* stop quits the last loop, whoever spins it, so that modal pages closed in
\* another order than the reverse of their opening end each other's loops.
\* However many there are and in whatever order they are closed, the loops they
\* end are nested ones: closing a page never ends the process's own loop.
ClosingSparesTheProcess == TypeOK /\ LoopForEveryModal /\ OwnLoopRuns

\* No function waits in the queue without a wake-up of its own, scheduled or
\* about to be: performWork may take several for one source, and an inner
\* performWork may take what an outer one counted, but never the reverse.
NoLostWakeup == Len(queue) <= sources + Cardinality(waking)

\* A function is never twice in the queue (the bound on Dispatch), so the
\* queue is no longer than the sources that are counted.
QueueDistinct ==
    \A i, j \in 1..Len(queue) : queue[i] = queue[j] => i = j

\* performWork's comment: handling only the functions that were queued when it
\* was called guarantees that it returns, so that other event sources run, even
\* when every function dispatches another one.
PerformWorkReturns ==
    Len(frames) = 1 /\ Len(loops) = 1 ~> frames = <<>> \/ Len(loops) > 1

Queue == INSTANCE TaskQueue WITH pending <- queue, running <- ~Ended

\* dispatch, wakeUp and performWork together keep dispatch's promise: in order,
\* once each, and always, whatever loops are nested.
ImplementsTaskQueue == Queue!TaskSpec
=============================================================================
