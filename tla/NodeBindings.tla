---------------------------- MODULE NodeBindings ----------------------------
(***************************************************************************)
(* atom::NodeBindings: how the web process pumps node's libuv loop from    *)
(* WebKit's main run loop.                                                 *)
(*                                                                         *)
(* A second thread, the embed thread, waits on the semaphore embed_sem_,   *)
(* polls the loop's backend descriptor (PollEvents) and dispatches a       *)
(* function to the main run loop (WakeupMainThread).  That function,       *)
(* UvRunOnce, runs libuv once without blocking and posts the semaphore.    *)
(* The callbacks that libuv runs reach page script, and page script can    *)
(* spin a nested run loop, so the main thread may be asked to start        *)
(* another UvRunOnce while one is still on its stack.                      *)
(*                                                                         *)
(* The run loop appears here only as "posted", the dispatched functions    *)
(* that have not started; NodeMain puts the real one in its place.         *)
(*                                                                         *)
(* The parts of the specification are named Bindings..., because           *)
(* MainThreadProofs extends this module and RunLoop.                       *)
(***************************************************************************)
EXTENDS Naturals

CONSTANT
    AllowDelete     \* whether the object's owner may ever delete it

ASSUME AllowDeleteAssumption == AllowDelete \in BOOLEAN

VARIABLES
    mainPc,     \* where the main thread is in the object's life
    uvRuns,     \* activations of UvRunOnce on the main thread's stack
    posted,     \* UvRunOnce functions dispatched and not yet started
    sem,        \* value of embed_sem_
    closed,     \* embed_closed_
    embedPc,    \* where the embed thread is in EmbedThreadRunner
    work        \* kinds of libuv work that are ready

bindingsVars == <<mainPc, uvRuns, posted, sem, closed, embedPc, work>>

Kinds == {"io", "timer"}

Booting == {"initNode", "PrepareMessageLoop", "RunMessageLoop"}
Destructor == {"close", "post", "wake", "join", "destroy"}
MainPcs == Booting \cup Destructor \cup {"loop", "gone", "use_after_free"}

\* The embed thread owns the turn from uv_sem_wait's return to its dispatch.
EmbedActive == {"check_open", "PollEvents", "check_again", "wakeup"}
EmbedPcs == EmbedActive \cup {"unborn", "sem_wait", "done"}

BindingsTypeOK ==
    /\ mainPc \in MainPcs
    /\ uvRuns \in Nat
    /\ posted \in Nat
    /\ sem \in Nat
    /\ closed \in BOOLEAN
    /\ embedPc \in EmbedPcs
    /\ work \in SUBSET Kinds

BindingsInit ==
    /\ mainPc = "initNode"
    /\ uvRuns = 0
    /\ posted = 0
    /\ sem = 0
    /\ closed = FALSE
    /\ embedPc = "unborn"
    /\ work = {}

-----------------------------------------------------------------------------
(* The main thread. *)

\* A later call of initNode finds nodeInited set and returns at once.
InitNode ==
    /\ mainPc = "initNode"
    /\ mainPc' = "PrepareMessageLoop"
    /\ UNCHANGED <<uvRuns, posted, sem, closed, embedPc, work>>

PrepareMessageLoop ==
    /\ mainPc = "PrepareMessageLoop"
    /\ mainPc' = "RunMessageLoop"
    /\ sem' = 0
    /\ embedPc' = "sem_wait"
    /\ UNCHANGED <<uvRuns, posted, closed, work>>

\* uv_run(UV_RUN_NOWAIT) takes everything that is ready when it starts.
EnterUvRun ==
    /\ uvRuns' = uvRuns + 1
    /\ work' = {}

RunMessageLoop ==
    /\ mainPc = "RunMessageLoop"
    /\ mainPc' = "loop"
    /\ EnterUvRun
    /\ UNCHANGED <<posted, sem, closed, embedPc>>

\* The main run loop, or one nested in a libuv callback, starts the function.
UvRunOnceBegin ==
    /\ mainPc = "loop"
    /\ posted > 0
    /\ posted' = posted - 1
    /\ EnterUvRun
    /\ UNCHANGED <<mainPc, sem, closed, embedPc>>

\* Mutated form: UvRunOnce forgets uv_sem_post.
UvRunOnceEndNoPost ==
    /\ mainPc = "loop"
    /\ uvRuns > 0
    /\ uvRuns' = uvRuns - 1
    /\ UNCHANGED <<mainPc, posted, sem, closed, embedPc, work>>

\* uv_run returns; uv_sem_post tells the embed thread to poll again.
UvRunOnceEnd ==
    /\ mainPc = "loop"
    /\ uvRuns > 0
    /\ uvRuns' = uvRuns - 1
    /\ sem' = sem + 1
    /\ UNCHANGED <<mainPc, posted, closed, embedPc, work>>

\* The owner deletes the object: when ~NodeBindings starts, the derived
\* NodeBindingsLinux and its PollEvents are already gone.
Delete ==
    /\ AllowDelete
    /\ mainPc = "loop"
    /\ uvRuns = 0
    /\ mainPc' = "close"
    /\ UNCHANGED <<uvRuns, posted, sem, closed, embedPc, work>>

DtorClose ==
    /\ mainPc = "close"
    /\ mainPc' = "post"
    /\ closed' = TRUE
    /\ UNCHANGED <<uvRuns, posted, sem, embedPc, work>>

\* Mutated form: the destructor only interrupts the poll.
DtorPostNothing ==
    /\ mainPc = "post"
    /\ mainPc' = "wake"
    /\ UNCHANGED <<uvRuns, posted, sem, closed, embedPc, work>>

DtorPost ==
    /\ mainPc = "post"
    /\ mainPc' = "wake"
    /\ sem' = sem + 1
    /\ UNCHANGED <<uvRuns, posted, closed, embedPc, work>>

\* uv_async_send makes the backend descriptor readable.
WakeupEmbedThread ==
    /\ mainPc = "wake"
    /\ mainPc' = "join"
    /\ work' = work \cup {"io"}
    /\ UNCHANGED <<uvRuns, posted, sem, closed, embedPc>>

\* Mutated form: no uv_thread_join.
DtorJoinNobody ==
    /\ mainPc = "join"
    /\ mainPc' = "destroy"
    /\ UNCHANGED <<uvRuns, posted, sem, closed, embedPc, work>>

DtorJoin ==
    /\ mainPc = "join"
    /\ embedPc = "done"
    /\ mainPc' = "destroy"
    /\ UNCHANGED <<uvRuns, posted, sem, closed, embedPc, work>>

DtorSemDestroy ==
    /\ mainPc = "destroy"
    /\ mainPc' = "gone"
    /\ UNCHANGED <<uvRuns, posted, sem, closed, embedPc, work>>

\* The dispatched function holds a bare "this" (the line that would protect it
\* is commented out): started after the destructor it uses freed memory, and
\* nothing is assumed of what follows.
StaleUvRunOnce ==
    /\ mainPc = "gone"
    /\ posted > 0
    /\ mainPc' = "use_after_free"
    /\ UNCHANGED <<uvRuns, posted, sem, closed, embedPc, work>>

-----------------------------------------------------------------------------
(* The embed thread. *)

\* embed_closed_ is a plain bool.  Until the destructor's uv_sem_post orders
\* the store, the embed thread may still read the old value.
ReadClosed == IF mainPc = "post" THEN {TRUE, FALSE} ELSE {closed}

EmbedSemWait ==
    /\ embedPc = "sem_wait"
    /\ sem > 0
    /\ sem' = sem - 1
    /\ embedPc' = "check_open"
    /\ UNCHANGED <<mainPc, uvRuns, posted, closed, work>>

EmbedCheckOpen ==
    /\ embedPc = "check_open"
    /\ \E c \in ReadClosed : embedPc' = IF c THEN "done" ELSE "PollEvents"
    /\ UNCHANGED <<mainPc, uvRuns, posted, sem, closed, work>>

\* epoll_wait returns because the backend descriptor is readable.
PollEvents ==
    /\ embedPc = "PollEvents"
    /\ "io" \in work
    /\ embedPc' = "check_again"
    /\ UNCHANGED <<mainPc, uvRuns, posted, sem, closed, work>>

\* epoll_wait returns because its 300 ms are over.
PollTimeout ==
    /\ embedPc = "PollEvents"
    /\ embedPc' = "check_again"
    /\ UNCHANGED <<mainPc, uvRuns, posted, sem, closed, work>>

EmbedCheckAgain ==
    /\ embedPc = "check_again"
    /\ \E c \in ReadClosed : embedPc' = IF c THEN "done" ELSE "wakeup"
    /\ UNCHANGED <<mainPc, uvRuns, posted, sem, closed, work>>

\* Mutated form: after its dispatch the embed thread polls on.
WakeupMainThreadAndPoll ==
    /\ embedPc = "wakeup"
    /\ embedPc' = "check_open"
    /\ posted' = posted + 1
    /\ UNCHANGED <<mainPc, uvRuns, sem, closed, work>>

WakeupMainThread ==
    /\ embedPc = "wakeup"
    /\ embedPc' = "sem_wait"
    /\ posted' = posted + 1
    /\ UNCHANGED <<mainPc, uvRuns, sem, closed, work>>

-----------------------------------------------------------------------------
(* libuv: a descriptor becomes readable or a timer expires, at any time. *)

UvEvent ==
    /\ \E k \in Kinds : work' = work \cup {k}
    /\ UNCHANGED <<mainPc, uvRuns, posted, sem, closed, embedPc>>

MainThread ==
    \/ InitNode
    \/ PrepareMessageLoop
    \/ RunMessageLoop
    \/ UvRunOnceBegin
    \/ UvRunOnceEnd
    \/ DtorClose
    \/ DtorPost
    \/ WakeupEmbedThread
    \/ DtorJoin
    \/ DtorSemDestroy

EmbedThread ==
    \/ EmbedSemWait
    \/ EmbedCheckOpen
    \/ PollTimeout
    \/ EmbedCheckAgain
    \/ WakeupMainThread

BindingsNext == MainThread \/ EmbedThread \/ PollEvents \/ Delete \/ StaleUvRunOnce \/ UvEvent

BindingsSafety == BindingsInit /\ [][BindingsNext]_bindingsVars

\* The main thread's steps are taken because functions return and the run
\* loop starts what was dispatched; the embed thread is an operating system
\* thread whose only unbounded waits are the semaphore and epoll_wait, and the
\* latter ends after 300 ms.  Nothing makes libuv events happen, or the owner
\* delete the object.
BindingsSpec == BindingsSafety /\ WF_bindingsVars(MainThread) /\ WF_bindingsVars(EmbedThread)
-----------------------------------------------------------------------------
(* Properties. *)

B(p) == IF p THEN 1 ELSE 0

\* Turns in existence: in the semaphore, with the embed thread, dispatched to
\* the main run loop, or being used by uv_run.
Tokens == sem + posted + uvRuns + B(embedPc \in EmbedActive)

\* Between initNode and the destructor there is exactly one turn: UvRunOnce
\* and EmbedThreadRunner alternate strictly, whatever run loop nests in a
\* libuv callback.
Alternation == mainPc = "loop" => Tokens = 1

\* uv_run is never entered while it is running (libuv forbids it), and the
\* embed thread never polls the loop while the main thread runs it.
UvLoopExclusive ==
    /\ uvRuns <= 1
    /\ uvRuns = 1 => embedPc # "PollEvents"

\* At most one function of this object is ever queued in the main run loop,
\* the race of WakeupMainThread with the destructor included.
OneDispatch == posted <= 1

\* uv_thread_join works: the semaphore is destroyed only when the embed thread
\* can no longer wait on it.
SemOutlivesEmbed == mainPc = "gone" => embedPc = "done"

\* The inductive invariant behind these: how many turns there are, and where,
\* in each phase of the object's life.
TurnInv ==
    /\ mainPc \in {"initNode", "PrepareMessageLoop"} => embedPc = "unborn"
    /\ mainPc = "RunMessageLoop" => embedPc = "sem_wait"
    /\ mainPc \in Booting => sem = 0 /\ posted = 0 /\ uvRuns = 0
    /\ mainPc \in {"loop", "close"} =>
          Tokens = 1 /\ embedPc \notin {"unborn", "done"}
    /\ mainPc = "post" => sem + posted + B(embedPc \in EmbedActive) <= 1
    /\ mainPc # "loop" => uvRuns = 0
    /\ mainPc \in {"wake", "join", "destroy", "gone", "use_after_free"} =>
          posted + B(embedPc = "wakeup") <= 1
    /\ mainPc \in {"destroy", "gone", "use_after_free"} => embedPc = "done"
    /\ closed <=> mainPc \notin Booting \cup {"loop", "close"}

\* ~NodeBindings returns: the embed thread is woken wherever it waits, and
\* uv_thread_join does not block the main thread for ever.
DestructorReturns == mainPc = "close" ~> mainPc \in {"gone", "use_after_free"}

\* The pump that these two threads implement: whose turn it is, and whether
\* the object is still meant to run.
Turn ==
    IF uvRuns > 0 THEN "running"
    ELSE IF posted > 0 \/ mainPc \in Booting THEN "main" ELSE "poll"
Open == mainPc \in Booting \cup {"loop"}

Pump == INSTANCE UvPump WITH turn <- Turn, open <- Open

\* The two threads, the semaphore and the dispatched function implement the
\* pump: one uv_run per poll, one poll per uv_run, and every turn is taken.
ImplementsPump == Pump!PumpSpec
=============================================================================
