--------------------------- MODULE MainLoopSource ---------------------------
(***************************************************************************)
(* GMainLoopSource: one callback at a time on a GLib main context, that    *)
(* may be cancelled, rescheduled or deleted from inside the callback.      *)
(* RunLoop::TimerBase is such an object.  GThreadSafeMainLoopSource may be *)
(* scheduled and cancelled by other threads as well; a lock guards each of *)
(* its calls, but not what a dispatch does between two of them.            *)
(*                                                                         *)
(* Every schedule makes a new GSource, whose callback data is the object.  *)
(* A source with a void callback runs once, one with a bool callback (also *)
(* a socket's, or a repeating timer's) as long as it returns Continue.     *)
(***************************************************************************)
EXTENDS Naturals, Sequences, FiniteSets

CONSTANTS
    Modes,              \* which kinds of object, see Mode
    DeletesInCallback,  \* the client may delete the object inside its callback
    MaxSources          \* bound: sources scheduled

Mode == {"plain", "deleteOnDestroy", "threadSafe"}
GSource == 1..MaxSources

ASSUME MainLoopSourceAssumption ==
    /\ Modes \subseteq Mode
    /\ DeletesInCallback \in BOOLEAN
    /\ MaxSources \in Nat \ {0}

VARIABLES
    mode,           \* what kind of object it is
    alive,          \* it has not been deleted
    status,         \* m_status
    source,         \* m_context, as the number of its GSource, or None
    cancellable,    \* m_cancellable, as the number of its context, or None
    kind,           \* history: kind[s], the callback of the s-th context made
    attached,       \* the GSources attached to the main context
    cancelled,      \* the contexts whose cancellable is cancelled
    destroyed,      \* history: how often the destroy callback of s has run
    stack,          \* dispatches on the main thread's stack, innermost first
    freed           \* history: a dispatch went on with a deleted object

vars == <<mode, alive, status, source, cancellable, kind, attached, cancelled,
          destroyed, stack, freed>>

None == 0

\* A dispatch of the GSource fired: ctx is the Context it has moved out of the
\* object, None before and when it has moved it back.
Frame == [fired : GSource, ctx : 0..MaxSources,
          at : {"prepare", "callback", "stop", "continue"}]

\* Types of the variables.
TypeOK ==
    /\ mode \in Mode
    /\ alive \in BOOLEAN /\ freed \in BOOLEAN
    /\ status \in {"Ready", "Scheduled", "Dispatching"}
    /\ source \in 0..MaxSources /\ cancellable \in 0..MaxSources
    /\ kind \in Seq({"void", "bool"})
    /\ attached \subseteq GSource /\ cancelled \subseteq GSource
    /\ destroyed \in [GSource -> 0..1]
    /\ stack \in Seq(Frame)

Init ==
    /\ mode \in Modes
    /\ alive = TRUE /\ status = "Ready" /\ source = None /\ cancellable = None
    /\ kind = <<>> /\ attached = {} /\ cancelled = {}
    /\ destroyed = [s \in GSource |-> 0]
    /\ stack = <<>> /\ freed = FALSE

Top == Head(stack)

\* The main thread is in the run loop or in a callback, not inside the object.
Outside == stack # <<>> => Top.at = "callback"

\* destroySource of a Context: GLib forgets the source, the callback is told.
Told(d, s) == IF s = None THEN d ELSE [d EXCEPT ![s] = @ + 1]

-----------------------------------------------------------------------------
(* The object's client.                                                    *)

\* Who may call: the main thread, from the run loop or from the callback; any
\* thread if the object is thread-safe; nobody after it has been created and
\* scheduled if it deletes itself, because nobody else knows it.
MayCall ==
    /\ alive
    /\ mode = "threadSafe" \/ Outside
    /\ mode = "deleteOnDestroy" => kind = <<>>

\* Mutated form: a source that has not started to dispatch stays attached.
CancelledLeaves(s) == attached

\* cancel destroys the source it takes out of m_context.
Cancelled(s) == attached \ {s}

\* GThreadSafeMainLoopSource::cancel tells a dispatch in progress.
Conveyed == IF cancellable = None THEN cancelled ELSE cancelled \cup {cancellable}

Cancel ==
    /\ MayCall /\ mode # "deleteOnDestroy"
    /\ status' = "Ready" /\ source' = None /\ cancellable' = None
    /\ attached' = Cancelled(source)
    /\ destroyed' = Told(destroyed, source)
    /\ cancelled' = Conveyed
    /\ UNCHANGED <<mode, alive, kind, stack, freed>>

\* Every schedule cancels first.
Schedule(k) ==
    /\ MayCall /\ Len(kind) < MaxSources
    /\ kind' = Append(kind, k)
    /\ status' = "Scheduled" /\ source' = Len(kind') /\ cancellable' = None
    /\ attached' = Cancelled(source) \cup {Len(kind')}
    /\ destroyed' = Told(destroyed, source)
    /\ cancelled' = Conveyed
    /\ UNCHANGED <<mode, alive, stack, freed>>

\* The destructor cancels.
Delete ==
    /\ alive /\ mode # "deleteOnDestroy"
    /\ stack # <<>> => DeletesInCallback /\ Top.at = "callback"
    /\ alive' = FALSE
    /\ status' = "Ready" /\ source' = None /\ cancellable' = None
    /\ attached' = Cancelled(source)
    /\ destroyed' = Told(destroyed, source)
    /\ cancelled' = Conveyed
    /\ UNCHANGED <<mode, kind, stack, freed>>

-----------------------------------------------------------------------------
(* GLib and the dispatch.                                                  *)

\* GLib dispatches an attached source, from the run loop or a nested one, but
\* not one that is being dispatched.
Fire(s) ==
    /\ s \in attached /\ Outside /\ ~freed
    /\ \A i \in DOMAIN stack : stack[i].fired # s
    /\ stack' = <<[fired |-> s, ctx |-> None, at |-> "prepare"]>> \o stack
    /\ UNCHANGED <<mode, alive, status, source, cancellable, kind, attached, cancelled,
                   destroyed, freed>>

\* prepareVoidCallback, prepareBoolCallback: without a context the source is
\* removed, else the context moves to the dispatch.
Prepare ==
    /\ stack # <<>> /\ Top.at = "prepare" /\ alive
    /\ source' = None
    /\ cancellable' = IF mode = "threadSafe" THEN source ELSE None
    /\ IF source = None
       THEN /\ stack' = Tail(stack)
            /\ attached' = attached \ {Top.fired}
            /\ UNCHANGED status
       ELSE /\ stack' = <<[Top EXCEPT !.ctx = source, !.at = "callback"]>> \o Tail(stack)
            /\ status' = "Dispatching"
            /\ UNCHANGED attached
    /\ UNCHANGED <<mode, alive, kind, cancelled, destroyed, freed>>

\* The end of a dispatch that still holds held of its context, with the result
\* for GLib.
Return(held, result) ==
    /\ attached' = attached \ ({held} \cup IF result = "stop" THEN {Top.fired} ELSE {})
    /\ destroyed' = Told(destroyed, held)
    /\ stack' = Tail(stack)
    /\ alive' = (alive /\ (mode = "deleteOnDestroy" => held = None))

Results(s) == IF kind[s] = "void" THEN {"stop"} ELSE {"stop", "continue"}

\* Mutated form: a source that is to run again comes back over a newer one.
RunsAgainAlways(result) == result = "continue"

\* m_context takes the context back for a new iteration.
RunsAgain(result) == result = "continue" /\ source = None

\* Mutated form: the status of a source that has been cancelled is not looked at.
UntouchedBySource == source = None

\* It has not been rescheduled or cancelled.
Untouched == status # "Ready" /\ source = None

\* GMainLoopSource: the callback returns.
Finish(result) ==
    /\ mode # "threadSafe"
    /\ stack # <<>> /\ Top.at = "callback" /\ alive
    /\ LET again == Untouched /\ RunsAgain(result)
       IN  /\ source' = IF again THEN Top.ctx ELSE source
           /\ status' = IF Untouched /\ ~again THEN "Ready" ELSE status
           /\ Return(IF again THEN None ELSE Top.ctx, result)
    /\ UNCHANGED <<mode, cancellable, kind, cancelled, freed>>

\* The same when the callback has deleted the object: freed memory is read, and
\* says that the source is to be destroyed (what the destructor left there) or
\* to run again (anything else).  The model follows the program no further.
\* A thread-safe object's dispatch learns it from its own cancellable, unless
\* it is an outer one: m_cancellable is that of the innermost only.
FinishDeleted(result) ==
    /\ stack # <<>> /\ Top.at = "callback" /\ ~alive
    /\ mode = "threadSafe" => Top.ctx \notin cancelled
    /\ freed' = TRUE
    /\ \E held \in {Top.ctx} \cup (IF result = "continue" THEN {None} ELSE {}) :
          Return(held, result)
    /\ UNCHANGED <<mode, status, source, cancellable, kind, cancelled>>

\* GThreadSafeMainLoopSource: the callback returns, and its cancellable is
\* looked at without the lock; it outlives the object.
CheckCancelled(result) ==
    /\ mode = "threadSafe"
    /\ stack # <<>> /\ Top.at = "callback"
    /\ alive \/ Top.ctx \in cancelled
    /\ IF Top.ctx \in cancelled
       THEN Return(Top.ctx, "stop")
       ELSE /\ stack' = <<[Top EXCEPT !.at = result]>> \o Tail(stack)
            /\ UNCHANGED <<alive, attached, destroyed>>
    /\ UNCHANGED <<mode, status, source, cancellable, kind, cancelled, freed>>

\* Then finishVoidCallback or finishBoolCallback takes it.
FinishThreadSafe ==
    /\ stack # <<>> /\ Top.at \in {"stop", "continue"} /\ alive
    /\ LET again == RunsAgain(Top.at)
       IN  /\ source' = IF again THEN Top.ctx ELSE source
           /\ status' = IF Top.at = "stop" THEN "Ready" ELSE status
           /\ Return(IF again THEN None ELSE Top.ctx, Top.at)
    /\ cancellable' = None
    /\ UNCHANGED <<mode, kind, cancelled, freed>>

-----------------------------------------------------------------------------
Next ==
    \/ Cancel
    \/ \E k \in {"void", "bool"} : Schedule(k)
    \/ Delete
    \/ \E s \in GSource : Fire(s)
    \/ Prepare
    \/ stack # <<>> /\ Top.ctx # None /\ \E r \in Results(Top.ctx) :
         Finish(r) \/ FinishDeleted(r) \/ CheckCancelled(r)
    \/ FinishThreadSafe

Spec == Init /\ [][Next]_vars

-----------------------------------------------------------------------------
(* Properties.                                                             *)

Held == {stack[i].ctx : i \in DOMAIN stack}

\* No stray source: what GLib may still dispatch is the object's own source or
\* one whose dispatch is on the stack, whatever was rescheduled, cancelled or
\* nested, by whichever thread.
NoStrays == ~freed => attached \subseteq {source} \cup Held

\* The destroy callback of a context runs once, and not before the context is
\* given up: BasicDestroyCallbacks and the tests after it, for every nesting.
\* An object that deletes itself does so then.
DestroyedOnce ==
    ~freed =>
        /\ \A s \in GSource : destroyed[s] =
            IF s <= Len(kind) /\ s # source /\ s \notin Held THEN 1 ELSE 0
        /\ mode = "deleteOnDestroy" => (alive <=> destroyed[1] = 0)

\* The assertions of cancel and finishBoolCallback: a context in the object goes
\* with a status other than Ready and will fire, no context with Scheduled.
\* Not for an object that other threads use: they may schedule it between the
\* dispatch's look at its cancellable and the status it then sets.
StatusFits ==
    mode # "threadSafe" =>
        /\ source # None => status # "Ready" /\ source \in attached
        /\ status = "Scheduled" => source # None
        /\ stack = <<>> => (status = "Ready" <=> source = None)

\* A GSource runs the function it was scheduled with, again unless other
\* threads may schedule another one once GLib has chosen it.
OwnFunctionRuns ==
    mode # "threadSafe" => \A i \in DOMAIN stack : stack[i].ctx \in {None, stack[i].fired}

\* An object of one thread keeps its status, its context and its GSource in step
\* through every cancel, reschedule, delete and nested dispatch.
SourceInv == TypeOK /\ StatusFits /\ OwnFunctionRuns
=============================================================================
