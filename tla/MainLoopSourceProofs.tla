------------------------ MODULE MainLoopSourceProofs ------------------------
(***************************************************************************)
(* GMainLoopSource keeps its context, its status and its GSource in step,  *)
(* leaves no GSource behind and destroys every context once, for any       *)
(* number of schedules, any nesting of dispatches and every kind of        *)
(* object.                                                                 *)
(***************************************************************************)
EXTENDS MainLoopSource, SequenceTheorems, TLAPS

\* Contexts are numbered as they are made.
Numbered ==
    /\ Len(kind) <= MaxSources
    /\ source <= Len(kind)
    /\ \A i \in 1..Len(stack) : stack[i].ctx <= Len(kind)

\* A dispatch holds a context from prepare on; only the innermost one can be
\* anywhere but in its callback, and only a thread-safe object looks at the
\* cancellable in between.
FramesFit ==
    \A i \in 1..Len(stack) :
        /\ stack[i].at = "prepare" <=> stack[i].ctx = None
        /\ i > 1 => stack[i].at = "callback"
        /\ stack[i].at \in {"stop", "continue"} => mode = "threadSafe"

\* Every context has one holder: the object or one dispatch.  The holder's
\* context has not been destroyed.
OneHolder ==
    /\ \A i, j \in 1..Len(stack) :
          stack[i].ctx = stack[j].ctx /\ stack[i].ctx # None => i = j
    /\ \A i \in 1..Len(stack) : stack[i].ctx # None =>
          stack[i].ctx # source /\ destroyed[stack[i].ctx] = 0

\* What is left of a deleted object.
DeletedIsEmpty ==
    /\ freed => ~alive
    /\ ~alive => /\ source = None /\ status = "Ready"
                 /\ mode = "deleteOnDestroy" => stack = <<>>

\* Without other threads, GLib dispatches the object's own source, and a status
\* Dispatching without a context is the innermost dispatch's.
InStep ==
    mode # "threadSafe" =>
        /\ stack # <<>> /\ Top.at = "prepare" => source = Top.fired
        /\ status = "Dispatching" /\ source = None =>
              stack # <<>> /\ Top.at = "callback" /\ Top.ctx \in attached

\* An object that deletes itself is scheduled once and left alone.
ScheduledOnce ==
    mode = "deleteOnDestroy" =>
        /\ Len(kind) <= 1 /\ Len(stack) <= 1
        /\ stack # <<>> /\ Top.at = "callback" => status = "Dispatching" /\ source = None

IInv ==
    /\ TypeOK /\ Numbered /\ FramesFit /\ OneHolder /\ DeletedIsEmpty
    /\ InStep /\ ScheduledOnce
    /\ StatusFits /\ OwnFunctionRuns /\ NoStrays /\ DestroyedOnce

-----------------------------------------------------------------------------
(* Stacks.                                                                 *)

\* A frame is put on top of a stack.
LEMMA PushFrame ==
    ASSUME NEW S, NEW s \in Seq(S), NEW f \in S
    PROVE  /\ <<f>> \o s \in Seq(S)
           /\ <<f>> \o s # <<>>
           /\ Len(<<f>> \o s) = Len(s) + 1
           /\ (<<f>> \o s)[1] = f
           /\ Head(<<f>> \o s) = f
           /\ \A i \in 2..Len(s) + 1 : (<<f>> \o s)[i] = s[i - 1] /\ i - 1 \in 1..Len(s)
  OBVIOUS

\* The frame on top of a stack is taken off.
LEMMA PopFrame ==
    ASSUME NEW S, NEW s \in Seq(S), s # <<>>
    PROVE  /\ Tail(s) \in Seq(S)
           /\ Len(s) \in Nat \ {0}
           /\ Len(Tail(s)) = Len(s) - 1
           /\ Head(s) = s[1] /\ s[1] \in S
           /\ \A i \in 1..Len(s) - 1 : Tail(s)[i] = s[i + 1] /\ i + 1 \in 1..Len(s)
  OBVIOUS

\* The frame on top of a stack is replaced.
LEMMA ReplaceFrame ==
    ASSUME NEW S, NEW s \in Seq(S), s # <<>>, NEW f \in S
    PROVE  /\ <<f>> \o Tail(s) \in Seq(S)
           /\ <<f>> \o Tail(s) # <<>>
           /\ Len(<<f>> \o Tail(s)) = Len(s)
           /\ (<<f>> \o Tail(s))[1] = f
           /\ Head(<<f>> \o Tail(s)) = f
           /\ \A i \in 2..Len(s) : (<<f>> \o Tail(s))[i] = s[i] /\ i \in 1..Len(s)
<1>1. Tail(s) \in Seq(S) /\ Len(Tail(s)) = Len(s) - 1 /\ Len(s) \in Nat \ {0}
  OBVIOUS
<1>2. \A i \in 2..Len(s) : Tail(s)[i - 1] = s[i]
  OBVIOUS
<1>3. QED
  BY <1>1, <1>2, PushFrame

\* The contexts held by the frames of a stack.
LEMMA HeldByFrames ==
    ASSUME TypeOK
    PROVE  /\ DOMAIN stack = 1..Len(stack) /\ Len(stack) \in Nat
           /\ Held = {stack[i].ctx : i \in 1..Len(stack)}
  BY DEF TypeOK, Held

\* The fields of a frame.
LEMMA FrameFields ==
    ASSUME TypeOK
    PROVE  \A i \in 1..Len(stack) :
              /\ stack[i] \in Frame
              /\ stack[i].ctx \in 0..MaxSources
              /\ stack[i].fired \in GSource
<1> SUFFICES ASSUME NEW i \in 1..Len(stack)
             PROVE  stack[i] \in Frame
  BY DEF Frame
<1>1. stack \in Seq(Frame)
  BY DEF TypeOK
<1>2. QED
  BY <1>1, ElementOfSeq

\* Before the object is scheduled everything holds.
LEMMA InitIInv == Init => IInv
<1> SUFFICES ASSUME Init PROVE IInv
  OBVIOUS
<1> USE MainLoopSourceAssumption DEF Init, None
<1>1. TypeOK
  <2>1. mode \in Mode /\ kind \in Seq({"void", "bool"}) /\ stack \in Seq(Frame)
    OBVIOUS
  <2>2. destroyed \in [GSource -> 0..1] /\ 0 \in 0..MaxSources
    OBVIOUS
  <2>3. QED
    BY <2>1, <2>2 DEF TypeOK
<1>2. Len(kind) = 0 /\ Len(stack) = 0 /\ DOMAIN stack = {}
  OBVIOUS
<1>3. Held = {}
  BY <1>2 DEF Held
<1>4. Numbered /\ FramesFit /\ OneHolder /\ DeletedIsEmpty /\ InStep /\ ScheduledOnce
  BY <1>2 DEF Numbered, FramesFit, OneHolder, DeletedIsEmpty, InStep, ScheduledOnce
<1>5. StatusFits /\ OwnFunctionRuns /\ NoStrays
  BY <1>2 DEF StatusFits, OwnFunctionRuns, NoStrays
<1>6. DestroyedOnce
  BY <1>2, <1>3 DEF DestroyedOnce, GSource
<1>7. QED
  BY <1>1, <1>4, <1>5, <1>6 DEF IInv

-----------------------------------------------------------------------------
(* The object's client.                                                    *)

\* A context that is given up is destroyed for the first time.
LEMMA ToldOnce ==
    ASSUME TypeOK, NEW s \in 0..MaxSources, s # None => destroyed[s] = 0
    PROVE  /\ Told(destroyed, s) \in [GSource -> 0..1]
           /\ \A t \in GSource :
                 Told(destroyed, s)[t] = IF t = s THEN 1 ELSE destroyed[t]
<1> USE MainLoopSourceAssumption DEF TypeOK, GSource, None, Told
<1>1. CASE s = None
  BY <1>1
<1>2. CASE s # None
  <2>1. s \in GSource
    BY <1>2
  <2>2. QED
    BY <1>2, <2>1
<1>3. QED
  BY <1>1, <1>2

\* The context in the object has not been destroyed.
LEMMA SourceIsWhole == IInv /\ ~freed /\ source # None => destroyed[source] = 0
  BY MainLoopSourceAssumption DEF IInv, TypeOK, DestroyedOnce, GSource, None

\* The contexts that are cancelled are contexts.
LEMMA ConveyedType == TypeOK => Conveyed \subseteq GSource
  BY MainLoopSourceAssumption DEF TypeOK, Conveyed, GSource, None

\* What cancel, every schedule and the destructor have in common: the object is
\* alive and outside its own code (unless other threads use it); the context in
\* the object is given up, and what is on the stack is left alone.
GivesUp ==
    /\ alive /\ ~freed
    /\ mode = "threadSafe" \/ Outside
    /\ destroyed' = Told(destroyed, source)
    /\ cancelled' = Conveyed /\ cancellable' = None
    /\ mode' = mode /\ stack' = stack /\ freed' = freed

\* Such a step leaves the stack's part of the invariant alone.
LEMMA GivingUp ==
    ASSUME IInv, GivesUp,
           source' \in {None, Len(kind')}, source' # None => Len(kind') = Len(kind) + 1,
           kind' \in Seq({"void", "bool"}), Len(kind) <= Len(kind'), Len(kind') <= MaxSources,
           Len(kind') <= Len(kind) + 1
    PROVE  /\ destroyed' \in [GSource -> 0..1] /\ cancelled' \subseteq GSource
           /\ Numbered' /\ FramesFit' /\ OneHolder' /\ OwnFunctionRuns'
           /\ Held' = Held
           /\ \A s \in GSource : destroyed'[s] = IF s = source THEN 1 ELSE destroyed[s]
<1> USE MainLoopSourceAssumption DEF IInv
<1>1. source \in 0..MaxSources /\ (source # None => destroyed[source] = 0)
  BY SourceIsWhole DEF GivesUp, TypeOK
<1>2. /\ destroyed' \in [GSource -> 0..1]
      /\ \A s \in GSource : destroyed'[s] = IF s = source THEN 1 ELSE destroyed[s]
  BY <1>1, ToldOnce DEF GivesUp
<1>3. cancelled' \subseteq GSource
  BY ConveyedType DEF GivesUp
<1>4. Held' = Held
  BY DEF GivesUp, Held
<1>5. FramesFit' /\ OwnFunctionRuns'
  BY DEF GivesUp, FramesFit, OwnFunctionRuns
<1>6. Len(kind) \in Nat /\ Len(kind') \in Nat /\ \A i \in 1..Len(stack) : stack[i].ctx \in 0..MaxSources
  BY FrameFields DEF TypeOK
<1>7. Numbered'
  BY <1>6 DEF GivesUp, Numbered, None
<1>8. \A i \in 1..Len(stack) : stack[i].ctx # None =>
          stack[i].ctx \in GSource /\ stack[i].ctx # source /\ stack[i].ctx # source'
  BY <1>6 DEF OneHolder, Numbered, GSource, None
<1>9. OneHolder'
  BY <1>2, <1>8 DEF GivesUp, OneHolder
<1>10. QED
  BY <1>2, <1>3, <1>4, <1>5, <1>7, <1>9

\* cancel and the destructor leave an empty object.
LEMMA CancelKeeps ==
    ASSUME IInv, GivesUp, mode # "deleteOnDestroy", alive' \in BOOLEAN,
           status' = "Ready", source' = None, attached' = Cancelled(source), kind' = kind
    PROVE  IInv'
<1> USE MainLoopSourceAssumption DEF IInv
<1>1. /\ destroyed' \in [GSource -> 0..1] /\ cancelled' \subseteq GSource
      /\ Numbered' /\ FramesFit' /\ OneHolder' /\ OwnFunctionRuns'
      /\ Held' = Held
      /\ \A s \in GSource : destroyed'[s] = IF s = source THEN 1 ELSE destroyed[s]
  <2>1. Len(kind) \in Nat /\ Len(kind) <= MaxSources /\ kind \in Seq({"void", "bool"})
    BY DEF TypeOK, Numbered
  <2>2. QED
    BY <2>1, GivingUp
<1>2. TypeOK'
  BY <1>1 DEF TypeOK, GivesUp, Cancelled, None
<1>3. DeletedIsEmpty' /\ ScheduledOnce' /\ StatusFits'
  BY DEF DeletedIsEmpty, ScheduledOnce, StatusFits, GivesUp, None
<1>4. InStep'
  BY DEF InStep, GivesUp, Outside, Top
<1>5. NoStrays'
  BY <1>1 DEF NoStrays, GivesUp, Cancelled
<1>6. DestroyedOnce'
  <2>1. \A s \in GSource : s \in Nat \ {0}
    BY DEF GSource
  <2>2. source # None => source \notin Held /\ source \in 1..Len(kind)
    BY HeldByFrames DEF OneHolder, Numbered, TypeOK, None
  <2>3. QED
    BY <1>1, <2>1, <2>2 DEF DestroyedOnce, GivesUp, None
<1>7. QED
  BY <1>1, <1>2, <1>3, <1>4, <1>5, <1>6

\* A schedule makes a new context.
LEMMA ScheduleKeeps ==
    ASSUME IInv, NEW k \in {"void", "bool"}, Schedule(k)
    PROVE  IInv'
<1> USE MainLoopSourceAssumption DEF IInv
<1>1. /\ Len(kind) \in Nat /\ kind' \in Seq({"void", "bool"}) /\ Len(kind') = Len(kind) + 1
      /\ Len(kind') \in GSource
  BY DEF Schedule, TypeOK, GSource
<1>2. GivesUp
  BY DEF Schedule, GivesUp, MayCall, DeletedIsEmpty
<1>3. source' = Len(kind') /\ status' = "Scheduled" /\ alive' = alive /\ alive
      /\ attached' = Cancelled(source) \cup {Len(kind')}
  BY DEF Schedule, MayCall
<1>4. /\ destroyed' \in [GSource -> 0..1] /\ cancelled' \subseteq GSource
      /\ Numbered' /\ FramesFit' /\ OneHolder' /\ OwnFunctionRuns'
      /\ Held' = Held
      /\ \A s \in GSource : destroyed'[s] = IF s = source THEN 1 ELSE destroyed[s]
  BY <1>1, <1>2, <1>3, GivingUp DEF GSource
<1>5. TypeOK'
  <2>1. source' \in 0..MaxSources /\ cancellable' \in 0..MaxSources
    BY <1>1, <1>2, <1>3 DEF GivesUp, GSource, None
  <2>2. attached' \subseteq GSource
    BY <1>1, <1>3 DEF TypeOK, Cancelled
  <2>3. mode' = mode /\ freed' = freed /\ stack' = stack
    BY <1>2 DEF GivesUp
  <2>4. QED
    BY <1>1, <1>3, <1>4, <2>1, <2>2, <2>3 DEF TypeOK
<1>6. DeletedIsEmpty' /\ StatusFits'
  BY <1>1, <1>2, <1>3 DEF DeletedIsEmpty, StatusFits, GivesUp, None, GSource
<1>7. InStep'
  BY <1>1, <1>2, <1>3 DEF InStep, GivesUp, Outside, Top
<1>8. mode = "deleteOnDestroy" => kind = <<>> /\ stack = <<>>
  <2> SUFFICES ASSUME mode = "deleteOnDestroy" PROVE kind = <<>> /\ stack = <<>>
    OBVIOUS
  <2>1. kind = <<>> /\ Outside
    BY DEF Schedule, MayCall
  <2>2. stack # <<>> => 1 \in 1..Len(stack) /\ Top = stack[1] /\ stack[1] \in Frame
    BY DEF TypeOK, Top
  <2>3. stack # <<>> => Top.ctx # None /\ Top.ctx \in 0..MaxSources /\ Top.ctx <= 0
    BY <2>1, <2>2 DEF Outside, FramesFit, Numbered, Frame
  <2>4. QED
    BY <2>1, <2>3 DEF None
<1>9. ScheduledOnce'
  BY <1>1, <1>2, <1>3, <1>8 DEF ScheduledOnce, GivesUp
<1>10. NoStrays'
  BY <1>2, <1>3, <1>4 DEF NoStrays, GivesUp, Cancelled
<1>11. DestroyedOnce'
  <2>1. \A s \in GSource : s \in Nat \ {0}
    BY DEF GSource
  <2>2. source # None => source \notin Held /\ source \in 1..Len(kind)
    BY HeldByFrames DEF OneHolder, Numbered, TypeOK, None
  <2>3. \A s \in Held : s \in 0..Len(kind)
    BY HeldByFrames, FrameFields, <1>1 DEF Numbered, TypeOK
  <2>4. \A s \in GSource : destroyed'[s] =
            IF s <= Len(kind') /\ s # source' /\ s \notin Held' THEN 1 ELSE 0
    BY <1>1, <1>2, <1>3, <1>4, <2>1, <2>2, <2>3 DEF DestroyedOnce, GivesUp, None
  <2>5. mode' = "deleteOnDestroy" => (alive' <=> destroyed'[1] = 0)
    <3>1. mode = "deleteOnDestroy" => destroyed' = destroyed
      BY <1>2, <1>8 DEF GivesUp, Numbered, TypeOK, Told, None
    <3>2. QED
      BY <1>2, <1>3, <3>1 DEF DestroyedOnce, GivesUp
  <2>6. QED
    BY <2>4, <2>5 DEF DestroyedOnce
<1>12. QED
  BY <1>4, <1>5, <1>6, <1>7, <1>9, <1>10, <1>11

-----------------------------------------------------------------------------
(* GLib and the dispatch.                                                  *)

\* GLib can only choose the object's own source, unless other threads use the
\* object: every other source that is attached is being dispatched.
LEMMA FiresOwnSource ==
    ASSUME IInv, NEW s \in GSource, Fire(s), mode # "threadSafe"
    PROVE  s = source
<1> USE MainLoopSourceAssumption DEF IInv
<1>1. s \in {source} \cup Held /\ s # None
  BY DEF Fire, NoStrays, GSource, None
<1>2. \A i \in 1..Len(stack) : stack[i].fired # s /\ stack[i].ctx \in {None, stack[i].fired}
  BY HeldByFrames DEF Fire, OwnFunctionRuns
<1>3. s \notin Held
  BY <1>1, <1>2, HeldByFrames
<1>4. QED
  BY <1>1, <1>3

\* A dispatch begins.
LEMMA FireKeeps ==
    ASSUME IInv, NEW s \in GSource, Fire(s)
    PROVE  IInv'
<1> DEFINE f == [fired |-> s, ctx |-> None, at |-> "prepare"]
<1> USE MainLoopSourceAssumption DEF IInv
<1>1. /\ mode' = mode /\ alive' = alive /\ status' = status /\ source' = source
      /\ cancellable' = cancellable /\ kind' = kind /\ attached' = attached
      /\ cancelled' = cancelled /\ destroyed' = destroyed /\ freed' = freed
      /\ stack' = <<f>> \o stack
      /\ ~freed /\ Outside
  BY DEF Fire
<1>2. f \in Frame /\ f.ctx = None /\ f.at = "prepare" /\ f.fired = s
  BY DEF Frame, GSource, None
<1> HIDE DEF f
<1>3. /\ stack \in Seq(Frame) /\ Len(stack) \in Nat
      /\ stack' \in Seq(Frame) /\ stack' # <<>> /\ Len(stack') = Len(stack) + 1
      /\ stack'[1] = f /\ Top' = f
      /\ \A i \in 2..Len(stack) + 1 : stack'[i] = stack[i - 1] /\ i - 1 \in 1..Len(stack)
  BY <1>1, <1>2, PushFrame DEF TypeOK, Top
<1>4. TypeOK'
  BY <1>1, <1>3 DEF TypeOK
<1>5. \A i \in 1..Len(stack') :
          (i = 1 /\ stack'[i] = f) \/ (i \in 2..Len(stack) + 1 /\ stack'[i] = stack[i - 1])
  <2> SUFFICES ASSUME NEW i \in 1..Len(stack')
               PROVE  (i = 1 /\ stack'[i] = f)
                        \/ (i \in 2..Len(stack) + 1 /\ stack'[i] = stack[i - 1])
    OBVIOUS
  <2>1. i = 1 \/ i \in 2..Len(stack) + 1
    BY <1>3
  <2>2. QED
    BY <1>3, <2>1
<1>6. Held' = Held \cup {None}
  <2>1. \A i \in 1..Len(stack) : i + 1 \in 2..Len(stack) + 1 /\ stack'[i + 1] = stack[i]
    BY <1>3
  <2>2. 1 \in 1..Len(stack') /\ Len(stack') = Len(stack) + 1 /\ Len(stack) \in Nat
    BY <1>3
  <2>3. \A i \in 1..Len(stack) : i + 1 \in 1..Len(stack')
    BY <2>2
  <2>4. /\ Held' = {stack'[i].ctx : i \in 1..Len(stack')}
        /\ Held = {stack[i].ctx : i \in 1..Len(stack)}
    BY <1>4, HeldByFrames, <1>3 DEF Held
  <2>5. Held' \subseteq Held \cup {None}
    BY <1>2, <1>3, <1>5, <2>4
  <2>6. Held \subseteq Held'
    BY <2>1, <2>3, <2>4
  <2>7. None \in Held'
    BY <1>2, <1>3, <2>2, <2>4
  <2>8. QED
    BY <2>5, <2>6, <2>7
<1>7. stack # <<>> => stack[1].at = "callback"
  BY <1>1 DEF Outside, Top, TypeOK
<1>8. FramesFit'
  <2> SUFFICES ASSUME NEW i \in 1..Len(stack')
               PROVE  /\ stack'[i].at = "prepare" <=> stack'[i].ctx = None
                      /\ i > 1 => stack'[i].at = "callback"
                      /\ stack'[i].at \in {"stop", "continue"} => mode' = "threadSafe"
    BY DEF FramesFit
  <2>1. CASE i = 1
    BY <1>2, <1>3, <2>1
  <2>2. CASE i # 1
    <3>1. i - 1 \in 1..Len(stack) /\ stack'[i] = stack[i - 1] /\ stack # <<>>
      BY <1>3, <1>5, <2>2
    <3>2. stack[i - 1].at = "callback"
      BY <1>7, <3>1 DEF FramesFit
    <3>3. QED
      BY <1>1, <3>1, <3>2 DEF FramesFit
  <2>3. QED
    BY <2>1, <2>2
<1>9. Numbered' /\ OneHolder' /\ OwnFunctionRuns'
  <2>1. Numbered'
    BY <1>1, <1>2, <1>3, <1>5 DEF Numbered, None, TypeOK
  <2>2. \A i \in 1..Len(stack') : stack'[i].ctx # None =>
            i - 1 \in 1..Len(stack) /\ stack'[i] = stack[i - 1]
    BY <1>2, <1>3, <1>5
  <2>3. OneHolder'
    <3>1. ASSUME NEW i \in 1..Len(stack'), NEW j \in 1..Len(stack'),
                 stack'[i].ctx = stack'[j].ctx, stack'[i].ctx # None
          PROVE  i = j
      <4>1. stack[i - 1].ctx = stack[j - 1].ctx /\ stack[i - 1].ctx # None
              /\ i - 1 \in 1..Len(stack) /\ j - 1 \in 1..Len(stack)
        BY <2>2, <3>1
      <4>2. i - 1 = j - 1
        BY <4>1 DEF OneHolder
      <4>3. QED
        BY <4>2
    <3>2. \A i \in 1..Len(stack') : stack'[i].ctx # None =>
              stack'[i].ctx # source' /\ destroyed'[stack'[i].ctx] = 0
      BY <1>1, <2>2 DEF OneHolder
    <3>3. QED
      BY <3>1, <3>2 DEF OneHolder
  <2>4. OwnFunctionRuns'
    BY <1>1, <1>4, <2>2, HeldByFrames, <1>3 DEF OwnFunctionRuns
  <2>5. QED
    BY <2>1, <2>3, <2>4
<1>10. mode # "threadSafe" => source = s /\ source # None
  BY FiresOwnSource DEF GSource, None
<1>11. mode = "deleteOnDestroy" => stack = <<>>
  BY <1>1, <1>10 DEF ScheduledOnce, Outside
<1>12. ~alive => mode = "threadSafe"
  BY <1>10 DEF DeletedIsEmpty
<1>13. InStep' /\ ScheduledOnce'
  <2>1. InStep'
    BY <1>1, <1>2, <1>3, <1>10 DEF InStep
  <2>2. ScheduledOnce'
    BY <1>1, <1>2, <1>3, <1>11 DEF ScheduledOnce
  <2>3. QED
    BY <2>1, <2>2
<1>14. DeletedIsEmpty'
  BY <1>1, <1>12 DEF DeletedIsEmpty
<1>15. StatusFits'
  BY <1>1, <1>3 DEF StatusFits
<1>16. NoStrays' /\ DestroyedOnce'
  <2>1. NoStrays'
    BY <1>1, <1>6 DEF NoStrays
  <2>2. \A x \in GSource : x \in Held' <=> x \in Held
    BY <1>6 DEF GSource, None
  <2>3. DestroyedOnce'
    BY <1>1, <2>2 DEF DestroyedOnce
  <2>4. QED
    BY <2>1, <2>3
<1>17. QED
  BY <1>4, <1>8, <1>9, <1>13, <1>14, <1>15, <1>16

\* A dispatch ends: the frames below it stay what they were, and hold every
\* context but its own.
LEMMA PoppedFrame ==
    ASSUME IInv, stack # <<>>, stack' = Tail(stack), mode' = mode, kind' = kind
    PROVE  /\ stack' \in Seq(Frame)
           /\ Len(stack') = Len(stack) - 1
           /\ \A i \in 1..Len(stack') : stack'[i] = stack[i + 1] /\ i + 1 \in 1..Len(stack)
           /\ Top = stack[1] /\ Top \in Frame /\ 1 \in 1..Len(stack)
           /\ Top.ctx \in 0..MaxSources /\ Top.ctx <= Len(kind)
           /\ Held = Held' \cup {Top.ctx}
           /\ None \notin Held'
           /\ Top.ctx # None => Top.ctx \notin Held' /\ Top.ctx # source /\ destroyed[Top.ctx] = 0
           /\ stack' # <<>> => Top'.at = "callback"
           /\ FramesFit' /\ OwnFunctionRuns'
<1> USE MainLoopSourceAssumption DEF IInv
<1>1. /\ stack' \in Seq(Frame) /\ Len(stack) \in Nat \ {0}
      /\ Len(stack') = Len(stack) - 1
      /\ Top = stack[1] /\ 1 \in 1..Len(stack)
      /\ \A i \in 1..Len(stack') : stack'[i] = stack[i + 1] /\ i + 1 \in 1..Len(stack)
  BY PopFrame DEF TypeOK, Top
<1>2. Top \in Frame /\ Top.ctx \in 0..MaxSources /\ Top.ctx <= Len(kind)
  BY <1>1, FrameFields DEF Numbered
<1>3. \A i \in 1..Len(stack) : i = 1 \/ (i - 1 \in 1..Len(stack') /\ stack'[i - 1] = stack[i])
  BY <1>1
<1>4. /\ Held = {stack[i].ctx : i \in 1..Len(stack)}
      /\ Held' = {stack'[i].ctx : i \in 1..Len(stack')}
      /\ DOMAIN stack = 1..Len(stack) /\ DOMAIN stack' = 1..Len(stack')
  <2>1. DOMAIN stack' = 1..Len(stack')
    BY <1>1
  <2>2. QED
    BY <2>1, HeldByFrames DEF Held
<1>5. Held = Held' \cup {Top.ctx}
  BY <1>1, <1>3, <1>4
<1>6. \A i \in 1..Len(stack') : stack'[i].at = "callback" /\ stack'[i].ctx # None
                               /\ stack'[i].ctx # Top.ctx
  <2> SUFFICES ASSUME NEW i \in 1..Len(stack')
               PROVE  stack'[i].at = "callback" /\ stack'[i].ctx # None /\ stack'[i].ctx # Top.ctx
    OBVIOUS
  <2>1. i + 1 \in 1..Len(stack) /\ i + 1 > 1 /\ i + 1 # 1 /\ stack'[i] = stack[i + 1]
    BY <1>1
  <2>2. stack[i + 1].at = "callback" /\ stack[i + 1].ctx # None
    BY <2>1 DEF FramesFit
  <2>3. stack[i + 1].ctx # stack[1].ctx
    BY <1>1, <2>1, <2>2 DEF OneHolder
  <2>4. QED
    BY <1>1, <2>1, <2>2, <2>3
<1>7. None \notin Held' /\ Top.ctx \notin Held'
  BY <1>4, <1>6
<1>8. Top.ctx # None => Top.ctx # source /\ destroyed[Top.ctx] = 0
  BY <1>1 DEF OneHolder
<1>9. stack' # <<>> => Top'.at = "callback"
  <2> SUFFICES ASSUME stack' # <<>> PROVE Top'.at = "callback"
    OBVIOUS
  <2>1. Top' = stack'[1] /\ 1 \in 1..Len(stack')
    BY <1>1 DEF Top
  <2>2. QED
    BY <1>6, <2>1
<1>10. FramesFit'
  BY <1>6 DEF FramesFit
<1>11. OwnFunctionRuns'
  BY <1>1, <1>4 DEF OwnFunctionRuns
<1>12. QED
  BY <1>1, <1>2, <1>5, <1>7, <1>8, <1>9, <1>10, <1>11

\* The dispatch returns to GLib: it gives its context up, or the object takes it
\* back (again).
LEMMA Returning ==
    ASSUME IInv, stack # <<>>, Top.ctx # None, mode' = mode, kind' = kind,
           NEW again \in BOOLEAN, NEW result,
           Return(IF again THEN None ELSE Top.ctx, result),
           again => source = None,
           source' = IF again THEN Top.ctx ELSE source
    PROVE  /\ stack' \in Seq(Frame) /\ source' \in 0..MaxSources
           /\ attached' \subseteq GSource /\ destroyed' \in [GSource -> 0..1]
           /\ Numbered' /\ FramesFit' /\ OneHolder' /\ OwnFunctionRuns'
           /\ stack' # <<>> => Top'.at = "callback"
           /\ Len(stack') = Len(stack) - 1
           /\ attached \subseteq {source} \cup Held => attached' \subseteq {source'} \cup Held'
           /\ ~freed => \A s \in GSource : destroyed'[s] =
                  IF s <= Len(kind') /\ s # source' /\ s \notin Held' THEN 1 ELSE 0
<1> DEFINE held == IF again THEN None ELSE Top.ctx
<1> USE MainLoopSourceAssumption DEF IInv
<1>1. /\ stack' = Tail(stack)
      /\ attached' \subseteq attached \ {held}
      /\ destroyed' = Told(destroyed, held)
  BY DEF Return
<1>2. /\ stack' \in Seq(Frame)
      /\ Len(stack') = Len(stack) - 1
      /\ \A i \in 1..Len(stack') : stack'[i] = stack[i + 1] /\ i + 1 \in 1..Len(stack)
      /\ Top = stack[1] /\ Top \in Frame /\ 1 \in 1..Len(stack)
      /\ Top.ctx \in 0..MaxSources /\ Top.ctx <= Len(kind)
      /\ Held = Held' \cup {Top.ctx}
      /\ None \notin Held'
      /\ Top.ctx # None => Top.ctx \notin Held' /\ Top.ctx # source /\ destroyed[Top.ctx] = 0
      /\ stack' # <<>> => Top'.at = "callback"
      /\ FramesFit' /\ OwnFunctionRuns'
  BY <1>1, PoppedFrame
<1>3. source \in 0..MaxSources /\ source' \in 0..MaxSources /\ held \in 0..MaxSources
  BY <1>2 DEF TypeOK, None
<1>4. /\ destroyed' \in [GSource -> 0..1]
      /\ \A s \in GSource : destroyed'[s] = IF s = held THEN 1 ELSE destroyed[s]
  <2>1. held # None => destroyed[held] = 0
    BY <1>2
  <2> HIDE DEF held
  <2>2. QED
    BY <1>1, <1>3, <2>1, ToldOnce
<1>5. attached' \subseteq GSource
  BY <1>1 DEF TypeOK
<1>6. \A i \in 1..Len(stack') : /\ stack'[i].ctx \in Held'
                                /\ stack'[i].ctx \in 0..MaxSources
                                /\ stack'[i].ctx \in GSource
  <2>1. \A i \in 1..Len(stack') : stack'[i].ctx \in 0..MaxSources
    BY <1>2, FrameFields
  <2>2. DOMAIN stack' = 1..Len(stack')
    BY <1>2
  <2>3. \A i \in 1..Len(stack') : stack'[i].ctx \in Held'
    BY <2>2 DEF Held
  <2>4. QED
    BY <1>2, <2>1, <2>3 DEF GSource, None
<1>7. Numbered'
  BY <1>2 DEF Numbered
<1>8. OneHolder'
  <2>1. ASSUME NEW i \in 1..Len(stack'), NEW j \in 1..Len(stack'),
               stack'[i].ctx = stack'[j].ctx, stack'[i].ctx # None
        PROVE  i = j
    <3>1. i + 1 = j + 1
      BY <1>2, <2>1 DEF OneHolder
    <3>2. QED
      BY <3>1
  <2>2. ASSUME NEW i \in 1..Len(stack'), stack'[i].ctx # None
        PROVE  stack'[i].ctx # source' /\ destroyed'[stack'[i].ctx] = 0
    <3>1. stack'[i].ctx # Top.ctx /\ stack'[i].ctx \in GSource
      BY <1>2, <1>6
    <3>2. stack'[i].ctx # source /\ destroyed[stack'[i].ctx] = 0
      <4>1. stack'[i] = stack[i + 1] /\ i + 1 \in 1..Len(stack)
        BY <1>2
      <4>2. OneHolder
        OBVIOUS
      <4>3. stack[i + 1].ctx # source /\ destroyed[stack[i + 1].ctx] = 0
        BY <2>2, <4>1, <4>2, Zenon DEF OneHolder
      <4>4. QED
        BY <4>1, <4>3
    <3>3. stack'[i].ctx # held
      BY <2>2, <3>1
    <3>4. QED
      BY <1>4, <3>1, <3>2, <3>3
  <2>3. QED
    BY <2>1, <2>2 DEF OneHolder
<1>9. attached \subseteq {source} \cup Held => attached' \subseteq {source'} \cup Held'
  <2>1. None \notin attached
    BY DEF TypeOK, GSource, None
  <2>2. CASE again
    BY <1>1, <1>2, <2>1, <2>2
  <2>3. CASE ~again
    BY <1>1, <1>2, <2>3
  <2>4. QED
    BY <2>2, <2>3
<1>10. ASSUME ~freed, NEW s \in GSource
       PROVE  destroyed'[s] = IF s <= Len(kind') /\ s # source' /\ s \notin Held' THEN 1 ELSE 0
  <2>1. destroyed[s] = IF s <= Len(kind) /\ s # source /\ s \notin Held THEN 1 ELSE 0
    BY <1>10 DEF DestroyedOnce
  <2>2. s # None
    BY DEF GSource, None
  <2>3. CASE again
    BY <1>2, <1>4, <2>1, <2>2, <2>3
  <2>4. CASE ~again
    BY <1>2, <1>4, <2>1, <2>4
  <2>5. QED
    BY <2>3, <2>4
<1>11. QED
  BY <1>2, <1>3, <1>4, <1>5, <1>7, <1>8, <1>9, <1>10

\* prepareVoidCallback and prepareBoolCallback.
LEMMA PrepareKeeps ==
    ASSUME IInv, Prepare
    PROVE  IInv'
<1> USE MainLoopSourceAssumption DEF IInv
<1>1. /\ mode' = mode /\ alive' = alive /\ kind' = kind /\ cancelled' = cancelled
      /\ destroyed' = destroyed /\ freed' = freed /\ source' = None
      /\ cancellable' \in {source, None}
      /\ stack # <<>> /\ Top.at = "prepare" /\ alive /\ ~freed
  BY DEF Prepare, DeletedIsEmpty
<1>2. source \in 0..MaxSources /\ cancellable' \in 0..MaxSources /\ source' \in 0..MaxSources
  BY <1>1 DEF TypeOK, None
<1>3. Top = stack[1] /\ 1 \in 1..Len(stack) /\ Top \in Frame /\ Len(stack) \in Nat \ {0}
  BY <1>1, PopFrame DEF TypeOK, Top
<1>4. Top.ctx = None
  BY <1>1, <1>3 DEF FramesFit
<1>5. CASE source = None
  <2>1. stack' = Tail(stack) /\ attached' = attached \ {Top.fired} /\ status' = status
    BY <1>5 DEF Prepare
  <2>2. /\ stack' \in Seq(Frame)
        /\ Len(stack') = Len(stack) - 1
        /\ \A i \in 1..Len(stack') : stack'[i] = stack[i + 1] /\ i + 1 \in 1..Len(stack)
        /\ Held = Held' \cup {Top.ctx}
        /\ None \notin Held'
        /\ stack' # <<>> => Top'.at = "callback"
        /\ FramesFit' /\ OwnFunctionRuns'
    BY <1>1, <2>1, PoppedFrame
  <2>3. mode = "threadSafe"
    <3>1. mode # "threadSafe" => Top.fired = None
      BY <1>1, <1>5 DEF InStep
    <3>2. Top.fired # None
      BY <1>3 DEF Frame, GSource, None
    <3>3. QED
      BY <3>1, <3>2
  <2>4. TypeOK'
    BY <1>1, <1>2, <2>1, <2>2 DEF TypeOK
  <2>5. Numbered'
    BY <1>1, <1>5, <2>2 DEF Numbered
  <2>6. OneHolder'
    <3>1. ASSUME NEW i \in 1..Len(stack'), NEW j \in 1..Len(stack'),
                 stack'[i].ctx = stack'[j].ctx, stack'[i].ctx # None
          PROVE  i = j
      <4>1. i + 1 = j + 1
        BY <2>2, <3>1 DEF OneHolder
      <4>2. QED
        BY <4>1
    <3>2. \A i \in 1..Len(stack') : stack'[i].ctx # None =>
              stack'[i].ctx # source' /\ destroyed'[stack'[i].ctx] = 0
      BY <1>1, <2>2 DEF OneHolder
    <3>3. QED
      BY <3>1, <3>2 DEF OneHolder
  <2>7. DeletedIsEmpty' /\ InStep' /\ ScheduledOnce' /\ StatusFits'
    BY <1>1, <2>3 DEF DeletedIsEmpty, InStep, ScheduledOnce, StatusFits
  <2>8. NoStrays'
    BY <1>1, <1>4, <1>5, <2>1, <2>2 DEF NoStrays, TypeOK, GSource, None
  <2>9. DestroyedOnce'
    <3>1. \A x \in GSource : (x \in Held' <=> x \in Held) /\ x # None
      BY <1>4, <2>2 DEF GSource, None
    <3>2. QED
      BY <1>1, <1>5, <2>3, <3>1 DEF DestroyedOnce
  <2>10. QED
    BY <2>2, <2>4, <2>5, <2>6, <2>7, <2>8, <2>9
<1>6. CASE source # None
  <2> DEFINE f == [Top EXCEPT !.ctx = source, !.at = "callback"]
  <2>1. stack' = <<f>> \o Tail(stack) /\ attached' = attached /\ status' = "Dispatching"
    BY <1>6 DEF Prepare
  <2>2. f \in Frame /\ f.ctx = source /\ f.at = "callback" /\ f.fired = Top.fired
    BY <1>2, <1>3 DEF Frame
  <2> HIDE DEF f
  <2>3. /\ stack' \in Seq(Frame) /\ stack' # <<>>
        /\ Len(stack') = Len(stack) /\ stack'[1] = f /\ Top' = f
        /\ \A i \in 2..Len(stack) : stack'[i] = stack[i] /\ i \in 1..Len(stack)
    BY <1>1, <2>1, <2>2, ReplaceFrame DEF TypeOK, Top
  <2>4. \A i \in 1..Len(stack') : /\ i \in 1..Len(stack)
                                  /\ i = 1 => stack'[i] = f
                                  /\ i # 1 => i \in 2..Len(stack) /\ stack'[i] = stack[i]
    <3> SUFFICES ASSUME NEW i \in 1..Len(stack')
                 PROVE  /\ i \in 1..Len(stack)
                        /\ i = 1 => stack'[i] = f
                        /\ i # 1 => i \in 2..Len(stack) /\ stack'[i] = stack[i]
      OBVIOUS
    <3>1. i \in 1..Len(stack) /\ (i # 1 => i \in 2..Len(stack))
      BY <1>3, <2>3
    <3>2. QED
      BY <2>3, <3>1
  <2>5. TypeOK'
    BY <1>1, <1>2, <2>1, <2>3 DEF TypeOK
  <2>6. \A i \in 1..Len(stack) : i # 1 => stack[i].at = "callback" /\ stack[i].ctx # None
    BY <1>3 DEF FramesFit
  <2>7. FramesFit'
    BY <1>1, <1>6, <2>2, <2>4, <2>6 DEF FramesFit
  <2>8. Numbered'
    BY <1>1, <2>2, <2>4 DEF Numbered, None, TypeOK
  <2>9. destroyed[source] = 0
    BY <1>1, <1>6, SourceIsWhole
  <2>10. OneHolder'
    <3>1. \A i \in 1..Len(stack) : stack[i].ctx # None => stack[i].ctx # source
      BY DEF OneHolder
    <3>2. ASSUME NEW i \in 1..Len(stack'), NEW j \in 1..Len(stack'),
                 stack'[i].ctx = stack'[j].ctx, stack'[i].ctx # None
          PROVE  i = j
      <4>1. CASE i = 1 /\ j # 1
        BY <2>2, <2>4, <2>6, <3>1, <3>2, <4>1
      <4>2. CASE i # 1 /\ j = 1
        BY <2>2, <2>4, <2>6, <3>1, <3>2, <4>2
      <4>3. CASE i # 1 /\ j # 1
        BY <2>4, <3>2, <4>3 DEF OneHolder
      <4>4. QED
        BY <4>1, <4>2, <4>3
    <3>3. \A i \in 1..Len(stack') : stack'[i].ctx # None =>
              stack'[i].ctx # source' /\ destroyed'[stack'[i].ctx] = 0
      BY <1>1, <2>2, <2>4, <2>9 DEF OneHolder
    <3>4. QED
      BY <3>2, <3>3 DEF OneHolder
  <2>11. mode # "threadSafe" => source = Top.fired /\ source \in attached
    BY <1>1, <1>6 DEF InStep, StatusFits
  <2>12. DOMAIN stack' = 1..Len(stack') /\ DOMAIN stack = 1..Len(stack)
    BY <2>3 DEF TypeOK
  <2>13. OwnFunctionRuns'
    BY <1>1, <2>2, <2>4, <2>11, <2>12 DEF OwnFunctionRuns
  <2>14. DeletedIsEmpty' /\ StatusFits'
    BY <1>1, <2>1, <2>3 DEF DeletedIsEmpty, StatusFits
  <2>15. InStep'
    BY <1>1, <2>1, <2>2, <2>3, <2>11 DEF InStep
  <2>16. ScheduledOnce'
    BY <1>1, <2>1, <2>3 DEF ScheduledOnce
  <2>17. Held \cup {source} = Held' \cup {None}
    <3>1. Held \subseteq Held' \cup {None}
      <4> SUFFICES ASSUME NEW i \in 1..Len(stack) PROVE stack[i].ctx \in Held' \cup {None}
        BY <2>12 DEF Held
      <4>1. i \in 1..Len(stack')
        BY <2>3
      <4>2. QED
        BY <1>3, <1>4, <2>4, <2>12, <4>1 DEF Held
    <3>2. source \in Held'
      BY <1>3, <2>2, <2>3, <2>12 DEF Held
    <3>3. Held' \subseteq Held \cup {source}
      BY <2>2, <2>4, <2>12 DEF Held
    <3>4. None \in Held
      BY <1>3, <1>4, <2>12 DEF Held
    <3>5. QED
      BY <3>1, <3>2, <3>3, <3>4
  <2>18. NoStrays'
    BY <1>1, <2>1, <2>17 DEF NoStrays
  <2>19. DestroyedOnce'
    <3>1. \A x \in GSource : (x \in Held' <=> x \in Held \/ x = source) /\ x # None
      BY <2>17 DEF GSource, None
    <3>2. QED
      BY <1>1, <3>1 DEF DestroyedOnce
  <2>20. QED
    BY <2>5, <2>7, <2>8, <2>10, <2>13, <2>14, <2>15, <2>16, <2>18, <2>19
<1>7. QED
  BY <1>5, <1>6

\* GMainLoopSource: the callback returns.
LEMMA FinishKeeps ==
    ASSUME IInv, Top.ctx # None, NEW result \in {"stop", "continue"}, Finish(result)
    PROVE  IInv'
<1> DEFINE again == Untouched /\ RunsAgain(result)
<1> USE MainLoopSourceAssumption DEF IInv
<1>1. /\ mode' = mode /\ cancellable' = cancellable /\ kind' = kind
      /\ cancelled' = cancelled /\ freed' = freed
      /\ mode # "threadSafe" /\ stack # <<>> /\ Top.at = "callback" /\ alive /\ ~freed
      /\ source' = IF again THEN Top.ctx ELSE source
      /\ status' = IF Untouched /\ ~again THEN "Ready" ELSE status
      /\ Return(IF again THEN None ELSE Top.ctx, result)
  BY DEF Finish, DeletedIsEmpty
<1>2. again \in BOOLEAN /\ (again => source = None)
  BY DEF Untouched
<1>3. /\ stack' \in Seq(Frame) /\ source' \in 0..MaxSources
      /\ attached' \subseteq GSource /\ destroyed' \in [GSource -> 0..1]
      /\ Numbered' /\ FramesFit' /\ OneHolder' /\ OwnFunctionRuns'
      /\ stack' # <<>> => Top'.at = "callback"
      /\ Len(stack') = Len(stack) - 1
      /\ attached \subseteq {source} \cup Held => attached' \subseteq {source'} \cup Held'
      /\ ~freed => \A s \in GSource : destroyed'[s] =
             IF s <= Len(kind') /\ s # source' /\ s \notin Held' THEN 1 ELSE 0
  <2> HIDE DEF again
  <2>1. QED
    BY <1>1, <1>2, Returning
<1>4. alive' \in BOOLEAN /\ status' \in {"Ready", "Scheduled", "Dispatching"}
  <2>1. alive' \in BOOLEAN
    BY <1>1 DEF Return
  <2>2. status' \in {"Ready", status}
    BY <1>1
  <2>3. QED
    BY <2>1, <2>2 DEF TypeOK
<1>5. TypeOK'
  BY <1>1, <1>3, <1>4 DEF TypeOK
<1>6. Top.ctx = Top.fired /\ Top = stack[1] /\ 1 \in 1..Len(stack) /\ Len(stack) \in Nat
      /\ Top.ctx \in GSource /\ Top.ctx # source
  <2>1. Top = stack[1] /\ 1 \in 1..Len(stack) /\ Len(stack) \in Nat
    BY <1>1, PopFrame DEF TypeOK, Top
  <2>2. Top.ctx = Top.fired
    BY <1>1, <2>1, HeldByFrames DEF OwnFunctionRuns
  <2>3. Top.ctx \in GSource
    BY <2>1, <2>2, FrameFields
  <2>4. Top.ctx # source
    BY <2>1 DEF OneHolder
  <2>5. QED
    BY <2>1, <2>2, <2>3, <2>4
<1>7. Untouched => status = "Dispatching" /\ Top.ctx \in attached
  <2>1. Untouched => status = "Dispatching" /\ source = None
    BY <1>1 DEF Untouched, StatusFits, TypeOK
  <2>2. QED
    BY <1>1, <2>1 DEF InStep
<1>8. again => result = "continue" /\ attached' = attached
  <2> SUFFICES ASSUME again PROVE result = "continue" /\ attached' = attached
    OBVIOUS
  <2>1. result = "continue"
    BY DEF RunsAgain
  <2>2. attached' = attached \ {None}
    BY <1>1, <2>1 DEF Return
  <2>3. QED
    BY <2>1, <2>2 DEF TypeOK, GSource, None
<1>9. ~again => source' = source /\ (source # None => (source \in attached <=> source \in attached'))
  <2> SUFFICES ASSUME ~again, source # None PROVE source \in attached <=> source \in attached'
    BY <1>1
  <2>1. attached \ {Top.ctx, Top.fired} \subseteq attached' /\ attached' \subseteq attached
    BY <1>1 DEF Return
  <2>2. QED
    BY <1>6, <2>1
<1>10. StatusFits'
  <2>1. CASE again
    BY <1>1, <1>2, <1>6, <1>7, <1>8, <2>1 DEF StatusFits, GSource, None
  <2>2. CASE ~again /\ Untouched
    BY <1>1, <1>9, <2>2 DEF StatusFits, Untouched
  <2>3. CASE ~again /\ ~Untouched
    BY <1>1, <1>9, <2>3 DEF StatusFits, Untouched
  <2>4. QED
    BY <2>1, <2>2, <2>3
<1>11. InStep'
  <2>1. ~(status' = "Dispatching" /\ source' = None)
    BY <1>1, <1>6 DEF StatusFits, Untouched, GSource, None
  <2>2. QED
    BY <1>3, <2>1 DEF InStep
<1>12. mode = "deleteOnDestroy" => stack' = <<>> /\ Untouched
  <2>1. mode = "deleteOnDestroy" => Len(stack') = 0
    BY <1>1, <1>3, <1>6 DEF ScheduledOnce
  <2>2. Len(stack') = 0 => stack' = <<>>
    BY <1>3
  <2>3. mode = "deleteOnDestroy" => Untouched
    BY <1>1 DEF ScheduledOnce, Untouched
  <2>4. QED
    BY <2>1, <2>2, <2>3
<1>13. ScheduledOnce'
  BY <1>1, <1>3, <1>12 DEF ScheduledOnce
<1>14. alive' <=> (mode = "deleteOnDestroy" => again)
  <2>1. alive' <=> (mode = "deleteOnDestroy" => (IF again THEN None ELSE Top.ctx) = None)
    BY <1>1 DEF Return
  <2>2. QED
    BY <2>1
<1>15. DeletedIsEmpty'
  BY <1>1, <1>12, <1>14 DEF DeletedIsEmpty, Untouched
<1>16. NoStrays'
  BY <1>1, <1>3 DEF NoStrays
<1>17. DestroyedOnce'
  <2>1. mode = "deleteOnDestroy" => (alive' <=> destroyed'[1] = 0)
    <3> SUFFICES ASSUME mode = "deleteOnDestroy" PROVE alive' <=> destroyed'[1] = 0
      OBVIOUS
    <3>1. Top.ctx = 1 /\ 1 \in GSource
      <4>1. Top.ctx <= Len(kind) /\ Len(kind) <= 1 /\ Len(kind) \in Nat
        BY <1>6 DEF Numbered, ScheduledOnce, TypeOK
      <4>2. QED
        BY <1>6, <4>1 DEF GSource
    <3>2. 1 <= Len(kind')
      BY <1>1, <1>6, <3>1 DEF Numbered
    <3>3. Held' = {}
      <4>1. DOMAIN stack' = {}
        BY <1>12
      <4>2. QED
        BY <4>1 DEF Held
    <3>4. destroyed'[1] = IF again THEN 0 ELSE 1
      BY <1>1, <1>3, <1>6, <3>1, <3>2, <3>3
    <3>5. QED
      BY <1>14, <3>4
  <2>2. QED
    BY <1>1, <1>3, <2>1 DEF DestroyedOnce
<1>18. QED
  BY <1>3, <1>5, <1>10, <1>11, <1>13, <1>15, <1>16, <1>17

\* The object is gone when its callback returns.  Nothing is promised of what is
\* attached or destroyed from here on.
LEMMA FinishDeletedKeeps ==
    ASSUME IInv, Top.ctx # None, NEW result \in {"stop", "continue"}, FinishDeleted(result)
    PROVE  IInv'
<1> USE MainLoopSourceAssumption DEF IInv
<1>1. PICK held \in {Top.ctx, None} : Return(held, result)
  BY DEF FinishDeleted
<1>2. /\ mode' = mode /\ status' = status /\ source' = source /\ cancellable' = cancellable
      /\ kind' = kind /\ cancelled' = cancelled /\ freed' = TRUE
      /\ stack # <<>> /\ ~alive
      /\ stack' = Tail(stack) /\ destroyed' = Told(destroyed, held)
      /\ attached' \subseteq attached /\ alive' = FALSE
  BY <1>1 DEF FinishDeleted, Return, TypeOK
<1>3. source = None /\ status = "Ready" /\ mode # "deleteOnDestroy"
  BY <1>2 DEF DeletedIsEmpty
<1>4. /\ stack' \in Seq(Frame)
      /\ Len(stack') = Len(stack) - 1
      /\ \A i \in 1..Len(stack') : stack'[i] = stack[i + 1] /\ i + 1 \in 1..Len(stack)
      /\ Top = stack[1] /\ 1 \in 1..Len(stack)
      /\ Top.ctx \in 0..MaxSources
      /\ Top.ctx # None => Top.ctx \notin Held' /\ destroyed[Top.ctx] = 0
      /\ None \notin Held'
      /\ stack' # <<>> => Top'.at = "callback"
      /\ FramesFit' /\ OwnFunctionRuns'
  BY <1>2, PoppedFrame
<1>5. /\ destroyed' \in [GSource -> 0..1]
      /\ \A s \in GSource : destroyed'[s] = IF s = held THEN 1 ELSE destroyed[s]
  <2>1. held \in 0..MaxSources /\ (held # None => destroyed[held] = 0)
    BY <1>4 DEF None
  <2>2. QED
    BY <1>2, <2>1, ToldOnce
<1>6. TypeOK'
  BY <1>2, <1>4, <1>5 DEF TypeOK
<1>7. Numbered'
  BY <1>2, <1>4 DEF Numbered
<1>8. OneHolder'
  <2>1. ASSUME NEW i \in 1..Len(stack'), NEW j \in 1..Len(stack'),
               stack'[i].ctx = stack'[j].ctx, stack'[i].ctx # None
        PROVE  i = j
    <3>1. i + 1 = j + 1
      BY <1>4, <2>1 DEF OneHolder
    <3>2. QED
      BY <3>1
  <2>2. ASSUME NEW i \in 1..Len(stack'), stack'[i].ctx # None
        PROVE  stack'[i].ctx # source' /\ destroyed'[stack'[i].ctx] = 0
    <3>1. DOMAIN stack' = 1..Len(stack')
      BY <1>4
    <3>2. stack'[i].ctx \in Held'
      BY <3>1 DEF Held
    <3>3. stack'[i].ctx # held
      BY <1>4, <2>2, <3>2
    <3>4. stack'[i].ctx \in GSource /\ destroyed[stack'[i].ctx] = 0
      <4>1. stack'[i] = stack[i + 1] /\ i + 1 \in 1..Len(stack)
        BY <1>4
      <4>2. stack[i + 1].ctx \in 0..MaxSources
        BY <4>1, FrameFields
      <4>3. stack'[i].ctx \in GSource
        BY <2>2, <4>1, <4>2 DEF GSource, None
      <4>4. destroyed[stack[i + 1].ctx] = 0
        BY <2>2, <4>1 DEF OneHolder
      <4>5. QED
        BY <4>1, <4>3, <4>4
    <3>5. QED
      BY <1>2, <1>3, <1>5, <2>2, <3>3, <3>4
  <2>3. QED
    BY <2>1, <2>2 DEF OneHolder
<1>9. DeletedIsEmpty' /\ StatusFits' /\ NoStrays' /\ DestroyedOnce' /\ ScheduledOnce'
  BY <1>2, <1>3 DEF DeletedIsEmpty, StatusFits, NoStrays, DestroyedOnce, ScheduledOnce
<1>10. InStep'
  BY <1>2, <1>3, <1>4 DEF InStep
<1>11. QED
  BY <1>4, <1>6, <1>7, <1>8, <1>9, <1>10

\* GThreadSafeMainLoopSource: the callback returns and the cancellable is
\* looked at.
LEMMA CheckCancelledKeeps ==
    ASSUME IInv, Top.ctx # None, NEW result \in {"stop", "continue"}, CheckCancelled(result)
    PROVE  IInv'
<1> USE MainLoopSourceAssumption DEF IInv
<1>1. /\ mode' = mode /\ status' = status /\ source' = source /\ cancellable' = cancellable
      /\ kind' = kind /\ cancelled' = cancelled /\ freed' = freed
      /\ mode = "threadSafe" /\ stack # <<>> /\ Top.at = "callback"
      /\ alive \/ Top.ctx \in cancelled
  BY DEF CheckCancelled
<1>2. InStep' /\ ScheduledOnce' /\ StatusFits' /\ OwnFunctionRuns'
  BY <1>1 DEF InStep, ScheduledOnce, StatusFits, OwnFunctionRuns
<1>3. CASE Top.ctx \in cancelled
  <2>1. Return(Top.ctx, "stop")
    BY <1>3 DEF CheckCancelled
  <2>2. /\ stack' \in Seq(Frame) /\ source' \in 0..MaxSources
        /\ attached' \subseteq GSource /\ destroyed' \in [GSource -> 0..1]
        /\ Numbered' /\ FramesFit' /\ OneHolder'
        /\ attached \subseteq {source} \cup Held => attached' \subseteq {source'} \cup Held'
        /\ ~freed => \A s \in GSource : destroyed'[s] =
               IF s <= Len(kind') /\ s # source' /\ s \notin Held' THEN 1 ELSE 0
    <3>1. Return(IF FALSE THEN None ELSE Top.ctx, "stop") /\ source' = IF FALSE THEN Top.ctx ELSE source
      BY <1>1, <2>1
    <3>2. QED
      BY <1>1, <3>1, Returning
  <2>3. alive' = alive
    <3>1. alive \in BOOLEAN /\ alive' = (alive /\ (mode = "deleteOnDestroy" => Top.ctx = None))
      BY <2>1 DEF Return, TypeOK
    <3>2. QED
      BY <1>1, <3>1
  <2>4. TypeOK'
    BY <1>1, <2>2, <2>3 DEF TypeOK
  <2>5. DeletedIsEmpty' /\ NoStrays' /\ DestroyedOnce'
    BY <1>1, <2>2, <2>3 DEF DeletedIsEmpty, NoStrays, DestroyedOnce
  <2>6. QED
    BY <1>2, <2>2, <2>4, <2>5
<1>4. CASE Top.ctx \notin cancelled
  <2> DEFINE f == [Top EXCEPT !.at = result]
  <2>1. /\ stack' = <<f>> \o Tail(stack)
        /\ alive' = alive /\ attached' = attached /\ destroyed' = destroyed
    BY <1>4 DEF CheckCancelled
  <2>2. Top = stack[1] /\ 1 \in 1..Len(stack) /\ Top \in Frame /\ Len(stack) \in Nat \ {0}
    BY <1>1, PopFrame DEF TypeOK, Top
  <2>3. f \in Frame /\ f.ctx = Top.ctx /\ f.at = result
    BY <2>2 DEF Frame
  <2> HIDE DEF f
  <2>4. /\ stack' \in Seq(Frame) /\ Len(stack') = Len(stack) /\ stack'[1] = f
        /\ \A i \in 2..Len(stack) : stack'[i] = stack[i] /\ i \in 1..Len(stack)
    BY <1>1, <2>1, <2>3, ReplaceFrame DEF TypeOK
  <2>5. \A i \in 1..Len(stack) : /\ stack'[i].ctx = stack[i].ctx
                                 /\ i = 1 => stack'[i].at = result
                                 /\ i # 1 => stack'[i].at = stack[i].at
    <3> SUFFICES ASSUME NEW i \in 1..Len(stack)
                 PROVE  /\ stack'[i].ctx = stack[i].ctx
                        /\ i = 1 => stack'[i].at = result
                        /\ i # 1 => stack'[i].at = stack[i].at
      OBVIOUS
    <3>1. i = 1 \/ i \in 2..Len(stack)
      BY <2>2
    <3>2. QED
      BY <2>2, <2>3, <2>4, <3>1
  <2>6. TypeOK'
    BY <1>1, <2>1, <2>4 DEF TypeOK
  <2>7. Numbered'
    BY <1>1, <2>4, <2>5 DEF Numbered
  <2>8. OneHolder'
    BY <1>1, <2>1, <2>4, <2>5 DEF OneHolder
  <2>9. FramesFit'
    BY <1>1, <2>2, <2>4, <2>5 DEF FramesFit
  <2>10. Held' = Held
    <3>1. DOMAIN stack' = 1..Len(stack) /\ DOMAIN stack = 1..Len(stack)
      BY <2>4 DEF TypeOK
    <3>2. QED
      BY <2>5, <3>1 DEF Held
  <2>11. DeletedIsEmpty' /\ NoStrays' /\ DestroyedOnce'
    BY <1>1, <2>1, <2>10 DEF DeletedIsEmpty, NoStrays, DestroyedOnce
  <2>12. QED
    BY <1>2, <2>6, <2>7, <2>8, <2>9, <2>11
<1>5. QED
  BY <1>3, <1>4

\* ... and finishVoidCallback or finishBoolCallback takes the lock again.
LEMMA FinishThreadSafeKeeps ==
    ASSUME IInv, FinishThreadSafe
    PROVE  IInv'
<1> DEFINE again == RunsAgain(Top.at)
<1> USE MainLoopSourceAssumption DEF IInv
<1>1. /\ mode' = mode /\ kind' = kind /\ cancelled' = cancelled /\ freed' = freed
      /\ cancellable' = None
      /\ stack # <<>> /\ Top.at \in {"stop", "continue"} /\ alive /\ ~freed
      /\ source' = IF again THEN Top.ctx ELSE source
      /\ status' \in {"Ready", status}
      /\ Return(IF again THEN None ELSE Top.ctx, Top.at)
  BY DEF FinishThreadSafe, DeletedIsEmpty
<1>2. Top = stack[1] /\ 1 \in 1..Len(stack)
  BY <1>1, PopFrame DEF TypeOK, Top
<1>3. mode = "threadSafe" /\ Top.ctx # None
  BY <1>1, <1>2 DEF FramesFit
<1>4. again \in BOOLEAN /\ (again => source = None)
  BY DEF RunsAgain
<1>5. /\ stack' \in Seq(Frame) /\ source' \in 0..MaxSources
      /\ attached' \subseteq GSource /\ destroyed' \in [GSource -> 0..1]
      /\ Numbered' /\ FramesFit' /\ OneHolder'
      /\ attached \subseteq {source} \cup Held => attached' \subseteq {source'} \cup Held'
      /\ ~freed => \A s \in GSource : destroyed'[s] =
             IF s <= Len(kind') /\ s # source' /\ s \notin Held' THEN 1 ELSE 0
  <2> HIDE DEF again
  <2>1. QED
    BY <1>1, <1>3, <1>4, Returning
<1>6. alive' = TRUE
  BY <1>1, <1>3 DEF Return
<1>7. TypeOK'
  BY <1>1, <1>5, <1>6 DEF TypeOK, None
<1>8. InStep' /\ ScheduledOnce' /\ StatusFits' /\ OwnFunctionRuns'
  BY <1>1, <1>3 DEF InStep, ScheduledOnce, StatusFits, OwnFunctionRuns
<1>9. DeletedIsEmpty' /\ NoStrays' /\ DestroyedOnce'
  BY <1>1, <1>3, <1>5, <1>6 DEF DeletedIsEmpty, NoStrays, DestroyedOnce
<1>10. QED
  BY <1>5, <1>7, <1>8, <1>9

-----------------------------------------------------------------------------
\* Every step keeps the invariant.
LEMMA NextIInv == IInv /\ [Next]_vars => IInv'
<1> SUFFICES ASSUME IInv, [Next]_vars PROVE IInv'
  OBVIOUS
<1>1. CASE Cancel
  BY <1>1, CancelKeeps DEF Cancel, MayCall, GivesUp, IInv, DeletedIsEmpty, TypeOK
<1>2. CASE \E k \in {"void", "bool"} : Schedule(k)
  BY <1>2, ScheduleKeeps
<1>3. CASE Delete
  BY <1>3, CancelKeeps DEF Delete, Outside, GivesUp, IInv, DeletedIsEmpty
<1>4. CASE \E s \in GSource : Fire(s)
  BY <1>4, FireKeeps
<1>5. CASE Prepare
  BY <1>5, PrepareKeeps
<1>6. CASE stack # <<>> /\ Top.ctx # None /\ \E r \in Results(Top.ctx) :
               Finish(r) \/ FinishDeleted(r) \/ CheckCancelled(r)
  <2>1. PICK r \in Results(Top.ctx) : Finish(r) \/ FinishDeleted(r) \/ CheckCancelled(r)
    BY <1>6
  <2>2. r \in {"stop", "continue"} /\ Top.ctx # None
    BY <1>6 DEF Results
  <2>3. QED
    BY <2>1, <2>2, FinishKeeps, FinishDeletedKeeps, CheckCancelledKeeps
<1>7. CASE FinishThreadSafe
  BY <1>7, FinishThreadSafeKeeps
<1>8. CASE UNCHANGED vars
  BY <1>8 DEF vars, IInv, TypeOK, Numbered, FramesFit, OneHolder, DeletedIsEmpty, InStep,
      ScheduledOnce, StatusFits, OwnFunctionRuns, NoStrays, DestroyedOnce, Top, Held
<1>9. QED
  BY <1>1, <1>2, <1>3, <1>4, <1>5, <1>6, <1>7, <1>8 DEF Next

\* The invariant holds in every behaviour.
LEMMA Invariant == Spec => []IInv
  BY InitIInv, NextIInv, PTL DEF Spec

\* An object of one thread keeps its status, its context and its GSource in
\* step through every cancel, reschedule, delete and nested dispatch: the
\* assertions of cancel and finishBoolCallback.
THEOREM StaysInStep == Spec => []SourceInv
<1>1. IInv => SourceInv
  BY DEF IInv, SourceInv
<1>2. QED
  BY <1>1, Invariant, PTL

\* What GLib may still dispatch is the object's own source or one that is being
\* dispatched, whoever cancels and schedules in between.
THEOREM NothingStrays == Spec => []NoStrays
<1>1. IInv => NoStrays
  BY DEF IInv
<1>2. QED
  BY <1>1, Invariant, PTL

\* The destroy callback of a context runs when the context is given up, and
\* never again.
THEOREM EachDestroyedOnce == Spec => []DestroyedOnce
<1>1. IInv => DestroyedOnce
  BY DEF IInv
<1>2. QED
  BY <1>1, Invariant, PTL
=============================================================================
