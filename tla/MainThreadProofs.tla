--------------------------- MODULE MainThreadProofs --------------------------
(***************************************************************************)
(* RunLoop::dispatch never loses a wake-up and keeps its promise about the *)
(* order of functions; closing modal pages, in whatever order, never ends  *)
(* the process's own loop.  Proved for any number of threads, functions,   *)
(* modal pages and nested loops.                                           *)
(*                                                                         *)
(* Then node's part of the main thread: UvRunOnce and the embed thread     *)
(* take strict turns with libuv, in every behaviour of NodeBindings,       *)
(* deletion at any moment included.                                        *)
(***************************************************************************)
EXTENDS RunLoop, NodeBindings, FiniteSetTheorems, SequenceTheorems, TLAPS

\* The part of the type invariant that dispatch, wakeUp and performWork's use
\* of the queue depend on.
QueueTypeOK ==
    /\ queue \in Seq(Functions)
    /\ sources \in 0..MaxSources
    /\ waking \in SUBSET Threads

\* What a step does to the queue, the sources and the waking threads.
QueueStep ==
    \/ UNCHANGED <<queue, sources, waking>>
    \/ \E t \in Threads, f \in Functions :
          /\ ~Queued(f)
          /\ t \notin waking
          /\ queue' = Append(queue, f)
          /\ waking' = waking \cup {t}
          /\ sources' = sources
    \/ \E t \in Threads :
          /\ t \in waking
          /\ waking' = waking \ {t}
          /\ sources' = IF sources < MaxSources THEN sources + 1 ELSE sources
          /\ queue' = queue
    \/ /\ sources > 0
       /\ sources' = sources - 1
       /\ queue' = IF queue = <<>> THEN queue ELSE Tail(queue)
       /\ waking' = waking
    \/ /\ queue # <<>>
       /\ queue' = Tail(queue)
       /\ UNCHANGED <<sources, waking>>

\* Whatever the loops and activations of performWork do, a step of the run loop
\* uses the queue in one of those ways.
LEMMA StepUsesQueue == [Next]_vars => QueueStep
<1> SUFFICES ASSUME [Next]_vars PROVE QueueStep
  OBVIOUS
<1>1. CASE MainProgress
  BY <1>1 DEF MainProgress, PerformNoWork, PerformWork, FunctionReturn, TakeNext,
      PerformWorkReturn, TimerReturn, RunOutermost, NestedReturn, OutermostReturn,
      CanFire, Fire, QueueStep
<1>2. CASE \E t \in Threads, f \in Functions : Dispatch(t, f)
  BY <1>2 DEF Dispatch, Enqueue, QueueStep
<1>3. CASE \E t \in Threads : WakeUp(t)
  BY <1>3 DEF WakeUp, QueueStep
<1>4. CASE \E c \in Callers : RunNested(c) \/ StopNested(c)
  BY <1>4 DEF RunNested, StopNested, QueueStep
<1>5. CASE StopRunLoop \/ TimerFired
  BY <1>5 DEF StopRunLoop, TimerFired, QueueStep
<1>6. CASE UNCHANGED vars
  BY <1>6 DEF vars, QueueStep
<1>7. QED
  BY <1>1, <1>2, <1>3, <1>4, <1>5, <1>6 DEF Next

\* The queue, the sources and the waking threads stay well typed.
LEMMA QueueTypeStep == QueueTypeOK /\ QueueStep => QueueTypeOK'
<1> SUFFICES ASSUME QueueTypeOK, QueueStep PROVE QueueTypeOK'
  OBVIOUS
<1> USE RunLoopAssumption DEF QueueTypeOK
<1>1. queue' \in Seq(Functions)
  BY DEF QueueStep
<1>2. sources' \in 0..MaxSources
  BY DEF QueueStep
<1>3. waking' \in SUBSET Threads
  BY DEF QueueStep
<1>4. QED
  BY <1>1, <1>2, <1>3

\* dispatch of a function that is not queued keeps the queue free of repeats,
\* and so does taking the first.
LEMMA DistinctStep == QueueTypeOK /\ QueueDistinct /\ QueueStep => QueueDistinct'
<1> SUFFICES ASSUME QueueTypeOK, QueueDistinct, QueueStep PROVE QueueDistinct'
  OBVIOUS
<1> USE DEF QueueTypeOK, QueueDistinct
<1>1. CASE queue' = queue
  BY <1>1
<1>2. CASE \E f \in Functions : ~Queued(f) /\ queue' = Append(queue, f)
  BY <1>2 DEF Queued
<1>3. CASE queue # <<>> /\ queue' = Tail(queue)
  <2>1. Len(queue) \in Nat \ {0} /\ Len(queue') = Len(queue) - 1
    BY <1>3
  <2>2. \A i \in 1..Len(queue') : queue'[i] = queue[i + 1] /\ i + 1 \in 1..Len(queue)
    BY <1>3, <2>1
  <2>3. SUFFICES ASSUME NEW i \in 1..Len(queue'), NEW j \in 1..Len(queue'),
                        queue'[i] = queue'[j]
                 PROVE  i = j
    BY DEF QueueDistinct
  <2>4. queue[i + 1] = queue[j + 1] /\ i + 1 \in 1..Len(queue) /\ j + 1 \in 1..Len(queue)
    BY <2>2, <2>3
  <2>5. i + 1 = j + 1
    BY <2>4
  <2>6. QED
    BY <2>1, <2>5
<1>4. \/ queue' = queue
      \/ \E f \in Functions : ~Queued(f) /\ queue' = Append(queue, f)
      \/ queue # <<>> /\ queue' = Tail(queue)
  <2> HIDE DEF QueueTypeOK, QueueDistinct
  <2> QED
    BY Zenon DEF QueueStep
<1>5. QED
  BY <1>1, <1>2, <1>3, <1>4

\* A queue without repeats is no longer than there are functions, hence no
\* longer than the sources the model counts.
LEMMA QueueFits ==
  QueueTypeOK /\ QueueDistinct => Len(queue) \in Nat /\ Len(queue) <= MaxSources
<1> SUFFICES ASSUME QueueTypeOK, QueueDistinct
             PROVE  Len(queue) \in Nat /\ Len(queue) <= MaxSources
  OBVIOUS
<1>1. Len(queue) \in Nat /\ queue \in [1..Len(queue) -> Functions]
  BY DEF QueueTypeOK
<1>2. queue \in Injection(1..Len(queue), Functions)
  BY <1>1 DEF Injection, IsInjective, QueueDistinct
<1>3. Cardinality(1..Len(queue)) <= Cardinality(Functions)
  BY <1>2, FS_Injection, RunLoopAssumption
<1>4. Cardinality(1..Len(queue)) = Len(queue)
  BY <1>1, FS_Interval
<1>5. Cardinality(Functions) \in Nat
  BY RunLoopAssumption, FS_CardinalityType
<1>6. QED
  BY <1>1, <1>3, <1>4, <1>5, RunLoopAssumption

\* Each way of using the queue keeps one wake-up per queued function.
LEMMA WakeupStep ==
  QueueTypeOK /\ QueueDistinct /\ NoLostWakeup /\ QueueStep => NoLostWakeup'
<1> SUFFICES ASSUME QueueTypeOK, QueueDistinct, NoLostWakeup, QueueStep
             PROVE  NoLostWakeup'
  OBVIOUS
<1> USE DEF NoLostWakeup
<1>1. IsFiniteSet(waking) /\ Cardinality(waking) \in Nat
  BY RunLoopAssumption, FS_Subset, FS_CardinalityType DEF QueueTypeOK
<1>2. Len(queue) \in Nat /\ sources \in Nat /\ MaxSources \in Nat
        /\ Len(queue) <= MaxSources /\ sources <= MaxSources
  BY QueueFits, RunLoopAssumption DEF QueueTypeOK
<1>3. ASSUME NEW t \in Threads, NEW f \in Functions,
             t \notin waking, queue' = Append(queue, f),
             waking' = waking \cup {t}, sources' = sources
      PROVE  NoLostWakeup'
  <2>1. Cardinality(waking') = Cardinality(waking) + 1
    BY <1>1, <1>3, FS_AddElement
  <2>2. Len(queue') = Len(queue) + 1
    BY <1>3 DEF QueueTypeOK
  <2>3. QED
    BY <1>1, <1>2, <1>3, <2>1, <2>2
<1>4. ASSUME NEW t \in Threads, t \in waking, waking' = waking \ {t},
             sources' = IF sources < MaxSources THEN sources + 1 ELSE sources,
             queue' = queue
      PROVE  NoLostWakeup'
  <2>1. Cardinality(waking') = Cardinality(waking) - 1
    BY <1>1, <1>4, FS_RemoveElement
  <2>2. Cardinality(waking') \in Nat
    BY <1>1, <1>4, FS_RemoveElement, FS_CardinalityType
  <2>3. QED
    BY <1>1, <1>2, <1>4, <2>1, <2>2
<1>5. ASSUME sources > 0, sources' = sources - 1, waking' = waking,
             queue' = IF queue = <<>> THEN queue ELSE Tail(queue)
      PROVE  NoLostWakeup'
  <2>1. CASE queue = <<>>
    BY <1>1, <1>2, <1>5, <2>1
  <2>2. CASE queue # <<>>
    <3>1. Len(queue') = Len(queue) - 1
      BY <1>5, <2>2 DEF QueueTypeOK
    <3>2. QED
      BY <1>1, <1>2, <1>5, <3>1
  <2>3. QED
    BY <2>1, <2>2
<1>6. ASSUME queue # <<>>, queue' = Tail(queue), sources' = sources, waking' = waking
      PROVE  NoLostWakeup'
  <2>1. Len(queue') = Len(queue) - 1
    BY <1>6 DEF QueueTypeOK
  <2>2. QED
    BY <1>1, <1>2, <1>6, <2>1
<1>7. ASSUME UNCHANGED <<queue, sources, waking>> PROVE NoLostWakeup'
  BY <1>7
<1>8. QED
  BY <1>3, <1>4, <1>5, <1>6, <1>7 DEF QueueStep

\* No wake-up is lost: however dispatches from any threads interleave with
\* performWork and its re-entry from nested loops, each queued function has a
\* source scheduled for it or a dispatching thread about to schedule one.
THEOREM WakeupsAreNotLost == Safety => []NoLostWakeup
<1> DEFINE IInv == QueueTypeOK /\ QueueDistinct /\ NoLostWakeup
<1>1. Init => IInv
  <2> SUFFICES ASSUME Init PROVE IInv
    OBVIOUS
  <2>1. Len(queue) = 0 /\ queue \in Seq(Functions)
    BY DEF Init
  <2>2. QueueTypeOK /\ QueueDistinct
    BY <2>1, RunLoopAssumption DEF Init, QueueTypeOK, QueueDistinct
  <2>3. Cardinality(waking) = 0
    BY FS_EmptySet DEF Init
  <2>4. NoLostWakeup
    BY <2>1, <2>3 DEF Init, NoLostWakeup
  <2>5. QED
    BY <2>2, <2>4
<1>2. IInv /\ [Next]_vars => IInv'
  BY StepUsesQueue, QueueTypeStep, DistinctStep, WakeupStep
<1>3. IInv => NoLostWakeup
  OBVIOUS
<1>4. QED
  BY <1>1, <1>2, <1>3, PTL DEF Safety

-----------------------------------------------------------------------------
(* The main thread's stack.                                                *)

\* The outermost loop is run again directly inside itself; while it is not
\* running, nothing else is on top of it.  StackShape says the first of this for
\* neighbours only, which says nothing of loops further down.
AgainFirst ==
    /\ \A i \in 2..Len(loops) : \A j \in 2..i : loops[i].again => loops[j].again
    /\ \A i \in 2..Len(loops) : loops[1].state # "running" => loops[i].again

ShapeInv == TypeOK /\ StackShape /\ AgainFirst

\* The last activation is left.
LEMMA LeaveLast ==
    ASSUME NEW S, NEW s \in Seq(S), s # <<>>
    PROVE  /\ Len(s) \in Nat \ {0}
           /\ SubSeq(s, 1, Len(s) - 1) \in Seq(S)
           /\ Len(SubSeq(s, 1, Len(s) - 1)) = Len(s) - 1
           /\ \A i \in 1..Len(s) - 1 : SubSeq(s, 1, Len(s) - 1)[i] = s[i]
<1>1. Len(s) \in Nat \ {0}
  OBVIOUS
<1>2. \A i \in 1..Len(s) - 1 : i \in 1..Len(s) /\ s[i] \in S
  BY <1>1
<1>3. 1 \in Int /\ Len(s) - 1 \in Int
  BY <1>1
<1>4. /\ SubSeq(s, 1, Len(s) - 1) \in Seq(S)
      /\ Len(SubSeq(s, 1, Len(s) - 1)) = IF 1 <= Len(s) - 1 THEN Len(s) - 1 - 1 + 1 ELSE 0
      /\ \A i \in 1..Len(s) - 1 - 1 + 1 : SubSeq(s, 1, Len(s) - 1)[i] = s[1 + i - 1]
  BY <1>2, <1>3, SubSeqProperties
<1>5. Len(SubSeq(s, 1, Len(s) - 1)) = Len(s) - 1
  <2>1. \A n \in Nat \ {0} : (IF 1 <= n - 1 THEN n - 1 - 1 + 1 ELSE 0) = n - 1
    OBVIOUS
  <2>2. QED
    BY <1>1, <1>4, <2>1, Zenon
<1>6. ASSUME NEW i \in 1..Len(s) - 1 PROVE SubSeq(s, 1, Len(s) - 1)[i] = s[i]
  <2>1. 1 + i - 1 = i /\ i \in 1..Len(s) - 1 - 1 + 1
    BY <1>1
  <2>2. SubSeq(s, 1, Len(s) - 1)[i] = s[1 + i - 1]
    BY <1>4, <2>1
  <2>3. QED
    BY <2>1, <2>2
<1>7. QED
  BY <1>1, <1>4, <1>5, <1>6

\* One activation is added.
LEMMA EnterNew ==
    ASSUME NEW S, NEW s \in Seq(S), NEW e \in S
    PROVE  /\ Append(s, e) \in Seq(S) /\ Append(s, e) # <<>>
           /\ Len(s) \in Nat /\ Len(Append(s, e)) = Len(s) + 1
           /\ Append(s, e)[Len(s) + 1] = e
           /\ \A i \in 1..Len(s) : Append(s, e)[i] = s[i]
  OBVIOUS

\* The innermost activation of a stack that is not empty.
LEMMA Innermost ==
    ASSUME TypeOK
    PROVE  /\ Len(loops) \in Nat \ {0} /\ Len(loops) \in 1..Len(loops) /\ 1 \in 1..Len(loops)
           /\ InnerLoop \in Loop
           /\ \A i \in 1..Len(loops) : loops[i] \in Loop
           /\ Len(frames) \in Nat
           /\ frames # <<>> => Len(frames) \in 1..Len(frames) /\ InnerWork \in Frame
<1>1. loops \in Seq(Loop) /\ loops # <<>> /\ frames \in Seq(Frame)
  BY DEF TypeOK
<1>2. Len(loops) \in Nat \ {0} /\ Len(frames) \in Nat /\ (frames # <<>> => Len(frames) # 0)
  BY <1>1
<1>3. \A i \in 1..Len(loops) : loops[i] \in Loop
  BY <1>1, ElementOfSeq
<1>4. \A i \in 1..Len(frames) : frames[i] \in Frame
  BY <1>1, ElementOfSeq
<1>5. QED
  BY <1>2, <1>3, <1>4 DEF InnerLoop, InnerWork

\* A step that leaves the loops as they are, but for the sources that the last
\* iteration of the innermost one has still to fire.
LoopsKept ==
    /\ loops' \in Seq(Loop) /\ Len(loops') = Len(loops)
    /\ \A i \in 1..Len(loops) : /\ loops'[i].state = loops[i].state
                                /\ loops'[i].again = loops[i].again

LEMMA UnchangedLoopsKept == TypeOK /\ loops' = loops => LoopsKept
  BY DEF LoopsKept, TypeOK

\* Dispatching a source.
LEMMA DispatchKeepsLoops == ASSUME TypeOK, CanDispatch, Dispatched PROVE LoopsKept
<1>1. loops \in Seq(Loop) /\ Len(loops) \in 1..Len(loops) /\ InnerLoop \in Loop
  BY Innermost DEF TypeOK
<1>2. CASE InnerLoop.state = "quit"
  <2> DEFINE e == [InnerLoop EXCEPT !.rest = @ - 1]
  <2>1. loops' = [loops EXCEPT ![Len(loops)] = e]
    BY <1>2 DEF Dispatched, InnerLoop
  <2>2. InnerLoop.rest \in 1..MaxSources
    BY <1>1, <1>2, RunLoopAssumption DEF CanDispatch, Loop
  <2>3. e \in Loop /\ e.state = InnerLoop.state /\ e.again = InnerLoop.again
    <3>1. InnerLoop.rest - 1 \in 0..MaxSources
      BY <2>2, RunLoopAssumption
    <3>2. \A l \in Loop : \A v \in 0..MaxSources :
            /\ [l EXCEPT !.rest = v] \in Loop
            /\ [l EXCEPT !.rest = v].state = l.state
            /\ [l EXCEPT !.rest = v].again = l.again
      BY DEF Loop
    <3>3. QED
      BY <1>1, <3>1, <3>2
  <2> HIDE DEF e
  <2>4. /\ loops' \in Seq(Loop) /\ Len(loops') = Len(loops)
        /\ \A i \in 1..Len(loops) : loops'[i] = IF i = Len(loops) THEN e ELSE loops[i]
    BY <1>1, <2>1, <2>3, ExceptSeq
  <2>5. QED
    BY <2>3, <2>4 DEF LoopsKept, InnerLoop
<1>3. CASE InnerLoop.state # "quit"
  BY <1>3, UnchangedLoopsKept DEF Dispatched
<1>4. QED
  BY <1>2, <1>3

LEMMA FireKeepsLoops == ASSUME TypeOK, CanFire, Fire PROVE LoopsKept
  BY DispatchKeepsLoops DEF CanFire, Fire

\* The loops' part of the shape survives such a step.
LEMMA KeptShape ==
    ASSUME ShapeInv, LoopsKept
    PROVE  /\ loops' # <<>>
           /\ \A i \in 2..Len(loops') : loops'[i].state \in {"running", "quit"}
           /\ \A i \in 2..Len(loops') : loops'[i].again => i = 2 \/ loops'[i - 1].again
           /\ \A i \in 2..Len(loops') : loops'[i].again => loops'[i].state = loops'[1].state
           /\ AgainFirst'
           /\ loops'[1].state = loops[1].state
<1> USE DEF ShapeInv, LoopsKept
<1>1. Len(loops) \in Nat \ {0} /\ 1 \in 1..Len(loops)
  BY Innermost
<1>2. \A i \in 2..Len(loops) : i \in 1..Len(loops) /\ i - 1 \in 1..Len(loops)
  BY <1>1
<1>3. \A i \in 2..Len(loops) : \A j \in 2..i : j \in 1..Len(loops)
  BY <1>1
<1>4. loops' # <<>>
  BY <1>1
<1>5. AgainFirst'
  BY <1>1, <1>2, <1>3 DEF AgainFirst
<1>6. \A i \in 2..Len(loops') : loops'[i].again => i = 2 \/ loops'[i - 1].again
  BY <1>1, <1>2 DEF StackShape
<1>7. \A i \in 2..Len(loops') : /\ loops'[i].state \in {"running", "quit"}
                                /\ loops'[i].again => loops'[i].state = loops'[1].state
  BY <1>1, <1>2 DEF StackShape
<1>8. QED
  BY <1>1, <1>4, <1>5, <1>6, <1>7

\* The two halves of the shape: what holds of the loops, and how the callbacks
\* fit between them.
LoopsOK ==
    /\ loops \in Seq(Loop) /\ loops # <<>>
    /\ \A i \in 2..Len(loops) : loops[i].state \in {"running", "quit"}
    /\ \A i \in 2..Len(loops) : loops[i].again => i = 2 \/ loops[i - 1].again
    /\ \A i \in 2..Len(loops) : loops[i].again => loops[i].state = loops[1].state
    /\ AgainFirst

FramesOK ==
    /\ frames \in Seq(Frame)
    /\ Len(loops) - Len(frames) \in {0, 1}
    /\ \A i \in 1..Len(loops) - 1 : frames[i].fn # None
    /\ frames # <<>> => loops[1].state \in {"running", "quit"}

\* The activation of performWork that the main thread is in is replaced.
LEMMA InnerWorkReplaced ==
    ASSUME ShapeInv, LoopsKept, loops'[1].state = loops[1].state,
           Len(frames) = Len(loops), NEW e \in Frame,
           frames' = [frames EXCEPT ![Len(frames)] = e]
    PROVE  FramesOK'
<1>1. frames \in Seq(Frame) /\ Len(frames) \in 1..Len(frames) /\ Len(loops) \in Nat \ {0}
  BY Innermost DEF ShapeInv, TypeOK
<1>2. /\ frames' \in Seq(Frame) /\ Len(frames') = Len(frames)
      /\ \A i \in 1..Len(frames) : frames'[i] = IF i = Len(frames) THEN e ELSE frames[i]
  BY <1>1, ExceptSeq
<1>3. frames # <<>>
  BY <1>1
<1>4. ASSUME NEW i \in 1..Len(loops) - 1 PROVE frames'[i].fn # None
  <2>1. i \in 1..Len(frames) /\ i # Len(frames)
    BY <1>1
  <2>2. QED
    BY <1>2, <2>1 DEF ShapeInv, StackShape
<1>5. QED
  BY <1>1, <1>2, <1>3, <1>4 DEF FramesOK, LoopsKept, ShapeInv, StackShape

LEMMA PerformNoWorkShape == ASSUME ShapeInv, PerformNoWork PROVE LoopsOK' /\ FramesOK'
<1>1. LoopsKept /\ frames' = frames
  BY FireKeepsLoops DEF PerformNoWork, ShapeInv
<1>2. QED
  BY <1>1, KeptShape DEF LoopsOK, FramesOK, LoopsKept, ShapeInv, StackShape, TypeOK

\* The innermost loop dispatches a callback.
LEMMA CallbackEntered ==
    ASSUME ShapeInv, CanDispatch, LoopsKept, NEW e \in Frame,
           frames' = Append(frames, e)
    PROVE  LoopsOK' /\ FramesOK'
<1>1. frames \in Seq(Frame)
  BY DEF ShapeInv, TypeOK
<1>2. Len(frames) = Len(loops) - 1 /\ Len(frames) \in Nat /\ Len(loops) \in Nat
  BY Innermost DEF CanDispatch, InLoop, ShapeInv, StackShape
<1>3. /\ frames' \in Seq(Frame) /\ Len(frames') = Len(frames) + 1
      /\ \A i \in 1..Len(frames) : frames'[i] = frames[i]
  BY <1>1, EnterNew
<1>4. \A i \in 1..Len(loops') - 1 : frames'[i].fn # None
  BY <1>2, <1>3 DEF LoopsKept, ShapeInv, StackShape
<1>5. loops[1].state \in {"running", "quit"}
  <2>1. CASE Len(loops) = 1
    BY <2>1 DEF CanDispatch, InLoop, InnerLoop
  <2>2. CASE Len(loops) # 1
    <3>1. frames # <<>>
      BY <1>1, <1>2, <2>2
    <3>2. QED
      BY <3>1 DEF ShapeInv, StackShape
  <2>3. QED
    BY <2>1, <2>2
<1>6. Len(loops') - Len(frames') \in {0, 1}
  BY <1>2, <1>3 DEF LoopsKept
<1>7. QED
  BY <1>3, <1>4, <1>5, <1>6, KeptShape DEF LoopsOK, FramesOK, LoopsKept

LEMMA PerformWorkShape == ASSUME ShapeInv, PerformWork PROVE LoopsOK' /\ FramesOK'
<1> DEFINE e == [left |-> Len(queue) - 1, fn |-> Head(queue)]
<1>1. LoopsKept /\ CanDispatch
  BY FireKeepsLoops DEF PerformWork, ShapeInv, CanFire
<1>2. queue \in Seq(Functions) /\ queue # <<>> /\ Len(queue) - 1 \in Nat /\ Head(queue) \in Functions
  BY DEF ShapeInv, TypeOK, PerformWork
<1>3. e \in Frame /\ frames' = Append(frames, e)
  BY <1>2 DEF Frame, PerformWork
<1> HIDE DEF e
<1>4. QED
  BY <1>1, <1>3, CallbackEntered

LEMMA TimerFiredShape ==
    ASSUME ShapeInv, TimerFired PROVE LoopsKept /\ LoopsOK' /\ FramesOK'
<1> DEFINE e == [left |-> 0, fn |-> Timer]
<1>1. LoopsKept /\ CanDispatch
  BY DispatchKeepsLoops DEF TimerFired, ShapeInv
<1>2. e \in Frame /\ frames' = Append(frames, e)
  BY DEF Frame, TimerFired
<1> HIDE DEF e
<1>3. QED
  BY <1>1, <1>2, CallbackEntered

LEMMA FunctionReturnShape == ASSUME ShapeInv, FunctionReturn PROVE LoopsOK' /\ FramesOK'
<1> DEFINE e == [InnerWork EXCEPT !.fn = None]
<1>1. LoopsKept
  BY UnchangedLoopsKept DEF FunctionReturn, ShapeInv
<1>2. Len(frames) = Len(loops) /\ frames # <<>> /\ InnerWork \in Frame
  BY Innermost DEF FunctionReturn, Executing, ShapeInv, TypeOK
<1>3. e \in Frame /\ frames' = [frames EXCEPT ![Len(frames)] = e]
  BY <1>2 DEF Frame, FunctionReturn, InnerWork
<1> HIDE DEF e
<1>4. LoopsOK' /\ loops'[1].state = loops[1].state
  BY <1>1, KeptShape DEF LoopsOK, LoopsKept
<1>5. QED
  BY <1>1, <1>2, <1>3, <1>4, InnerWorkReplaced

LEMMA TakeNextShape == ASSUME ShapeInv, TakeNext PROVE LoopsOK' /\ FramesOK'
<1> DEFINE e == [left |-> InnerWork.left - 1, fn |-> Head(queue)]
<1>1. LoopsKept
  BY UnchangedLoopsKept DEF TakeNext, ShapeInv
<1>2. Len(frames) = Len(loops) /\ frames # <<>> /\ InnerWork \in Frame
  BY Innermost DEF TakeNext, BetweenFunctions, ShapeInv, TypeOK
<1>3. InnerWork.left - 1 \in Nat /\ Head(queue) \in Functions
  BY <1>2 DEF Frame, TakeNext, ShapeInv, TypeOK
<1>4. e \in Frame /\ frames' = [frames EXCEPT ![Len(frames)] = e]
  BY <1>3 DEF Frame, TakeNext
<1> HIDE DEF e
<1>5. LoopsOK' /\ loops'[1].state = loops[1].state
  BY <1>1, KeptShape DEF LoopsOK, LoopsKept
<1>6. QED
  BY <1>1, <1>2, <1>4, <1>5, InnerWorkReplaced

\* A callback returns to the innermost loop.
LEMMA CallbackLeft ==
    ASSUME ShapeInv, loops' = loops, Len(frames) = Len(loops),
           frames' = SubSeq(frames, 1, Len(frames) - 1)
    PROVE  LoopsOK' /\ FramesOK'
<1>1. LoopsKept
  BY UnchangedLoopsKept DEF ShapeInv
<1>2. /\ frames # <<>> /\ frames \in Seq(Frame)
      /\ Len(loops) \in Nat \ {0}
  BY Innermost DEF ShapeInv, TypeOK
<1>3. /\ frames' \in Seq(Frame) /\ Len(frames') = Len(frames) - 1
      /\ \A i \in 1..Len(frames) - 1 : frames'[i] = frames[i]
  BY <1>2, LeaveLast
<1>4. \A i \in 1..Len(loops') - 1 : frames'[i].fn # None
  BY <1>2, <1>3 DEF ShapeInv, StackShape
<1>5. Len(loops') - Len(frames') \in {0, 1}
  BY <1>2, <1>3
<1>6. LoopsOK'
  BY <1>1, KeptShape DEF LoopsOK, LoopsKept
<1>7. QED
  BY <1>2, <1>3, <1>4, <1>5, <1>6 DEF FramesOK, ShapeInv, StackShape

LEMMA PerformWorkReturnShape ==
    ASSUME ShapeInv, PerformWorkReturn PROVE LoopsOK' /\ FramesOK'
  BY CallbackLeft DEF PerformWorkReturn, BetweenFunctions

LEMMA TimerReturnShape ==
    ASSUME ShapeInv, TimerReturn PROVE LoopsOK' /\ FramesOK'
  BY CallbackLeft DEF TimerReturn, Executing

\* A step that changes nothing but the state of the outermost loop, which is the
\* only one.
LEMMA OnlyLoopShape ==
    ASSUME ShapeInv, Len(loops) = 1, frames = <<>>, frames' = frames,
           NEW v \in {"running", "ended"}, loops' = [loops EXCEPT ![1].state = v]
    PROVE  LoopsOK' /\ FramesOK'
<1> DEFINE e == [loops[1] EXCEPT !.state = v]
<1>1. loops \in Seq(Loop) /\ 1 \in 1..Len(loops) /\ loops[1] \in Loop
  BY Innermost DEF ShapeInv, TypeOK
<1>2. e \in Loop /\ loops' = [loops EXCEPT ![1] = e]
  BY <1>1 DEF Loop
<1> HIDE DEF e
<1>3. loops' \in Seq(Loop) /\ Len(loops') = 1
  <2>1. \A n \in Nat : \A f \in [1..n -> Loop] : f \in Seq(Loop) /\ Len(f) = n
    OBVIOUS
  <2>2. loops' \in [1..1 -> Loop]
    BY <1>1, <1>2
  <2>3. QED
    BY <2>1, <2>2
<1>4. loops' # <<>> /\ 2..Len(loops') = {} /\ 1..Len(loops') - 1 = {} /\ Len(frames) = 0
  BY <1>3
<1>5. QED
  BY <1>3, <1>4 DEF LoopsOK, FramesOK, AgainFirst, ShapeInv, TypeOK

LEMMA RunOutermostShape == ASSUME ShapeInv, RunOutermost PROVE LoopsOK' /\ FramesOK'
<1>1. Len(frames) = 0 /\ Len(loops) \in Nat \ {0}
  BY Innermost DEF RunOutermost, ShapeInv
<1>2. Len(loops) = 1
  BY <1>1 DEF ShapeInv, StackShape
<1>3. QED
  BY <1>2, OnlyLoopShape DEF RunOutermost

LEMMA OutermostReturnShape == ASSUME ShapeInv, OutermostReturn PROVE LoopsOK' /\ FramesOK'
<1>1. Len(loops) = 1 /\ Len(frames) \in Nat /\ Len(frames) < 1 /\ frames \in Seq(Frame)
  BY Innermost DEF OutermostReturn, CanReturn, InLoop, ShapeInv, TypeOK
<1>2. frames = <<>>
  BY <1>1
<1>3. QED
  BY <1>1, <1>2, OnlyLoopShape DEF OutermostReturn

\* g_main_loop_run returns to the function that spun the nested loop, which is
\* still executing.
LEMMA NestedReturnShape == ASSUME ShapeInv, NestedReturn PROVE LoopsOK' /\ FramesOK'
<1>1. /\ loops \in Seq(Loop) /\ loops # <<>> /\ Len(loops) \in Nat \ {0, 1}
      /\ Len(frames) \in Nat /\ Len(frames) < Len(loops)
  BY Innermost DEF NestedReturn, CanReturn, InLoop, ShapeInv, TypeOK
<1>2. /\ loops' \in Seq(Loop) /\ Len(loops') = Len(loops) - 1
      /\ \A i \in 1..Len(loops) - 1 : loops'[i] = loops[i]
  BY <1>1, LeaveLast DEF NestedReturn
<1>3. loops' # <<>> /\ loops'[1] = loops[1]
  BY <1>1, <1>2
<1>4. \A i \in 2..Len(loops') : /\ i \in 2..Len(loops) /\ i \in 1..Len(loops) - 1
                                /\ i - 1 \in 1..Len(loops) - 1
  BY <1>1, <1>2
<1>5. \A i \in 2..Len(loops') : \A j \in 2..i : j \in 1..Len(loops) - 1
  BY <1>1, <1>2
<1>6. AgainFirst'
  BY <1>2, <1>3, <1>4, <1>5 DEF AgainFirst, ShapeInv
<1>7. \A i \in 2..Len(loops') : /\ loops'[i].state \in {"running", "quit"}
                                /\ loops'[i].again => loops'[i].state = loops'[1].state
  BY <1>2, <1>3, <1>4 DEF ShapeInv, StackShape
<1>8. \A i \in 2..Len(loops') : loops'[i].again => i = 2 \/ loops'[i - 1].again
  BY <1>2, <1>3, <1>4 DEF ShapeInv, StackShape
<1>9. LoopsOK'
  BY <1>2, <1>3, <1>6, <1>7, <1>8 DEF LoopsOK
<1>10. frames' = frames /\ Len(frames) = Len(loops) - 1
  BY <1>1 DEF NestedReturn, ShapeInv, StackShape
<1>11. Len(loops') - Len(frames') \in {0, 1} /\ 1..Len(loops') - 1 \subseteq 1..Len(loops) - 1
  BY <1>1, <1>2, <1>10
<1>12. FramesOK'
  BY <1>3, <1>10, <1>11 DEF FramesOK, ShapeInv, StackShape, TypeOK
<1>13. QED
  BY <1>9, <1>12

\* runModal.  When the outermost loop is not running, every loop above it is an
\* activation of the same GMainLoop, and running that again makes all of them
\* run; otherwise a new loop goes on top and the others stay as they are.
LEMMA RunNestedShape ==
    ASSUME ShapeInv, NEW c \in Callers, RunNested(c)
    PROVE  /\ LoopsOK' /\ FramesOK'
           /\ Len(loops') = Len(loops) + 1
           /\ loops'[Len(loops) + 1].state = "running"
           /\ loops'[Len(loops) + 1].again = (loops[1].state # "running")
           /\ loops'[1].state = "running"
           /\ loops[1].state = "running" =>
                \A i \in 1..Len(loops) : loops'[i] = loops[i]
<1> DEFINE again == loops[1].state # "running"
           n == Len(loops)
           others == [i \in DOMAIN loops |->
                        IF again /\ i \in SameLoop(1)
                        THEN [loops[i] EXCEPT !.state = "running"] ELSE loops[i]]
           e == [state |-> "running", rest |-> 0, again |-> again]
<1>1. loops \in Seq(Loop) /\ n \in Nat \ {0} /\ DOMAIN loops = 1..n /\ 1 \in 1..n
        /\ (\A i \in 1..n : loops[i] \in Loop)
  BY Innermost DEF ShapeInv, TypeOK
<1>2. e \in Loop /\ again \in BOOLEAN
  BY RunLoopAssumption DEF Loop
<1>3. ASSUME again PROVE SameLoop(1) = 1..n
  <2>1. \A j \in 1..n : j = 1 \/ j \in 2..Len(loops)
    BY <1>1
  <2>2. \A j \in 1..n : j = 1 \/ loops[j].again
    BY <1>3, <2>1 DEF ShapeInv, AgainFirst
  <2>3. QED
    BY <1>1, <2>2 DEF SameLoop
<1>4. \A i \in 1..n : others[i] = IF again THEN [loops[i] EXCEPT !.state = "running"] ELSE loops[i]
  BY <1>1, <1>3
<1>5. \A i \in 1..n : [loops[i] EXCEPT !.state = "running"] \in Loop
  BY <1>1 DEF Loop
<1>6. \A i \in 1..n : /\ others[i] \in Loop /\ others[i].again = loops[i].again
                      /\ others[i].state = IF again THEN "running" ELSE loops[i].state
  BY <1>1, <1>4, <1>5 DEF Loop
<1>7. others \in Seq(Loop) /\ Len(others) = n
  BY <1>1, <1>6
<1>8. loops' = Append(others, e)
  BY DEF RunNested
<1> HIDE DEF others, e
<1>9. /\ loops' \in Seq(Loop) /\ loops' # <<>> /\ Len(loops') = n + 1
      /\ loops'[n + 1] = e /\ \A i \in 1..n : loops'[i] = others[i]
  BY <1>1, <1>2, <1>7, <1>8, EnterNew
<1>10. e.state = "running" /\ e.again = again
  BY DEF e
<1>11. loops'[1].state = "running"
  BY <1>1, <1>6, <1>9
<1>12. \A i \in 1..n : /\ loops'[i].again = loops[i].again
                       /\ loops'[i].state = IF again THEN "running" ELSE loops[i].state
  BY <1>6, <1>9
<1>13. ASSUME NEW i \in 2..Len(loops')
       PROVE  /\ loops'[i].state \in {"running", "quit"}
              /\ loops'[i].again => i = 2 \/ loops'[i - 1].again
              /\ loops'[i].again => loops'[i].state = loops'[1].state
              /\ \A j \in 2..i : loops'[i].again => loops'[j].again
  <2>1. CASE i = n + 1
    <3>1. loops'[i] = e
      BY <2>1, <1>9
    <3>2. ASSUME again, n # 1 PROVE n \in 2..n /\ i - 1 = n /\ loops'[n].again
      BY <1>1, <1>12, <2>1, <3>2 DEF ShapeInv, AgainFirst
    <3>3. ASSUME again, NEW j \in 2..i PROVE loops'[j].again
      <4>1. CASE j = n + 1
        BY <1>9, <1>10, <3>3, <4>1
      <4>2. CASE j # n + 1
        BY <1>1, <1>12, <2>1, <3>3, <4>2 DEF ShapeInv, AgainFirst
      <4>3. QED
        BY <4>1, <4>2
    <3>4. n = 1 => i = 2
      BY <2>1
    <3>5. QED
      BY <1>10, <1>11, <3>1, <3>2, <3>3, <3>4
  <2>2. CASE i # n + 1
    <3>1. i \in 2..n /\ i \in 1..n /\ i - 1 \in 1..n /\ \A j \in 2..i : j \in 1..n
      BY <1>1, <1>9, <2>2
    <3>2. loops'[i].state \in {"running", "quit"}
      BY <1>12, <3>1 DEF ShapeInv, StackShape
    <3>3. loops'[i].again => i = 2 \/ loops'[i - 1].again
      BY <1>12, <3>1 DEF ShapeInv, StackShape
    <3>4. loops'[i].again => loops'[i].state = loops'[1].state
      BY <1>1, <1>12, <3>1 DEF ShapeInv, StackShape
    <3>5. \A j \in 2..i : loops'[i].again => loops'[j].again
      BY <1>12, <3>1 DEF ShapeInv, AgainFirst
    <3>6. QED
      BY <3>2, <3>3, <3>4, <3>5
  <2>3. QED
    BY <2>1, <2>2
<1>14. LoopsOK'
  BY <1>9, <1>11, <1>13 DEF LoopsOK, AgainFirst
<1>15. frames' = frames /\ Len(frames) = n /\ frames[n].fn # None
  BY DEF RunNested, Executing, InnerWork
<1>16. \A i \in 1..n : i # n => i \in 1..Len(loops) - 1
  <2>1. \A k \in Nat : \A i \in 1..k : i # k => i \in 1..k - 1
    OBVIOUS
  <2>2. QED
    BY <1>1, <2>1
<1>17. \A i \in 1..Len(loops') - 1 : frames'[i].fn # None
  <2>1. Len(loops') - 1 = n
    BY <1>1, <1>9
  <2>2. \A i \in 1..n : frames[i].fn # None
    BY <1>15, <1>16 DEF ShapeInv, StackShape
  <2>3. QED
    BY <1>15, <2>1, <2>2
<1>18. Len(loops') - Len(frames') \in {0, 1}
  BY <1>1, <1>9, <1>15
<1>19. FramesOK'
  BY <1>11, <1>15, <1>17, <1>18 DEF FramesOK, ShapeInv, TypeOK
<1>20. QED
  BY <1>4, <1>9, <1>10, <1>11, <1>14, <1>19

\* stop.  The last loop's activations are the innermost one alone or, when the
\* outermost loop is run again, all there are.
LEMMA QuitLastShape ==
    ASSUME ShapeInv, Executing, QuitLast, frames' = frames
    PROVE  /\ LoopsOK' /\ FramesOK'
           /\ Len(loops') = Len(loops)
           /\ \A i \in 1..Len(loops) :
                /\ loops'[i].again = loops[i].again
                /\ loops'[i].state = IF InnerLoop.state = "running" /\ i \in SameLoop(Len(loops))
                                     THEN "quit" ELSE loops[i].state
<1> DEFINE n == Len(loops)
<1>1. loops \in Seq(Loop) /\ n \in Nat \ {0} /\ DOMAIN loops = 1..n /\ 1 \in 1..n /\ n \in 1..n
        /\ (\A i \in 1..n : loops[i] \in Loop)
  BY Innermost DEF ShapeInv, TypeOK
<1>2. ASSUME InnerLoop.state # "running", loops' = loops
      PROVE  /\ LoopsOK' /\ FramesOK'
             /\ Len(loops') = n
             /\ \A i \in 1..n : loops'[i] = loops[i]
  BY <1>2 DEF LoopsOK, FramesOK, ShapeInv, StackShape, TypeOK, AgainFirst
<1>3. ASSUME NEW r \in 0..MaxSources,
             loops' = [i \in DOMAIN loops |->
                        [loops[i] EXCEPT
                            !.state = IF i \in SameLoop(Len(loops)) THEN "quit" ELSE @,
                            !.rest = IF i = Len(loops) THEN r ELSE @]]
      PROVE  /\ LoopsOK' /\ FramesOK'
             /\ Len(loops') = n
             /\ \A i \in 1..n :
                  /\ loops'[i].again = loops[i].again
                  /\ loops'[i].state = IF i \in SameLoop(n) THEN "quit" ELSE loops[i].state
  <2>2. \A i \in 1..n : /\ loops'[i] \in Loop /\ loops'[i].again = loops[i].again
                        /\ loops'[i].state = IF i \in SameLoop(n) THEN "quit" ELSE loops[i].state
    <3> SUFFICES ASSUME NEW i \in 1..n
                 PROVE  /\ loops'[i] \in Loop /\ loops'[i].again = loops[i].again
                        /\ loops'[i].state = IF i \in SameLoop(n) THEN "quit" ELSE loops[i].state
      OBVIOUS
    <3> DEFINE st == IF i \in SameLoop(n) THEN "quit" ELSE loops[i].state
               rs == IF i = n THEN r ELSE loops[i].rest
    <3>1. loops'[i] = [loops[i] EXCEPT !.state = st, !.rest = rs] /\ loops[i] \in Loop
      BY <1>1, <1>3
    <3>2. st \in {"ready", "running", "quit", "ended"} /\ rs \in 0..MaxSources
      BY <3>1 DEF Loop
    <3> HIDE DEF st, rs
    <3>3. /\ loops'[i] \in Loop /\ loops'[i].again = loops[i].again
          /\ loops'[i].state = st
      BY <3>1, <3>2 DEF Loop
    <3>4. QED
      BY <3>3 DEF st
  <2>3. loops' \in Seq(Loop) /\ Len(loops') = n
    <3>1. loops' \in [1..n -> Loop]
      BY <1>1, <1>3, <2>2
    <3>2. QED
      BY <1>1, <3>1
  <2>4. loops' # <<>>
    BY <1>1, <2>3
  <2>5. CASE n = 1 \/ loops[n].again
    <3>1. \A j \in 1..n : j = 1 \/ loops[j].again
      <4>1. \A j \in 1..n : j = 1 \/ (n \in 2..n /\ j \in 2..n)
        BY <1>1
      <4>2. QED
        BY <2>5, <4>1 DEF ShapeInv, AgainFirst
    <3>2. \A i \in 1..n : i \in SameLoop(n)
      BY <1>1, <2>5, <3>1 DEF SameLoop
    <3>3. \A i \in 1..n : loops'[i].state = "quit" /\ (i = 1 \/ loops'[i].again)
      BY <2>2, <3>1, <3>2
    <3>4. \A i \in 2..n : /\ i \in 1..n /\ i # 1 /\ (i = 2 \/ (i - 1 \in 1..n /\ i - 1 # 1))
                          /\ \A j \in 2..i : j \in 1..n /\ j # 1
      BY <1>1
    <3>5. \A i \in 2..n : loops'[i].again => i = 2 \/ loops'[i - 1].again
      BY <3>3, <3>4
    <3>6. AgainFirst'
      BY <2>3, <3>3, <3>4 DEF AgainFirst
    <3>7. LoopsOK'
      BY <1>1, <2>3, <2>4, <3>3, <3>4, <3>5, <3>6 DEF LoopsOK
    <3>8. FramesOK'
      BY <1>1, <2>3, <3>3 DEF FramesOK, ShapeInv, StackShape, TypeOK
    <3>9. QED
      BY <2>2, <2>3, <3>7, <3>8
  <2>6. CASE n # 1 /\ ~loops[n].again
    <3>1. \A i \in 1..n : i \in SameLoop(n) <=> i = n
      BY <2>6 DEF SameLoop
    <3>2. \A i \in 1..n : i # n => loops'[i].state = loops[i].state
      BY <2>2, <3>1
    <3>3. loops'[n].state = "quit" /\ ~loops'[n].again /\ loops'[1].state = loops[1].state
      BY <1>1, <2>2, <2>6, <3>1
    <3>4. \A i \in 2..n : i \in 1..n /\ i - 1 \in 1..n /\ \A j \in 2..i : j \in 1..n
      BY <1>1
    <3>5. \A i \in 2..n : loops'[i].again => i = 2 \/ loops'[i - 1].again
      BY <2>2, <3>4 DEF ShapeInv, StackShape
    <3>6. \A i \in 2..n : /\ loops'[i].state \in {"running", "quit"}
                          /\ loops'[i].again => loops'[i].state = loops'[1].state
      BY <2>2, <3>2, <3>3, <3>4 DEF ShapeInv, StackShape
    <3>7. AgainFirst'
      BY <2>2, <2>3, <3>3, <3>4 DEF AgainFirst, ShapeInv
    <3>8. QED
      BY <1>1, <2>2, <2>3, <2>4, <3>3, <3>5, <3>6, <3>7 DEF LoopsOK, FramesOK, ShapeInv, StackShape, TypeOK
  <2>7. QED
    BY <2>5, <2>6
<1>4. QED
  BY <1>2, <1>3 DEF QuitLast

\* Every step keeps the shape.
LEMMA ShapeStep == ASSUME ShapeInv, [Next]_vars PROVE ShapeInv'
<1>1. QueueTypeOK'
  BY StepUsesQueue, QueueTypeStep DEF ShapeInv, TypeOK, QueueTypeOK
<1>2. modal' \in SUBSET Callers
  BY DEF ShapeInv, TypeOK, Next, vars, MainProgress, PerformNoWork, PerformWork, FunctionReturn,
      TakeNext, PerformWorkReturn, RunOutermost, NestedReturn, OutermostReturn, Dispatch,
      Enqueue, WakeUp, RunNested, StopNested, StopRunLoop, TimerFired, TimerReturn
<1>3. quitting' \in BOOLEAN
  BY DEF ShapeInv, TypeOK, Next, vars, MainProgress, PerformNoWork, PerformWork, FunctionReturn,
      TakeNext, PerformWorkReturn, RunOutermost, NestedReturn, OutermostReturn, Dispatch,
      Enqueue, WakeUp, RunNested, StopNested, StopRunLoop, TimerFired, TimerReturn
<1>4. ASSUME UNCHANGED <<loops, frames>> PROVE LoopsOK' /\ FramesOK'
  BY <1>4 DEF LoopsOK, FramesOK, ShapeInv, StackShape, TypeOK, AgainFirst
<1>5. ASSUME MainProgress PROVE LoopsOK' /\ FramesOK'
  BY <1>5, PerformNoWorkShape, PerformWorkShape, FunctionReturnShape, TakeNextShape,
      PerformWorkReturnShape, TimerReturnShape, RunOutermostShape, NestedReturnShape,
      OutermostReturnShape
      DEF MainProgress
<1>6. ASSUME \E c \in Callers : RunNested(c) PROVE LoopsOK' /\ FramesOK'
  BY <1>6, RunNestedShape
<1>7. ASSUME \E c \in Callers : StopNested(c) PROVE LoopsOK' /\ FramesOK'
  BY <1>7, QuitLastShape DEF StopNested
<1>8. ASSUME StopRunLoop \/ TimerFired PROVE LoopsOK' /\ FramesOK'
  BY <1>8, QuitLastShape, TimerFiredShape DEF StopRunLoop
<1>9. LoopsOK' /\ FramesOK'
  BY <1>4, <1>5, <1>6, <1>7, <1>8 DEF Next, vars, Dispatch, Enqueue, WakeUp
<1>10. QED
  BY <1>1, <1>2, <1>3, <1>9 DEF ShapeInv, TypeOK, StackShape, QueueTypeOK, LoopsOK, FramesOK

LEMMA ShapeInit == Init => ShapeInv
<1> SUFFICES ASSUME Init PROVE ShapeInv
  OBVIOUS
<1> DEFINE e == [state |-> "ready", rest |-> 0, again |-> FALSE]
<1>1. e \in Loop /\ loops = <<e>>
  BY RunLoopAssumption DEF Init, Loop
<1> HIDE DEF e
<1>2. loops \in Seq(Loop) /\ loops # <<>> /\ Len(loops) = 1
  BY <1>1
<1>3. frames = <<>> /\ frames \in Seq(Frame) /\ Len(frames) = 0
  BY DEF Init
<1>4. 2..Len(loops) = {} /\ 1..Len(loops) - 1 = {}
  BY <1>2
<1>5. StackShape /\ AgainFirst
  BY <1>2, <1>3, <1>4 DEF StackShape, AgainFirst
<1>6. queue \in Seq(Functions) /\ sources \in 0..MaxSources
  BY RunLoopAssumption DEF Init
<1>7. TypeOK
  BY <1>2, <1>3, <1>6 DEF Init, TypeOK
<1>8. QED
  BY <1>5, <1>7 DEF ShapeInv

-----------------------------------------------------------------------------
(* dispatch's promise.                                                     *)

\* While a callback is on the stack the outermost loop has not ended.
LEMMA WorkingNotEnded ==
    ASSUME ShapeInv PROVE frames # <<>> => ~Ended
  BY DEF ShapeInv, StackShape, Ended

LEMMA ExecutingHasFrame == ASSUME ShapeInv, Len(frames) = Len(loops) PROVE frames # <<>>
  BY Innermost DEF ShapeInv

\* A step of the run loop is a step of the queue that dispatch promises, or
\* leaves that queue alone: functions are added at the end, start from the
\* front while the loop has not ended, and are never lost, doubled or passed.
LEMMA StepOfTaskQueue ==
    ASSUME ShapeInv, [Next]_vars PROVE [Queue!TaskNext]_(Queue!taskVars)
<1> USE DEF Queue!taskVars, Queue!TaskNext
<1>1. ShapeInv'
  BY ShapeStep
<1>2. ASSUME queue' = queue, loops' = loops PROVE [Queue!TaskNext]_(Queue!taskVars)
  BY <1>2 DEF Ended
<1>3. ASSUME queue' = queue, frames' = frames, frames # <<>>
      PROVE  [Queue!TaskNext]_(Queue!taskVars)
  <2>1. ~Ended /\ ~Ended'
    BY <1>1, <1>3, WorkingNotEnded DEF ShapeInv, StackShape, Ended
  <2>2. QED
    BY <1>3, <2>1
<1>4. CASE PerformNoWork
  <2>1. LoopsKept /\ queue' = queue
    BY <1>4, FireKeepsLoops DEF PerformNoWork, ShapeInv
  <2>2. Ended' = Ended
    BY <2>1, KeptShape DEF Ended
  <2>3. QED
    BY <2>1, <2>2
<1>5. CASE PerformWork
  <2>1. LoopsKept /\ queue' = Tail(queue) /\ queue # <<>>
    BY <1>5, FireKeepsLoops DEF PerformWork, ShapeInv
  <2>2. frames' # <<>>
    <3>1. frames \in Seq(Frame) /\ frames' = Append(frames, [left |-> Len(queue) - 1, fn |-> Head(queue)])
      BY <1>5 DEF PerformWork, ShapeInv, TypeOK
    <3>2. QED
      BY <3>1
  <2>3. ~Ended' /\ Ended' = Ended
    BY <1>1, <2>1, <2>2, KeptShape DEF Ended, ShapeInv, StackShape
  <2>4. QED
    BY <2>1, <2>3 DEF Queue!Start
<1>6. CASE FunctionReturn
  BY <1>2, <1>6 DEF FunctionReturn
<1>7. CASE TakeNext
  <2>1. queue' = Tail(queue) /\ queue # <<>> /\ loops' = loops /\ Len(frames) = Len(loops)
    BY <1>7 DEF TakeNext, BetweenFunctions
  <2>2. ~Ended /\ Ended' = Ended
    BY <2>1, ExecutingHasFrame, WorkingNotEnded DEF Ended
  <2>3. QED
    BY <2>1, <2>2 DEF Queue!Start
<1>8. CASE PerformWorkReturn \/ TimerReturn
  BY <1>2, <1>8 DEF PerformWorkReturn, TimerReturn
<1>9. CASE RunOutermost
  <2>1. queue' = queue /\ loops' = [loops EXCEPT ![1].state = "running"] /\ InnerLoop.state = "ready"
    BY <1>9 DEF RunOutermost
  <2>2. Len(loops) = 1
    <3>1. Len(frames) = 0 /\ Len(loops) \in Nat \ {0}
      BY <1>9, Innermost DEF RunOutermost, ShapeInv
    <3>2. QED
      BY <3>1 DEF ShapeInv, StackShape
  <2>3. 1 \in DOMAIN loops /\ loops[1] \in Loop
    BY Innermost DEF ShapeInv, TypeOK
  <2>4. Ended' = Ended
    BY <2>1, <2>2, <2>3 DEF Ended, InnerLoop, Loop
  <2>5. QED
    BY <2>1, <2>4
<1>10. CASE NestedReturn
  <2>1. frames' = frames /\ queue' = queue /\ Len(loops) > 1
    BY <1>10 DEF NestedReturn
  <2>2. frames # <<>>
    <3>1. Len(loops) \in Nat /\ Len(frames) \in Nat
      BY Innermost DEF ShapeInv
    <3>2. Len(frames) # 0
      BY <2>1, <3>1 DEF ShapeInv, StackShape
    <3>3. QED
      BY <3>2
  <2>3. QED
    BY <1>3, <2>1, <2>2
<1>11. CASE OutermostReturn
  <2>1. queue' = queue /\ loops' = [loops EXCEPT ![1].state = "ended"]
    BY <1>11 DEF OutermostReturn
  <2>2. 1 \in DOMAIN loops /\ loops[1] \in Loop
    BY Innermost DEF ShapeInv, TypeOK
  <2>3. Ended'
    BY <2>1, <2>2 DEF Ended, Loop
  <2>4. QED
    BY <2>1, <2>3 DEF Queue!Finish
<1>12. CASE \E t \in Threads, f \in Functions : Dispatch(t, f)
  <2>1. PICK t \in Threads, f \in Functions : Dispatch(t, f)
    BY <1>12
  <2>2. queue' = Append(queue, f) /\ Ended' = Ended
    BY <2>1 DEF Dispatch, Enqueue, Ended
  <2>3. QED
    BY <2>2 DEF Queue!Add
<1>13. CASE \E t \in Threads : WakeUp(t)
  BY <1>2, <1>13 DEF WakeUp
<1>14. CASE \E c \in Callers : RunNested(c) \/ StopNested(c)
  BY <1>3, <1>14, ExecutingHasFrame DEF RunNested, StopNested, Executing
<1>15. CASE StopRunLoop
  BY <1>3, <1>15, ExecutingHasFrame DEF StopRunLoop, Executing
<1>16. CASE TimerFired
  <2>1. LoopsKept /\ queue' = queue
    BY <1>16, TimerFiredShape DEF TimerFired
  <2>2. Ended' = Ended
    BY <2>1, KeptShape DEF Ended
  <2>3. QED
    BY <2>1, <2>2
<1>17. CASE UNCHANGED vars
  BY <1>2, <1>17 DEF vars
<1>18. QED
  BY <1>4, <1>5, <1>6, <1>7, <1>8, <1>9, <1>10, <1>11, <1>12, <1>13, <1>14, <1>15, <1>16, <1>17
      DEF Next, MainProgress

\* dispatch's promise of order: functions given to the run loop start in the
\* order in which they were given, each once, and only while the loop has not
\* ended, whatever loops are nested.
THEOREM FunctionsStartInOrder == Safety => Queue!TaskSafety
<1>1. Init => Queue!TaskInit
  <2> SUFFICES ASSUME Init PROVE Queue!TaskInit
    OBVIOUS
  <2>1. queue = <<>> /\ loops[1].state = "ready"
    BY DEF Init
  <2>2. QED
    BY <2>1 DEF Queue!TaskInit, Ended
<1>2. Init => ShapeInv
  BY ShapeInit
<1>3. ShapeInv /\ [Next]_vars => ShapeInv'
  BY ShapeStep
<1>4. ShapeInv /\ [Next]_vars => [Queue!TaskNext]_(Queue!taskVars)
  BY StepOfTaskQueue
<1>5. QED
  BY <1>1, <1>2, <1>3, <1>4, PTL DEF Safety, Queue!TaskSafety

-----------------------------------------------------------------------------
(* Modal pages.                                                            *)

\* Only stopRunLoop makes run find the outermost loop quit, so that before it no
\* nested activation runs that loop again.
NestedAreOwn == ~quitting => \A i \in 2..Len(loops) : ~loops[i].again

ModalInv == LoopForEveryModal /\ OwnLoopRuns /\ NestedAreOwn

\* A step that neither opens nor closes a page nor quits a loop.
LEMMA KeptModal ==
    ASSUME ShapeInv, ModalInv, LoopsKept, modal' = modal, quitting' = quitting
    PROVE  ModalInv'
<1>1. Len(loops) \in Nat \ {0} /\ 1 \in 1..Len(loops)
  BY Innermost DEF ShapeInv
<1>2. \A i \in 2..Len(loops) : i \in 1..Len(loops)
  BY <1>1
<1>3. RunningNested' = RunningNested
  BY <1>2 DEF LoopsKept, RunningNested
<1>4. LoopForEveryModal' /\ OwnLoopRuns'
  BY <1>1, <1>3 DEF LoopsKept, ModalInv, LoopForEveryModal, OwnLoopRuns
<1>5. NestedAreOwn'
  BY <1>2 DEF LoopsKept, ModalInv, NestedAreOwn
<1>6. QED
  BY <1>4, <1>5 DEF ModalInv

\* Cardinalities of the sets that the count compares.
LEMMA ModalFinite ==
    ASSUME TypeOK
    PROVE  /\ IsFiniteSet(modal) /\ IsFiniteSet(RunningNested)
           /\ Cardinality(modal) \in Nat /\ Cardinality(RunningNested) \in Nat
<1>1. IsFiniteSet(modal)
  BY RunLoopAssumption, FS_Subset DEF TypeOK
<1>2. Len(loops) \in Nat
  BY Innermost
<1>3. IsFiniteSet(2..Len(loops))
  BY <1>2, FS_Interval
<1>4. IsFiniteSet(RunningNested)
  BY <1>3, FS_Subset DEF RunningNested
<1>5. QED
  BY <1>1, <1>4, FS_CardinalityType

\* The process's own loop runs while a callback executes and stopRunLoop has
\* not been called.
LEMMA OwnLoopRunning ==
    ASSUME ShapeInv, ModalInv, Executing, ~quitting
    PROVE  loops[1].state = "running"
<1>1. frames # <<>>
  BY Innermost DEF Executing, ShapeInv
<1>2. QED
  BY <1>1 DEF ModalInv, OwnLoopRuns, ShapeInv, StackShape

LEMMA RunNestedModal ==
    ASSUME ShapeInv, ModalInv, NEW c \in Callers, RunNested(c)
    PROVE  ModalInv'
<1> DEFINE n == Len(loops)
<1>1. /\ Len(loops') = n + 1
      /\ loops'[n + 1].state = "running"
      /\ loops'[n + 1].again = (loops[1].state # "running")
      /\ loops'[1].state = "running"
      /\ loops[1].state = "running" => \A i \in 1..n : loops'[i] = loops[i]
  BY RunNestedShape
<1>2. n \in Nat \ {0} /\ c \notin modal /\ modal' = modal \cup {c} /\ quitting' = quitting
  BY Innermost DEF RunNested, ShapeInv
<1>3. OwnLoopRuns'
  BY <1>1 DEF OwnLoopRuns
<1>4. ASSUME ~quitting
      PROVE  /\ Cardinality(modal') <= Cardinality(RunningNested')
             /\ \A i \in 2..Len(loops') : ~loops'[i].again
  <2>1. loops[1].state = "running"
    BY <1>4, OwnLoopRunning DEF RunNested
  <2>2. \A i \in 1..n : loops'[i] = loops[i]
    BY <1>1, <2>1
  <2>3. \A i \in 2..n + 1 : i = n + 1 \/ (i \in 2..n /\ i \in 1..n)
    BY <1>2
  <2>4. n + 1 \in 2..n + 1 /\ n + 1 \notin 2..n /\ \A i \in 2..n : i \in 2..n + 1 /\ i \in 1..n
    BY <1>2
  <2>5. RunningNested' = RunningNested \cup {n + 1}
    BY <1>1, <2>2, <2>3, <2>4 DEF RunningNested
  <2>6. n + 1 \notin RunningNested
    BY <2>4 DEF RunningNested
  <2>7. /\ IsFiniteSet(modal) /\ IsFiniteSet(RunningNested)
        /\ Cardinality(modal) \in Nat /\ Cardinality(RunningNested) \in Nat
    BY ModalFinite DEF ShapeInv
  <2>8. Cardinality(modal') = Cardinality(modal) + 1
    BY <1>2, <2>7, FS_AddElement
  <2>9. Cardinality(RunningNested') = Cardinality(RunningNested) + 1
    BY <2>5, <2>6, <2>7, FS_AddElement
  <2>10. Cardinality(modal) <= Cardinality(RunningNested)
    BY <1>4 DEF ModalInv, LoopForEveryModal
  <2>11. \A i \in 2..Len(loops') : ~loops'[i].again
    <3>1. ~loops'[n + 1].again
      BY <1>1, <2>1
    <3>2. \A i \in 2..n : ~loops'[i].again
      BY <1>4, <2>2, <2>4 DEF ModalInv, NestedAreOwn
    <3>3. QED
      BY <1>1, <2>3, <3>1, <3>2
  <2>12. QED
    BY <2>7, <2>8, <2>9, <2>10, <2>11
<1>5. QED
  BY <1>2, <1>3, <1>4 DEF ModalInv, LoopForEveryModal, NestedAreOwn

\* close.  A page that is modal has a nested loop running somewhere; if stop finds
\* the last loop running, that one is nested too.
LEMMA StopNestedModal ==
    ASSUME ShapeInv, ModalInv, NEW c \in Callers, StopNested(c)
    PROVE  ModalInv'
<1> DEFINE n == Len(loops)
<1>1. /\ Len(loops') = n
      /\ \A i \in 1..n :
           /\ loops'[i].again = loops[i].again
           /\ loops'[i].state = IF InnerLoop.state = "running" /\ i \in SameLoop(n)
                                THEN "quit" ELSE loops[i].state
  BY QuitLastShape DEF StopNested
<1>2. /\ n \in Nat \ {0} /\ n \in 1..n /\ 1 \in 1..n /\ c \in modal
      /\ modal' = modal \ {c} /\ quitting' = quitting
  BY Innermost DEF StopNested, ShapeInv
<1>3. CASE quitting
  BY <1>2, <1>3 DEF ModalInv, LoopForEveryModal, OwnLoopRuns, NestedAreOwn
<1>4. CASE ~quitting
  <2>1. /\ IsFiniteSet(modal) /\ IsFiniteSet(RunningNested)
        /\ Cardinality(modal) \in Nat /\ Cardinality(RunningNested) \in Nat
    BY ModalFinite DEF ShapeInv
  <2>2. Cardinality(modal') = Cardinality(modal) - 1
    BY <1>2, <2>1, FS_RemoveElement
  <2>3. Cardinality(modal) <= Cardinality(RunningNested) /\ loops[1].state = "running"
    BY <1>4, OwnLoopRunning DEF ModalInv, LoopForEveryModal, StopNested
  <2>4. \A i \in 2..n : i \in 1..n
    BY <1>2
  <2>5. NestedAreOwn'
    BY <1>1, <1>2, <2>4 DEF ModalInv, NestedAreOwn
  <2>6. CASE InnerLoop.state # "running"
    <3>1. RunningNested' = RunningNested
      BY <1>1, <2>4, <2>6 DEF RunningNested
    <3>2. loops'[1].state = "running"
      BY <1>1, <1>2, <2>3, <2>6
    <3>3. QED
      BY <2>1, <2>2, <2>3, <2>5, <3>1, <3>2 DEF ModalInv, LoopForEveryModal, OwnLoopRuns
  <2>7. CASE InnerLoop.state = "running"
    <3>1. n # 1
      <4>1. SUFFICES ASSUME n = 1 PROVE FALSE
        OBVIOUS
      <4>2. RunningNested = {}
        BY <4>1 DEF RunningNested
      <4>3. Cardinality(modal) = 0
        BY <2>1, <2>3, <4>2, FS_EmptySet
      <4>4. QED
        BY <1>2, <2>1, <4>3, FS_EmptySet
    <3>2. n \in 2..n /\ ~loops[n].again
      <4>1. n \in 2..n
        BY <1>2, <3>1
      <4>2. QED
        BY <1>4, <4>1 DEF ModalInv, NestedAreOwn
    <3>3. SameLoop(n) = {n}
      BY <3>1, <3>2 DEF SameLoop
    <3>4. \A i \in 1..n : loops'[i].state = IF i = n THEN "quit" ELSE loops[i].state
      BY <1>1, <2>7, <3>3
    <3>5. RunningNested' = RunningNested \ {n}
      BY <1>1, <2>4, <3>4 DEF RunningNested
    <3>6. n \in RunningNested
      BY <2>7, <3>2 DEF RunningNested, InnerLoop
    <3>7. Cardinality(RunningNested') = Cardinality(RunningNested) - 1
      BY <2>1, <3>5, <3>6, FS_RemoveElement
    <3>8. loops'[1].state = "running"
      BY <1>2, <2>3, <3>1, <3>4
    <3>9. QED
      BY <2>1, <2>2, <2>3, <2>5, <3>7, <3>8 DEF ModalInv, LoopForEveryModal, OwnLoopRuns
  <2>8. QED
    BY <2>6, <2>7
<1>5. QED
  BY <1>3, <1>4

\* A nested loop returns only once it has been quit.
LEMMA NestedReturnModal ==
    ASSUME ShapeInv, ModalInv, NestedReturn
    PROVE  ModalInv'
<1> DEFINE n == Len(loops)
<1>1. loops \in Seq(Loop) /\ loops # <<>> /\ n \in Nat \ {0, 1} /\ InnerLoop.state = "quit"
  BY Innermost DEF NestedReturn, CanReturn, ShapeInv, TypeOK
<1>2. /\ Len(loops') = n - 1 /\ \A i \in 1..n - 1 : loops'[i] = loops[i]
      /\ modal' = modal /\ quitting' = quitting
  BY <1>1, LeaveLast DEF NestedReturn
<1>3. 1 \in 1..n - 1 /\ \A i \in 2..n - 1 : i \in 1..n - 1 /\ i \in 2..n
  <2>1. \A k \in Nat \ {0, 1} :
            1 \in 1..k - 1 /\ \A i \in 2..k - 1 : i \in 1..k - 1 /\ i \in 2..k
    OBVIOUS
  <2>2. QED
    BY <1>1, <2>1
<1>4. \A i \in 2..n : i = n \/ i \in 2..n - 1
  BY <1>1
<1>5. RunningNested' = RunningNested
  BY <1>1, <1>2, <1>3, <1>4 DEF RunningNested, InnerLoop
<1>6. QED
  BY <1>2, <1>3, <1>5 DEF ModalInv, LoopForEveryModal, OwnLoopRuns, NestedAreOwn

LEMMA ModalStep == ASSUME ShapeInv, ModalInv, [Next]_vars PROVE ModalInv'
<1>1. /\ Len(loops) \in Nat \ {0} /\ loops \in Seq(Loop) /\ loops # <<>>
      /\ 1 \in DOMAIN loops /\ loops[1] \in Loop
  BY Innermost DEF ShapeInv, TypeOK
<1>2. ASSUME loops' = loops, modal' = modal, quitting' = quitting PROVE ModalInv'
  BY <1>2, KeptModal, UnchangedLoopsKept DEF ShapeInv
<1>3. CASE PerformNoWork \/ PerformWork \/ TimerFired
  <2>1. LoopsKept /\ modal' = modal /\ quitting' = quitting
    BY <1>3, FireKeepsLoops, TimerFiredShape
        DEF PerformNoWork, PerformWork, TimerFired, ShapeInv
  <2>2. QED
    BY <2>1, KeptModal
<1>4. CASE FunctionReturn \/ TakeNext \/ PerformWorkReturn \/ TimerReturn
  BY <1>2, <1>4 DEF FunctionReturn, TakeNext, PerformWorkReturn, TimerReturn
<1>5. ASSUME Len(loops) = 1, NEW v \in {"running", "ended"},
             loops' = [loops EXCEPT ![1].state = v], modal' = modal, quitting' = quitting,
             v = "ended" => quitting
      PROVE  ModalInv'
  <2>1. Len(loops') = 1 /\ loops'[1].state = v
    BY <1>1, <1>5 DEF Loop
  <2>2. RunningNested = {} /\ RunningNested' = {} /\ 2..Len(loops') = {}
    <3>1. 2..Len(loops) = {} /\ 2..Len(loops') = {}
      BY <1>5, <2>1
    <3>2. QED
      BY <3>1 DEF RunningNested
  <2>3. QED
    BY <1>5, <2>1, <2>2 DEF ModalInv, LoopForEveryModal, OwnLoopRuns, NestedAreOwn
<1>6. CASE RunOutermost
  <2>1. Len(frames) = 0
    BY <1>6 DEF RunOutermost
  <2>2. Len(loops) = 1
    BY <1>1, <2>1 DEF ShapeInv, StackShape
  <2>3. QED
    BY <1>5, <1>6, <2>2 DEF RunOutermost
<1>7. CASE OutermostReturn
  <2>1. Len(loops) = 1 /\ loops[1].state = "quit"
    BY <1>7 DEF OutermostReturn, CanReturn, InnerLoop
  <2>2. quitting
    BY <2>1 DEF ModalInv, OwnLoopRuns
  <2>3. QED
    BY <1>5, <1>7, <2>1, <2>2 DEF OutermostReturn
<1>8. CASE NestedReturn
  BY <1>8, NestedReturnModal
<1>9. CASE \E t \in Threads, f \in Functions : Dispatch(t, f)
  BY <1>2, <1>9 DEF Dispatch, Enqueue
<1>10. CASE \E t \in Threads : WakeUp(t)
  BY <1>2, <1>10 DEF WakeUp
<1>11. CASE \E c \in Callers : RunNested(c) \/ StopNested(c)
  BY <1>11, RunNestedModal, StopNestedModal
<1>12. CASE StopRunLoop
  BY <1>12 DEF StopRunLoop, ModalInv, LoopForEveryModal, OwnLoopRuns, NestedAreOwn
<1>13. CASE UNCHANGED vars
  BY <1>2, <1>13 DEF vars
<1>14. QED
  BY <1>3, <1>4, <1>6, <1>7, <1>8, <1>9, <1>10, <1>11, <1>12, <1>13 DEF Next, MainProgress

\* stop takes whatever loop is last, and any number of modal pages may be open
\* and closed in any order: for every page still modal a nested loop is left to
\* stop, so that closing pages never ends the loop the process lives in.
THEOREM ModalPagesSpareTheProcess == Safety => []ClosingSparesTheProcess
<1>1. Init => ShapeInv /\ ModalInv
  <2> SUFFICES ASSUME Init PROVE ModalInv
    BY ShapeInit
  <2>1. Len(loops) = 1 /\ loops[1].state = "ready" /\ modal = {}
    BY DEF Init
  <2>2. RunningNested = {} /\ 2..Len(loops) = {}
    BY <2>1 DEF RunningNested
  <2>3. QED
    BY <2>1, <2>2, FS_EmptySet DEF ModalInv, LoopForEveryModal, OwnLoopRuns, NestedAreOwn
<1>2. ShapeInv /\ ModalInv /\ [Next]_vars => (ShapeInv /\ ModalInv)'
  BY ShapeStep, ModalStep
<1>3. ShapeInv /\ ModalInv => ClosingSparesTheProcess
  BY DEF ShapeInv, ModalInv, ClosingSparesTheProcess
<1>4. QED
  BY <1>1, <1>2, <1>3, PTL DEF Safety

-----------------------------------------------------------------------------
(* NodeBindings. *)

\* Every reachable state of NodeBindings is well typed; in particular the
\* semaphore and the dispatch counter never go below zero.
THEOREM BindingsTypeCorrect == BindingsSafety => []BindingsTypeOK
<1> DEFINE Counters == uvRuns \in Nat /\ posted \in Nat /\ sem \in Nat
           Places == /\ mainPc \in MainPcs
                     /\ closed \in BOOLEAN
                     /\ embedPc \in EmbedPcs
                     /\ work \in SUBSET Kinds
<1>1. BindingsInit => Counters /\ Places
  <2>1. BindingsInit => Counters
    BY DEF BindingsInit
  <2>2. BindingsInit => Places
    BY DEF BindingsInit, MainPcs, Booting, EmbedPcs, Kinds
  <2>3. QED
    BY <2>1, <2>2
<1>2. Counters /\ Places /\ [BindingsNext]_bindingsVars => Counters'
  BY DEF BindingsNext, MainThread, EmbedThread, bindingsVars, InitNode,
      PrepareMessageLoop, RunMessageLoop,
      EnterUvRun, UvRunOnceBegin, UvRunOnceEnd, DtorClose, DtorPost,
      WakeupEmbedThread, DtorJoin, DtorSemDestroy, EmbedSemWait,
      EmbedCheckOpen, PollTimeout, EmbedCheckAgain, WakeupMainThread,
      PollEvents, Delete, StaleUvRunOnce, UvEvent
<1>3. Places /\ [BindingsNext]_bindingsVars => Places'
  <2> SUFFICES ASSUME Places, [BindingsNext]_bindingsVars PROVE Places'
    OBVIOUS
  <2>1. CASE MainThread
    BY <2>1, Zenon DEF MainThread, InitNode, PrepareMessageLoop, RunMessageLoop, EnterUvRun,
        UvRunOnceBegin, UvRunOnceEnd, DtorClose, DtorPost, WakeupEmbedThread,
        DtorJoin, DtorSemDestroy, MainPcs, Booting, Destructor, EmbedPcs,
        EmbedActive, Kinds
  <2>2. CASE EmbedThread
    BY <2>2 DEF EmbedThread, EmbedSemWait, EmbedCheckOpen, PollTimeout,
        EmbedCheckAgain, WakeupMainThread, EmbedPcs, EmbedActive
  <2>3. CASE PollEvents
    BY <2>3 DEF PollEvents, EmbedPcs, EmbedActive
  <2>4. CASE Delete
    BY <2>4 DEF Delete, MainPcs, Destructor
  <2>5. CASE StaleUvRunOnce
    BY <2>5 DEF StaleUvRunOnce, MainPcs
  <2>6. CASE UvEvent
    BY <2>6 DEF UvEvent
  <2>7. CASE UNCHANGED bindingsVars
    BY <2>7 DEF bindingsVars
  <2>8. QED
    BY <2>1, <2>2, <2>3, <2>4, <2>5, <2>6, <2>7 DEF BindingsNext
<1>4. BindingsTypeOK <=> Counters /\ Places
  BY DEF BindingsTypeOK
<1>5. QED
  BY <1>1, <1>2, <1>3, <1>4, PTL DEF BindingsSafety

-----------------------------------------------------------------------------
LEMMA TurnInit == BindingsInit => TurnInv
  BY DEF BindingsInit, TurnInv, Booting, Tokens, B, EmbedActive, Destructor

\* Each step of the main thread passes the turn on, or keeps it.
LEMMA MainKeepsTurn == BindingsTypeOK /\ TurnInv /\ MainThread => TurnInv'
<1> SUFFICES ASSUME BindingsTypeOK, TurnInv, MainThread PROVE TurnInv'
  OBVIOUS
<1> USE DEF BindingsTypeOK, TurnInv, Tokens, B, Booting, EmbedActive
<1>1. CASE InitNode
  BY <1>1 DEF InitNode
<1>2. CASE PrepareMessageLoop
  BY <1>2 DEF PrepareMessageLoop
<1>3. CASE RunMessageLoop
  BY <1>3 DEF RunMessageLoop, EnterUvRun
<1>4. CASE UvRunOnceBegin
  BY <1>4 DEF UvRunOnceBegin, EnterUvRun
<1>5. CASE UvRunOnceEnd
  BY <1>5 DEF UvRunOnceEnd
<1>6. CASE DtorClose
  BY <1>6 DEF DtorClose
<1>7. CASE DtorPost
  BY <1>7 DEF DtorPost
<1>8. CASE WakeupEmbedThread
  BY <1>8 DEF WakeupEmbedThread
<1>9. CASE DtorJoin
  BY <1>9 DEF DtorJoin
<1>10. CASE DtorSemDestroy
  BY <1>10 DEF DtorSemDestroy
<1>11. QED
  BY <1>1, <1>2, <1>3, <1>4, <1>5, <1>6, <1>7, <1>8, <1>9, <1>10 DEF MainThread

\* Before the destructor stores embed_closed_ the embed thread reads FALSE.
LEMMA StillOpen ==
  BindingsTypeOK /\ TurnInv /\ mainPc \in {"loop", "close"} => ReadClosed = {FALSE}
<1> SUFFICES ASSUME BindingsTypeOK, TurnInv, mainPc \in {"loop", "close"}
             PROVE  ReadClosed = {FALSE}
  OBVIOUS
<1>1. closed = FALSE
  BY Zenon DEF BindingsTypeOK, TurnInv
<1>2. mainPc # "post"
  OBVIOUS
<1>3. QED
  BY <1>1, <1>2 DEF ReadClosed

\* Once the destructor has posted the semaphore the embed thread reads TRUE.
LEMMA SeenClosed ==
  BindingsTypeOK /\ TurnInv
    /\ mainPc \in {"wake", "join", "destroy", "gone", "use_after_free"}
    => ReadClosed = {TRUE}
<1> SUFFICES ASSUME BindingsTypeOK, TurnInv,
                    mainPc \in {"wake", "join", "destroy", "gone", "use_after_free"}
             PROVE  ReadClosed = {TRUE}
  OBVIOUS
<1>1. mainPc \notin Booting \cup {"loop", "close"} /\ mainPc # "post"
  BY DEF Booting
<1>2. closed = TRUE
  BY <1>1, Zenon DEF BindingsTypeOK, TurnInv
<1>3. QED
  BY <1>1, <1>2 DEF ReadClosed

\* So does each step of the embed thread; the delicate ones are its two reads
\* of embed_closed_, which may race with the destructor.
LEMMA EmbedKeepsTurn == BindingsTypeOK /\ TurnInv /\ (EmbedThread \/ PollEvents) => TurnInv'
<1> SUFFICES ASSUME BindingsTypeOK, TurnInv, EmbedThread \/ PollEvents PROVE TurnInv'
  OBVIOUS
<1> USE DEF BindingsTypeOK, TurnInv, Tokens, B, Booting, EmbedActive, MainPcs, Destructor
<1>1. CASE EmbedSemWait
  BY <1>1 DEF EmbedSemWait
<1>2. CASE EmbedCheckOpen
  <2>1. embedPc' \in {"done", "PollEvents"}
    BY <1>2 DEF EmbedCheckOpen
  <2>2. mainPc \in {"loop", "close"} => embedPc' = "PollEvents"
    BY <1>2, StillOpen DEF EmbedCheckOpen
  <2>3. QED
    BY <1>2, <2>1, <2>2 DEF EmbedCheckOpen
<1>3. CASE PollTimeout \/ PollEvents
  BY <1>3 DEF PollTimeout, PollEvents
<1>4. CASE EmbedCheckAgain
  <2>1. embedPc' \in {"done", "wakeup"}
    BY <1>4 DEF EmbedCheckAgain
  <2>2. mainPc \in {"loop", "close"} => embedPc' = "wakeup"
    BY <1>4, StillOpen DEF EmbedCheckAgain
  <2>3. mainPc \in {"wake", "join", "destroy", "gone", "use_after_free"}
          => embedPc' = "done"
    <3> SUFFICES ASSUME mainPc \in {"wake", "join", "destroy", "gone", "use_after_free"}
                 PROVE  embedPc' = "done"
      OBVIOUS
    <3>1. ReadClosed = {TRUE}
      BY SeenClosed
    <3>2. PICK c \in ReadClosed : embedPc' = IF c THEN "done" ELSE "wakeup"
      BY <1>4 DEF EmbedCheckAgain
    <3>3. c = TRUE
      BY <3>1
    <3>4. QED
      BY <3>2, <3>3
  <2>4. QED
    BY <1>4, <2>1, <2>2, <2>3 DEF EmbedCheckAgain
<1>5. CASE WakeupMainThread
  BY <1>5 DEF WakeupMainThread
<1>6. QED
  BY <1>1, <1>2, <1>3, <1>4, <1>5 DEF EmbedThread

LEMMA OthersKeepTurn ==
  BindingsTypeOK /\ TurnInv /\ (Delete \/ StaleUvRunOnce \/ UvEvent \/ UNCHANGED bindingsVars)
    => TurnInv'
  BY DEF BindingsTypeOK, TurnInv, Tokens, B, Booting, EmbedActive, Destructor, Delete,
      StaleUvRunOnce, UvEvent, bindingsVars

\* The turn invariant holds in every reachable state.
THEOREM TurnInvariant == BindingsSafety => []TurnInv
<1>1. BindingsTypeOK /\ TurnInv /\ [BindingsNext]_bindingsVars => TurnInv'
  BY MainKeepsTurn, EmbedKeepsTurn, OthersKeepTurn DEF BindingsNext
<1>2. QED
  BY BindingsTypeCorrect, TurnInit, <1>1, PTL DEF BindingsSafety

\* From initNode to the destructor UvRunOnce and EmbedThreadRunner alternate
\* strictly: there is always exactly one turn.
THEOREM AlternationHolds == BindingsSafety => []Alternation
<1>1. TurnInv => Alternation
  BY DEF TurnInv, Alternation
<1>2. QED
  BY <1>1, TurnInvariant, PTL

\* uv_run is never re-entered, not even from a run loop that a libuv callback
\* nests, and never runs while the embed thread polls the same loop.
THEOREM UvLoopIsExclusive == BindingsSafety => []UvLoopExclusive
<1>1. BindingsTypeOK /\ TurnInv => UvLoopExclusive
  <2> SUFFICES ASSUME BindingsTypeOK, TurnInv PROVE UvLoopExclusive
    OBVIOUS
  <2>1. CASE mainPc = "loop"
    BY <2>1 DEF BindingsTypeOK, TurnInv, UvLoopExclusive, Tokens, B, EmbedActive
  <2>2. CASE mainPc # "loop"
    BY <2>2 DEF BindingsTypeOK, TurnInv, UvLoopExclusive
  <2>3. QED
    BY <2>1, <2>2
<1>2. QED
  BY <1>1, BindingsTypeCorrect, TurnInvariant, PTL

\* The destructor destroys the semaphore only after the embed thread is done.
THEOREM TeardownIsOrdered == BindingsSafety => []SemOutlivesEmbed
<1>1. BindingsTypeOK /\ TurnInv => SemOutlivesEmbed
  BY DEF BindingsTypeOK, MainPcs, Booting, Destructor, TurnInv, SemOutlivesEmbed,
      Tokens, B, EmbedActive
<1>2. QED
  BY <1>1, BindingsTypeCorrect, TurnInvariant, PTL

\* At most one function of the object, and so at most one that could outlive
\* it, is ever queued in the run loop.
THEOREM OneFunctionQueued == BindingsSafety => []OneDispatch
<1>1. BindingsTypeOK /\ TurnInv => OneDispatch
  BY DEF BindingsTypeOK, MainPcs, Booting, Destructor, TurnInv, OneDispatch, Tokens, B,
      EmbedActive
<1>2. QED
  BY <1>1, BindingsTypeCorrect, TurnInvariant, PTL
-----------------------------------------------------------------------------
\* Every step of NodeBindings is a step of the pump or leaves it unchanged.
LEMMA StepSimulates ==
  BindingsTypeOK /\ TurnInv /\ [BindingsNext]_bindingsVars => [Pump!PumpNext]_(Pump!pumpVars)
<1> SUFFICES ASSUME BindingsTypeOK, TurnInv, [BindingsNext]_bindingsVars
             PROVE  Pump!PumpNext \/ UNCHANGED <<work, Turn, Open>>
  BY DEF Pump!pumpVars
<1> USE DEF BindingsTypeOK, Turn, Open, Booting
<1>1. CASE InitNode \/ PrepareMessageLoop
  BY <1>1 DEF InitNode, PrepareMessageLoop, TurnInv
<1>2. CASE RunMessageLoop
  <2>1. Pump!Run
    BY <1>2 DEF RunMessageLoop, EnterUvRun, TurnInv, Pump!Run
  <2>2. QED
    BY <2>1 DEF Pump!PumpNext
<1>3. CASE UvRunOnceBegin
  <2>1. uvRuns = 0
    BY <1>3 DEF UvRunOnceBegin, TurnInv, Tokens, B
  <2>2. Pump!Run
    BY <1>3, <2>1 DEF UvRunOnceBegin, EnterUvRun, Pump!Run
  <2>3. QED
    BY <2>2 DEF Pump!PumpNext
<1>4. CASE UvRunOnceEnd
  <2>1. uvRuns = 1 /\ posted = 0
    BY <1>4 DEF UvRunOnceEnd, TurnInv, Tokens, B
  <2>2. Pump!Yield
    BY <1>4, <2>1 DEF UvRunOnceEnd, Pump!Yield
  <2>3. QED
    BY <2>2 DEF Pump!PumpNext
<1>5. CASE Delete
  <2>1. Pump!Close
    BY <1>5 DEF Delete, Pump!Close
  <2>2. QED
    BY <2>1 DEF Pump!PumpNext
<1>6. CASE DtorClose \/ DtorPost \/ DtorJoin \/ DtorSemDestroy \/ StaleUvRunOnce
  BY <1>6 DEF DtorClose, DtorPost, DtorJoin, DtorSemDestroy, StaleUvRunOnce
<1>7. CASE WakeupEmbedThread
  <2>1. Pump!Arrive
    BY <1>7 DEF WakeupEmbedThread, Pump!Arrive, Pump!Kinds
  <2>2. QED
    BY <2>1 DEF Pump!PumpNext
<1>8. CASE UvEvent
  <2>1. Pump!Arrive
    BY <1>8 DEF UvEvent, Kinds, Pump!Arrive, Pump!Kinds
  <2>2. QED
    BY <2>1 DEF Pump!PumpNext
<1>9. CASE WakeupMainThread
  <2>1. CASE posted > 0
    BY <1>9, <2>1 DEF WakeupMainThread
  <2>2. CASE posted = 0
    <3>1. uvRuns = 0 /\ mainPc \notin Booting
      BY <1>9 DEF WakeupMainThread, TurnInv, Tokens, B, EmbedActive
    <3>2. Pump!Poll
      BY <1>9, <2>2, <3>1 DEF WakeupMainThread, Pump!Poll
    <3>3. QED
      BY <3>2 DEF Pump!PumpNext
  <2>3. QED
    BY <2>1, <2>2
<1>10. CASE EmbedSemWait \/ EmbedCheckOpen \/ PollTimeout \/ EmbedCheckAgain
              \/ PollEvents \/ UNCHANGED bindingsVars
  BY <1>10 DEF EmbedSemWait, EmbedCheckOpen, PollTimeout, EmbedCheckAgain,
      PollEvents, bindingsVars
<1>11. QED
  BY <1>1, <1>2, <1>3, <1>4, <1>5, <1>6, <1>7, <1>8, <1>9, <1>10
     DEF BindingsNext, MainThread, EmbedThread

\* The threads, the semaphore and the dispatched function implement the pump's
\* safety part: uv_run happens in the main thread's turn only, one run per poll.
THEOREM ImplementsPumpSafety == BindingsSafety => Pump!PumpSafety
<1>1. BindingsInit => Pump!PumpInit
  BY DEF BindingsInit, Pump!PumpInit, Turn, Open, Booting
<1>2. QED
  BY <1>1, StepSimulates, BindingsTypeCorrect, TurnInvariant, PTL
     DEF BindingsSafety, Pump!PumpSafety
=============================================================================
