------------------------------ MODULE PageInput -----------------------------
(***************************************************************************)
(* Input events between a WebPageProxy and the WebPage of its process, and *)
(* the ResponsivenessTimer that watches the process answer them.  The      *)
(* timer belongs to the process: loads, the drawing area and the other     *)
(* pages of the process start and stop it too.                             *)
(*                                                                         *)
(* The UI process forwards an event and the web process sends one          *)
(* DidReceiveEvent back for it.  Key events go one at a time; wheel events *)
(* queue up behind the one in flight and are merged; one mouse move is in  *)
(* flight and only the newest waits; clicks and touches are sent at once.  *)
(* A wheel event reaches the web process's main thread through the         *)
(* EventDispatcher's queue, beside the connection's own.  The web process  *)
(* may spin a nested run loop inside a handler (module RunLoop), and then  *)
(* answers a later event before an earlier one.                            *)
(* m_isPageSuspended is never set in the GTK port and is left out, as are  *)
(* the synchronous variants for testing.  The page is not closed: a closed *)
(* page takes no events and drops the answers.                             *)
(***************************************************************************)
EXTENDS Integers, Sequences, FiniteSets

CONSTANTS
    KeyType, TouchType,             \* event types of the two families
    Position,                       \* where a wheel event is; canCoalesce compares it
    WheelEventQueueSizeThreshold,
    Nested,                         \* handlers may spin a nested run loop
    MaxEvents                       \* bound: input events

MouseType == {"MouseMove", "MouseDown", "MouseUp"}
Type == KeyType \cup TouchType \cup MouseType \cup {"Wheel"}

ASSUME PageInputAssumption ==
    /\ WheelEventQueueSizeThreshold \in Nat \ {0}
    /\ Nested \in BOOLEAN /\ MaxEvents \in Nat
    /\ "TouchStart" \in TouchType
    /\ KeyType \cap (TouchType \cup MouseType \cup {"Wheel"}) = {}
    /\ TouchType \cap (MouseType \cup {"Wheel"}) = {}

VARIABLES
    valid,      \* m_isValid: the page has its process
    keys,       \* m_keyEventQueue
    wheels,     \* m_wheelEventQueue
    batches,    \* m_currentlyProcessedWheelEvents
    touches,    \* m_touchEventQueue
    tracking,   \* m_isTrackingTouchEvents
    moves,      \* m_processingMouseMoveEvent and m_nextMouseMoveEvent
    down,       \* m_currentlyProcessedMouseDownEvent is set
    clicks,     \* history: mouse buttons unanswered
    timer,      \* m_timer is active
    responsive, \* m_isResponsive
    main,       \* events on their way to the web process's main thread
    wheel,      \* wheel events on theirs, through the EventDispatcher
    handling,   \* handlers the web process is in, the innermost last
    answers,    \* DidReceiveEvent messages on their way back
    events      \* input events so far

queues == <<keys, wheels, batches, touches, tracking, moves, down, clicks>>
timers == <<timer, responsive>>
web == <<main, wheel, handling, answers>>
vars == <<valid, queues, timers, web, events>>

\* Types of the variables.
TypeOK ==
    /\ valid \in BOOLEAN
    /\ keys \in Seq(KeyType)
    /\ wheels \in Seq(Position)
    /\ batches \in Seq(Nat \ {0})
    /\ touches \in Seq(TouchType)
    /\ tracking \in BOOLEAN
    /\ moves \in [processing : BOOLEAN, next : BOOLEAN]
    /\ down \in BOOLEAN /\ clicks \in Int
    /\ timer \in BOOLEAN /\ responsive \in BOOLEAN
    /\ main \in Seq(Type) /\ wheel \in Seq({"Wheel"})
    /\ handling \in Seq(Type) /\ answers \in Seq(Type)
    /\ events \in 0..MaxEvents

Idle == [processing |-> FALSE, next |-> FALSE]

\* What a process that has just been launched, or has crashed, leaves: nothing.
NothingQueued ==
    /\ keys' = <<>> /\ wheels' = <<>> /\ batches' = <<>> /\ touches' = <<>>
    /\ tracking' = FALSE /\ moves' = Idle /\ down' = FALSE /\ clicks' = 0

Init ==
    /\ valid = TRUE
    /\ keys = <<>> /\ wheels = <<>> /\ batches = <<>> /\ touches = <<>>
    /\ tracking = FALSE /\ moves = Idle /\ down = FALSE /\ clicks = 0
    /\ timer = FALSE /\ responsive = TRUE
    /\ main = <<>> /\ wheel = <<>> /\ handling = <<>> /\ answers = <<>>
    /\ events = 0

-----------------------------------------------------------------------------
(* ResponsivenessTimer                                                     *)

\* start: an active timer goes on
Start == timer' = TRUE /\ UNCHANGED responsive

\* Mutated form: the life sign is not noticed.
StopQuietly == timer' = FALSE /\ UNCHANGED responsive

\* stop, with didBecomeResponsive when the process had been given up
Stop == timer' = FALSE /\ responsive' = TRUE

\* invalidate, by WebProcessProxy::disconnect
Invalidate == timer' = FALSE /\ UNCHANGED responsive

TimerFired ==
    /\ timer
    /\ timer' = FALSE /\ responsive' = FALSE
    /\ UNCHANGED <<valid, queues, web, events>>

\* A load, the drawing area or another page starts or stops the process's timer.
OtherUse ==
    /\ valid
    /\ Start \/ Stop
    /\ UNCHANGED <<valid, queues, web, events>>

-----------------------------------------------------------------------------
(* WebPageProxy: events from the user                                      *)

Event == valid /\ events < MaxEvents /\ events' = events + 1 /\ UNCHANGED <<valid, handling, answers>>

HandleKeyboardEvent(t) ==
    /\ Event /\ Start
    /\ keys' = Append(keys, t)
    /\ main' = IF Len(keys') = 1 THEN Append(main, t) ELSE main
    /\ UNCHANGED <<wheels, batches, touches, tracking, moves, down, clicks, wheel>>

\* The first n events of q coalesce, and no more.
IsRun(q, n) ==
    /\ n \in 1..Len(q)
    /\ \A i \in 1..n : q[i] = q[1]
    /\ n < Len(q) => q[n + 1] # q[1]

\* Mutated form: the merged events stay in the queue.
TakenNone(q, n) == q

\* coalescedWheelEvent takes the run off the queue.
Taken(q, n) == SubSeq(q, n + 1, Len(q))

\* processNextQueuedWheelEvent on the queue q, behind the batches b
ProcessNextQueuedWheelEvent(q, b) ==
    \E n \in 0..Len(q) :
        /\ IsRun(q, n)
        /\ wheels' = Taken(q, n)
        /\ batches' = Append(b, n)
        /\ wheel' = Append(wheel, "Wheel")

HandleWheelEvent(x) ==
    /\ Event
    /\ LET q == IF batches # <<>> THEN Append(wheels, x) ELSE wheels
           waits == batches # <<>> /\ Len(q) < WheelEventQueueSizeThreshold
       IN  \/ /\ waits
              /\ wheels' = q
              /\ UNCHANGED <<batches, wheel, timers>>
           \/ /\ ~waits /\ q # <<>>
              /\ ProcessNextQueuedWheelEvent(q, batches) /\ Start
           \/ /\ ~waits /\ q = <<>>
              /\ batches' = Append(batches, 1)
              /\ wheel' = Append(wheel, "Wheel")
              /\ Start /\ UNCHANGED wheels
    /\ UNCHANGED <<keys, touches, tracking, moves, down, clicks, main>>

\* handleMouseEvent for a move: no timer, and one in flight
HandleMouseMove ==
    /\ Event
    /\ IF moves.processing
       THEN moves' = [moves EXCEPT !.next = TRUE] /\ UNCHANGED main
       ELSE moves' = [moves EXCEPT !.processing = TRUE] /\ main' = Append(main, "MouseMove")
    /\ UNCHANGED <<keys, wheels, batches, touches, tracking, down, clicks, timers, wheel>>

HandleMouseButton(t) ==
    /\ Event /\ Start
    /\ down' = (down \/ t = "MouseDown")
    /\ clicks' = clicks + 1
    /\ main' = Append(main, t)
    /\ UNCHANGED <<keys, wheels, batches, touches, tracking, moves, wheel>>

HandleTouchEvent(t, released) ==
    /\ Event
    /\ t = "TouchStart" \/ tracking
    /\ released => t # "TouchStart"
    /\ tracking' = ~released
    /\ touches' = Append(touches, t)
    /\ main' = Append(main, t)
    /\ Start
    /\ UNCHANGED <<keys, wheels, batches, moves, down, clicks, wheel>>

-----------------------------------------------------------------------------
(* The web process: WebPage and EventDispatcher                            *)

CanDispatch == valid /\ (handling = <<>> \/ Nested)

DispatchMain ==
    /\ CanDispatch /\ main # <<>>
    /\ handling' = Append(handling, Head(main)) /\ main' = Tail(main)
    /\ UNCHANGED <<valid, queues, timers, wheel, answers, events>>

DispatchWheelEvent ==
    /\ CanDispatch /\ wheel # <<>>
    /\ handling' = Append(handling, Head(wheel)) /\ wheel' = Tail(wheel)
    /\ UNCHANGED <<valid, queues, timers, main, answers, events>>

\* The innermost handler returns and DidReceiveEvent is sent.
HandlerReturns ==
    /\ valid /\ handling # <<>>
    /\ answers' = Append(answers, handling[Len(handling)])
    /\ handling' = SubSeq(handling, 1, Len(handling) - 1)
    /\ UNCHANGED <<valid, queues, timers, main, wheel, events>>

-----------------------------------------------------------------------------
(* WebPageProxy: answers, and the end of the process                       *)

Answer(types) ==
    /\ valid /\ answers # <<>> /\ Head(answers) \in types
    /\ answers' = Tail(answers)
    /\ UNCHANGED <<valid, handling, events>>

\* The checks of didReceiveEvent on the answer t.
MessageCheck(t) ==
    /\ t = "Wheel" => batches # <<>>
    /\ t \in KeyType => keys # <<>> /\ Head(keys) = t
    /\ t \in TouchType => touches # <<>> /\ Head(touches) = t

\* Mutated form: the key events behind the answered one are forgotten.
SendNextKeyNot(q) == main

\* Mutated form: the newest key event is sent.
SendNextKeyLast(q) == IF q # <<>> THEN Append(main, q[Len(q)]) ELSE main

\* The key event that waited behind the answered one is sent.
SendNextKey(q) == IF q # <<>> THEN Append(main, Head(q)) ELSE main

DidReceiveKeyEvent ==
    /\ Answer(KeyType) /\ MessageCheck(Head(answers)) /\ Stop
    /\ keys' = Tail(keys)
    /\ main' = SendNextKey(Tail(keys))
    /\ UNCHANGED <<wheels, batches, touches, tracking, moves, down, clicks, wheel>>

\* stop, and start again when there is more
DidReceiveWheelEvent ==
    /\ Answer({"Wheel"}) /\ MessageCheck("Wheel")
    /\ responsive' = TRUE
    /\ IF wheels # <<>>
       THEN ProcessNextQueuedWheelEvent(wheels, Tail(batches)) /\ timer' = TRUE
       ELSE batches' = Tail(batches) /\ timer' = FALSE /\ UNCHANGED <<wheels, wheel>>
    /\ UNCHANGED <<keys, touches, tracking, moves, down, clicks, main>>

\* The move that waited is handled as a new one.
DidReceiveMouseMove ==
    /\ Answer({"MouseMove"})
    /\ IF moves.next
       THEN moves' = [processing |-> TRUE, next |-> FALSE] /\ main' = Append(main, "MouseMove")
       ELSE moves' = Idle /\ UNCHANGED main
    /\ UNCHANGED <<keys, wheels, batches, touches, tracking, down, clicks, timers, wheel>>

DidReceiveMouseButton ==
    /\ Answer({"MouseDown", "MouseUp"}) /\ Stop
    /\ down' = (down /\ Head(answers) # "MouseUp")
    /\ clicks' = clicks - 1
    /\ UNCHANGED <<keys, wheels, batches, touches, tracking, moves, main, wheel>>

DidReceiveTouchEvent ==
    /\ Answer(TouchType) /\ MessageCheck(Head(answers)) /\ Stop
    /\ touches' = Tail(touches)
    /\ UNCHANGED <<keys, wheels, batches, tracking, moves, down, clicks, main, wheel>>

\* Mutated form: the wheel events in flight are kept.
ProcessDidExitKeepsWheels ==
    /\ keys' = <<>> /\ touches' = <<>> /\ tracking' = FALSE /\ moves' = Idle
    /\ down' = FALSE /\ clicks' = 0 /\ UNCHANGED <<wheels, batches>>

\* resetStateAfterProcessExited
ProcessDidExit == NothingQueued

\* disconnect, and resetStateAfterProcessExited for the page
Leave ==
    /\ valid' = FALSE /\ ProcessDidExit /\ Invalidate
    /\ main' = <<>> /\ wheel' = <<>> /\ handling' = <<>> /\ answers' = <<>>
    /\ UNCHANGED events

\* didReceiveInvalidMessage: a check failed and the process is killed
DidReceiveInvalidMessage ==
    /\ valid /\ answers # <<>> /\ ~MessageCheck(Head(answers))
    /\ Leave

ProcessDidCrash == valid /\ Leave

\* reattachToWebProcess: a new process, or one whose timer other pages use
Reattach ==
    /\ ~valid
    /\ valid' = TRUE
    /\ timer' \in BOOLEAN /\ responsive' \in BOOLEAN
    /\ UNCHANGED <<queues, web, events>>

Web == DispatchMain \/ DispatchWheelEvent \/ HandlerReturns
Receive == \/ DidReceiveKeyEvent \/ DidReceiveWheelEvent \/ DidReceiveMouseMove
           \/ DidReceiveMouseButton \/ DidReceiveTouchEvent \/ DidReceiveInvalidMessage

User ==
    \/ \E t \in KeyType : HandleKeyboardEvent(t)
    \/ \E x \in Position : HandleWheelEvent(x)
    \/ HandleMouseMove
    \/ \E t \in {"MouseDown", "MouseUp"} : HandleMouseButton(t)
    \/ \E t \in TouchType, released \in BOOLEAN : HandleTouchEvent(t, released)

Next == User \/ Web \/ Receive \/ TimerFired \/ OtherUse \/ ProcessDidCrash \/ Reattach

Spec == Init /\ [][Next]_vars

\* The run loops of both processes go on; a handler may never return.
FairSpec == Spec /\ WF_vars(DispatchMain) /\ WF_vars(DispatchWheelEvent) /\ WF_vars(Receive)

-----------------------------------------------------------------------------
(* Properties                                                              *)

\* Wheel events wait only behind one that is being processed, and fewer than
\* the threshold wait.
WheelsAreServed ==
    /\ wheels # <<>> => batches # <<>>
    /\ Len(wheels) < WheelEventQueueSizeThreshold

\* How many of the events in s are of one of the types, and how many in flight.
Count(s, types) == Cardinality({i \in DOMAIN s : s[i] \in types})
InFlight(types) ==
    Count(main, types) + Count(wheel, types) + Count(handling, types) + Count(answers, types)

\* What the proxy believes to be unanswered is what is in flight: one key
\* event of all those queued, one mouse move, and every batch, touch and click.
ProxyKnowsWhatIsInFlight ==
    /\ InFlight(KeyType) = IF keys = <<>> THEN 0 ELSE 1
    /\ InFlight({"MouseMove"}) = IF moves.processing THEN 1 ELSE 0
    /\ InFlight({"Wheel"}) = Len(batches)
    /\ InFlight(TouchType) = Len(touches)
    /\ InFlight({"MouseDown", "MouseUp"}) = clicks
    /\ moves.next => moves.processing

\* The checks in didReceiveEvent, which kill a process that fails them, do not
\* fail for a process that answers the key and wheel events it was sent, even
\* out of order.  Touches are sent without waiting and a nested handler may
\* answer a later one first: nothing of the kind holds for them.
AnswersPass ==
    answers # <<>> /\ Head(answers) \notin TouchType => MessageCheck(Head(answers))

\* Every key event gets its answer: the queue behind a slow one drains, unless
\* the process goes or a handler of the page never returns.
KeysAreAnswered == <>[](handling # <<>>) \/ (keys # <<>> ~> (keys = <<>> \/ ~valid))

\* A process reported unresponsive while it owes the page an answer is reported
\* responsive again, whoever else uses its timer, unless it goes or a handler
\* never returns.  A mouse move owes nothing: its answer stops no timer.
Owes == keys # <<>> \/ batches # <<>> \/ touches # <<>> \/ clicks > 0
AlarmIsTakenBack ==
    <>[](handling # <<>>) \/ (~responsive /\ Owes ~> (responsive \/ ~valid))
=============================================================================
