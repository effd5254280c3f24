--------------------------- MODULE WaitForMessage ---------------------------
(***************************************************************************)
(* Connection::waitForMessage: the main thread waits, with a timeout, for  *)
(* one kind of message while the connection's work queue receives.         *)
(*                                                                         *)
(* m_waitForMessageMutex is held only inside the actions below, save that  *)
(* the work queue keeps it from finding the waiter to filling in the       *)
(* decoder: the main thread's last assignment, made without the lock, can  *)
(* fall in between.  None of the messages is marked for dispatch during a  *)
(* sync wait.                                                              *)
(***************************************************************************)
EXTENDS Naturals, Sequences

CONSTANTS
    MaxArrivals,    \* bound: messages received
    MaxWaits        \* bound: calls of waitForMessage

ASSUME WaitForMessageAssumption == MaxArrivals \in Nat /\ MaxWaits \in Nat

VARIABLES
    arrived,    \* messages received so far
    incoming,   \* m_incomingMessages
    posted,     \* dispatchOneMessage functions the run loop has yet to run
    waiting,    \* *m_waitingForMessage, Null when the pointer is null
    pc,         \* where the main thread is in waitForMessage
    waits,      \* calls of waitForMessage so far
    notified,   \* the condition variable was signalled while the main thread slept
    wq,         \* what the work queue is doing with the message it received
    closed,     \* connectionDidClose has run
    handled,    \* history: the messages given to the client, in order
    crashed     \* history: the work queue has dereferenced a null pointer

vars == <<arrived, incoming, posted, waiting, pc, waits, notified, wq, closed,
          handled, crashed>>

\* A message: its number, whether it is of the kind waited for, whether sync.
Message == [n : 1..MaxArrivals, wanted : BOOLEAN, sync : BOOLEAN]
NoMessage == [n |-> 0, wanted |-> FALSE, sync |-> FALSE]

WaitState == [decoder : Message \cup {NoMessage}, interrupted : BOOLEAN,
              interruptible : BOOLEAN]
Null == [decoder |-> NoMessage, interrupted |-> FALSE, interruptible |-> FALSE, null |-> TRUE]

\* Types of the variables.
TypeOK ==
    /\ arrived \in 0..MaxArrivals
    /\ incoming \in Seq(Message)
    /\ posted \in 0..MaxArrivals
    /\ waiting \in WaitState \cup {Null}
    /\ pc \in {"idle", "register", "loop", "asleep", "clear"}
    /\ waits \in 0..MaxWaits
    /\ notified \in BOOLEAN
    /\ wq \in [at : {"idle", "matched", "enqueue", "post"}, msg : Message \cup {NoMessage}]
    /\ closed \in BOOLEAN
    /\ handled \in Seq(Message)
    /\ crashed \in BOOLEAN

IdleQueue == [at |-> "idle", msg |-> NoMessage]

Init ==
    /\ arrived = 0 /\ incoming = <<>> /\ posted = 0 /\ waiting = Null
    /\ pc = "idle" /\ waits = 0 /\ notified = FALSE /\ wq = IdleQueue
    /\ closed = FALSE /\ handled = <<>> /\ crashed = FALSE

\* The work queue is not inside its critical section.
Unlocked == wq.at # "matched"

-----------------------------------------------------------------------------
(* The main thread.                                                        *)

\* dispatchOneMessage: the message it was posted for may be gone.
DispatchOneMessage ==
    /\ pc = "idle" /\ posted > 0
    /\ posted' = posted - 1
    /\ IF incoming = <<>>
       THEN UNCHANGED <<incoming, handled>>
       ELSE /\ incoming' = Tail(incoming)
            /\ handled' = Append(handled, Head(incoming))
    /\ UNCHANGED <<arrived, waiting, pc, waits, notified, wq, closed, crashed>>

\* waitForMessage looks through the messages that have already arrived.
FirstWanted ==
    {i \in DOMAIN incoming :
        incoming[i].wanted /\ \A j \in 1..(i - 1) : ~incoming[j].wanted}

WaitForMessage ==
    /\ pc = "idle" /\ waits < MaxWaits
    /\ waits' = waits + 1
    /\ IF FirstWanted = {}
       THEN pc' = "register" /\ UNCHANGED <<incoming, handled>>
       ELSE \E i \in FirstWanted :
              /\ incoming' = SubSeq(incoming, 1, i - 1) \o SubSeq(incoming, i + 1, Len(incoming))
              /\ handled' = Append(handled, incoming[i])
              /\ UNCHANGED pc
    /\ UNCHANGED <<arrived, posted, waiting, notified, wq, closed, crashed>>

Register(interruptible) ==
    /\ pc = "register" /\ Unlocked
    /\ waiting' = [decoder |-> NoMessage, interrupted |-> FALSE,
                   interruptible |-> interruptible]
    /\ pc' = "loop"
    /\ UNCHANGED <<arrived, incoming, posted, waits, notified, wq, closed, handled, crashed>>

\* The loop: return the message if it is there, else sleep.
Loop ==
    /\ pc = "loop" /\ Unlocked
    /\ IF waiting.decoder # NoMessage
       THEN /\ handled' = Append(handled, waiting.decoder)
            /\ waiting' = Null
            /\ pc' = "idle"
            /\ UNCHANGED notified
       ELSE pc' = "asleep" /\ notified' = FALSE /\ UNCHANGED <<handled, waiting>>
    /\ UNCHANGED <<arrived, incoming, posted, waits, wq, closed, crashed>>

\* Woken by a notification: leave the loop if interrupted, else go round again.
Wake ==
    /\ pc = "asleep" /\ notified /\ Unlocked
    /\ pc' = IF waiting.interrupted THEN "clear" ELSE "loop"
    /\ UNCHANGED <<arrived, incoming, posted, waiting, waits, notified, wq, closed,
                   handled, crashed>>

\* Mutated form: a timeout only goes round the loop again.
TimedOutLoops == "loop"

\* A timeout leaves the loop, even if the message has just been filled in.
TimedOut == "clear"

TimeOut ==
    /\ pc = "asleep" /\ Unlocked
    /\ pc' = TimedOut
    /\ UNCHANGED <<arrived, incoming, posted, waiting, waits, notified, wq, closed,
                   handled, crashed>>

\* Out of the loop, the lock released: null the pointer and return no message.
Clear ==
    /\ pc = "clear"
    /\ waiting' = Null
    /\ pc' = "idle"
    /\ UNCHANGED <<arrived, incoming, posted, waits, notified, wq, closed, handled, crashed>>

-----------------------------------------------------------------------------
(* The work queue.                                                         *)

\* processIncomingMessage under the lock: find the waiter, or interrupt it.
Receive(wanted, sync) ==
    /\ wq.at = "idle" /\ ~closed /\ arrived < MaxArrivals
    /\ arrived' = arrived + 1
    /\ LET m == [n |-> arrived + 1, wanted |-> wanted, sync |-> sync]
           interrupts == waiting # Null /\ ~wanted /\ sync /\ waiting.interruptible
       IN  /\ wq' = [at |-> IF waiting # Null /\ wanted THEN "matched" ELSE "enqueue",
                     msg |-> m]
           /\ waiting' = IF interrupts THEN [waiting EXCEPT !.interrupted = TRUE] ELSE waiting
           /\ notified' = (notified \/ interrupts)
    /\ UNCHANGED <<incoming, posted, pc, waits, closed, handled, crashed>>

\* Fill in the decoder through the pointer, and notify.
Deliver ==
    /\ wq.at = "matched"
    /\ IF waiting = Null
       THEN crashed' = TRUE /\ UNCHANGED <<waiting, notified>>
       ELSE /\ waiting' = [waiting EXCEPT !.decoder = wq.msg]
            /\ notified' = TRUE
            /\ UNCHANGED crashed
    /\ wq' = IdleQueue
    /\ UNCHANGED <<arrived, incoming, posted, pc, waits, closed, handled>>

\* Mutated forms: queued in front; posted only if nothing else is queued.
QueuedFirst(q, m) == <<m>> \o q
PostsWhenAlone(q) == IF Len(q) <= 1 THEN 1 ELSE 0

\* enqueueIncomingMessage, after the lock is released: the message is appended
\* under the queue's own lock, and then one dispatchOneMessage is dispatched
\* for it, which may find it taken already.
Queued(q, m) == Append(q, m)
Posts(q) == 1

Enqueue ==
    /\ wq.at = "enqueue"
    /\ incoming' = Queued(incoming, wq.msg)
    /\ wq' = [wq EXCEPT !.at = "post"]
    /\ UNCHANGED <<arrived, posted, waiting, pc, waits, notified, closed, handled, crashed>>

Post ==
    /\ wq.at = "post"
    /\ posted' = posted + Posts(incoming)
    /\ wq' = IdleQueue
    /\ UNCHANGED <<arrived, incoming, waiting, pc, waits, notified, closed, handled, crashed>>

\* connectionDidClose interrupts the waiter.
ConnectionDidClose ==
    /\ wq.at = "idle" /\ ~closed
    /\ closed' = TRUE
    /\ waiting' = IF waiting = Null THEN Null ELSE [waiting EXCEPT !.interrupted = TRUE]
    /\ notified' = TRUE
    /\ UNCHANGED <<arrived, incoming, posted, pc, waits, wq, handled, crashed>>

-----------------------------------------------------------------------------
MainThread ==
    \/ DispatchOneMessage
    \/ \E interruptible \in BOOLEAN : Register(interruptible)
    \/ Loop
    \/ Wake
    \/ Clear

Next ==
    \/ MainThread \/ WaitForMessage \/ TimeOut
    \/ \E wanted, sync \in BOOLEAN : Receive(wanted, sync)
    \/ Deliver \/ Enqueue \/ Post \/ ConnectionDidClose

\* Both threads keep running.  Arrivals, a close and calls need not happen.
Threads == WF_vars(MainThread) /\ WF_vars(Deliver) /\ WF_vars(Enqueue) /\ WF_vars(Post)

Spec == Init /\ [][Next]_vars /\ Threads /\ WF_vars(TimeOut)

-----------------------------------------------------------------------------
(* Properties.                                                             *)

\* A queued message always has a dispatchOneMessage to come for it, posted or
\* about to be, although waitForMessage takes messages from the middle of the
\* queue and the main thread runs between the append and the post.
AboutToPost == IF wq.at = "post" THEN 1 ELSE 0
QueueIsScheduled == Len(incoming) <= posted + AboutToPost

\* Messages of other kinds reach the client in the order they arrived,
\* whatever is waited for meanwhile, and none twice.
OthersInOrder ==
    \A i, j \in DOMAIN handled :
        i < j /\ ~handled[i].wanted /\ ~handled[j].wanted => handled[i].n < handled[j].n

\* waitForMessage returns.
WaitReturns == (pc # "idle") ~> (pc = "idle")
=============================================================================
