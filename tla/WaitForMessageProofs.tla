------------------------ MODULE WaitForMessageProofs ------------------------
(***************************************************************************)
(* waitForMessage takes messages out of the middle of the queue, and past  *)
(* it, without harm to the others: for any number of messages and waits,   *)
(* the others keep their order and every queued message keeps a function   *)
(* that will come for it.                                                  *)
(***************************************************************************)
EXTENDS WaitForMessage, SequenceTheorems, TLAPS

\* The newest message may still be in the work queue's hands.
InHand ==
    /\ wq.at # "idle" => wq.msg \in Message /\ wq.msg.n = arrived
    /\ wq.at = "matched" => wq.msg.wanted
    /\ waiting.decoder # NoMessage => waiting.decoder.wanted

\* Every message was posted for at most once.
Budget == posted <= arrived /\ (wq.at \in {"enqueue", "post"} => posted < arrived)

\* m is older than the a-th message, if that is the one w is about to queue.
Before(m, a, w) == m.n <= a /\ (w.at = "enqueue" => m.n < a)

\* The queue is in the order of arrival, behind all the others handled so far.
QueueInOrder ==
    /\ \A i \in 1..Len(incoming) : Before(incoming[i], arrived, wq)
    /\ \A i, j \in 1..Len(incoming) : i < j => incoming[i].n < incoming[j].n

HandledInOrder ==
    /\ \A i \in 1..Len(handled) : ~handled[i].wanted =>
        /\ Before(handled[i], arrived, wq)
        /\ \A j \in 1..Len(incoming) : handled[i].n < incoming[j].n
    /\ \A i, j \in 1..Len(handled) :
        i < j /\ ~handled[i].wanted /\ ~handled[j].wanted => handled[i].n < handled[j].n

IInv == TypeOK /\ InHand /\ Budget /\ QueueIsScheduled /\ QueueInOrder /\ HandledInOrder

-----------------------------------------------------------------------------
(* Sequences.                                                              *)

\* Append adds one message at the end.
LEMMA AppendIs ==
    ASSUME NEW T, NEW q \in Seq(T), NEW m \in T
    PROVE  /\ Append(q, m) \in Seq(T)
           /\ Len(Append(q, m)) = Len(q) + 1
           /\ \A i \in 1..Len(q) + 1 :
                Append(q, m)[i] = IF i <= Len(q) THEN q[i] ELSE m
  OBVIOUS

\* Tail takes the first message away.
LEMMA TailIs ==
    ASSUME NEW T, NEW q \in Seq(T), q # <<>>
    PROVE  /\ Head(q) \in T /\ Head(q) = q[1]
           /\ Tail(q) \in Seq(T)
           /\ Len(q) \in Nat /\ Len(q) >= 1
           /\ Len(Tail(q)) = Len(q) - 1
           /\ \A i \in 1..Len(q) - 1 : Tail(q)[i] = q[i + 1]
  OBVIOUS

\* The queue without its i-th message, as waitForMessage leaves it.
Without(q, i) == SubSeq(q, 1, i - 1) \o SubSeq(q, i + 1, Len(q))

\* The messages before it keep their places, those behind move up.
LEMMA WithoutIs ==
    ASSUME NEW T, NEW q \in Seq(T), NEW i \in 1..Len(q)
    PROVE  /\ Without(q, i) \in Seq(T)
           /\ Len(Without(q, i)) = Len(q) - 1
           /\ \A k \in 1..Len(q) - 1 :
                Without(q, i)[k] = IF k < i THEN q[k] ELSE q[k + 1]
<1> DEFINE a == SubSeq(q, 1, i - 1)
           b == SubSeq(q, i + 1, Len(q))
<1>1. Len(q) \in Nat /\ i \in Nat /\ i >= 1 /\ i <= Len(q)
  OBVIOUS
<1>2. /\ a \in Seq(T) /\ Len(a) = i - 1
      /\ \A k \in 1..i - 1 : a[k] = q[k]
  BY <1>1, SubSeqProperties
<1>3. /\ b \in Seq(T) /\ Len(b) = Len(q) - i
      /\ \A k \in 1..Len(q) - i : b[k] = q[i + k]
  BY <1>1, SubSeqProperties
<1> HIDE DEF a, b
<1>4. /\ a \o b \in Seq(T)
      /\ Len(a \o b) = Len(a) + Len(b)
      /\ \A k \in 1..Len(a) + Len(b) :
           (a \o b)[k] = IF k <= Len(a) THEN a[k] ELSE b[k - Len(a)]
  BY <1>2, <1>3, ConcatProperties
<1>5. Without(q, i) = a \o b
  BY DEF Without, a, b
<1>6. Len(a) + Len(b) = Len(q) - 1
  BY <1>1, <1>2, <1>3
<1>7. ASSUME NEW k \in 1..Len(q) - 1
      PROVE  (a \o b)[k] = IF k < i THEN q[k] ELSE q[k + 1]
  <2>1. (a \o b)[k] = IF k <= i - 1 THEN a[k] ELSE b[k - (i - 1)]
    BY <1>2, <1>4, <1>6
  <2>2. CASE k < i
    <3>1. k <= i - 1 /\ k \in 1..i - 1
      BY <1>1, <2>2
    <3>2. QED
      BY <1>2, <2>1, <2>2, <3>1
  <2>3. CASE ~(k < i)
    <3>1. ~(k <= i - 1) /\ k - (i - 1) \in 1..Len(q) - i /\ i + (k - (i - 1)) = k + 1
      BY <1>1, <2>3
    <3>2. b[k - (i - 1)] = q[i + (k - (i - 1))]
      BY <1>3, <3>1
    <3>3. QED
      BY <2>1, <2>3, <3>1, <3>2
  <2>4. QED
    BY <2>2, <2>3
<1>8. QED
  BY <1>4, <1>5, <1>6, <1>7

-----------------------------------------------------------------------------
\* The initial state.
LEMMA InitInv == Init => IInv
<1> SUFFICES ASSUME Init PROVE IInv
  OBVIOUS
<1>1. TypeOK
  <2>1. /\ arrived \in 0..MaxArrivals /\ posted \in 0..MaxArrivals /\ waits \in 0..MaxWaits
        /\ incoming \in Seq(Message) /\ handled \in Seq(Message)
    BY WaitForMessageAssumption DEF Init
  <2>2. wq \in [at : {"idle", "matched", "enqueue", "post"}, msg : Message \cup {NoMessage}]
    BY DEF Init, IdleQueue
  <2>3. QED
    BY <2>1, <2>2 DEF Init, TypeOK
<1>2. InHand
  BY DEF Init, InHand, IdleQueue, Null
<1>3. Budget /\ QueueIsScheduled /\ QueueInOrder /\ HandledInOrder
  BY DEF Init, Budget, QueueIsScheduled, AboutToPost, QueueInOrder, HandledInOrder, IdleQueue
<1>4. QED
  BY <1>1, <1>2, <1>3 DEF IInv

\* A step that moves only the waiter, and puts nothing unwanted in its decoder.
LEMMA WaiterSteps ==
    ASSUME IInv, TypeOK',
           UNCHANGED <<arrived, incoming, posted, wq, handled>>,
           waiting'.decoder # NoMessage => waiting'.decoder.wanted
    PROVE  IInv'
  BY DEF IInv, InHand, Budget, QueueIsScheduled, AboutToPost, QueueInOrder, HandledInOrder, Before

\* A wanted message that is given to the client does not disturb the order of
\* the others.
LEMMA WantedHandled ==
    ASSUME TypeOK, HandledInOrder, NEW m \in Message, m.wanted,
           handled' = Append(handled, m), UNCHANGED <<arrived, wq, incoming>>
    PROVE  HandledInOrder'
<1>1. handled \in Seq(Message)
  BY DEF TypeOK
<1>2. /\ Len(handled') = Len(handled) + 1
      /\ \A i \in 1..Len(handled) + 1 : handled'[i] = IF i <= Len(handled) THEN handled[i] ELSE m
  BY <1>1, AppendIs
<1>3. Len(handled) \in Nat
  BY <1>1
<1>4. \A i \in 1..Len(handled') : ~handled'[i].wanted => i \in 1..Len(handled) /\ handled'[i] = handled[i]
  BY <1>2, <1>3
<1>5. QED
  BY <1>4 DEF HandledInOrder, Before

\* Taking messages out of the queue leaves the rest in order, and behind the
\* others handled so far.
LEMMA Subqueue ==
    ASSUME QueueInOrder, HandledInOrder, UNCHANGED <<arrived, wq>>,
           NEW f \in [1..Len(incoming') -> 1..Len(incoming)],
           \A i, j \in 1..Len(incoming') : i < j => f[i] < f[j],
           \A i \in 1..Len(incoming') : incoming'[i] = incoming[f[i]]
    PROVE  /\ QueueInOrder'
           /\ \A h \in 1..Len(handled) : ~handled[h].wanted =>
                \A j \in 1..Len(incoming') : handled[h].n < incoming'[j].n
<1>1. \A i \in 1..Len(incoming') : f[i] \in 1..Len(incoming)
  OBVIOUS
<1>2. \A i \in 1..Len(incoming') : Before(incoming'[i], arrived', wq')
  BY <1>1 DEF QueueInOrder
<1>3. \A i, j \in 1..Len(incoming') : i < j => incoming'[i].n < incoming'[j].n
  BY <1>1 DEF QueueInOrder
<1>4. QED
  BY <1>1, <1>2, <1>3 DEF QueueInOrder, HandledInOrder

\* dispatchOneMessage takes the oldest message.
LEMMA DispatchKeeps == IInv /\ DispatchOneMessage => IInv'
<1> SUFFICES ASSUME IInv, DispatchOneMessage PROVE IInv'
  OBVIOUS
<1> USE DEF IInv
<1>1. /\ UNCHANGED <<arrived, waiting, pc, waits, notified, wq, closed, crashed>>
      /\ posted > 0 /\ posted' = posted - 1
  BY DEF DispatchOneMessage
<1>2. posted \in Nat /\ arrived \in Nat /\ posted' \in 0..MaxArrivals
  BY <1>1, WaitForMessageAssumption DEF TypeOK
<1>3. InHand' /\ Budget'
  BY <1>1, <1>2 DEF InHand, Budget
<1>4. CASE incoming = <<>>
  <2>1. UNCHANGED <<incoming, handled>>
    BY <1>4 DEF DispatchOneMessage
  <2>2. TypeOK'
    BY <1>1, <1>2, <2>1 DEF TypeOK
  <2>3. QueueIsScheduled'
    BY <1>1, <1>2, <1>4, <2>1 DEF QueueIsScheduled, AboutToPost
  <2>4. QueueInOrder' /\ HandledInOrder'
    BY <1>1, <2>1 DEF QueueInOrder, HandledInOrder, Before
  <2>5. QED
    BY <1>3, <2>2, <2>3, <2>4
<1>5. CASE incoming # <<>>
  <2> DEFINE m == Head(incoming)
  <2>1. incoming' = Tail(incoming) /\ handled' = Append(handled, m)
    BY <1>5 DEF DispatchOneMessage
  <2>2. incoming \in Seq(Message) /\ handled \in Seq(Message)
    BY DEF TypeOK
  <2>3. /\ m \in Message /\ m = incoming[1]
        /\ incoming' \in Seq(Message) /\ Len(incoming) \in Nat /\ Len(incoming) >= 1
        /\ Len(incoming') = Len(incoming) - 1
        /\ \A i \in 1..Len(incoming) - 1 : incoming'[i] = incoming[i + 1]
    BY <1>5, <2>1, <2>2, TailIs
  <2>4. /\ handled' \in Seq(Message) /\ Len(handled) \in Nat
        /\ Len(handled') = Len(handled) + 1
        /\ \A i \in 1..Len(handled) + 1 : handled'[i] = IF i <= Len(handled) THEN handled[i] ELSE m
    BY <2>1, <2>2, <2>3, AppendIs
  <2> HIDE DEF m
  <2>5. TypeOK'
    BY <1>1, <1>2, <2>3, <2>4 DEF TypeOK
  <2>6. QueueIsScheduled'
    BY <1>1, <1>2, <2>3 DEF QueueIsScheduled, AboutToPost
  <2>7. /\ \A i \in 1..Len(incoming') : i + 1 \in 1..Len(incoming) /\ incoming'[i] = incoming[i + 1]
        /\ 1 \in 1..Len(incoming)
    BY <2>3
  <2>8. QueueInOrder'
    <3> DEFINE f == [i \in 1..Len(incoming') |-> i + 1]
    <3>1. /\ f \in [1..Len(incoming') -> 1..Len(incoming)]
          /\ \A i, j \in 1..Len(incoming') : i < j => f[i] < f[j]
          /\ \A i \in 1..Len(incoming') : incoming'[i] = incoming[f[i]]
      BY <2>7
    <3> HIDE DEF f
    <3>2. QED
      BY <1>1, <3>1, Subqueue
  <2>9. \A j \in 1..Len(incoming') : m.n < incoming'[j].n
    BY <2>3, <2>7 DEF QueueInOrder
  <2>10. \A i \in 1..Len(handled) : ~handled[i].wanted => handled[i].n < m.n
    BY <2>3, <2>7 DEF HandledInOrder
  <2>11. Before(m, arrived', wq')
    BY <1>1, <2>3, <2>7 DEF QueueInOrder, Before
  <2>12. ASSUME NEW i \in 1..Len(handled'), ~handled'[i].wanted
         PROVE  Before(handled'[i], arrived', wq') /\ \A j \in 1..Len(incoming') : handled'[i].n < incoming'[j].n
    <3>1. CASE i <= Len(handled)
      <4>1. i \in 1..Len(handled) /\ handled'[i] = handled[i]
        BY <2>4, <3>1
      <4>2. QED
        BY <1>1, <2>7, <2>12, <4>1 DEF HandledInOrder, Before
    <3>2. CASE ~(i <= Len(handled))
      <4>1. handled'[i] = m
        BY <2>4, <3>2
      <4>2. QED
        BY <2>9, <2>11, <4>1 DEF Before
    <3>3. QED
      BY <3>1, <3>2
  <2>13. ASSUME NEW i \in 1..Len(handled'), NEW j \in 1..Len(handled'), i < j,
                ~handled'[i].wanted, ~handled'[j].wanted
         PROVE  handled'[i].n < handled'[j].n
    <3>1. i \in 1..Len(handled) /\ handled'[i] = handled[i]
      BY <2>4, <2>13
    <3>2. CASE j <= Len(handled)
      <4>1. j \in 1..Len(handled) /\ handled'[j] = handled[j]
        BY <2>4, <3>2
      <4>2. QED
        BY <2>13, <3>1, <4>1 DEF HandledInOrder
    <3>3. CASE ~(j <= Len(handled))
      <4>1. handled'[j] = m
        BY <2>4, <3>3
      <4>2. QED
        BY <2>10, <2>13, <3>1, <4>1
    <3>4. QED
      BY <3>2, <3>3
  <2>14. HandledInOrder'
    BY <2>12, <2>13 DEF HandledInOrder
  <2>15. QED
    BY <1>3, <2>5, <2>6, <2>8, <2>14
<1>6. QED
  BY <1>4, <1>5

\* waitForMessage takes the first wanted message from wherever it is.
LEMMA WaitKeeps == IInv /\ WaitForMessage => IInv'
<1> SUFFICES ASSUME IInv, WaitForMessage PROVE IInv'
  OBVIOUS
<1> USE DEF IInv
<1>1. /\ UNCHANGED <<arrived, posted, waiting, notified, wq, closed, crashed>>
      /\ waits' = waits + 1 /\ waits < MaxWaits
  BY DEF WaitForMessage
<1>2. waits' \in 0..MaxWaits /\ posted \in Nat
  BY <1>1, WaitForMessageAssumption DEF TypeOK
<1>3. InHand' /\ Budget'
  BY <1>1 DEF InHand, Budget
<1>4. CASE FirstWanted = {}
  <2>1. pc' = "register" /\ UNCHANGED <<incoming, handled>>
    BY <1>4 DEF WaitForMessage
  <2>2. TypeOK'
    BY <1>1, <1>2, <2>1 DEF TypeOK
  <2>3. QED
    BY <1>1, <1>3, <2>1, <2>2 DEF QueueIsScheduled, AboutToPost, QueueInOrder, HandledInOrder
<1>5. CASE FirstWanted # {}
  <2>1. PICK i \in FirstWanted :
          /\ incoming' = Without(incoming, i)
          /\ handled' = Append(handled, incoming[i])
          /\ UNCHANGED pc
    BY <1>5 DEF WaitForMessage, Without
  <2>2. incoming \in Seq(Message) /\ handled \in Seq(Message) /\ Len(incoming) \in Nat
    BY DEF TypeOK
  <2>3. i \in 1..Len(incoming) /\ incoming[i].wanted /\ incoming[i] \in Message
    BY <2>2 DEF FirstWanted
  <2>4. /\ incoming' \in Seq(Message) /\ Len(incoming') = Len(incoming) - 1
        /\ \A k \in 1..Len(incoming) - 1 :
             incoming'[k] = IF k < i THEN incoming[k] ELSE incoming[k + 1]
    BY <2>1, <2>2, <2>3, WithoutIs
  <2>5. TypeOK'
    <3>1. handled' \in Seq(Message)
      BY <2>1, <2>2, <2>3
    <3>2. QED
      BY <1>1, <1>2, <2>1, <2>4, <3>1 DEF TypeOK
  <2>6. QueueIsScheduled'
    BY <1>1, <1>2, <2>2, <2>4 DEF QueueIsScheduled, AboutToPost
  <2>7. /\ QueueInOrder'
        /\ \A h \in 1..Len(handled) : ~handled[h].wanted =>
             \A j \in 1..Len(incoming') : handled[h].n < incoming'[j].n
    <3> DEFINE f == [k \in 1..Len(incoming') |-> IF k < i THEN k ELSE k + 1]
    <3>1. /\ f \in [1..Len(incoming') -> 1..Len(incoming)]
          /\ \A k, l \in 1..Len(incoming') : k < l => f[k] < f[l]
      BY <2>2, <2>3, <2>4
    <3>2. \A k \in 1..Len(incoming') : incoming'[k] = incoming[f[k]]
      BY <2>4
    <3> HIDE DEF f
    <3>3. QED
      BY <1>1, <3>1, <3>2, Subqueue
  <2>8. HandledInOrder'
    <3>1. \A h \in 1..Len(handled') : ~handled'[h].wanted => h \in 1..Len(handled) /\ handled'[h] = handled[h]
      <4>1. /\ Len(handled') = Len(handled) + 1 /\ Len(handled) \in Nat
            /\ \A h \in 1..Len(handled) + 1 :
                 handled'[h] = IF h <= Len(handled) THEN handled[h] ELSE incoming[i]
        BY <2>1, <2>2, <2>3, AppendIs
      <4>2. QED
        BY <2>3, <4>1
    <3>2. QED
      BY <1>1, <2>7, <3>1 DEF HandledInOrder
  <2>9. QED
    BY <1>3, <2>5, <2>6, <2>7, <2>8
<1>6. QED
  BY <1>4, <1>5

\* The loop hands over the decoder, which is of the kind waited for.
LEMMA LoopKeeps == IInv /\ Loop => IInv'
<1> SUFFICES ASSUME IInv, Loop PROVE IInv'
  OBVIOUS
<1> USE DEF IInv
<1>1. UNCHANGED <<arrived, incoming, posted, waits, wq, closed, crashed>>
  BY DEF Loop
<1>2. CASE waiting.decoder # NoMessage
  <2>1. handled' = Append(handled, waiting.decoder) /\ waiting' = Null /\ pc' = "idle" /\ notified' = notified
    BY <1>2 DEF Loop
  <2>2. waiting.decoder \in Message /\ waiting.decoder.wanted
    BY <1>2 DEF TypeOK, InHand, WaitState, Null
  <2>3. handled' \in Seq(Message)
    BY <2>1, <2>2 DEF TypeOK
  <2>4. TypeOK'
    BY <1>1, <2>1, <2>3 DEF TypeOK
  <2>5. HandledInOrder'
    BY <1>1, <2>1, <2>2, WantedHandled
  <2>6. InHand'
    BY <1>1, <2>1 DEF InHand, Null
  <2>7. QED
    BY <1>1, <2>4, <2>5, <2>6 DEF Budget, QueueIsScheduled, AboutToPost, QueueInOrder
<1>3. CASE waiting.decoder = NoMessage
  <2>1. pc' = "asleep" /\ notified' = FALSE /\ UNCHANGED <<handled, waiting>>
    BY <1>3 DEF Loop
  <2>2. TypeOK'
    BY <1>1, <2>1 DEF TypeOK
  <2>3. QED
    BY <1>1, <1>3, <2>1, <2>2, WaiterSteps
<1>4. QED
  BY <1>2, <1>3

\* Registering, waking, timing out and clearing touch only the waiter.
LEMMA SmallStepsKeep ==
    ASSUME IInv,
           \/ \E interruptible \in BOOLEAN : Register(interruptible)
           \/ Wake \/ TimeOut \/ Clear
    PROVE  IInv'
<1> USE DEF IInv
<1>1. UNCHANGED <<arrived, incoming, posted, waits, wq, closed, handled, crashed, notified>>
  BY DEF Register, Wake, TimeOut, Clear
<1>2. pc' \in {"idle", "register", "loop", "asleep", "clear"}
  BY DEF Register, Wake, TimeOut, Clear, TimedOut
<1>3. \/ waiting' = waiting
      \/ waiting' \in WaitState \cup {Null} /\ waiting'.decoder = NoMessage
  <2>1. ASSUME NEW b \in BOOLEAN, Register(b)
        PROVE  waiting' \in WaitState /\ waiting'.decoder = NoMessage
    BY <2>1 DEF Register, WaitState
  <2>2. Clear => waiting' = Null /\ Null.decoder = NoMessage
    BY DEF Clear, Null
  <2>3. Wake \/ TimeOut => waiting' = waiting
    BY DEF Wake, TimeOut
  <2>4. QED
    BY <2>1, <2>2, <2>3
<1>4. TypeOK'
  BY <1>1, <1>2, <1>3 DEF TypeOK
<1>5. waiting'.decoder # NoMessage => waiting'.decoder.wanted
  BY <1>3 DEF InHand
<1>6. QED
  BY <1>1, <1>4, <1>5, WaiterSteps

\* A message arrives: it is newer than all the others.
LEMMA ReceiveKeeps ==
    ASSUME IInv, NEW wanted \in BOOLEAN, NEW sync \in BOOLEAN, Receive(wanted, sync)
    PROVE  IInv'
<1> DEFINE m == [n |-> arrived + 1, wanted |-> wanted, sync |-> sync]
           at == IF waiting # Null /\ wanted THEN "matched" ELSE "enqueue"
<1> USE DEF IInv
<1>1. /\ UNCHANGED <<incoming, posted, pc, waits, closed, handled, crashed>>
      /\ arrived < MaxArrivals /\ arrived' = arrived + 1
      /\ wq' = [at |-> at, msg |-> m]
      /\ wq.at = "idle"
  BY DEF Receive
<1>2. arrived \in Nat /\ arrived' \in 0..MaxArrivals /\ arrived + 1 \in 1..MaxArrivals
  BY <1>1, WaitForMessageAssumption DEF TypeOK
<1>3. m \in Message
  BY <1>2 DEF Message
<1>4. m.n = arrived' /\ m.wanted = wanted
  BY <1>1
<1>5. \/ waiting' = waiting
      \/ waiting # Null /\ waiting' = [waiting EXCEPT !.interrupted = TRUE]
  BY DEF Receive
<1>6. waiting' \in WaitState \cup {Null} /\ waiting'.decoder = waiting.decoder
  <2>1. CASE waiting' = waiting
    BY <2>1 DEF TypeOK
  <2>2. CASE waiting # Null /\ waiting' = [waiting EXCEPT !.interrupted = TRUE]
    <3>1. waiting \in WaitState
      BY <2>2 DEF TypeOK
    <3>2. QED
      BY <2>2, <3>1 DEF WaitState
  <2>3. QED
    BY <1>5, <2>1, <2>2
<1>7. notified' \in BOOLEAN
  BY DEF Receive, TypeOK
<1>8. wq' \in [at : {"idle", "matched", "enqueue", "post"}, msg : Message \cup {NoMessage}]
      /\ wq'.msg = m /\ wq'.at = at
  BY <1>1, <1>3
<1> HIDE DEF m
<1>9. TypeOK'
  BY <1>1, <1>2, <1>6, <1>7, <1>8 DEF TypeOK
<1>10. InHand'
  BY <1>3, <1>4, <1>6, <1>8 DEF InHand
<1>11. Budget'
  BY <1>1, <1>2 DEF Budget, TypeOK
<1>12. QueueInOrder' /\ HandledInOrder'
  <2>1. \A x \in Message : Before(x, arrived, wq) => Before(x, arrived', wq')
    BY <1>1, <1>2 DEF Before, Message
  <2>2. /\ \A i \in 1..Len(incoming) : incoming[i] \in Message
        /\ \A i \in 1..Len(handled) : handled[i] \in Message
    BY DEF TypeOK
  <2>3. QED
    BY <1>1, <2>1, <2>2 DEF QueueInOrder, HandledInOrder
<1>13. QED
  BY <1>1, <1>9, <1>10, <1>11, <1>12 DEF QueueIsScheduled, AboutToPost

\* The waiter gets the message the work queue matched.
LEMMA DeliverKeeps == IInv /\ Deliver => IInv'
<1> SUFFICES ASSUME IInv, Deliver PROVE IInv'
  OBVIOUS
<1> USE DEF IInv
<1>1. /\ UNCHANGED <<arrived, incoming, posted, pc, waits, closed, handled>>
      /\ wq.at = "matched" /\ wq' = IdleQueue
  BY DEF Deliver
<1>2. wq.msg \in Message /\ wq.msg.wanted
  BY <1>1 DEF InHand
<1>3. /\ waiting' \in WaitState \cup {Null}
      /\ waiting'.decoder # NoMessage => waiting'.decoder.wanted
      /\ notified' \in BOOLEAN /\ crashed' \in BOOLEAN
  <2>1. CASE waiting = Null
    BY <2>1 DEF Deliver, TypeOK, InHand
  <2>2. CASE waiting # Null
    <3>1. waiting \in WaitState
      BY <2>2 DEF TypeOK
    <3>2. waiting' = [waiting EXCEPT !.decoder = wq.msg] /\ notified' = TRUE /\ crashed' = crashed
      BY <2>2 DEF Deliver
    <3>3. waiting' \in WaitState /\ waiting'.decoder = wq.msg
      BY <1>2, <3>1, <3>2 DEF WaitState
    <3>4. QED
      BY <1>2, <3>2, <3>3 DEF TypeOK
  <2>3. QED
    BY <2>1, <2>2
<1>4. wq' \in [at : {"idle", "matched", "enqueue", "post"}, msg : Message \cup {NoMessage}] /\ wq'.at = "idle"
  BY <1>1 DEF IdleQueue
<1>5. TypeOK'
  BY <1>1, <1>3, <1>4 DEF TypeOK
<1>6. InHand' /\ Budget' /\ QueueIsScheduled'
  BY <1>1, <1>3, <1>4 DEF InHand, Budget, QueueIsScheduled, AboutToPost
<1>7. QueueInOrder' /\ HandledInOrder'
  BY <1>1, <1>4 DEF QueueInOrder, HandledInOrder, Before
<1>8. QED
  BY <1>5, <1>6, <1>7

\* The newest message goes to the end of the queue.
LEMMA EnqueueKeeps == IInv /\ Enqueue => IInv'
<1> SUFFICES ASSUME IInv, Enqueue PROVE IInv'
  OBVIOUS
<1> USE DEF IInv
<1>1. /\ UNCHANGED <<arrived, waiting, pc, waits, notified, closed, handled, crashed>>
      /\ wq.at = "enqueue" /\ wq' = [wq EXCEPT !.at = "post"]
      /\ incoming' = Append(incoming, wq.msg) /\ posted' = posted
  BY DEF Enqueue, Queued
<1>2. wq.msg \in Message /\ wq.msg.n = arrived
  BY <1>1 DEF InHand
<1>3. incoming \in Seq(Message) /\ Len(incoming) \in Nat
  BY DEF TypeOK
<1>4. /\ incoming' \in Seq(Message) /\ Len(incoming') = Len(incoming) + 1
      /\ \A i \in 1..Len(incoming) + 1 :
           incoming'[i] = IF i <= Len(incoming) THEN incoming[i] ELSE wq.msg
  BY <1>1, <1>2, <1>3, AppendIs
<1>5. wq' \in [at : {"idle", "matched", "enqueue", "post"}, msg : Message \cup {NoMessage}] /\ wq'.at = "post" /\ wq'.msg = wq.msg
  BY <1>1 DEF TypeOK
<1>6. posted \in Nat /\ arrived \in Nat /\ posted' < arrived
  BY <1>1, WaitForMessageAssumption DEF TypeOK, Budget
<1>7. TypeOK'
  BY <1>1, <1>4, <1>5 DEF TypeOK
<1>8. InHand' /\ Budget'
  BY <1>1, <1>2, <1>5, <1>6 DEF InHand, Budget
<1>9. QueueIsScheduled'
  BY <1>1, <1>3, <1>4, <1>5, <1>6 DEF QueueIsScheduled, AboutToPost
<1>10. ASSUME NEW i \in 1..Len(incoming')
       PROVE  \/ i \in 1..Len(incoming) /\ incoming'[i] = incoming[i] /\ incoming[i].n < arrived
              \/ i = Len(incoming) + 1 /\ incoming'[i] = wq.msg
  BY <1>1, <1>3, <1>4 DEF QueueInOrder, Before
<1>11. \A i \in 1..Len(incoming') : Before(incoming'[i], arrived', wq')
  <2>1. \A i \in 1..Len(incoming) : incoming[i].n \in Nat
    <3>1. \A i \in 1..Len(incoming) : incoming[i] \in Message
      BY <1>3
    <3>2. \A m \in Message : m.n \in Nat
      BY DEF Message
    <3>3. QED
      BY <3>1, <3>2, Zenon
  <2>2. QED
    BY <1>1, <1>2, <1>5, <1>6, <1>10, <2>1 DEF Before
<1>12. \A i, j \in 1..Len(incoming') : i < j => incoming'[i].n < incoming'[j].n
  BY <1>2, <1>3, <1>10 DEF QueueInOrder
<1>13. \A i \in 1..Len(handled) : ~handled[i].wanted =>
         /\ Before(handled[i], arrived', wq')
         /\ \A j \in 1..Len(incoming') : handled[i].n < incoming'[j].n
  BY <1>1, <1>2, <1>5, <1>10 DEF HandledInOrder, Before
<1>14. QueueInOrder' /\ HandledInOrder'
  BY <1>1, <1>11, <1>12, <1>13 DEF QueueInOrder, HandledInOrder
<1>15. QED
  BY <1>7, <1>8, <1>9, <1>14

\* ... and its function to the run loop.
LEMMA PostKeeps == IInv /\ Post => IInv'
<1> SUFFICES ASSUME IInv, Post PROVE IInv'
  OBVIOUS
<1> USE DEF IInv
<1>1. /\ UNCHANGED <<arrived, incoming, waiting, pc, waits, notified, closed, handled, crashed>>
      /\ wq.at = "post" /\ wq' = IdleQueue /\ posted' = posted + 1
  BY DEF Post, Posts
<1>2. wq' \in [at : {"idle", "matched", "enqueue", "post"}, msg : Message \cup {NoMessage}] /\ wq'.at = "idle"
  BY <1>1 DEF IdleQueue
<1>3. /\ posted \in Nat /\ arrived \in Nat /\ Len(incoming) \in Nat
      /\ posted' \in 0..MaxArrivals /\ posted' <= arrived
  BY <1>1, WaitForMessageAssumption DEF TypeOK, Budget
<1>4. TypeOK'
  BY <1>1, <1>2, <1>3 DEF TypeOK
<1>5. InHand' /\ Budget'
  BY <1>1, <1>2, <1>3 DEF InHand, Budget
<1>6. QueueIsScheduled'
  BY <1>1, <1>2, <1>3 DEF QueueIsScheduled, AboutToPost
<1>7. QueueInOrder' /\ HandledInOrder'
  BY <1>1, <1>2 DEF QueueInOrder, HandledInOrder, Before
<1>8. QED
  BY <1>4, <1>5, <1>6, <1>7

\* A close only interrupts the waiter.
LEMMA CloseKeeps == IInv /\ ConnectionDidClose => IInv'
<1> SUFFICES ASSUME IInv, ConnectionDidClose PROVE IInv'
  OBVIOUS
<1> USE DEF IInv
<1>1. /\ UNCHANGED <<arrived, incoming, posted, pc, waits, wq, handled, crashed>>
      /\ closed' = TRUE /\ notified' = TRUE
  BY DEF ConnectionDidClose
<1>2. waiting' \in WaitState \cup {Null} /\ waiting'.decoder = waiting.decoder
  <2>1. CASE waiting = Null
    BY <2>1 DEF ConnectionDidClose
  <2>2. CASE waiting # Null
    <3>1. waiting \in WaitState
      BY <2>2 DEF TypeOK
    <3>2. QED
      BY <2>2, <3>1 DEF ConnectionDidClose, WaitState
  <2>3. QED
    BY <2>1, <2>2
<1>3. TypeOK'
  BY <1>1, <1>2 DEF TypeOK
<1>4. QED
  BY <1>1, <1>2, <1>3, WaiterSteps DEF InHand

\* IInv is inductive.
LEMMA NextKeeps == IInv /\ [Next]_vars => IInv'
<1> SUFFICES ASSUME IInv, [Next]_vars PROVE IInv'
  OBVIOUS
<1>1. CASE UNCHANGED vars
  BY <1>1 DEF vars, IInv, TypeOK, InHand, Budget, QueueIsScheduled, AboutToPost, QueueInOrder, HandledInOrder
<1>2. CASE Next
  BY <1>2, DispatchKeeps, WaitKeeps, LoopKeeps, SmallStepsKeep, ReceiveKeeps, DeliverKeeps,
     EnqueueKeeps, PostKeeps, CloseKeeps DEF Next, MainThread
<1>3. QED
  BY <1>1, <1>2

\* IInv holds throughout: the order in which messages arrived, were queued and
\* handled, kept by both threads together.
THEOREM Invariant == Spec => []IInv
<1>1. QED
  BY InitInv, NextKeeps, PTL DEF Spec

\* The types of waitForMessage's state; in particular a message is posted for
\* at most once, so that posted stays within the messages that arrived.
THEOREM TypeCorrect == Spec => []TypeOK
<1>1. IInv => TypeOK
  BY DEF IInv
<1>2. QED
  BY <1>1, Invariant, PTL

\* A queued message always has a dispatchOneMessage to come for it, posted or
\* about to be.
THEOREM QueueAlwaysScheduled == Spec => []QueueIsScheduled
<1>1. IInv => QueueIsScheduled
  BY DEF IInv
<1>2. QED
  BY <1>1, Invariant, PTL

\* Messages of other kinds reach the client in the order they arrived.
THEOREM OthersStayInOrder == Spec => []OthersInOrder
<1>1. IInv => OthersInOrder
  <2> SUFFICES ASSUME IInv PROVE OthersInOrder
    OBVIOUS
  <2>1. DOMAIN handled = 1..Len(handled)
    BY DEF IInv, TypeOK
  <2>2. QED
    BY <2>1 DEF IInv, HandledInOrder, OthersInOrder
<1>2. QED
  BY <1>1, Invariant, PTL
=============================================================================
