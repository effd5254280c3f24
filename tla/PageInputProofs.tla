--------------------------- MODULE PageInputProofs --------------------------
(***************************************************************************)
(* What the page proxy remembers of its input events is what is in flight, *)
(* for any event types, any coalescing and threshold and any nesting of    *)
(* handlers, through crashes and relaunches; and so the wheel queue stays  *)
(* bounded and the checks of didReceiveEvent kill no process that answers  *)
(* what it was sent (touches apart, which may be answered out of order).   *)
(***************************************************************************)
EXTENDS PageInput, SequenceTheorems, FiniteSetTheorems, TLAPS

-----------------------------------------------------------------------------
(* Counting the events of some types in a sequence.                        *)

\* 1 if event t is of one of the types.
One(t, types) == IF t \in types THEN 1 ELSE 0

\* A count is a natural number, zero for no events.
LEMMA CountIsNat ==
    ASSUME NEW X, NEW s \in Seq(X), NEW T
    PROVE  Count(s, T) \in Nat /\ IsFiniteSet({i \in DOMAIN s : s[i] \in T})
<1>1. DOMAIN s = 1..Len(s) /\ Len(s) \in Nat
  OBVIOUS
<1>2. IsFiniteSet(1..Len(s))
  BY <1>1, FS_Interval
<1>3. {i \in DOMAIN s : s[i] \in T} \in SUBSET (1..Len(s))
  BY <1>1
<1>4. IsFiniteSet({i \in DOMAIN s : s[i] \in T})
  BY <1>2, <1>3, FS_Subset
<1>5. QED
  BY <1>4, FS_CardinalityType DEF Count

\* No event counts in an empty sequence.
LEMMA CountEmpty == \A T : Count(<<>>, T) = 0
<1> SUFFICES ASSUME NEW T PROVE Count(<<>>, T) = 0
  OBVIOUS
<1>1. {i \in DOMAIN <<>> : <<>>[i] \in T} = {}
  OBVIOUS
<1>2. QED
  BY <1>1, FS_EmptySet DEF Count

\* An event sent counts for one.
LEMMA CountAppend ==
    ASSUME NEW X, NEW s \in Seq(X), NEW e \in X, NEW T
    PROVE  Count(Append(s, e), T) = Count(s, T) + One(e, T)
<1> DEFINE I == {i \in DOMAIN s : s[i] \in T}
           J == {i \in DOMAIN Append(s, e) : Append(s, e)[i] \in T}
           n == Len(s) + 1
<1>1. /\ Len(s) \in Nat /\ DOMAIN s = 1..Len(s) /\ DOMAIN Append(s, e) = 1..n
      /\ \A i \in 1..Len(s) : Append(s, e)[i] = s[i]
      /\ Append(s, e)[n] = e
  OBVIOUS
<1>2. IsFiniteSet(I) /\ Cardinality(I) \in Nat
  BY CountIsNat DEF Count
<1>3. 1..n = 1..Len(s) \cup {n} /\ n \notin 1..Len(s)
  BY <1>1
<1> HIDE DEF n
<1>4. CASE e \in T
  <2>1. J = I \cup {n} /\ n \notin I
    BY <1>1, <1>3, <1>4
  <2>2. Cardinality(J) = Cardinality(I) + 1
    BY <1>2, <2>1, FS_AddElement
  <2>3. QED
    BY <1>4, <2>2 DEF Count, One
<1>5. CASE e \notin T
  <2>1. J = I
    BY <1>1, <1>3, <1>5
  <2>2. Cardinality(J) = Cardinality(I) /\ One(e, T) = 0
    BY <1>5, <2>1 DEF One
  <2>3. Count(s, T) = Cardinality(I) /\ Count(Append(s, e), T) = Cardinality(J)
    BY DEF Count
  <2> HIDE DEF I, J
  <2>4. QED
    BY <1>2, <2>2, <2>3
<1>6. QED
  BY <1>4, <1>5

\* The first event taken counts for one.
LEMMA CountTail ==
    ASSUME NEW X, NEW s \in Seq(X), s # <<>>, NEW T
    PROVE  Count(s, T) = Count(Tail(s), T) + One(Head(s), T)
<1> DEFINE t == Tail(s)
           I == {i \in DOMAIN t : t[i] \in T}
           J == {i \in DOMAIN s : s[i] \in T}
           K == J \ {1}
           f == [i \in I |-> i + 1]
<1>1. /\ Len(s) \in Nat /\ Len(s) >= 1 /\ DOMAIN s = 1..Len(s) /\ Head(s) = s[1]
      /\ t \in Seq(X) /\ DOMAIN t = 1..Len(s) - 1
      /\ \A i \in 1..Len(s) - 1 : t[i] = s[i + 1]
  OBVIOUS
<1>2. IsFiniteSet(I) /\ Cardinality(I) \in Nat /\ IsFiniteSet(J) /\ Cardinality(J) \in Nat
  BY <1>1, CountIsNat DEF Count
<1>3. f \in Bijection(I, K)
  <2>1. \A i \in I : i \in Nat /\ i + 1 \in K
    BY <1>1
  <2>2. f \in [I -> K]
    BY <2>1
  <2>3. \A a, b \in I : f[a] = f[b] => a = b
    BY <2>1
  <2>4. ASSUME NEW k \in K PROVE \E i \in I : f[i] = k
    <3>1. k - 1 \in 1..Len(s) - 1 /\ (k - 1) + 1 = k
      BY <1>1
    <3>2. k - 1 \in I
      BY <1>1, <3>1
    <3>3. QED
      BY <3>1, <3>2
  <2>5. QED
    BY <2>2, <2>3, <2>4 DEF Bijection, Injection, Surjection, IsInjective
<1>4. Cardinality(K) = Cardinality(I)
  <2>1. ExistsBijection(I, K)
    BY <1>3, Zenon DEF ExistsBijection
  <2>2. QED
    BY <1>2, <2>1, FS_Bijection
<1>5. Cardinality(K) = IF 1 \in J THEN Cardinality(J) - 1 ELSE Cardinality(J)
  BY <1>2, FS_RemoveElement
<1>6. 1 \in J <=> Head(s) \in T
  BY <1>1
<1>7. Count(s, T) = Cardinality(J) /\ Count(Tail(s), T) = Cardinality(I)
  BY DEF Count
<1> HIDE DEF I, J, K, f, t
<1>8. CASE Head(s) \in T
  BY <1>2, <1>4, <1>5, <1>6, <1>7, <1>8 DEF One
<1>9. CASE Head(s) \notin T
  BY <1>2, <1>4, <1>5, <1>6, <1>7, <1>9 DEF One
<1>10. QED
  BY <1>8, <1>9

\* The last event is taken.
LEMMA PopFront ==
    ASSUME NEW X, NEW s \in Seq(X), s # <<>>
    PROVE  /\ SubSeq(s, 1, Len(s) - 1) \in Seq(X)
           /\ Len(SubSeq(s, 1, Len(s) - 1)) = Len(s) - 1
           /\ \A i \in 1..Len(s) - 1 : SubSeq(s, 1, Len(s) - 1)[i] = s[i]
<1> DEFINE p == SubSeq(s, 1, Len(s) - 1)
<1>1. Len(s) \in Nat /\ Len(s) >= 1 /\ 1 \in Int /\ Len(s) - 1 \in Int
  OBVIOUS
<1>2. \A i \in 1..Len(s) - 1 : s[i] \in X
  BY <1>1
<1>3. /\ p \in Seq(X)
      /\ Len(p) = IF 1 <= Len(s) - 1 THEN Len(s) - 1 - 1 + 1 ELSE 0
      /\ \A i \in 1..Len(s) - 1 - 1 + 1 : p[i] = s[1 + i - 1]
  BY <1>1, <1>2, SubSeqProperties
<1>4. \A i \in 1..Len(s) - 1 : 1 + i - 1 = i /\ i \in 1..Len(s) - 1 - 1 + 1
  BY <1>1
<1>5. Len(p) = Len(s) - 1
  <2>1. \A n \in Nat : n >= 1 => (IF 1 <= n - 1 THEN n - 1 - 1 + 1 ELSE 0) = n - 1
    OBVIOUS
  <2>2. QED
    BY <1>1, <1>3, <2>1, Zenon
<1>6. \A i \in 1..Len(s) - 1 : p[i] = s[i]
  <2> SUFFICES ASSUME NEW i \in 1..Len(s) - 1 PROVE p[i] = s[i]
    OBVIOUS
  <2>1. p[i] = s[1 + i - 1]
    BY <1>3, <1>4, Zenon
  <2>2. 1 + i - 1 = i
    BY <1>4
  <2>3. QED
    BY <2>1, <2>2, Zenon
<1>7. QED
  BY <1>3, <1>5, <1>6, Zenon

\* It counts for one, too.
LEMMA CountPop ==
    ASSUME NEW X, NEW s \in Seq(X), s # <<>>, NEW T
    PROVE  /\ SubSeq(s, 1, Len(s) - 1) \in Seq(X) /\ s[Len(s)] \in X
           /\ Count(s, T) = Count(SubSeq(s, 1, Len(s) - 1), T) + One(s[Len(s)], T)
<1> DEFINE p == SubSeq(s, 1, Len(s) - 1)
<1>1. Len(s) \in Nat /\ Len(s) >= 1 /\ s[Len(s)] \in X
  OBVIOUS
<1>2. /\ p \in Seq(X) /\ Len(p) = Len(s) - 1
      /\ \A i \in 1..Len(s) - 1 : p[i] = s[i]
  BY PopFront
<1> HIDE DEF p
<1>3. Append(p, s[Len(s)]) = s
  BY <1>1, <1>2
<1>4. Count(s, T) = Count(p, T) + One(s[Len(s)], T)
  <2>1. Count(Append(p, s[Len(s)]), T) = Count(p, T) + One(s[Len(s)], T)
    BY <1>1, <1>2, CountAppend, Zenon
  <2>2. QED
    BY <1>3, <2>1, Zenon
<1>5. QED
  BY <1>1, <1>2, <1>4 DEF p

\* What is left of a queue when a run of n has been merged.
LEMMA TakenShortens ==
    ASSUME NEW X, NEW q \in Seq(X), NEW n \in 1..Len(q)
    PROVE  Taken(q, n) \in Seq(X) /\ Len(Taken(q, n)) = Len(q) - n
<1>1. Len(q) \in Nat /\ n \in Nat /\ n + 1 \in Int /\ Len(q) \in Int
  OBVIOUS
<1>2. \A i \in n + 1 .. Len(q) : q[i] \in X
  BY <1>1
<1>3. /\ Taken(q, n) \in Seq(X)
      /\ Len(Taken(q, n)) = IF n + 1 <= Len(q) THEN Len(q) - (n + 1) + 1 ELSE 0
  BY <1>1, <1>2, SubSeqProperties DEF Taken
<1>4. CASE n + 1 <= Len(q)
  <2>1. Len(Taken(q, n)) = Len(q) - (n + 1) + 1
    BY <1>3, <1>4, Zenon
  <2>2. Len(q) - (n + 1) + 1 = Len(q) - n
    BY <1>1
  <2>3. QED
    BY <1>3, <2>1, <2>2, Zenon
<1>5. CASE ~(n + 1 <= Len(q))
  <2>1. Len(Taken(q, n)) = 0
    BY <1>3, <1>5, Zenon
  <2>2. Len(q) - n = 0
    BY <1>1, <1>5
  <2>3. QED
    BY <1>3, <2>1, <2>2, Zenon
<1>6. QED
  BY <1>4, <1>5

-----------------------------------------------------------------------------
(* Counting the events in flight: on their way, handled, answered.         *)

Total(m, w, h, a, types) == Count(m, types) + Count(w, types) + Count(h, types) + Count(a, types)
NowInFlight(types) == Total(main', wheel', handling', answers', types)

\* The channels between the two processes hold events.
Channels(m, w, h, a) ==
    m \in Seq(Type) /\ w \in Seq({"Wheel"}) /\ h \in Seq(Type) /\ a \in Seq(Type)

\* The counts that make up a total are natural numbers, and so is the total.
LEMMA TotalIsNat ==
    ASSUME NEW m, NEW w, NEW h, NEW a, Channels(m, w, h, a), NEW T
    PROVE  /\ Count(m, T) \in Nat /\ Count(w, T) \in Nat /\ Count(h, T) \in Nat
           /\ Count(a, T) \in Nat /\ Total(m, w, h, a, T) \in Nat
<1>1. /\ Count(m, T) \in Nat /\ Count(w, T) \in Nat /\ Count(h, T) \in Nat
      /\ Count(a, T) \in Nat
  BY CountIsNat, Zenon DEF Channels
<1>2. QED
  BY <1>1 DEF Total

\* An event sent, on either channel, adds one.
LEMMA SendAdds ==
    ASSUME NEW m, NEW w, NEW h, NEW a, Channels(m, w, h, a), NEW T, NEW t \in Type
    PROVE  /\ Total(Append(m, t), w, h, a, T) = Total(m, w, h, a, T) + One(t, T)
           /\ Total(m, Append(w, "Wheel"), h, a, T) = Total(m, w, h, a, T) + One("Wheel", T)
<1>1. Count(Append(m, t), T) = Count(m, T) + One(t, T)
  BY CountAppend, Zenon DEF Channels
<1>2. Count(Append(w, "Wheel"), T) = Count(w, T) + One("Wheel", T)
  <2>1. w \in Seq({"Wheel"}) /\ "Wheel" \in {"Wheel"}
    BY DEF Channels
  <2>2. QED
    BY <2>1, CountAppend, Zenon
<1>3. One(t, T) \in Nat /\ One("Wheel", T) \in Nat
  BY DEF One
<1>4. QED
  BY <1>1, <1>2, <1>3, TotalIsNat DEF Total

\* An answer received takes one away.
LEMMA AnswerTakes ==
    ASSUME NEW m, NEW w, NEW h, NEW a, Channels(m, w, h, a), NEW T, a # <<>>
    PROVE  Total(m, w, h, Tail(a), T) = Total(m, w, h, a, T) - One(Head(a), T)
<1>1. Count(a, T) = Count(Tail(a), T) + One(Head(a), T)
  BY CountTail, Zenon DEF Channels
<1>2. Channels(m, w, h, Tail(a))
  BY DEF Channels
<1>3. One(Head(a), T) \in Nat
  BY DEF One
<1>4. Count(Tail(a), T) \in Nat
  BY <1>2, TotalIsNat
<1>5. QED
  BY <1>1, <1>3, <1>4, TotalIsNat DEF Total

\* An answer received, and an event sent for it.
LEMMA AnswerAndSend ==
    ASSUME NEW m, NEW w, NEW h, NEW a, Channels(m, w, h, a), NEW T, a # <<>>, NEW t \in Type
    PROVE  /\ Total(Append(m, t), w, h, Tail(a), T)
                = Total(m, w, h, a, T) - One(Head(a), T) + One(t, T)
           /\ Total(m, Append(w, "Wheel"), h, Tail(a), T)
                = Total(m, w, h, a, T) - One(Head(a), T) + One("Wheel", T)
<1> DEFINE r == Tail(a)
<1>1. Channels(m, w, h, r)
  BY DEF Channels
<1>2. Total(m, w, h, r, T) = Total(m, w, h, a, T) - One(Head(a), T)
  BY AnswerTakes
<1> HIDE DEF r
<1>3. /\ Total(Append(m, t), w, h, r, T) = Total(m, w, h, r, T) + One(t, T)
      /\ Total(m, Append(w, "Wheel"), h, r, T) = Total(m, w, h, r, T) + One("Wheel", T)
  BY <1>1, SendAdds
<1>4. /\ Total(Append(m, t), w, h, r, T) = Total(m, w, h, a, T) - One(Head(a), T) + One(t, T)
      /\ Total(m, Append(w, "Wheel"), h, r, T) = Total(m, w, h, a, T) - One(Head(a), T) + One("Wheel", T)
  BY <1>2, <1>3
<1>5. QED
  BY <1>4 DEF r

\* The steps of the web process move one event.
LEMMA WebKeepsTotal ==
    ASSUME Channels(main, wheel, handling, answers), Web, NEW T
    PROVE  Channels(main, wheel, handling, answers)' /\ NowInFlight(T) = InFlight(T)
<1>1. CASE DispatchMain
  <2>1. /\ Head(main) \in Type /\ Tail(main) \in Seq(Type) /\ main # <<>>
        /\ handling' = Append(handling, Head(main)) /\ main' = Tail(main)
        /\ wheel' = wheel /\ answers' = answers
    BY <1>1 DEF DispatchMain, Channels
  <2>2. Channels(main, wheel, handling, answers)'
    BY <2>1 DEF Channels
  <2>3. Count(main, T) = Count(main', T) + One(Head(main), T)
    BY <2>1, CountTail, Zenon DEF Channels
  <2>4. Count(handling', T) = Count(handling, T) + One(Head(main), T)
    BY <2>1, CountAppend, Zenon DEF Channels
  <2>5. One(Head(main), T) \in Nat /\ Count(main', T) \in Nat
    BY <2>2, TotalIsNat DEF One
  <2>6. QED
    BY <2>1, <2>2, <2>3, <2>4, <2>5, TotalIsNat DEF Total, NowInFlight, InFlight
<1>2. CASE DispatchWheelEvent
  <2>1. /\ Head(wheel) = "Wheel" /\ "Wheel" \in Type /\ Tail(wheel) \in Seq({"Wheel"})
        /\ handling' = Append(handling, "Wheel") /\ wheel' = Tail(wheel) /\ wheel # <<>>
        /\ main' = main /\ answers' = answers
    BY <1>2 DEF DispatchWheelEvent, Channels, Type
  <2>2. Channels(main, wheel, handling, answers)'
    BY <2>1 DEF Channels
  <2>3. Count(wheel, T) = Count(wheel', T) + One("Wheel", T)
    BY <2>1, CountTail, Zenon DEF Channels
  <2>4. Count(handling', T) = Count(handling, T) + One("Wheel", T)
    BY <2>1, CountAppend, Zenon DEF Channels
  <2>5. One("Wheel", T) \in Nat /\ Count(wheel', T) \in Nat
    BY <2>2, TotalIsNat DEF One
  <2>6. QED
    BY <2>1, <2>2, <2>3, <2>4, <2>5, TotalIsNat DEF Total, NowInFlight, InFlight
<1>3. CASE HandlerReturns
  <2> DEFINE e == handling[Len(handling)]
  <2>1. /\ handling # <<>> /\ answers' = Append(answers, e)
        /\ handling' = SubSeq(handling, 1, Len(handling) - 1)
        /\ main' = main /\ wheel' = wheel
    BY <1>3 DEF HandlerReturns
  <2>2. /\ handling' \in Seq(Type) /\ e \in Type
        /\ Count(handling, T) = Count(handling', T) + One(e, T)
    BY <2>1, CountPop, Zenon DEF Channels
  <2> HIDE DEF e
  <2>3. Channels(main, wheel, handling, answers)'
    BY <2>1, <2>2 DEF Channels
  <2>4. Count(answers', T) = Count(answers, T) + One(e, T)
    BY <2>1, <2>2, CountAppend, Zenon DEF Channels
  <2>5. One(e, T) \in Nat /\ Count(handling', T) \in Nat
    BY <2>3, TotalIsNat DEF One
  <2>6. QED
    BY <2>1, <2>2, <2>3, <2>4, <2>5, TotalIsNat DEF Total, NowInFlight, InFlight
<1>4. QED
  BY <1>1, <1>2, <1>3 DEF Web

-----------------------------------------------------------------------------
(* The invariant.                                                          *)

Buttons == {"MouseDown", "MouseUp"}

\* Each event belongs to one family, and only that family counts it.
LEMMA Families ==
    /\ \A t \in KeyType : /\ t \in Type /\ One(t, KeyType) = 1 /\ One(t, {"MouseMove"}) = 0
                          /\ One(t, {"Wheel"}) = 0 /\ One(t, TouchType) = 0 /\ One(t, Buttons) = 0
    /\ \A t \in TouchType : /\ t \in Type /\ One(t, KeyType) = 0 /\ One(t, {"MouseMove"}) = 0
                            /\ One(t, {"Wheel"}) = 0 /\ One(t, TouchType) = 1 /\ One(t, Buttons) = 0
    /\ \A t \in Buttons : /\ t \in Type /\ One(t, KeyType) = 0 /\ One(t, {"MouseMove"}) = 0
                          /\ One(t, {"Wheel"}) = 0 /\ One(t, TouchType) = 0 /\ One(t, Buttons) = 1
    /\ "MouseMove" \in Type /\ One("MouseMove", KeyType) = 0 /\ One("MouseMove", {"MouseMove"}) = 1
    /\ One("MouseMove", {"Wheel"}) = 0 /\ One("MouseMove", TouchType) = 0 /\ One("MouseMove", Buttons) = 0
    /\ "Wheel" \in Type /\ One("Wheel", KeyType) = 0 /\ One("Wheel", {"MouseMove"}) = 0
    /\ One("Wheel", {"Wheel"}) = 1 /\ One("Wheel", TouchType) = 0 /\ One("Wheel", Buttons) = 0
BY PageInputAssumption DEF One, Type, MouseType, Buttons

\* The proxy's side of ProxyKnowsWhatIsInFlight against totals n of each family.
Known(k, mv, b, tc, c, kn, mn, wn, tn, cn) ==
    /\ kn = IF k = <<>> THEN 0 ELSE 1
    /\ mn = IF mv.processing THEN 1 ELSE 0
    /\ wn = Len(b)
    /\ tn = Len(tc)
    /\ cn = c
    /\ mv.next => mv.processing

IInv == TypeOK /\ ProxyKnowsWhatIsInFlight /\ WheelsAreServed

\* The invariant's counting part in terms of totals.
LEMMA KnownNow ==
    /\ ProxyKnowsWhatIsInFlight <=>
          Known(keys, moves, batches, touches, clicks, InFlight(KeyType), InFlight({"MouseMove"}),
                InFlight({"Wheel"}), InFlight(TouchType), InFlight(Buttons))
    /\ ProxyKnowsWhatIsInFlight' <=>
          Known(keys', moves', batches', touches', clicks', NowInFlight(KeyType),
                NowInFlight({"MouseMove"}), NowInFlight({"Wheel"}), NowInFlight(TouchType),
                NowInFlight(Buttons))
BY DEF ProxyKnowsWhatIsInFlight, Known, NowInFlight, Total, InFlight, Buttons

\* The events in flight, as a total; natural numbers, whatever the types.
LEMMA InFlightIsNat ==
    ASSUME TypeOK, NEW T
    PROVE  /\ Channels(main, wheel, handling, answers)
           /\ InFlight(T) = Total(main, wheel, handling, answers, T) /\ InFlight(T) \in Nat
<1>1. Channels(main, wheel, handling, answers)
  BY DEF TypeOK, Channels
<1>2. InFlight(T) = Total(main, wheel, handling, answers, T)
  BY DEF InFlight, Total
<1>3. QED
  BY <1>1, <1>2, TotalIsNat

\* The bound on the input events.
LEMMA EventCounts == TypeOK /\ Event => events' \in 0..MaxEvents
BY PageInputAssumption DEF TypeOK, Event

\* The steps of the web process.
LEMMA WebKeeps == IInv /\ Web => IInv'
<1> SUFFICES ASSUME IInv, Web PROVE IInv'
  OBVIOUS
<1>1. /\ UNCHANGED <<valid, keys, wheels, batches, touches, tracking, moves, down, clicks>>
      /\ UNCHANGED <<timer, responsive, events>>
  BY DEF Web, DispatchMain, DispatchWheelEvent, HandlerReturns, queues, timers
<1>2. Channels(main, wheel, handling, answers)' /\ \A T : NowInFlight(T) = InFlight(T)
  BY WebKeepsTotal, InFlightIsNat DEF IInv
<1>3. TypeOK'
  BY <1>1, <1>2 DEF IInv, TypeOK, Channels
<1>4. ProxyKnowsWhatIsInFlight'
  BY <1>1, <1>2, KnownNow DEF IInv
<1>5. WheelsAreServed'
  BY <1>1 DEF IInv, WheelsAreServed
<1>6. QED
  BY <1>3, <1>4, <1>5 DEF IInv

\* A new key event is in flight only if no other was.
LEMMA KeyKeeps ==
    ASSUME IInv, NEW t \in KeyType, HandleKeyboardEvent(t)
    PROVE  IInv'
<1>1. /\ keys' = Append(keys, t)
      /\ main' = IF Len(keys') = 1 THEN Append(main, t) ELSE main
      /\ UNCHANGED <<valid, wheels, batches, touches, tracking, moves, down, clicks, wheel>>
      /\ UNCHANGED <<handling, answers>>
      /\ timer' = TRUE /\ responsive' = responsive /\ events' \in 0..MaxEvents
  BY EventCounts, Zenon DEF HandleKeyboardEvent, Event, Start, IInv
<1>2. /\ keys \in Seq(KeyType) /\ keys' \in Seq(KeyType) /\ keys' # <<>>
      /\ Len(keys') = 1 <=> keys = <<>>
  BY <1>1 DEF IInv, TypeOK
<1>3. TypeOK'
  BY <1>1, <1>2, Families DEF IInv, TypeOK
<1>4. NowInFlight(KeyType) = 1 /\ \A T : One(t, T) = 0 => NowInFlight(T) = InFlight(T)
  <2>1. CASE keys = <<>>
    <3>1. \A T : NowInFlight(T) = InFlight(T) + One(t, T)
      BY <1>1, <1>2, <2>1, Families, InFlightIsNat, SendAdds DEF NowInFlight, IInv
    <3>2. InFlight(KeyType) = 0 /\ One(t, KeyType) = 1
      BY <2>1, Families DEF IInv, ProxyKnowsWhatIsInFlight
    <3>3. \A T : InFlight(T) \in Nat
      BY InFlightIsNat DEF IInv
    <3>4. QED
      BY <3>1, <3>2, <3>3
  <2>2. CASE keys # <<>>
    <3>1. \A T : NowInFlight(T) = InFlight(T)
      BY <1>1, <1>2, <2>2, InFlightIsNat DEF NowInFlight, IInv
    <3>2. QED
      BY <2>2, <3>1 DEF IInv, ProxyKnowsWhatIsInFlight
  <2>3. QED
    BY <2>1, <2>2
<1>5. ProxyKnowsWhatIsInFlight'
  BY <1>1, <1>2, <1>4, Families, KnownNow DEF IInv, Known
<1>6. WheelsAreServed'
  BY <1>1, <1>2 DEF IInv, WheelsAreServed
<1>7. QED
  BY <1>3, <1>5, <1>6 DEF IInv

\* A batch merged from q leaves q shorter and is in flight.
LEMMA BatchSent ==
    ASSUME TypeOK, NEW q \in Seq(Position), NEW b \in Seq(Nat \ {0}),
           ProcessNextQueuedWheelEvent(q, b)
    PROVE  /\ wheels' \in Seq(Position) /\ Len(wheels') < Len(q)
           /\ batches' \in Seq(Nat \ {0}) /\ Len(batches') = Len(b) + 1 /\ batches' # <<>>
           /\ wheel' = Append(wheel, "Wheel") /\ wheel' \in Seq({"Wheel"})
<1>1. PICK n \in 0..Len(q) : /\ IsRun(q, n) /\ wheels' = Taken(q, n)
                             /\ batches' = Append(b, n) /\ wheel' = Append(wheel, "Wheel")
  BY DEF ProcessNextQueuedWheelEvent
<1>2. n \in 1..Len(q) /\ Len(q) \in Nat
  BY <1>1 DEF IsRun
<1>3. wheels' \in Seq(Position) /\ Len(wheels') = Len(q) - n
  BY <1>1, <1>2, TakenShortens
<1>4. wheel' \in Seq({"Wheel"})
  BY <1>1 DEF TypeOK
<1>5. Len(wheels') < Len(q)
  BY <1>2, <1>3
<1>6. batches' \in Seq(Nat \ {0}) /\ Len(batches') = Len(b) + 1 /\ batches' # <<>>
  BY <1>1, <1>2
<1>7. QED
  BY <1>1, <1>3, <1>4, <1>5, <1>6

\* A new wheel event waits, or one more batch is in flight.
LEMMA WheelKeeps ==
    ASSUME IInv, NEW x \in Position, HandleWheelEvent(x)
    PROVE  IInv'
<1> DEFINE q == IF batches # <<>> THEN Append(wheels, x) ELSE wheels
           waits == batches # <<>> /\ Len(q) < WheelEventQueueSizeThreshold
<1>1. /\ UNCHANGED <<valid, keys, touches, tracking, moves, down, clicks, main>>
      /\ UNCHANGED <<handling, answers>> /\ events' \in 0..MaxEvents
  BY EventCounts, Zenon DEF HandleWheelEvent, Event, IInv
<1>2. /\ wheels \in Seq(Position) /\ batches \in Seq(Nat \ {0}) /\ wheel \in Seq({"Wheel"})
      /\ q \in Seq(Position) /\ Len(wheels) \in Nat /\ Len(q) <= Len(wheels) + 1
      /\ WheelEventQueueSizeThreshold \in Nat \ {0}
      /\ Len(wheels) < WheelEventQueueSizeThreshold
  BY PageInputAssumption DEF IInv, TypeOK, WheelsAreServed
<1>3. /\ wheels' \in Seq(Position) /\ Len(wheels') < WheelEventQueueSizeThreshold
      /\ batches' \in Seq(Nat \ {0}) /\ batches' # <<>> /\ wheel' \in Seq({"Wheel"})
      /\ \/ batches' = batches /\ wheel' = wheel /\ timer' = timer
         \/ Len(batches') = Len(batches) + 1 /\ wheel' = Append(wheel, "Wheel") /\ timer' = TRUE
      /\ responsive' = responsive
  <2>1. CASE waits /\ wheels' = q /\ UNCHANGED <<batches, wheel, timers>>
    BY <1>2, <2>1 DEF timers
  <2>2. CASE ~waits /\ q # <<>> /\ ProcessNextQueuedWheelEvent(q, batches) /\ Start
    <3>1. timer' = TRUE /\ responsive' = responsive
      BY <2>2 DEF Start
    <3>2. TypeOK
      BY DEF IInv
    <3> HIDE DEF q
    <3>3. /\ wheels' \in Seq(Position) /\ Len(wheels') < Len(q)
          /\ batches' \in Seq(Nat \ {0}) /\ Len(batches') = Len(batches) + 1 /\ batches' # <<>>
          /\ wheel' = Append(wheel, "Wheel") /\ wheel' \in Seq({"Wheel"})
      BY <1>2, <2>2, <3>2, BatchSent, Zenon
    <3>4. Len(wheels') < WheelEventQueueSizeThreshold
      <4>1. Len(wheels') \in Nat /\ Len(q) \in Nat
        BY <1>2, <3>3
      <4>2. QED
        BY <1>2, <3>3, <4>1
    <3>5. QED
      BY <3>1, <3>3, <3>4, Zenon
  <2>3. CASE /\ ~waits /\ q = <<>>
             /\ batches' = Append(batches, 1) /\ wheel' = Append(wheel, "Wheel")
             /\ Start /\ UNCHANGED wheels
    <3>1. timer' = TRUE /\ responsive' = responsive
      BY <2>3 DEF Start
    <3>2. QED
      BY <1>2, <2>3, <3>1
  <2>4. QED
    BY <2>1, <2>2, <2>3 DEF HandleWheelEvent
<1>4. TypeOK'
  <2>1. timer' \in BOOLEAN
    BY <1>3, Zenon DEF IInv, TypeOK
  <2>2. QED
    BY <1>1, <1>3, <2>1 DEF IInv, TypeOK
<1>5. ProxyKnowsWhatIsInFlight'
  <2>1. CASE batches' = batches /\ wheel' = wheel
    <3>1. \A T : NowInFlight(T) = InFlight(T)
      BY <1>1, <2>1, InFlightIsNat DEF NowInFlight, IInv
    <3>2. QED
      BY <1>1, <2>1, <3>1, KnownNow DEF IInv
  <2>2. CASE Len(batches') = Len(batches) + 1 /\ wheel' = Append(wheel, "Wheel")
    <3>1. \A T : NowInFlight(T) = InFlight(T) + One("Wheel", T) /\ InFlight(T) \in Nat
      BY <1>1, <2>2, Families, InFlightIsNat, SendAdds DEF NowInFlight, IInv
    <3>2. /\ NowInFlight({"Wheel"}) = InFlight({"Wheel"}) + 1
          /\ NowInFlight(KeyType) = InFlight(KeyType)
          /\ NowInFlight({"MouseMove"}) = InFlight({"MouseMove"})
          /\ NowInFlight(TouchType) = InFlight(TouchType)
          /\ NowInFlight(Buttons) = InFlight(Buttons)
      BY <3>1, Families
    <3>3. QED
      BY <1>1, <2>2, <3>2, KnownNow DEF IInv, Known
  <2>3. QED
    BY <1>3, <2>1, <2>2
<1>6. WheelsAreServed'
  BY <1>3, Zenon DEF WheelsAreServed
<1>7. QED
  BY <1>4, <1>5, <1>6 DEF IInv

\* A move is in flight, or the newest one waits behind it.
LEMMA MoveKeeps ==
    ASSUME IInv, HandleMouseMove
    PROVE  IInv'
<1>1. /\ UNCHANGED <<valid, keys, wheels, batches, touches, tracking, down, clicks>>
      /\ UNCHANGED <<timer, responsive, wheel, handling, answers>> /\ events' \in 0..MaxEvents
  BY EventCounts, Zenon DEF HandleMouseMove, Event, IInv, timers
<1>2. moves \in [processing : BOOLEAN, next : BOOLEAN] /\ main \in Seq(Type)
  BY DEF IInv, TypeOK
<1>3. \/ /\ moves.processing = TRUE /\ main' = main
         /\ moves' = [processing |-> TRUE, next |-> TRUE]
      \/ /\ moves.processing = FALSE /\ main' = Append(main, "MouseMove")
         /\ moves' = [processing |-> TRUE, next |-> moves.next]
  BY <1>2 DEF HandleMouseMove
<1>4. TypeOK'
  <2>1. moves' \in [processing : BOOLEAN, next : BOOLEAN]
    <3>1. \A b \in BOOLEAN : [processing |-> TRUE, next |-> b] \in [processing : BOOLEAN, next : BOOLEAN]
      OBVIOUS
    <3>2. moves.next \in BOOLEAN /\ TRUE \in BOOLEAN
      BY <1>2
    <3>3. QED
      BY <1>3, <3>1, <3>2, Zenon
  <2>2. main' \in Seq(Type)
    BY <1>2, <1>3, Families
  <2>3. QED
    BY <1>1, <2>1, <2>2 DEF IInv, TypeOK
<1>5. ProxyKnowsWhatIsInFlight'
  <2>1. CASE moves.processing = TRUE
    <3>1. main' = main /\ moves'.processing = TRUE /\ moves'.next = TRUE
      BY <1>3, <2>1
    <3>2. \A T : NowInFlight(T) = InFlight(T)
      BY <1>1, <3>1, InFlightIsNat DEF NowInFlight, IInv
    <3>3. QED
      BY <1>1, <2>1, <3>1, <3>2, KnownNow DEF IInv, Known
  <2>2. CASE moves.processing = FALSE
    <3>1. main' = Append(main, "MouseMove") /\ moves'.processing = TRUE /\ moves'.next = moves.next
      BY <1>3, <2>2
    <3>2. \A T : NowInFlight(T) = InFlight(T) + One("MouseMove", T) /\ InFlight(T) \in Nat
      BY <1>1, <3>1, Families, InFlightIsNat, SendAdds DEF NowInFlight, IInv
    <3>3. /\ NowInFlight({"MouseMove"}) = 1
          /\ NowInFlight(KeyType) = InFlight(KeyType)
          /\ NowInFlight({"Wheel"}) = InFlight({"Wheel"})
          /\ NowInFlight(TouchType) = InFlight(TouchType)
          /\ NowInFlight(Buttons) = InFlight(Buttons)
      BY <2>2, <3>2, Families DEF IInv, ProxyKnowsWhatIsInFlight
    <3>4. QED
      BY <1>1, <3>1, <3>3, KnownNow DEF IInv, Known
  <2>3. QED
    BY <1>2, <2>1, <2>2
<1>6. WheelsAreServed'
  BY <1>1 DEF IInv, WheelsAreServed
<1>7. QED
  BY <1>4, <1>5, <1>6 DEF IInv

\* A click is in flight.
LEMMA ButtonKeeps ==
    ASSUME IInv, NEW t \in Buttons, HandleMouseButton(t)
    PROVE  IInv'
<1>1. /\ UNCHANGED <<valid, keys, wheels, batches, touches, tracking, moves>>
      /\ UNCHANGED <<wheel, handling, answers>> /\ events' \in 0..MaxEvents
      /\ timer' = TRUE /\ responsive' = responsive /\ down' \in BOOLEAN
      /\ clicks' = clicks + 1 /\ main' = Append(main, t)
  BY EventCounts, Zenon DEF HandleMouseButton, Event, Start, IInv
<1>2. \A T : NowInFlight(T) = InFlight(T) + One(t, T) /\ InFlight(T) \in Nat
  BY <1>1, Families, InFlightIsNat, SendAdds DEF NowInFlight, IInv
<1>3. /\ NowInFlight(Buttons) = InFlight(Buttons) + 1 /\ InFlight(Buttons) = clicks
      /\ NowInFlight(KeyType) = InFlight(KeyType)
      /\ NowInFlight({"MouseMove"}) = InFlight({"MouseMove"})
      /\ NowInFlight({"Wheel"}) = InFlight({"Wheel"})
      /\ NowInFlight(TouchType) = InFlight(TouchType)
  BY <1>2, Families DEF IInv, ProxyKnowsWhatIsInFlight, Buttons
<1>4. clicks' \in Nat /\ clicks' > 0
  BY <1>1, <1>2, <1>3
<1>5. TypeOK'
  <2>1. main' \in Seq(Type) /\ clicks' \in Int
    BY <1>1, <1>4, Families DEF IInv, TypeOK
  <2>2. QED
    BY <1>1, <2>1 DEF IInv, TypeOK
<1>6. ProxyKnowsWhatIsInFlight'
  BY <1>1, <1>3, KnownNow DEF IInv, Known
<1>7. WheelsAreServed'
  BY <1>1, <1>4 DEF IInv, WheelsAreServed
<1>8. QED
  BY <1>5, <1>6, <1>7 DEF IInv

\* A touch is in flight.
LEMMA TouchKeeps ==
    ASSUME IInv, NEW t \in TouchType, NEW released \in BOOLEAN, HandleTouchEvent(t, released)
    PROVE  IInv'
<1>1. /\ UNCHANGED <<valid, keys, wheels, batches, moves, down, clicks>>
      /\ UNCHANGED <<wheel, handling, answers>> /\ events' \in 0..MaxEvents
      /\ timer' = TRUE /\ responsive' = responsive /\ tracking' \in BOOLEAN
      /\ touches' = Append(touches, t) /\ main' = Append(main, t)
  BY EventCounts, Zenon DEF HandleTouchEvent, Event, Start, IInv
<1>2. /\ touches' \in Seq(TouchType) /\ touches' # <<>> /\ main' \in Seq(Type)
      /\ Len(touches') = Len(touches) + 1
  <2>1. touches \in Seq(TouchType) /\ main \in Seq(Type) /\ t \in Type
    BY Families DEF IInv, TypeOK
  <2>2. QED
    BY <1>1, <2>1
<1>3. \A T : NowInFlight(T) = InFlight(T) + One(t, T) /\ InFlight(T) \in Nat
  BY <1>1, Families, InFlightIsNat, SendAdds DEF NowInFlight, IInv
<1>4. /\ NowInFlight(TouchType) = InFlight(TouchType) + 1
      /\ NowInFlight(KeyType) = InFlight(KeyType)
      /\ NowInFlight({"MouseMove"}) = InFlight({"MouseMove"})
      /\ NowInFlight({"Wheel"}) = InFlight({"Wheel"})
      /\ NowInFlight(Buttons) = InFlight(Buttons)
  BY <1>3, Families
<1>5. TypeOK'
  BY <1>1, <1>2 DEF IInv, TypeOK
<1>6. ProxyKnowsWhatIsInFlight'
  BY <1>1, <1>2, <1>4, KnownNow DEF IInv, Known
<1>7. WheelsAreServed'
  BY <1>1, <1>2 DEF IInv, WheelsAreServed
<1>8. QED
  BY <1>5, <1>6, <1>7 DEF IInv

\* The answer to the key event in flight: the next one is, if there is one.
LEMMA KeyAnswerKeeps ==
    ASSUME IInv, DidReceiveKeyEvent
    PROVE  IInv'
<1> DEFINE t == Head(answers)
<1>1. /\ UNCHANGED <<valid, wheels, batches, touches, tracking, moves, down, clicks>>
      /\ UNCHANGED <<wheel, handling, events>> /\ answers # <<>> /\ t \in KeyType
      /\ timer' = FALSE /\ responsive' = TRUE /\ answers' = Tail(answers)
      /\ keys # <<>> /\ keys' = Tail(keys) /\ main' = SendNextKey(Tail(keys))
  BY DEF DidReceiveKeyEvent, Answer, Stop, MessageCheck
<1> HIDE DEF t
<1>2. /\ keys' \in Seq(KeyType) /\ answers' \in Seq(Type) /\ main \in Seq(Type)
      /\ keys' # <<>> => Head(keys') \in KeyType
  BY <1>1 DEF IInv, TypeOK
<1>3. Channels(main, wheel, handling, Tail(answers))
  BY <1>1, <1>2 DEF IInv, TypeOK, Channels
<1>4. \A T : /\ Total(main, wheel, handling, Tail(answers), T) = InFlight(T) - One(t, T)
             /\ InFlight(T) \in Nat
  BY <1>1, InFlightIsNat, AnswerTakes DEF IInv, t
<1>5. InFlight(KeyType) = 1
  BY <1>1 DEF IInv, ProxyKnowsWhatIsInFlight
<1>6. /\ NowInFlight(KeyType) = IF keys' = <<>> THEN 0 ELSE 1
      /\ NowInFlight({"MouseMove"}) = InFlight({"MouseMove"})
      /\ NowInFlight({"Wheel"}) = InFlight({"Wheel"})
      /\ NowInFlight(TouchType) = InFlight(TouchType)
      /\ NowInFlight(Buttons) = InFlight(Buttons)
  <2>1. CASE keys' = <<>>
    <3>1. \A T : NowInFlight(T) = InFlight(T) - One(t, T)
      BY <1>1, <1>4, <2>1 DEF NowInFlight, SendNextKey
    <3>2. NowInFlight(KeyType) = 0
      BY <1>1, <1>5, <3>1, Families
    <3>3. \A T : One(t, T) = 0 => NowInFlight(T) = InFlight(T)
      BY <1>4, <3>1
    <3>4. QED
      BY <1>1, <2>1, <3>2, <3>3, Families
  <2>2. CASE keys' # <<>>
    <3> DEFINE n == Head(keys')
    <3>1. n \in KeyType /\ n \in Type /\ main' = Append(main, n)
      BY <1>1, <1>2, <2>2, Families DEF SendNextKey
    <3> HIDE DEF n
    <3>2. \A T : NowInFlight(T) = InFlight(T) - One(t, T) + One(n, T)
      <4> SUFFICES ASSUME NEW T PROVE NowInFlight(T) = InFlight(T) - One(t, T) + One(n, T)
        OBVIOUS
      <4>1. NowInFlight(T) = Total(Append(main, n), wheel, handling, Tail(answers), T)
        BY <1>1, <3>1 DEF NowInFlight
      <4>2. /\ Channels(main, wheel, handling, answers)
            /\ InFlight(T) = Total(main, wheel, handling, answers, T)
        BY InFlightIsNat DEF IInv
      <4>3. Total(Append(main, n), wheel, handling, Tail(answers), T)
              = Total(main, wheel, handling, answers, T) - One(t, T) + One(n, T)
        BY <1>1, <3>1, <4>2, AnswerAndSend DEF t
      <4>4. QED
        BY <4>1, <4>2, <4>3, Zenon
    <3>3. NowInFlight(KeyType) = 1
      BY <1>1, <1>5, <3>1, <3>2, Families
    <3>4. \A T : One(t, T) = 0 /\ One(n, T) = 0 => NowInFlight(T) = InFlight(T)
      BY <1>4, <3>2
    <3>5. QED
      BY <1>1, <2>2, <3>1, <3>3, <3>4, Families
  <2>3. QED
    BY <2>1, <2>2
<1>7. TypeOK'
  <2>1. main' \in Seq(Type)
    BY <1>1, <1>2, Families DEF SendNextKey
  <2>2. QED
    BY <1>1, <1>2, <2>1 DEF IInv, TypeOK
<1>8. ProxyKnowsWhatIsInFlight'
  BY <1>1, <1>6, KnownNow DEF IInv, Known
<1>9. WheelsAreServed'
  BY <1>1 DEF IInv, WheelsAreServed
<1>10. QED
  BY <1>7, <1>8, <1>9 DEF IInv

\* The answer to a batch: the next one is sent, if events wait.
LEMMA WheelAnswerKeeps ==
    ASSUME IInv, DidReceiveWheelEvent
    PROVE  IInv'
<1>1. /\ UNCHANGED <<valid, keys, touches, tracking, moves, down, clicks, main>>
      /\ UNCHANGED <<handling, events>> /\ answers # <<>> /\ Head(answers) = "Wheel"
      /\ responsive' = TRUE /\ answers' = Tail(answers) /\ batches # <<>>
  BY DEF DidReceiveWheelEvent, Answer, MessageCheck
<1>2. /\ wheels \in Seq(Position) /\ Tail(batches) \in Seq(Nat \ {0}) /\ Len(wheels) \in Nat
      /\ Len(batches) \in Nat /\ Len(Tail(batches)) = Len(batches) - 1
      /\ WheelEventQueueSizeThreshold \in Nat \ {0}
      /\ Len(wheels) < WheelEventQueueSizeThreshold
  BY <1>1, PageInputAssumption DEF IInv, TypeOK, WheelsAreServed
<1>3. answers' \in Seq(Type) /\ Channels(main, wheel, handling, Tail(answers))
  BY <1>1 DEF IInv, TypeOK, Channels
<1>4. \A T : /\ Total(main, wheel, handling, Tail(answers), T) = InFlight(T) - One("Wheel", T)
             /\ InFlight(T) \in Nat
  BY <1>1, InFlightIsNat, AnswerTakes DEF IInv
<1>5. CASE wheels # <<>>
  <2>1. timer' = TRUE /\ ProcessNextQueuedWheelEvent(wheels, Tail(batches))
    BY <1>5 DEF DidReceiveWheelEvent
  <2>2. /\ wheels' \in Seq(Position) /\ Len(wheels') < Len(wheels)
        /\ batches' \in Seq(Nat \ {0}) /\ Len(batches') = Len(Tail(batches)) + 1 /\ batches' # <<>>
        /\ wheel' = Append(wheel, "Wheel") /\ wheel' \in Seq({"Wheel"})
    BY <1>2, <2>1, BatchSent, Zenon DEF IInv
  <2>3. Len(batches') = Len(batches) /\ Len(wheels') < WheelEventQueueSizeThreshold
    <3>1. Len(wheels') \in Nat
      BY <2>2
    <3>2. QED
      BY <1>2, <2>2, <3>1
  <2>4. \A T : NowInFlight(T) = InFlight(T)
    <3> SUFFICES ASSUME NEW T PROVE NowInFlight(T) = InFlight(T)
      OBVIOUS
    <3>1. NowInFlight(T) = InFlight(T) - One("Wheel", T) + One("Wheel", T)
      BY <1>1, <2>2, Families, InFlightIsNat, AnswerAndSend DEF NowInFlight, IInv
    <3>2. One("Wheel", T) \in Nat /\ InFlight(T) \in Nat
      BY <1>4 DEF One
    <3>3. QED
      BY <3>1, <3>2
  <2>5. TypeOK'
    BY <1>1, <1>3, <2>1, <2>2 DEF IInv, TypeOK
  <2>6. ProxyKnowsWhatIsInFlight'
    BY <1>1, <2>3, <2>4, KnownNow DEF IInv, Known
  <2>7. WheelsAreServed'
    BY <2>2, <2>3, Zenon DEF WheelsAreServed
  <2>8. QED
    BY <2>5, <2>6, <2>7 DEF IInv
<1>6. CASE wheels = <<>>
  <2>1. timer' = FALSE /\ batches' = Tail(batches) /\ wheels' = wheels /\ wheel' = wheel
    BY <1>6 DEF DidReceiveWheelEvent
  <2>2. \A T : NowInFlight(T) = InFlight(T) - One("Wheel", T)
    BY <1>1, <1>4, <2>1 DEF NowInFlight
  <2>3. NowInFlight({"Wheel"}) = InFlight({"Wheel"}) - 1
    BY <2>2, Families
  <2>4. \A T : One("Wheel", T) = 0 => NowInFlight(T) = InFlight(T)
    BY <1>4, <2>2
  <2>5. TypeOK'
    BY <1>1, <1>2, <1>3, <2>1 DEF IInv, TypeOK
  <2>6. ProxyKnowsWhatIsInFlight'
    BY <1>1, <1>2, <2>1, <2>3, <2>4, Families, KnownNow DEF IInv, Known
  <2>7. WheelsAreServed'
    BY <1>2, <1>6, <2>1 DEF WheelsAreServed
  <2>8. QED
    BY <2>5, <2>6, <2>7 DEF IInv
<1>7. QED
  BY <1>5, <1>6

\* The answer to the move in flight: the one that waited is sent.
LEMMA MoveAnswerKeeps ==
    ASSUME IInv, DidReceiveMouseMove
    PROVE  IInv'
<1>1. /\ UNCHANGED <<valid, keys, wheels, batches, touches, tracking, down, clicks>>
      /\ UNCHANGED <<timer, responsive, wheel, handling, events>>
      /\ answers # <<>> /\ Head(answers) = "MouseMove" /\ answers' = Tail(answers)
  BY DEF DidReceiveMouseMove, Answer, timers
<1>2. moves \in [processing : BOOLEAN, next : BOOLEAN] /\ main \in Seq(Type) /\ answers' \in Seq(Type)
  BY <1>1 DEF IInv, TypeOK
<1>3. Channels(main, wheel, handling, Tail(answers))
  BY <1>1 DEF IInv, TypeOK, Channels
<1>4. \A T : /\ Total(main, wheel, handling, Tail(answers), T) = InFlight(T) - One("MouseMove", T)
             /\ InFlight(T) \in Nat
  BY <1>1, InFlightIsNat, AnswerTakes DEF IInv
<1>5. moves.processing = TRUE
  <2>1. CASE moves.processing = FALSE
    <3>1. InFlight({"MouseMove"}) = 0
      BY <2>1 DEF IInv, ProxyKnowsWhatIsInFlight
    <3>2. Total(main, wheel, handling, Tail(answers), {"MouseMove"}) = -1
      BY <1>4, <3>1, Families
    <3>3. Total(main, wheel, handling, Tail(answers), {"MouseMove"}) \in Nat
      BY <1>3, TotalIsNat
    <3>4. QED
      BY <3>2, <3>3
  <2>2. QED
    BY <1>2, <2>1
<1>6. InFlight({"MouseMove"}) = 1
  BY <1>5 DEF IInv, ProxyKnowsWhatIsInFlight
<1>7. WheelsAreServed'
  BY <1>1 DEF IInv, WheelsAreServed
<1>8. CASE moves.next = TRUE
  <2>1. moves' = [processing |-> TRUE, next |-> FALSE] /\ main' = Append(main, "MouseMove")
    BY <1>8 DEF DidReceiveMouseMove
  <2>2. \A T : NowInFlight(T) = InFlight(T)
    <3> SUFFICES ASSUME NEW T PROVE NowInFlight(T) = InFlight(T)
      OBVIOUS
    <3>1. NowInFlight(T) = InFlight(T) - One("MouseMove", T) + One("MouseMove", T)
      BY <1>1, <2>1, Families, InFlightIsNat, AnswerAndSend DEF NowInFlight, IInv
    <3>2. One("MouseMove", T) \in Nat /\ InFlight(T) \in Nat
      BY <1>4 DEF One
    <3>3. QED
      BY <3>1, <3>2
  <2>3. main' \in Seq(Type) /\ moves' \in [processing : BOOLEAN, next : BOOLEAN]
    BY <1>2, <2>1, Families
  <2>4. moves'.processing = TRUE /\ moves'.next = FALSE
    BY <2>1
  <2>5. TypeOK'
    BY <1>1, <1>2, <2>3 DEF IInv, TypeOK
  <2>6. ProxyKnowsWhatIsInFlight'
    BY <1>1, <1>6, <2>2, <2>4, KnownNow DEF IInv, Known
  <2>7. QED
    BY <1>7, <2>5, <2>6 DEF IInv
<1>9. CASE moves.next = FALSE
  <2>1. moves' = [processing |-> FALSE, next |-> FALSE] /\ main' = main
    BY <1>9 DEF DidReceiveMouseMove, Idle
  <2>2. \A T : NowInFlight(T) = InFlight(T) - One("MouseMove", T)
    BY <1>1, <1>4, <2>1 DEF NowInFlight
  <2>3. NowInFlight({"MouseMove"}) = 0
    BY <1>6, <2>2, Families
  <2>4. \A T : One("MouseMove", T) = 0 => NowInFlight(T) = InFlight(T)
    BY <1>4, <2>2
  <2>5. moves'.processing = FALSE /\ moves'.next = FALSE
        /\ moves' \in [processing : BOOLEAN, next : BOOLEAN]
    BY <2>1
  <2>6. TypeOK'
    BY <1>1, <1>2, <2>1, <2>5 DEF IInv, TypeOK
  <2>7. ProxyKnowsWhatIsInFlight'
    BY <1>1, <2>3, <2>4, <2>5, Families, KnownNow DEF IInv, Known
  <2>8. QED
    BY <1>7, <2>6, <2>7 DEF IInv
<1>10. QED
  BY <1>2, <1>8, <1>9

\* The answer to a click.
LEMMA ButtonAnswerKeeps ==
    ASSUME IInv, DidReceiveMouseButton
    PROVE  IInv'
<1> DEFINE t == Head(answers)
<1>1. /\ UNCHANGED <<valid, keys, wheels, batches, touches, tracking, moves>>
      /\ UNCHANGED <<main, wheel, handling, events>>
      /\ answers # <<>> /\ t \in Buttons /\ answers' = Tail(answers)
      /\ timer' = FALSE /\ responsive' = TRUE /\ clicks' = clicks - 1
  BY DEF DidReceiveMouseButton, Answer, Stop, Buttons
<1>2. down' \in BOOLEAN
  BY Zenon DEF DidReceiveMouseButton
<1>3. \A T : NowInFlight(T) = InFlight(T) - One(t, T) /\ InFlight(T) \in Nat
  BY <1>1, InFlightIsNat, AnswerTakes DEF NowInFlight, IInv
<1> HIDE DEF t
<1>4. \A T : One(t, T) = 0 => NowInFlight(T) = InFlight(T)
  BY <1>3
<1>5. NowInFlight(Buttons) = InFlight(Buttons) - 1
  BY <1>1, <1>3, Families
<1>6. TypeOK'
  <2>1. answers' \in Seq(Type) /\ clicks' \in Int
    BY <1>1 DEF IInv, TypeOK
  <2>2. QED
    BY <1>1, <1>2, <2>1 DEF IInv, TypeOK
<1>7. ProxyKnowsWhatIsInFlight'
  BY <1>1, <1>4, <1>5, Families, KnownNow DEF IInv, Known
<1>8. WheelsAreServed'
  BY <1>1 DEF IInv, WheelsAreServed
<1>9. QED
  BY <1>6, <1>7, <1>8 DEF IInv

\* The answer to a touch.
LEMMA TouchAnswerKeeps ==
    ASSUME IInv, DidReceiveTouchEvent
    PROVE  IInv'
<1> DEFINE t == Head(answers)
<1>1. /\ UNCHANGED <<valid, keys, wheels, batches, tracking, moves, down, clicks>>
      /\ UNCHANGED <<main, wheel, handling, events>>
      /\ answers # <<>> /\ t \in TouchType /\ answers' = Tail(answers)
      /\ timer' = FALSE /\ responsive' = TRUE
      /\ touches # <<>> /\ touches' = Tail(touches)
  BY DEF DidReceiveTouchEvent, Answer, Stop, MessageCheck
<1>2. /\ touches' \in Seq(TouchType) /\ Len(touches') = Len(touches) - 1
      /\ answers' \in Seq(Type)
  <2>1. touches \in Seq(TouchType) /\ answers \in Seq(Type)
    BY DEF IInv, TypeOK
  <2>2. QED
    BY <1>1, <2>1
<1>3. \A T : NowInFlight(T) = InFlight(T) - One(t, T) /\ InFlight(T) \in Nat
  BY <1>1, InFlightIsNat, AnswerTakes DEF NowInFlight, IInv
<1> HIDE DEF t
<1>4. \A T : One(t, T) = 0 => NowInFlight(T) = InFlight(T)
  BY <1>3
<1>5. NowInFlight(TouchType) = InFlight(TouchType) - 1
  BY <1>1, <1>3, Families
<1>6. TypeOK'
  BY <1>1, <1>2 DEF IInv, TypeOK
<1>7. ProxyKnowsWhatIsInFlight'
  BY <1>1, <1>2, <1>4, <1>5, Families, KnownNow DEF IInv, Known
<1>8. WheelsAreServed'
  BY <1>1 DEF IInv, WheelsAreServed
<1>9. QED
  BY <1>6, <1>7, <1>8 DEF IInv

\* Empty queues and counters have their types.
LEMMA NothingIsTyped ==
    /\ \A X : <<>> \in Seq(X)
    /\ Idle \in [processing : BOOLEAN, next : BOOLEAN]
    /\ 0 \in Int /\ \A n \in Nat : 0 \in 0..n
BY DEF Idle

\* With the process gone nothing is queued or in flight.
LEMMA LeaveKeeps ==
    ASSUME IInv, Leave
    PROVE  IInv'
<1>1. /\ valid' = FALSE /\ keys' = <<>> /\ wheels' = <<>> /\ batches' = <<>> /\ touches' = <<>>
      /\ tracking' = FALSE /\ moves' = Idle /\ down' = FALSE /\ clicks' = 0
      /\ timer' = FALSE /\ responsive' = responsive /\ events' = events
      /\ main' = <<>> /\ wheel' = <<>> /\ handling' = <<>> /\ answers' = <<>>
  BY DEF Leave, ProcessDidExit, NothingQueued, Invalidate
<1>2. TypeOK'
  BY <1>1, NothingIsTyped, Zenon DEF IInv, TypeOK
<1>3. \A T : NowInFlight(T) = 0
  BY <1>1, CountEmpty DEF NowInFlight, Total
<1>4. moves'.processing = FALSE /\ moves'.next = FALSE
  BY <1>1 DEF Idle
<1>5. ProxyKnowsWhatIsInFlight'
  BY <1>1, <1>3, <1>4, KnownNow DEF Known
<1>6. WheelsAreServed'
  BY <1>1, PageInputAssumption DEF WheelsAreServed
<1>7. QED
  BY <1>2, <1>5, <1>6 DEF IInv

\* The timer's own steps, and a new process, touch no event.
LEMMA FiredKeeps ==
    ASSUME IInv, TimerFired \/ OtherUse \/ Reattach \/ UNCHANGED vars
    PROVE  IInv'
<1>1. /\ UNCHANGED <<keys, wheels, batches, touches, tracking, moves, down, clicks>>
      /\ UNCHANGED <<main, wheel, handling, answers, events>>
  BY DEF TimerFired, OtherUse, Reattach, vars, queues, web
<1>2. valid' \in BOOLEAN
  BY DEF TimerFired, OtherUse, Reattach, vars, IInv, TypeOK
<1>3. timer' \in BOOLEAN /\ responsive' \in BOOLEAN
  <2>1. CASE TimerFired
    BY <2>1 DEF TimerFired
  <2>2. CASE OtherUse
    BY <2>2, Zenon DEF OtherUse, Start, Stop, IInv, TypeOK
  <2>3. CASE Reattach
    BY <2>3 DEF Reattach
  <2>4. CASE UNCHANGED vars
    BY <2>4 DEF vars, timers, IInv, TypeOK
  <2>5. QED
    BY <2>1, <2>2, <2>3, <2>4
<1>4. TypeOK'
  BY <1>1, <1>2, <1>3 DEF IInv, TypeOK
<1>5. \A T : NowInFlight(T) = InFlight(T)
  BY <1>1, InFlightIsNat DEF NowInFlight, IInv
<1>6. ProxyKnowsWhatIsInFlight'
  BY <1>1, <1>5, KnownNow DEF IInv
<1>7. WheelsAreServed'
  BY <1>1 DEF IInv, WheelsAreServed
<1>8. QED
  BY <1>4, <1>6, <1>7 DEF IInv

-----------------------------------------------------------------------------
(* Theorems.                                                               *)

\* The invariant holds from the start and every step keeps it.
THEOREM Invariant == Spec => []IInv
<1>1. Init => IInv
  <2> SUFFICES ASSUME Init PROVE IInv
    OBVIOUS
  <2>1. TypeOK
    BY NothingIsTyped, PageInputAssumption, Zenon DEF Init, TypeOK
  <2>2. \A T : InFlight(T) = 0
    BY CountEmpty DEF Init, InFlight
  <2>3. moves.processing = FALSE /\ moves.next = FALSE
    BY DEF Init, Idle
  <2>4. ProxyKnowsWhatIsInFlight
    BY <2>2, <2>3 DEF Init, ProxyKnowsWhatIsInFlight
  <2>5. WheelsAreServed
    BY PageInputAssumption DEF Init, WheelsAreServed
  <2>6. QED
    BY <2>1, <2>4, <2>5 DEF IInv
<1>2. IInv /\ [Next]_vars => IInv'
  <2> SUFFICES ASSUME IInv, [Next]_vars PROVE IInv'
    OBVIOUS
  <2>1. CASE User
    <3>1. CASE \E t \in KeyType : HandleKeyboardEvent(t)
      BY <3>1, KeyKeeps
    <3>2. CASE \E x \in Position : HandleWheelEvent(x)
      BY <3>2, WheelKeeps
    <3>3. CASE HandleMouseMove
      BY <3>3, MoveKeeps
    <3>4. CASE \E t \in {"MouseDown", "MouseUp"} : HandleMouseButton(t)
      BY <3>4, ButtonKeeps DEF Buttons
    <3>5. CASE \E t \in TouchType, released \in BOOLEAN : HandleTouchEvent(t, released)
      BY <3>5, TouchKeeps
    <3>6. QED
      BY <2>1, <3>1, <3>2, <3>3, <3>4, <3>5 DEF User
  <2>2. CASE Web
    BY <2>2, WebKeeps
  <2>3. CASE Receive
    <3>1. CASE DidReceiveInvalidMessage
      BY <3>1, LeaveKeeps DEF DidReceiveInvalidMessage
    <3>2. QED
      BY <2>3, <3>1, KeyAnswerKeeps, WheelAnswerKeeps, MoveAnswerKeeps, ButtonAnswerKeeps,
         TouchAnswerKeeps DEF Receive
  <2>4. CASE ProcessDidCrash
    BY <2>4, LeaveKeeps DEF ProcessDidCrash
  <2>5. CASE TimerFired \/ OtherUse \/ Reattach \/ UNCHANGED vars
    BY <2>5, FiredKeeps
  <2>6. QED
    BY <2>1, <2>2, <2>3, <2>4, <2>5 DEF Next
<1>3. QED
  BY <1>1, <1>2, PTL DEF Spec

\* The variables keep their types.
THEOREM TypeCorrect == Spec => []TypeOK
BY Invariant, PTL DEF IInv

\* The proxy's queues, flags and counts agree with the events in flight, also
\* when handlers nest and when a process dies with events in flight.
THEOREM ProxyKnows == Spec => []ProxyKnowsWhatIsInFlight
BY Invariant, PTL DEF IInv

\* Wheel events never wait for nothing, nor beyond the threshold.
THEOREM WheelQueueIsServed == Spec => []WheelsAreServed
BY Invariant, PTL DEF IInv

-----------------------------------------------------------------------------
(* The checks of didReceiveEvent.                                          *)

Holds(s, t) == \E i \in 1..Len(s) : s[i] = t

\* A key event is on its way to the web process, handled or answered.
OnItsWay(t) == Holds(main, t) \/ Holds(handling, t) \/ Holds(answers, t)

\* Only the oldest of the queued key events is.
OldestKeyOnly == \A t \in KeyType : OnItsWay(t) => keys # <<>> /\ t = Head(keys)

\* What the channels' operations do to what they hold.
LEMMA HoldsAfter ==
    ASSUME NEW X, NEW s \in Seq(X), NEW t
    PROVE  /\ \A e : Holds(Append(s, e), t) => Holds(s, t) \/ t = e
           /\ s # <<>> => /\ Holds(s, Head(s)) /\ Holds(s, s[Len(s)])
                          /\ Holds(Tail(s), t) => Holds(s, t)
                          /\ Holds(SubSeq(s, 1, Len(s) - 1), t) => Holds(s, t)
<1>1. Len(s) \in Nat
  OBVIOUS
<1>2. ASSUME NEW e, Holds(Append(s, e), t) PROVE Holds(s, t) \/ t = e
  BY <1>2 DEF Holds
<1>3. ASSUME s # <<>>
      PROVE  /\ Holds(s, Head(s)) /\ Holds(s, s[Len(s)])
             /\ Holds(Tail(s), t) => Holds(s, t)
             /\ Holds(SubSeq(s, 1, Len(s) - 1), t) => Holds(s, t)
  <2>1. Len(s) \in Nat \ {0} /\ 1 \in 1..Len(s) /\ Len(s) \in 1..Len(s) /\ Head(s) = s[1]
    BY <1>3
  <2>2. Holds(s, Head(s)) /\ Holds(s, s[Len(s)])
    BY <2>1 DEF Holds
  <2>3. ASSUME Holds(Tail(s), t) PROVE Holds(s, t)
    <3>1. PICK i \in 1..Len(Tail(s)) : Tail(s)[i] = t
      BY <2>3 DEF Holds
    <3>2. i + 1 \in 1..Len(s) /\ s[i + 1] = t
      BY <1>3, <2>1, <3>1
    <3>3. QED
      BY <3>2 DEF Holds
  <2>4. ASSUME Holds(SubSeq(s, 1, Len(s) - 1), t) PROVE Holds(s, t)
    <3>1. PICK i \in 1..Len(SubSeq(s, 1, Len(s) - 1)) : SubSeq(s, 1, Len(s) - 1)[i] = t
      BY <2>4 DEF Holds
    <3>2. /\ Len(SubSeq(s, 1, Len(s) - 1)) = Len(s) - 1
          /\ \A j \in 1..Len(s) - 1 : SubSeq(s, 1, Len(s) - 1)[j] = s[j]
      BY <1>3, PopFront
    <3>3. i \in 1..Len(s) /\ s[i] = t
      BY <2>1, <3>1, <3>2
    <3>4. QED
      BY <3>3 DEF Holds
  <2>5. QED
    BY <2>2, <2>3, <2>4
<1>4. QED
  BY <1>2, <1>3

\* A sequence in which no event of the types counts holds none.
LEMMA NoneHeld ==
    ASSUME NEW X, NEW s \in Seq(X), NEW T, Count(s, T) = 0, NEW t \in T
    PROVE  ~Holds(s, t)
<1> DEFINE I == {i \in DOMAIN s : s[i] \in T}
<1>1. IsFiniteSet(I) /\ Cardinality(I) = 0
  BY CountIsNat DEF Count
<1>2. I = {}
  BY <1>1, FS_EmptySet
<1>3. DOMAIN s = 1..Len(s)
  OBVIOUS
<1>4. QED
  BY <1>2, <1>3 DEF Holds

\* Steps that leave the key events alone and put none on its way.
LEMMA SameKeys ==
    ASSUME OldestKeyOnly, keys' = keys, \A t \in KeyType : OnItsWay(t)' => OnItsWay(t)
    PROVE  OldestKeyOnly'
  BY DEF OldestKeyOnly, OnItsWay, Holds

LEMMA OldestKeyStep == ASSUME IInv, OldestKeyOnly, [Next]_vars PROVE OldestKeyOnly'
<1>1. /\ main \in Seq(Type) /\ handling \in Seq(Type) /\ answers \in Seq(Type)
      /\ keys \in Seq(KeyType) /\ wheel \in Seq({"Wheel"})
  BY DEF IInv, TypeOK
<1>2. \A t \in KeyType : t \notin {"Wheel", "MouseMove", "MouseDown", "MouseUp"} \cup TouchType
  BY PageInputAssumption DEF MouseType
<1>3. ASSUME keys' = keys, handling' = handling, answers' = answers \/ answers' = Tail(answers),
             answers # <<>> \/ answers' = answers,
             \/ main' = main
             \/ \E e \in {"Wheel", "MouseMove", "MouseDown", "MouseUp"} \cup TouchType :
                   main' = Append(main, e)
      PROVE  OldestKeyOnly'
  <2>1. ASSUME NEW t \in KeyType PROVE Holds(main', t) => Holds(main, t)
    BY <1>1, <1>2, <1>3, HoldsAfter
  <2>2. ASSUME NEW t \in KeyType PROVE Holds(answers', t) => Holds(answers, t)
    BY <1>1, <1>3, HoldsAfter
  <2>3. QED
    BY <1>3, <2>1, <2>2, SameKeys DEF OnItsWay
<1>4. ASSUME NEW t \in KeyType, HandleKeyboardEvent(t) PROVE OldestKeyOnly'
  <2>1. /\ keys' = Append(keys, t) /\ handling' = handling /\ answers' = answers
        /\ main' = IF Len(keys') = 1 THEN Append(main, t) ELSE main
    BY <1>4 DEF HandleKeyboardEvent, Event
  <2>2. CASE keys = <<>>
    <3>1. main' = Append(main, t) /\ keys' # <<>> /\ Head(keys') = t
      BY <1>1, <2>1, <2>2
    <3>2. ASSUME NEW u \in KeyType, OnItsWay(u)' PROVE u = t
      <4>1. Holds(main', u) \/ Holds(handling, u) \/ Holds(answers, u)
        BY <2>1, <3>2 DEF OnItsWay
      <4>2. ~OnItsWay(u)
        BY <2>2 DEF OldestKeyOnly
      <4>3. Holds(main', u) => Holds(main, u) \/ u = t
        BY <1>1, <3>1, HoldsAfter
      <4>4. QED
        BY <4>1, <4>2, <4>3 DEF OnItsWay
    <3>3. QED
      BY <3>1, <3>2 DEF OldestKeyOnly, OnItsWay
  <2>3. CASE keys # <<>>
    <3>1. main' = main /\ keys' # <<>> /\ Head(keys') = Head(keys)
      <4>1. Len(keys) \in Nat \ {0} /\ Len(keys') = Len(keys) + 1
        BY <1>1, <2>1, <2>3
      <4>2. Len(keys') # 1
        BY <4>1
      <4>3. QED
        BY <1>1, <2>1, <2>3, <4>2
    <3>2. QED
      BY <2>1, <3>1 DEF OldestKeyOnly, OnItsWay, Holds
  <2>4. QED
    BY <2>2, <2>3
<1>5. CASE \E x \in Position : HandleWheelEvent(x)
  BY <1>3, <1>5 DEF HandleWheelEvent, Event
<1>6. CASE HandleMouseMove
  BY <1>3, <1>6 DEF HandleMouseMove, Event
<1>7. CASE \E t \in {"MouseDown", "MouseUp"} : HandleMouseButton(t)
  BY <1>3, <1>7 DEF HandleMouseButton, Event
<1>8. CASE \E t \in TouchType, released \in BOOLEAN : HandleTouchEvent(t, released)
  BY <1>3, <1>8 DEF HandleTouchEvent, Event
<1>9. CASE DispatchMain
  <2>1. /\ main # <<>> /\ main' = Tail(main) /\ handling' = Append(handling, Head(main))
        /\ answers' = answers /\ keys' = keys
    BY <1>9 DEF DispatchMain, queues
  <2>2. ASSUME NEW t \in KeyType, OnItsWay(t)' PROVE OnItsWay(t)
    <3>1. Holds(main', t) => Holds(main, t)
      BY <1>1, <2>1, HoldsAfter
    <3>2. Holds(handling', t) => Holds(handling, t) \/ Holds(main, t)
      BY <1>1, <2>1, HoldsAfter
    <3>3. QED
      BY <2>1, <2>2, <3>1, <3>2 DEF OnItsWay
  <2>3. QED
    BY <2>1, <2>2, SameKeys
<1>10. CASE DispatchWheelEvent
  <2>1. /\ main' = main /\ handling' = Append(handling, "Wheel") /\ answers' = answers /\ keys' = keys
    BY <1>1, <1>10 DEF DispatchWheelEvent, queues
  <2>2. ASSUME NEW t \in KeyType, OnItsWay(t)' PROVE OnItsWay(t)
    <3>1. Holds(handling', t) => Holds(handling, t)
      BY <1>1, <1>2, <2>1, HoldsAfter
    <3>2. QED
      BY <2>1, <2>2, <3>1 DEF OnItsWay
  <2>3. QED
    BY <2>1, <2>2, SameKeys
<1>11. CASE HandlerReturns
  <2>1. /\ main' = main /\ keys' = keys /\ handling # <<>>
        /\ answers' = Append(answers, handling[Len(handling)])
        /\ handling' = SubSeq(handling, 1, Len(handling) - 1)
    BY <1>11 DEF HandlerReturns, queues
  <2>2. ASSUME NEW t \in KeyType, OnItsWay(t)' PROVE OnItsWay(t)
    <3>1. Holds(handling', t) => Holds(handling, t)
      BY <1>1, <2>1, HoldsAfter
    <3>2. Holds(answers', t) => Holds(answers, t) \/ Holds(handling, t)
      BY <1>1, <2>1, HoldsAfter
    <3>3. QED
      BY <2>1, <2>2, <3>1, <3>2 DEF OnItsWay
  <2>3. QED
    BY <2>1, <2>2, SameKeys
<1>12. CASE DidReceiveKeyEvent
  <2>1. /\ keys # <<>> /\ keys' = Tail(keys) /\ main' = SendNextKey(Tail(keys)) /\ wheel' = wheel
        /\ answers # <<>> /\ Head(answers) \in KeyType /\ answers' = Tail(answers)
        /\ handling' = handling
    BY <1>12 DEF DidReceiveKeyEvent, Answer, MessageCheck
  \* The answered event was the only one on its way.
  <2>2. Total(main, wheel, handling, Tail(answers), KeyType) = 0
    <3>1. InFlight(KeyType) = 1
      BY <2>1 DEF IInv, ProxyKnowsWhatIsInFlight
    <3>2. Channels(main, wheel, handling, answers)
            /\ InFlight(KeyType) = Total(main, wheel, handling, answers, KeyType)
      BY InFlightIsNat DEF IInv
    <3>3. One(Head(answers), KeyType) = 1
      BY <2>1, Families
    <3>4. QED
      BY <2>1, <3>1, <3>2, <3>3, AnswerTakes
  <2>3. /\ Count(main, KeyType) = 0 /\ Count(handling, KeyType) = 0
        /\ Count(Tail(answers), KeyType) = 0
    <3>1. Channels(main, wheel, handling, Tail(answers))
      BY <1>1, <2>1 DEF Channels
    <3>2. QED
      BY <2>2, <3>1, TotalIsNat DEF Total
  <2>4. ASSUME NEW t \in KeyType
        PROVE  ~Holds(main, t) /\ ~Holds(handling, t) /\ ~Holds(Tail(answers), t)
    <3>1. Tail(answers) \in Seq(Type)
      BY <1>1, <2>1
    <3>2. QED
      BY <1>1, <2>3, <3>1, NoneHeld
  <2>5. CASE Tail(keys) = <<>>
    BY <2>1, <2>4, <2>5 DEF SendNextKey, OldestKeyOnly, OnItsWay
  <2>6. CASE Tail(keys) # <<>>
    <3>1. main' = Append(main, Head(keys')) /\ keys' # <<>>
      BY <2>1, <2>6 DEF SendNextKey
    <3>2. ASSUME NEW t \in KeyType, OnItsWay(t)' PROVE t = Head(keys')
      <4>1. Holds(main', t)
        BY <2>1, <2>4, <3>2 DEF OnItsWay
      <4>2. QED
        BY <1>1, <2>4, <3>1, <4>1, HoldsAfter
    <3>3. QED
      BY <3>1, <3>2 DEF OldestKeyOnly, OnItsWay
  <2>7. QED
    BY <2>5, <2>6
<1>13. CASE DidReceiveWheelEvent
  BY <1>3, <1>13 DEF DidReceiveWheelEvent, Answer
<1>14. CASE DidReceiveMouseMove
  BY <1>3, <1>14 DEF DidReceiveMouseMove, Answer
<1>15. CASE DidReceiveMouseButton
  BY <1>3, <1>15 DEF DidReceiveMouseButton, Answer
<1>16. CASE DidReceiveTouchEvent
  BY <1>3, <1>16 DEF DidReceiveTouchEvent, Answer
<1>17. ASSUME Leave PROVE OldestKeyOnly'
  <2>1. main' = <<>> /\ handling' = <<>> /\ answers' = <<>>
    BY <1>17 DEF Leave
  <2>2. \A t : ~Holds(<<>>, t)
    BY DEF Holds
  <2>3. QED
    BY <2>1, <2>2 DEF OldestKeyOnly, OnItsWay
<1>18. CASE TimerFired \/ OtherUse \/ Reattach \/ UNCHANGED vars
  BY <1>3, <1>18 DEF TimerFired, OtherUse, Reattach, vars, queues, web
<1>19. QED
  BY <1>4, <1>5, <1>6, <1>7, <1>8, <1>9, <1>10, <1>11, <1>12, <1>13, <1>14, <1>15, <1>16,
      <1>17, <1>18 DEF Next, User, Web, Receive, DidReceiveInvalidMessage, ProcessDidCrash

\* The checks in didReceiveEvent never fail for a process that answers the key,
\* wheel and mouse events it was sent, in whatever order its nested handlers
\* return: only the oldest key event is ever on its way, and an answer to a
\* wheel event has a batch.
THEOREM AnswersAlwaysPass == Spec => []AnswersPass
<1>1. Init => OldestKeyOnly
  BY DEF Init, OldestKeyOnly, OnItsWay, Holds
<1>2. IInv /\ OldestKeyOnly /\ [Next]_vars => OldestKeyOnly'
  BY OldestKeyStep
<1>3. ASSUME IInv, OldestKeyOnly PROVE AnswersPass
  <2> SUFFICES ASSUME answers # <<>>, Head(answers) \notin TouchType
               PROVE  MessageCheck(Head(answers))
    BY DEF AnswersPass
  <2>1. answers \in Seq(Type)
    BY <1>3 DEF IInv, TypeOK
  <2>2. ASSUME Head(answers) = "Wheel" PROVE batches # <<>>
    <3>1. Channels(main, wheel, handling, answers)
            /\ InFlight({"Wheel"}) = Total(main, wheel, handling, answers, {"Wheel"})
      BY <1>3, InFlightIsNat DEF IInv
    <3>2. Total(main, wheel, handling, Tail(answers), {"Wheel"}) = InFlight({"Wheel"}) - 1
      BY <2>2, <3>1, AnswerTakes, Families
    <3>3. Total(main, wheel, handling, Tail(answers), {"Wheel"}) \in Nat
      <4>1. Channels(main, wheel, handling, Tail(answers))
        BY <2>1, <3>1 DEF Channels
      <4>2. QED
        BY <4>1, TotalIsNat
    <3>4. InFlight({"Wheel"}) = Len(batches)
      BY <1>3 DEF IInv, ProxyKnowsWhatIsInFlight
    <3>5. QED
      BY <3>2, <3>3, <3>4
  <2>3. ASSUME Head(answers) \in KeyType PROVE keys # <<>> /\ Head(keys) = Head(answers)
    <3>1. Holds(answers, Head(answers))
      BY <2>1, HoldsAfter
    <3>2. QED
      BY <1>3, <2>3, <3>1 DEF OldestKeyOnly, OnItsWay
  <2>4. QED
    BY <2>2, <2>3 DEF MessageCheck
<1>4. QED
  BY <1>1, <1>2, <1>3, Invariant, PTL DEF Spec
=============================================================================
