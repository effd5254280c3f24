------------------------ MODULE ConnectionCallProofs ------------------------
(***************************************************************************)
(* Every request of Connection is in one place and handled once, a reply   *)
(* is sent for a request that was handled, sendSyncMessage implements      *)
(* SyncCall, and unmarked messages are handled in order, for any number of *)
(* processes, connections and messages and any nesting of calls.           *)
(***************************************************************************)
EXTENDS ConnectionProofs

-----------------------------------------------------------------------------
(* The third invariant: every request is in one place.                     *)

SameKey(x, y) == x.c = y.c /\ x.msg.id = y.msg.id
Unique(q) == \A i, j \in 1..Len(q) : SameKey(q[i], q[j]) => i = j
Apart(S, T) == \A x \in S, y \in T : ~SameKey(x, y)

ItemsOn(s) == UNION {FrameItems(fr) : fr \in Elems(s)}
OnceFrame(fr) ==
    fr.f = "dispatchMessages" =>
        Unique(fr.todo) /\ Unique(fr.putBack) /\ Apart(Elems(fr.todo), Elems(fr.putBack))
OnceOn(s) ==
    /\ \A fr \in Elems(s) : OnceFrame(fr)
    /\ \A i, j \in 1..Len(s) : i < j => Apart(FrameItems(s[i]), FrameItems(s[j]))

\* A process holds no marked message twice.
Once(r) ==
    /\ Unique(r.messages) /\ OnceOn(r.stack)
    /\ Apart(Elems(r.messages), ItemsOn(r.stack))

\* A handler of m runs.
Handles(s, c, m) == \E fr \in Elems(s) : fr.f = "handler" /\ fr.c = c /\ fr.msg = m

LEMMA UniqueTail ==
    ASSUME NEW F, NEW q \in Seq(F), q # <<>>, Unique(q)
    PROVE  Unique(Tail(q)) /\ Apart({Head(q)}, Elems(Tail(q)))
<1>1. PICK t : t = Tail(q)
  OBVIOUS
<1>2. /\ Len(q) \in Nat /\ Len(q) >= 1 /\ Len(t) = Len(q) - 1 /\ Head(q) = q[1]
      /\ \A i \in 1..Len(q) - 1 : t[i] = q[i + 1]
  BY <1>1, PopFacts
<1>3. ASSUME NEW i \in 1..Len(t), NEW j \in 1..Len(t), SameKey(t[i], t[j])  PROVE i = j
  <2>1. i + 1 \in 1..Len(q) /\ j + 1 \in 1..Len(q) /\ t[i] = q[i + 1] /\ t[j] = q[j + 1]
    BY <1>2, <1>3
  <2>2. i + 1 = j + 1
    BY <1>3, <2>1 DEF Unique
  <2>3. QED
    BY <1>2, <2>2
<1>4. ASSUME NEW y \in Elems(t)  PROVE ~SameKey(Head(q), y)
  <2>1. PICK j \in 1..Len(t) : y = t[j]
    BY <1>4 DEF Elems
  <2>2. j + 1 \in 1..Len(q) /\ 1 \in 1..Len(q) /\ j + 1 # 1 /\ y = q[j + 1]
    BY <1>2, <2>1
  <2>3. QED
    BY <1>2, <2>2 DEF Unique
<1>5. QED
  BY <1>1, <1>3, <1>4 DEF Unique, Apart

LEMMA UniqueConcat ==
    ASSUME NEW F, NEW q \in Seq(F), NEW u \in Seq(F), Unique(q), Unique(u), Apart(Elems(q), Elems(u))
    PROVE  Unique(q \o u)
<1>1. PICK t : t = q \o u
  OBVIOUS
<1>2. /\ Len(q) \in Nat /\ Len(u) \in Nat /\ Len(t) = Len(q) + Len(u)
      /\ \A i \in 1..Len(q) : t[i] = q[i]
      /\ \A i \in Len(q) + 1..Len(q) + Len(u) : t[i] = u[i - Len(q)]
  BY <1>1
<1>3. ASSUME NEW i \in 1..Len(t), NEW j \in 1..Len(t), SameKey(t[i], t[j])  PROVE i = j
  <2>1. CASE i \in 1..Len(q) /\ j \in 1..Len(q)
    BY <1>2, <1>3, <2>1 DEF Unique
  <2>2. CASE i \in Len(q) + 1..Len(q) + Len(u) /\ j \in Len(q) + 1..Len(q) + Len(u)
    <3>1. /\ t[i] = u[i - Len(q)] /\ t[j] = u[j - Len(q)]
          /\ i - Len(q) \in 1..Len(u) /\ j - Len(q) \in 1..Len(u)
      BY <1>2, <2>2
    <3>2. i - Len(q) = j - Len(q)
      BY <1>3, <3>1 DEF Unique
    <3>3. QED
      BY <1>2, <3>2
  <2>3. ASSUME NEW k \in 1..Len(q), NEW l \in Len(q) + 1..Len(q) + Len(u)
        PROVE  ~SameKey(t[k], t[l]) /\ ~SameKey(t[l], t[k])
    <3>1. t[k] = q[k] /\ t[l] = u[l - Len(q)] /\ l - Len(q) \in 1..Len(u)
      BY <1>2, <2>3
    <3>2. t[k] \in Elems(q) /\ t[l] \in Elems(u)
      BY <3>1 DEF Elems
    <3>3. QED
      BY <3>2 DEF Apart, SameKey
  <2>4. /\ i \in 1..Len(q) \/ i \in Len(q) + 1..Len(q) + Len(u)
        /\ j \in 1..Len(q) \/ j \in Len(q) + 1..Len(q) + Len(u)
    BY <1>2, <1>3
  <2>5. QED
    BY <1>3, <2>1, <2>2, <2>3, <2>4
<1>4. QED
  BY <1>1, <1>3 DEF Unique

LEMMA UniqueAppend ==
    ASSUME NEW F, NEW q \in Seq(F), NEW x \in F, Unique(q), Apart({x}, Elems(q))
    PROVE  Unique(Append(q, x))
<1>1. PICK t : t = Append(q, x)
  OBVIOUS
<1>2. /\ Len(q) \in Nat /\ Len(t) = Len(q) + 1 /\ t[Len(q) + 1] = x
      /\ \A i \in 1..Len(q) : t[i] = q[i] /\ q[i] \in Elems(q)
  BY <1>1, AppendFacts, ElemsOf
<1>3. ASSUME NEW i \in 1..Len(t), NEW j \in 1..Len(t), SameKey(t[i], t[j])  PROVE i = j
  <2>1. /\ i \in 1..Len(q) \/ i = Len(q) + 1
        /\ j \in 1..Len(q) \/ j = Len(q) + 1
    BY <1>2, <1>3
  <2>2. CASE i \in 1..Len(q) /\ j \in 1..Len(q)
    BY <1>2, <1>3, <2>2 DEF Unique
  <2>3. \A k \in 1..Len(q) : ~SameKey(t[k], x) /\ ~SameKey(x, t[k])
    BY <1>2 DEF Apart, SameKey
  <2>4. QED
    BY <1>2, <1>3, <2>1, <2>2, <2>3
<1>4. QED
  BY <1>1, <1>3 DEF Unique

LEMMA UniqueEmpty == Unique(<<>>) /\ (\A S : Apart({}, S) /\ Apart(S, {}))
  BY DEF Unique, Apart

LEMMA OncePush ==
    ASSUME NEW s \in Seq(Frame), NEW fr \in Frame
    PROVE  /\ ItemsOn(Push(fr, s)) = FrameItems(fr) \cup ItemsOn(s)
           /\ OnceOn(Push(fr, s)) <=> /\ OnceFrame(fr) /\ OnceOn(s)
                                      /\ Apart(FrameItems(fr), ItemsOn(s))
<1>1. PICK t : t = Push(fr, s)
  OBVIOUS
<1>2. Elems(t) = {fr} \cup Elems(s)
  BY <1>1, ElemsPush
<1>3. ItemsOn(t) = FrameItems(fr) \cup ItemsOn(s)
  BY <1>2 DEF ItemsOn
<1>4. /\ Len(s) \in Nat /\ Len(t) = Len(s) + 1 /\ t[1] = fr
      /\ \A i \in 1..Len(s) : t[i + 1] = s[i]
      /\ \A i \in 2..Len(s) + 1 : t[i] = s[i - 1] /\ i - 1 \in 1..Len(s)
  BY <1>1 DEF Push
<1>5. ASSUME OnceOn(t)  PROVE OnceFrame(fr) /\ OnceOn(s) /\ Apart(FrameItems(fr), ItemsOn(s))
  <2>1. OnceFrame(fr) /\ \A g \in Elems(s) : OnceFrame(g)
    BY <1>2, <1>5 DEF OnceOn
  <2>2. ASSUME NEW i \in 1..Len(s), NEW j \in 1..Len(s), i < j
        PROVE  Apart(FrameItems(s[i]), FrameItems(s[j]))
    <3>1. i + 1 \in 1..Len(t) /\ j + 1 \in 1..Len(t) /\ i + 1 < j + 1 /\ t[i + 1] = s[i] /\ t[j + 1] = s[j]
      BY <1>4, <2>2
    <3>2. Apart(FrameItems(t[i + 1]), FrameItems(t[j + 1]))
      BY <1>5, <3>1 DEF OnceOn
    <3>3. QED
      BY <3>1, <3>2
  <2>3. ASSUME NEW y \in ItemsOn(s)  PROVE \A x \in FrameItems(fr) : ~SameKey(x, y)
    <3>1. PICK g \in Elems(s) : y \in FrameItems(g)
      BY <2>3 DEF ItemsOn
    <3>2. PICK j \in 1..Len(s) : s[j] = g
      BY <3>1 DEF Elems
    <3>3. 1 \in 1..Len(t) /\ j + 1 \in 1..Len(t) /\ 1 < j + 1 /\ t[1] = fr /\ t[j + 1] = g
      BY <1>4, <3>2
    <3>4. Apart(FrameItems(t[1]), FrameItems(t[j + 1]))
      BY <1>5, <3>3 DEF OnceOn
    <3>5. QED
      BY <3>1, <3>3, <3>4 DEF Apart
  <2>4. QED
    BY <2>1, <2>2, <2>3 DEF OnceOn, Apart
<1>6. ASSUME OnceFrame(fr), OnceOn(s), Apart(FrameItems(fr), ItemsOn(s))  PROVE OnceOn(t)
  <2>1. \A g \in Elems(t) : OnceFrame(g)
    BY <1>2, <1>6 DEF OnceOn
  <2>2. ASSUME NEW i \in 1..Len(t), NEW j \in 1..Len(t), i < j
        PROVE  Apart(FrameItems(t[i]), FrameItems(t[j]))
    <3>1. t[j] = s[j - 1] /\ j - 1 \in 1..Len(s)
      BY <1>4, <2>2
    <3>2. CASE i = 1
      <4>1. s[j - 1] \in Elems(s)
        BY <3>1 DEF Elems
      <4>2. FrameItems(t[j]) \subseteq ItemsOn(s)
        BY <3>1, <4>1 DEF ItemsOn
      <4>3. QED
        BY <1>4, <1>6, <3>2, <4>2 DEF Apart
    <3>3. CASE i # 1
      <4>1. t[i] = s[i - 1] /\ i - 1 \in 1..Len(s) /\ i - 1 < j - 1
        BY <1>4, <2>2, <3>1, <3>3
      <4>2. Apart(FrameItems(s[i - 1]), FrameItems(s[j - 1]))
        BY <1>6, <3>1, <4>1 DEF OnceOn
      <4>3. QED
        BY <3>1, <4>1, <4>2
    <3>4. QED
      BY <3>2, <3>3
  <2>3. QED
    BY <2>1, <2>2 DEF OnceOn
<1>7. QED
  BY <1>1, <1>3, <1>5, <1>6

LEMMA HandlesPush ==
    ASSUME NEW s \in Seq(Frame), NEW fr \in Frame, NEW c, NEW m
    PROVE  Handles(Push(fr, s), c, m) <=>
              (fr.f = "handler" /\ fr.c = c /\ fr.msg = m) \/ Handles(s, c, m)
<1>1. Elems(Push(fr, s)) = {fr} \cup Elems(s)
  BY ElemsPush
<1>2. QED
  BY <1>1 DEF Handles

\* The same for a process whose innermost frame is fr.
LEMMA OnceTop ==
    ASSUME NEW r, NEW fr \in Frame, NEW s \in Seq(Frame), r.stack = Push(fr, s)
    PROVE  Once(r) <=> /\ Unique(r.messages) /\ OnceFrame(fr) /\ OnceOn(s)
                       /\ Apart(FrameItems(fr), ItemsOn(s))
                       /\ Apart(Elems(r.messages), FrameItems(fr))
                       /\ Apart(Elems(r.messages), ItemsOn(s))
<1>1. /\ ItemsOn(Push(fr, s)) = FrameItems(fr) \cup ItemsOn(s)
      /\ OnceOn(Push(fr, s)) <=> OnceFrame(fr) /\ OnceOn(s) /\ Apart(FrameItems(fr), ItemsOn(s))
  BY OncePush
<1>2. \A S, T, U : Apart(S, T \cup U) <=> Apart(S, T) /\ Apart(S, U)
  BY DEF Apart
<1>3. QED
  BY <1>1, <1>2 DEF Once

\* The items of dispatchMessages.
LEMMA LoopItems ==
    ASSUME NEW fr
    PROVE  /\ fr.f = "dispatchMessages" => FrameItems(fr) = Elems(fr.todo) \cup Elems(fr.putBack)
           /\ fr.f # "dispatchMessages" => FrameItems(fr) = {} /\ OnceFrame(fr)
  BY DEF FrameItems, OnceFrame

\* A process takes no new message and enters no handler.
Passive(r, t) ==
    /\ \A x : Item(t, x) => Item(r, x)
    /\ \A c, m : Handles(t.stack, c, m) => Handles(r.stack, c, m)
    /\ Once(r) => Once(t)

LEMMA PassiveSame ==
    ASSUME NEW r, NEW t, t.stack = r.stack, t.messages = r.messages
    PROVE  Passive(r, t)
  BY DEF Passive, Item, Once

LEMMA OnceCall ==
    ASSUME NEW r \in ProcState, NEW t \in ProcState, NEW fr \in Frame, IsCall(r, t, fr)
    PROVE  Once(r) => Once(t)
<1>1. /\ t.stack = Push(fr, r.stack) /\ t.messages = r.messages /\ fr.f # "dispatchMessages"
      /\ r.stack \in Seq(Frame)
  BY DEF IsCall, ProcState
<1>2. PICK s \in Seq(Frame) : s = r.stack
  BY <1>1
<1>3. t.stack = Push(fr, s) /\ FrameItems(fr) = {} /\ OnceFrame(fr)
  BY <1>1, <1>2, LoopItems
<1>4. Once(t) <=> /\ Unique(t.messages) /\ OnceFrame(fr) /\ OnceOn(s)
                  /\ Apart(FrameItems(fr), ItemsOn(s))
                  /\ Apart(Elems(t.messages), FrameItems(fr))
                  /\ Apart(Elems(t.messages), ItemsOn(s))
  BY <1>3, OnceTop
<1>5. QED
  BY <1>1, <1>2, <1>3, <1>4, UniqueEmpty DEF Once

LEMMA PassiveCall ==
    ASSUME NEW p, NEW r \in ProcState, NEW t \in ProcState, NEW fr \in Frame, IsCall(r, t, fr),
           fr.f = "sendSync", Rearranged(r, t)
    PROVE  Passive(r, t)
<1>1. t.stack = Push(fr, r.stack) /\ r.stack \in Seq(Frame)
  BY DEF IsCall, ProcState
<1>2. \A c, m : Handles(t.stack, c, m) => Handles(r.stack, c, m)
  BY <1>1, HandlesPush
<1>3. QED
  BY <1>2, OnceCall DEF Passive, Rearranged

LEMMA PassiveReturn ==
    ASSUME NEW r \in ProcState, NEW t \in ProcState, IsReturn(r, t), Rearranged(r, t)
    PROVE  Passive(r, t)
<1>1. r.stack # <<>> /\ t.stack = Tail(r.stack) /\ t.messages = r.messages
  BY DEF IsReturn
<1>2. PICK fr \in Frame, s \in Seq(Frame) : r.stack = Push(fr, s) /\ fr = Head(r.stack) /\ s = Tail(r.stack)
  BY <1>1, StackSplit
<1>s. r.stack = Push(fr, s) /\ t.stack = s
  BY <1>1, <1>2
<1>3. Once(r) => Once(t)
  BY <1>1, <1>s, OnceTop DEF Once
<1>4. \A c, m : Handles(t.stack, c, m) => Handles(r.stack, c, m)
  BY <1>s, HandlesPush
<1>5. QED
  BY <1>3, <1>4 DEF Passive, Rearranged

\* The innermost frame goes on as another that is not a handler.
LEMMA HandlesRetop ==
    ASSUME NEW r, NEW t, NEW fr \in Frame, NEW g \in Frame, NEW s \in Seq(Frame),
           r.stack = Push(fr, s), t.stack = Push(g, s), g.f # "handler"
    PROVE  \A c, m : Handles(t.stack, c, m) => Handles(r.stack, c, m)
<1>1. ASSUME NEW c, NEW m  PROVE Handles(t.stack, c, m) => Handles(r.stack, c, m)
  <2>1. Handles(Push(g, s), c, m) => Handles(s, c, m)
    BY HandlesPush
  <2>2. Handles(s, c, m) => Handles(Push(fr, s), c, m)
    BY HandlesPush
  <2>3. QED
    BY <2>1, <2>2
<1>2. QED
  BY <1>1

LEMMA PassiveTurn ==
    ASSUME NEW r \in ProcState, NEW t \in ProcState, NEW x, IsTurn(r, t, x), Rearranged(r, t)
    PROVE  Passive(r, t)
<1>1. r.stack # <<>> /\ Head(r.stack).f = "sendSync" /\ t.messages = r.messages
  BY DEF IsTurn
<1>2. PICK fr \in Frame, s \in Seq(Frame) : r.stack = Push(fr, s) /\ fr = Head(r.stack) /\ s = Tail(r.stack)
  BY <1>1, StackSplit
<1>3. PICK g \in Frame : g.f = "sendSync" /\ t.stack = Push(g, s)
  BY <1>2 DEF IsTurn
<1>s. r.stack = Push(fr, s) /\ fr.f = "sendSync"
  BY <1>1, <1>2
<1>4. FrameItems(fr) = {} /\ FrameItems(g) = {} /\ OnceFrame(g)
  BY <1>s, <1>3, LoopItems
<1>5. Once(r) => Unique(r.messages) /\ OnceOn(s) /\ Apart(Elems(r.messages), ItemsOn(s))
  BY <1>s, OnceTop
<1>6. Unique(t.messages) /\ OnceOn(s) /\ Apart(Elems(t.messages), ItemsOn(s)) => Once(t)
  BY <1>3, <1>4, OnceTop, UniqueEmpty
<1>7. \A c, m : Handles(t.stack, c, m) => Handles(r.stack, c, m)
  BY <1>3, <1>s, HandlesRetop
<1>8. QED
  BY <1>1, <1>5, <1>6, <1>7 DEF Passive, Rearranged

LEMMA PassiveSwap ==
    ASSUME NEW p, NEW r \in ProcState, NEW t \in ProcState, IsSwap(r, t), Rearranged(r, t),
           StackFits(p, r.stack)
    PROVE  Passive(r, t)
<1>1. /\ r.stack # <<>> /\ Head(r.stack).f = "dispatchMessages" /\ ~Head(r.stack).swapped
      /\ t.messages = <<>> /\ r.messages \in Seq(Received)
  BY DEF IsSwap, ProcState
<1>2. PICK fr \in Frame, s \in Seq(Frame) : r.stack = Push(fr, s) /\ fr = Head(r.stack) /\ s = Tail(r.stack)
  BY <1>1, StackSplit
<1>3. PICK g \in Frame : /\ g.f = "dispatchMessages" /\ t.stack = Push(g, s)
                         /\ g.todo = r.messages /\ g.putBack = fr.putBack
  BY <1>2 DEF IsSwap, GoesOn
<1>s. r.stack = Push(fr, s) /\ fr.f = "dispatchMessages" /\ ~fr.swapped
  BY <1>1, <1>2
<1>4. StackFits(p, Push(fr, s))
  BY <1>s
<1>a. FrameFits(p, fr)
  BY <1>4, FitsTail
<1>5. fr.todo = <<>> /\ fr.putBack = <<>>
  BY <1>s, <1>a DEF FrameFits
<1>6. FrameItems(g) = Elems(r.messages) /\ g.todo = r.messages /\ g.putBack = <<>>
  BY <1>3, <1>5, LoopItems, ElemsEmpty
<1>7. Once(r) => Unique(r.messages) /\ OnceOn(s) /\ Apart(Elems(r.messages), ItemsOn(s))
  BY <1>s, OnceTop
<1>8. ASSUME Once(r)  PROVE Once(t)
  <2>1. OnceFrame(g)
    BY <1>6, <1>7, <1>8, ElemsEmpty, UniqueEmpty DEF OnceFrame
  <2>2. Once(t) <=> /\ Unique(t.messages) /\ OnceFrame(g) /\ OnceOn(s)
                    /\ Apart(FrameItems(g), ItemsOn(s))
                    /\ Apart(Elems(t.messages), FrameItems(g))
                    /\ Apart(Elems(t.messages), ItemsOn(s))
    BY <1>3, OnceTop
  <2>3. Elems(t.messages) = {} /\ Unique(t.messages)
    BY <1>1, ElemsEmpty, UniqueEmpty
  <2>4. QED
    BY <1>6, <1>7, <1>8, <2>1, <2>2, <2>3, UniqueEmpty
<1>9. \A c, m : Handles(t.stack, c, m) => Handles(r.stack, c, m)
  BY <1>3, <1>s, HandlesRetop
<1>10. QED
  BY <1>8, <1>9 DEF Passive, Rearranged

LEMMA PassiveWaitDispatch ==
    ASSUME NEW r \in ProcState, NEW t \in ProcState, IsWaitDispatch(r, t), Rearranged(r, t)
    PROVE  Passive(r, t)
<1>1. /\ r.stack # <<>> /\ Head(r.stack).f = "sendSync"
      /\ t.messages = <<>> /\ r.messages \in Seq(Received)
  BY DEF IsWaitDispatch, ProcState
<1>2. PICK fr \in Frame, s \in Seq(Frame) : r.stack = Push(fr, s) /\ fr = Head(r.stack) /\ s = Tail(r.stack)
  BY <1>1, StackSplit
<1>3. PICK g \in Frame, h \in Frame :
        /\ g.f = "sendSync" /\ h.f = "dispatchMessages" /\ h.todo = r.messages /\ h.putBack = <<>>
        /\ t.stack = Push(h, Push(g, s))
  BY <1>2 DEF IsWaitDispatch
<1>s. r.stack = Push(fr, s) /\ fr.f = "sendSync"
  BY <1>1, <1>2
<1>4. PICK u \in Seq(Frame) : u = Push(g, s)
  BY PushFacts
<1>5. t.stack = Push(h, u) /\ FrameItems(h) = Elems(r.messages) /\ FrameItems(g) = {} /\ OnceFrame(g)
  BY <1>3, <1>4, LoopItems, ElemsEmpty
<1>6. Once(r) => Unique(r.messages) /\ OnceOn(s) /\ Apart(Elems(r.messages), ItemsOn(s))
  BY <1>s, OnceTop
<1>7. ItemsOn(u) = ItemsOn(s) /\ (OnceOn(s) => OnceOn(u))
  <2>1. /\ ItemsOn(Push(g, s)) = FrameItems(g) \cup ItemsOn(s)
        /\ OnceOn(Push(g, s)) <=> OnceFrame(g) /\ OnceOn(s) /\ Apart(FrameItems(g), ItemsOn(s))
    BY OncePush
  <2>2. QED
    BY <1>4, <1>5, <2>1, UniqueEmpty
<1>8. ASSUME Once(r)  PROVE Once(t)
  <2>1. OnceFrame(h)
    BY <1>3, <1>6, <1>8, ElemsEmpty, UniqueEmpty DEF OnceFrame
  <2>2. Once(t) <=> /\ Unique(t.messages) /\ OnceFrame(h) /\ OnceOn(u)
                    /\ Apart(FrameItems(h), ItemsOn(u))
                    /\ Apart(Elems(t.messages), FrameItems(h))
                    /\ Apart(Elems(t.messages), ItemsOn(u))
    BY <1>5, OnceTop
  <2>3. Elems(t.messages) = {} /\ Unique(t.messages)
    BY <1>1, ElemsEmpty, UniqueEmpty
  <2>4. QED
    BY <1>5, <1>6, <1>7, <1>8, <2>1, <2>2, <2>3, UniqueEmpty
<1>9. ASSUME NEW c, NEW m  PROVE Handles(t.stack, c, m) => Handles(r.stack, c, m)
  <2>1. Handles(Push(h, u), c, m) => Handles(u, c, m)
    BY <1>3, HandlesPush
  <2>2. Handles(Push(g, s), c, m) => Handles(s, c, m)
    BY <1>3, HandlesPush
  <2>3. Handles(s, c, m) => Handles(Push(fr, s), c, m)
    BY HandlesPush
  <2>4. QED
    BY <1>4, <1>5, <1>s, <2>1, <2>2, <2>3
<1>10. QED
  BY <1>8, <1>9 DEF Passive, Rearranged

\* What a turn of the loop does to its frame.
LEMMA TakeOnce ==
    ASSUME NEW fr \in Frame, NEW g \in Frame, fr.f = "dispatchMessages", g.f = "dispatchMessages",
           fr.todo # <<>>, g.todo = Tail(fr.todo),
           g.putBack = fr.putBack \/ g.putBack = Append(fr.putBack, Head(fr.todo)), OnceFrame(fr)
    PROVE  /\ OnceFrame(g) /\ FrameItems(g) \subseteq FrameItems(fr) /\ Head(fr.todo) \in FrameItems(fr)
           /\ g.putBack = fr.putBack => Apart({Head(fr.todo)}, FrameItems(g))
<1>1. fr.todo \in Seq(Received) /\ fr.putBack \in Seq(Received)
  BY FrameKinds
<1>2. PICK x : x = Head(fr.todo)
  OBVIOUS
<1>3. /\ Elems(fr.todo) = {x} \cup Elems(g.todo) /\ x \in Received
      /\ Unique(g.todo) /\ Apart({x}, Elems(g.todo))
  BY <1>1, <1>2, ElemsTail, UniqueTail DEF OnceFrame
<1>4. /\ FrameItems(fr) = Elems(fr.todo) \cup Elems(fr.putBack)
      /\ FrameItems(g) = Elems(g.todo) \cup Elems(g.putBack)
  BY LoopItems
<1>5. Unique(fr.putBack) /\ Apart(Elems(fr.todo), Elems(fr.putBack))
  BY DEF OnceFrame
<1>6. Apart({x}, Elems(fr.putBack)) /\ Apart(Elems(g.todo), Elems(fr.putBack))
  BY <1>3, <1>5 DEF Apart
<1>7. CASE g.putBack = fr.putBack
  BY <1>2, <1>3, <1>4, <1>5, <1>6, <1>7 DEF OnceFrame, Apart
<1>8. CASE g.putBack = Append(fr.putBack, x)
  <2>1. Unique(g.putBack)
    BY <1>1, <1>3, <1>5, <1>6, <1>8, UniqueAppend
  <2>2. Elems(g.putBack) = Elems(fr.putBack) \cup {x}
    BY <1>1, <1>3, <1>8, ElemsAppend
  <2>3. Apart(Elems(g.todo), Elems(g.putBack))
    BY <1>3, <1>6, <2>2 DEF Apart, SameKey
  <2>4. g.putBack # fr.putBack
    <3>1. Len(fr.putBack) \in Nat /\ Len(g.putBack) = Len(fr.putBack) + 1
      BY <1>1, <1>3, <1>8, AppendFacts
    <3>2. QED
      BY <3>1
  <2>5. QED
    BY <1>2, <1>3, <1>4, <2>1, <2>2, <2>3, <2>4 DEF OnceFrame
<1>9. QED
  BY <1>2, <1>7, <1>8

LEMMA PassiveNext ==
    ASSUME NEW r \in ProcState, NEW t \in ProcState, IsTake(r, t) \/ IsSkip(r, t), Rearranged(r, t)
    PROVE  /\ Passive(r, t)
           /\ Once(r) /\ IsTake(r, t) => \A y : Item(t, y) => ~SameKey(Head(Head(r.stack).todo), y)
<1>1. /\ r.stack # <<>> /\ Head(r.stack).f = "dispatchMessages" /\ Head(r.stack).todo # <<>>
      /\ t.messages = r.messages
  BY DEF IsTake, IsSkip, InLoop
<1>2. PICK fr \in Frame, s \in Seq(Frame) : r.stack = Push(fr, s) /\ fr = Head(r.stack) /\ s = Tail(r.stack)
  BY <1>1, StackSplit
<1>3. PICK g \in Frame : /\ g.f = "dispatchMessages" /\ t.stack = Push(g, s) /\ g.todo = Tail(fr.todo)
                         /\ g.putBack = fr.putBack \/ g.putBack = Append(fr.putBack, Head(fr.todo))
                         /\ IsTake(r, t) => g.putBack = fr.putBack
  <2>1. CASE IsTake(r, t)
    BY <1>2, <2>1 DEF IsTake, GoesOn
  <2>2. CASE IsSkip(r, t) /\ ~IsTake(r, t)
    BY <1>2, <2>2 DEF IsSkip, GoesOn
  <2>3. QED
    BY <2>1, <2>2
<1>s. r.stack = Push(fr, s) /\ fr.f = "dispatchMessages" /\ fr.todo # <<>>
  BY <1>1, <1>2
<1>4. ASSUME Once(r)
      PROVE  /\ Once(t)
             /\ IsTake(r, t) => \A y : Item(t, y) => ~SameKey(Head(fr.todo), y)
  <2>1. /\ Unique(r.messages) /\ OnceFrame(fr) /\ OnceOn(s)
        /\ Apart(FrameItems(fr), ItemsOn(s))
        /\ Apart(Elems(r.messages), FrameItems(fr))
        /\ Apart(Elems(r.messages), ItemsOn(s))
    BY <1>s, <1>4, OnceTop
  <2>2. /\ OnceFrame(g) /\ FrameItems(g) \subseteq FrameItems(fr) /\ Head(fr.todo) \in FrameItems(fr)
        /\ IsTake(r, t) => Apart({Head(fr.todo)}, FrameItems(g))
    BY <1>3, <1>s, <2>1, TakeOnce
  <2>3. Apart(FrameItems(g), ItemsOn(s)) /\ Apart(Elems(r.messages), FrameItems(g))
    BY <2>1, <2>2 DEF Apart
  <2>4. Once(t)
    BY <1>1, <1>3, <2>1, <2>2, <2>3, OnceTop
  <2>5. ASSUME IsTake(r, t), NEW y, Item(t, y)  PROVE ~SameKey(Head(fr.todo), y)
    <3>1. y \in Elems(r.messages) \/ y \in FrameItems(g) \/ y \in ItemsOn(s)
      <4>1. OnStack(t.stack, y) <=> y \in FrameItems(g) \/ OnStack(s, y)
        BY <1>3, OnPush
      <4>2. OnStack(s, y) => y \in ItemsOn(s)
        BY DEF OnStack, ItemsOn
      <4>3. QED
        BY <1>1, <2>5, <4>1, <4>2 DEF Item
    <3>2. QED
      BY <2>1, <2>2, <2>5, <3>1 DEF Apart, SameKey
  <2>6. QED
    BY <2>4, <2>5
<1>5. \A c, m : Handles(t.stack, c, m) => Handles(r.stack, c, m)
  BY <1>3, <1>s, HandlesRetop
<1>6. QED
  BY <1>2, <1>4, <1>5 DEF Passive, Rearranged

LEMMA PassivePutBack ==
    ASSUME NEW r \in ProcState, NEW t \in ProcState, IsPutBack(r, t), Rearranged(r, t)
    PROVE  Passive(r, t)
<1>1. /\ r.stack # <<>> /\ Head(r.stack).f = "dispatchMessages" /\ r.messages \in Seq(Received)
      /\ t.messages = r.messages \o Head(r.stack).putBack /\ t.stack = Tail(r.stack)
  BY DEF IsPutBack, ProcState
<1>2. PICK fr \in Frame, s \in Seq(Frame) : r.stack = Push(fr, s) /\ fr = Head(r.stack) /\ s = Tail(r.stack)
  BY <1>1, StackSplit
<1>s. /\ r.stack = Push(fr, s) /\ fr.f = "dispatchMessages" /\ t.stack = s
      /\ t.messages = r.messages \o fr.putBack
  BY <1>1, <1>2
<1>3. fr.putBack \in Seq(Received) /\ Elems(fr.putBack) \subseteq FrameItems(fr)
  BY <1>s, FrameKinds, LoopItems
<1>4. Elems(t.messages) = Elems(r.messages) \cup Elems(fr.putBack)
  <2>1. Elems(r.messages \o fr.putBack) = Elems(r.messages) \cup Elems(fr.putBack)
    BY <1>1, <1>3, ElemsConcat
  <2>2. QED
    BY <1>s, <2>1
<1>5. ASSUME Once(r)  PROVE Once(t)
  <2>1. /\ Unique(r.messages) /\ OnceFrame(fr) /\ OnceOn(s)
        /\ Apart(FrameItems(fr), ItemsOn(s))
        /\ Apart(Elems(r.messages), FrameItems(fr))
        /\ Apart(Elems(r.messages), ItemsOn(s))
    BY <1>s, <1>5, OnceTop
  <2>2. Unique(fr.putBack) /\ Apart(Elems(r.messages), Elems(fr.putBack))
    BY <1>s, <1>3, <2>1 DEF OnceFrame, Apart
  <2>3. Unique(t.messages)
    BY <1>1, <1>s, <1>3, <2>1, <2>2, UniqueConcat
  <2>4. Apart(Elems(t.messages), ItemsOn(s))
    BY <1>3, <1>4, <2>1 DEF Apart
  <2>5. QED
    BY <1>s, <2>1, <2>3, <2>4 DEF Once
<1>6. \A c, m : Handles(t.stack, c, m) => Handles(r.stack, c, m)
  BY <1>s, HandlesPush
<1>7. QED
  BY <1>5, <1>6 DEF Passive, Rearranged

LEMMA PassiveRunAll ==
    ASSUME NEW r \in ProcState, NEW t \in ProcState, IsRunAll(r, t), Rearranged(r, t)
    PROVE  Passive(r, t)
<1>1. r.stack = <<>> /\ t.messages = r.messages
  BY DEF IsRunAll, IsRun
<1>2. PICK s \in Seq(Frame) : s = <<>> /\ s = r.stack
  <2>1. r.stack \in Seq(Frame)
    BY DEF ProcState
  <2>2. QED
    BY <1>1, <2>1
<1>3. PICK g \in Frame : /\ g.f = "dispatchMessages" /\ g.todo = <<>> /\ g.putBack = <<>>
                         /\ t.stack = Push(g, s)
  BY <1>2 DEF IsRunAll
<1>4. FrameItems(g) = {} /\ OnceFrame(g)
  BY <1>3, LoopItems, ElemsEmpty, UniqueEmpty DEF OnceFrame
<1>5. ASSUME Once(r)  PROVE Once(t)
  <2>1. Unique(t.messages) /\ OnceOn(s) /\ Apart(Elems(t.messages), ItemsOn(s))
    BY <1>1, <1>2, <1>5 DEF Once
  <2>2. Apart({}, ItemsOn(s)) /\ Apart(Elems(t.messages), {})
    BY UniqueEmpty
  <2>3. QED
    BY <1>3, <1>4, <2>1, <2>2, OnceTop
<1>6. ASSUME NEW c, NEW m  PROVE Handles(t.stack, c, m) => Handles(r.stack, c, m)
  <2>1. Handles(Push(g, s), c, m) => Handles(s, c, m)
    BY <1>3, HandlesPush
  <2>2. QED
    BY <1>2, <1>3, <2>1
<1>7. QED
  BY <1>5, <1>6 DEF Passive, Rearranged

\* A handler is entered.
LEMMA EnteredHandles ==
    ASSUME NEW u \in ProcState, NEW t \in ProcState, NEW c, NEW m, IsEntered(u, t, c, m)
    PROVE  /\ \A x : Item(t, x) => Item(u, x)
           /\ \A d, n : Handles(t.stack, d, n) => Handles(u.stack, d, n) \/ (d = c /\ n = m)
           /\ Once(u) => Once(t)
<1>1. PICK fr \in Frame : fr.f = "handler" /\ fr.c = c /\ fr.msg = m /\ IsCall(u, t, fr)
  BY DEF IsEntered
<1>2. t.stack = Push(fr, u.stack) /\ u.stack \in Seq(Frame) /\ t.messages = u.messages
  BY <1>1 DEF IsCall, ProcState
<1>3. Once(u) => Once(t)
  BY <1>1, OnceCall
<1>4. \A d, n : Handles(t.stack, d, n) => Handles(u.stack, d, n) \/ (d = c /\ n = m)
  BY <1>1, <1>2, HandlesPush
<1>5. \A x : OnStack(t.stack, x) => OnStack(u.stack, x)
  <2>1. \A x : OnStack(t.stack, x) <=> x \in FrameItems(fr) \/ OnStack(u.stack, x)
    BY <1>2, OnPush
  <2>2. FrameItems(fr) = {}
    BY <1>1, LoopItems
  <2>3. QED
    BY <2>1, <2>2
<1>6. QED
  BY <1>2, <1>3, <1>4, <1>5 DEF Item

\* A new marked message is queued.
LEMMA QueueOnce ==
    ASSUME NEW r \in ProcState, NEW t \in ProcState, NEW x \in Received, IsQueue(r, t, x), Once(r),
           \A y : Item(r, y) => ~SameKey(x, y)
    PROVE  Once(t)
<1>1. t.messages = Append(r.messages, x) /\ t.stack = r.stack /\ r.messages \in Seq(Received)
  BY DEF IsQueue, ProcState
<1>2. Elems(t.messages) = Elems(r.messages) \cup {x}
  BY <1>1, ElemsAppend
<1>3. Apart({x}, Elems(r.messages)) /\ Apart({x}, ItemsOn(r.stack))
  BY DEF Apart, Item, ItemsOn, OnStack
<1>4. Unique(t.messages)
  BY <1>1, <1>3, UniqueAppend DEF Once
<1>5. Apart(Elems(t.messages), ItemsOn(t.stack))
  BY <1>1, <1>2, <1>3 DEF Once, Apart
<1>6. QED
  BY <1>1, <1>4, <1>5 DEF Once
\* The numbers of the requests in a queue, and their order there.
ReqIds(q) == {m.id : m \in {x \in Elems(q) : Request(x)}}
Sorted(q) ==
    \A i, j \in 1..Len(q) : i < j /\ Request(q[i]) /\ Request(q[j]) => q[i].id < q[j].id

LEMMA ReqIdsAre ==
    ASSUME NEW q \in Seq(Message)
    PROVE  /\ ReqIds(q) \subseteq Nat
           /\ \A m \in Elems(q) : m \in Message /\ (Request(m) => m.id \in ReqIds(q))
           /\ \A n \in ReqIds(q) : \E m \in Elems(q) : Request(m) /\ m.id = n
<1>1. Elems(q) \subseteq Message
  BY ElemsOf
<1>2. \A m \in Message : m.id \in Nat
  BY Numbers DEF Message
<1>3. QED
  BY <1>1, <1>2 DEF ReqIds

LEMMA ReqIdsTail ==
    ASSUME NEW q \in Seq(Message), q # <<>>
    PROVE  /\ ReqIds(Tail(q)) \subseteq ReqIds(q) /\ Tail(q) \in Seq(Message) /\ Head(q) \in Message
           /\ Request(Head(q)) => Head(q).id \in ReqIds(q)
           /\ Sorted(q) => Sorted(Tail(q))
           /\ Sorted(q) /\ Request(Head(q)) => \A n \in ReqIds(Tail(q)) : Head(q).id < n
<1>1. /\ Elems(q) = {Head(q)} \cup Elems(Tail(q)) /\ Head(q) \in Message /\ Tail(q) \in Seq(Message)
  BY ElemsTail
<1>2. /\ Len(q) \in Nat /\ Len(q) >= 1 /\ Len(Tail(q)) = Len(q) - 1 /\ Head(q) = q[1]
      /\ \A i \in 1..Len(q) - 1 : Tail(q)[i] = q[i + 1]
  BY PopFacts
<1>3. Sorted(q) => Sorted(Tail(q))
  BY <1>2 DEF Sorted
<1>4. ASSUME Sorted(q), Request(Head(q)), NEW n \in ReqIds(Tail(q))  PROVE Head(q).id < n
  <2>1. PICK m \in Elems(Tail(q)) : Request(m) /\ m.id = n
    BY <1>1, ReqIdsAre
  <2>2. PICK i \in 1..Len(Tail(q)) : Tail(q)[i] = m
    BY <1>1, ElemsOf
  <2>3. q[i + 1] = m /\ i + 1 \in 1..Len(q) /\ 1 \in 1..Len(q) /\ 1 < i + 1
    BY <1>2, <2>2
  <2>4. QED
    BY <1>2, <1>4, <2>1, <2>3 DEF Sorted
<1>5. QED
  BY <1>1, <1>3, <1>4 DEF ReqIds

LEMMA ReqIdsAppend ==
    ASSUME NEW q \in Seq(Message), NEW m \in Message
    PROVE  /\ Append(q, m) \in Seq(Message)
           /\ Request(m) => ReqIds(Append(q, m)) = ReqIds(q) \cup {m.id}
           /\ ~Request(m) => ReqIds(Append(q, m)) = ReqIds(q)
           /\ Sorted(q) /\ (Request(m) => \A n \in ReqIds(q) : n < m.id) => Sorted(Append(q, m))
<1>1. Elems(Append(q, m)) = Elems(q) \cup {m} /\ Append(q, m) \in Seq(Message)
  BY ElemsAppend
<1>2. /\ Len(q) \in Nat /\ Len(Append(q, m)) = Len(q) + 1 /\ Append(q, m)[Len(q) + 1] = m
      /\ \A i \in 1..Len(q) : Append(q, m)[i] = q[i]
  BY AppendFacts
<1>3. ASSUME Sorted(q), Request(m) => \A n \in ReqIds(q) : n < m.id  PROVE Sorted(Append(q, m))
  <2>1. \A i \in 1..Len(q) : Request(q[i]) /\ Request(m) => q[i].id < m.id
    <3>1. \A i \in 1..Len(q) : q[i] \in Elems(q)
      BY ElemsOf
    <3>2. QED
      BY <1>3, <3>1, ReqIdsAre
  <2>2. QED
    BY <1>2, <1>3, <2>1 DEF Sorted
<1>4. Request(m) => ReqIds(Append(q, m)) = ReqIds(q) \cup {m.id}
  BY <1>1 DEF ReqIds
<1>5. ~Request(m) => ReqIds(Append(q, m)) = ReqIds(q)
  BY <1>1 DEF ReqIds
<1>6. QED
  BY <1>1, <1>3, <1>4, <1>5

LEMMA ReqIdsEmpty == ReqIds(<<>>) = {} /\ Sorted(<<>>)
<1>1. Len(<<>>) = 0
  OBVIOUS
<1>2. QED
  BY <1>1, ElemsEmpty DEF ReqIds, Sorted

\* The requests on their way from connection k through the wire w are in the
\* order of their numbers; those that have arrived are earlier.
Stream(k, w) ==
    /\ Sorted(k.out) /\ Sorted(w)
    /\ \A m \in ReqIds(w), n \in ReqIds(k.out) : m < n
    /\ \A n \in ReqIds(w) \cup ReqIds(k.out) : n <= k.sent
Later(k, w, n) ==
    n <= k.sent /\ \A m \in ReqIds(w) \cup ReqIds(k.out) : n < m

\* What a step does to them.
Streams(k, w, l, v) ==
    \/ l.out = k.out /\ l.sent = k.sent /\ v = w
    \/ l.out = k.out /\ l.sent = k.sent + 1 /\ v = w
    \/ \E m \in Message : /\ Request(m) /\ m.id = k.sent + 1 /\ l.sent = m.id
                          /\ l.out = Append(k.out, m) /\ v = w
    \/ \E m \in Message : ~Request(m) /\ l.sent = k.sent /\ l.out = Append(k.out, m) /\ v = w
    \/ /\ k.out # <<>> /\ l.out = Tail(k.out) /\ l.sent = k.sent
       /\ v = w \/ v = Append(w, Head(k.out))
    \/ w # <<>> /\ v = Tail(w) /\ l.out = k.out /\ l.sent = k.sent
    \/ l.out = <<>> /\ l.sent \in {k.sent, k.sent + 1} /\ v = w

LEMMA StreamKept ==
    ASSUME NEW k \in ConnectionState, NEW l \in ConnectionState, NEW w \in Seq(Message),
           NEW v \in Seq(Message), Streams(k, w, l, v), Stream(k, w)
    PROVE  /\ Stream(l, v)
           /\ \A n \in Nat : Later(k, w, n) => Later(l, v, n)
<1>1. /\ k.out \in Seq(Message) /\ l.out \in Seq(Message) /\ k.sent \in Nat /\ l.sent \in Nat
  <2>1. \A x : x \in Number \cup {0} => x \in Nat
    BY Numbers
  <2>2. QED
    BY <2>1 DEF ConnectionState
<1>2. /\ ReqIds(k.out) \subseteq Nat /\ ReqIds(w) \subseteq Nat
  BY <1>1, ReqIdsAre
<1>3. CASE l.out = k.out /\ l.sent \in {k.sent, k.sent + 1} /\ v = w
  BY <1>1, <1>2, <1>3 DEF Stream, Later
<1>4. ASSUME NEW m \in Message, Request(m), m.id = k.sent + 1, l.sent = m.id,
             l.out = Append(k.out, m), v = w
      PROVE  Stream(l, v) /\ \A n \in Nat : Later(k, w, n) => Later(l, v, n)
  <2>1. ReqIds(l.out) = ReqIds(k.out) \cup {m.id}
    BY <1>1, <1>4, ReqIdsAppend
  <2>2. \A n \in ReqIds(k.out) : n < m.id
    BY <1>1, <1>2, <1>4 DEF Stream
  <2>3. Sorted(l.out)
    BY <1>1, <1>4, <2>2, ReqIdsAppend DEF Stream
  <2>4. QED
    BY <1>1, <1>2, <1>4, <2>1, <2>3 DEF Stream, Later
<1>5. ASSUME NEW m \in Message, ~Request(m), l.sent = k.sent, l.out = Append(k.out, m), v = w
      PROVE  Stream(l, v) /\ \A n \in Nat : Later(k, w, n) => Later(l, v, n)
  <2>1. ReqIds(l.out) = ReqIds(k.out)
    BY <1>1, <1>5, ReqIdsAppend
  <2>2. Sorted(l.out)
    BY <1>1, <1>5, ReqIdsAppend DEF Stream
  <2>3. QED
    BY <1>5, <2>1, <2>2 DEF Stream, Later
<1>6. ASSUME k.out # <<>>, l.out = Tail(k.out), l.sent = k.sent, v = w \/ v = Append(w, Head(k.out))
      PROVE  Stream(l, v) /\ \A n \in Nat : Later(k, w, n) => Later(l, v, n)
  <2>1. PICK m \in Message : m = Head(k.out)
    BY <1>1, <1>6, ReqIdsTail
  <2>2. /\ ReqIds(l.out) \subseteq ReqIds(k.out) /\ Sorted(l.out)
        /\ Request(m) => m.id \in ReqIds(k.out) /\ \A n \in ReqIds(l.out) : m.id < n
    BY <1>1, <1>6, <2>1, ReqIdsTail DEF Stream
  <2>3. CASE v = w
    BY <1>6, <2>2, <2>3 DEF Stream, Later
  <2>4. CASE v = Append(w, m)
    <3>1. /\ ReqIds(v) \subseteq ReqIds(w) \cup ReqIds(k.out)
          /\ ReqIds(v) = ReqIds(w) \cup (IF Request(m) THEN {m.id} ELSE {})
      BY <2>2, <2>4, ReqIdsAppend
    <3>2. Sorted(v)
      BY <2>2, <2>4, ReqIdsAppend DEF Stream
    <3>3. \A a \in ReqIds(v), b \in ReqIds(l.out) : a < b
      BY <2>2, <3>1 DEF Stream
    <3>4. QED
      BY <1>6, <2>2, <3>1, <3>2, <3>3 DEF Stream, Later
  <2>5. QED
    BY <1>6, <2>1, <2>3, <2>4
<1>7. ASSUME w # <<>>, v = Tail(w), l.out = k.out, l.sent = k.sent
      PROVE  Stream(l, v) /\ \A n \in Nat : Later(k, w, n) => Later(l, v, n)
  <2>1. ReqIds(v) \subseteq ReqIds(w) /\ Sorted(v)
    BY <1>7, ReqIdsTail DEF Stream
  <2>2. QED
    BY <1>7, <2>1 DEF Stream, Later
<1>8. ASSUME l.out = <<>>, l.sent \in {k.sent, k.sent + 1}, v = w
      PROVE  Stream(l, v) /\ \A n \in Nat : Later(k, w, n) => Later(l, v, n)
  <2>1. ReqIds(l.out) = {} /\ Sorted(l.out)
    BY <1>8, ReqIdsEmpty
  <2>2. QED
    BY <1>1, <1>2, <1>8, <2>1 DEF Stream, Later
<1>9. QED
  BY <1>3, <1>4, <1>5, <1>6, <1>7, <1>8 DEF Streams

\* The request read from the wire is earlier than the rest.
LEMMA StreamHead ==
    ASSUME NEW k \in ConnectionState, NEW w \in Seq(Message), w # <<>>, Stream(k, w), Request(Head(w))
    PROVE  /\ Later(k, Tail(w), Head(w).id)
           /\ \A n \in Nat : Later(k, w, n) => n < Head(w).id
<1>1. /\ Head(w).id \in ReqIds(w) /\ \A n \in ReqIds(Tail(w)) : Head(w).id < n
  BY ReqIdsTail DEF Stream
<1>2. QED
  BY <1>1 DEF Stream, Later
\* The requests that connection c has received, k being the connection, e the
\* one at the other end with its wire w, and r the process of c: they are
\* earlier than those on the way, the unmarked ones are in order, and none is
\* there twice.
Delivered(c, k, e, w, r) ==
    /\ Sorted(k.incoming) /\ \A n \in ReqIds(k.incoming) : Later(e, w, n)
    /\ \A x : Item(r, x) /\ x.c = c =>
          Later(e, w, x.msg.id) /\ x.msg.id \notin ReqIds(k.incoming)
    /\ \A m : Handles(r.stack, c, m) => Later(e, w, m.id)

Ordered ==
    /\ \A c \in Endpoint : Stream(conn[c], wire[c])
    /\ \A c \in Endpoint : Delivered(c, conn[c], conn[Peer[c]], wire[Peer[c]], main[Owner[c]])
    /\ \A p \in Proc : Once(main[p])

\* A connection and its process receive nothing new; a handler that is entered
\* is that of a message received.
KeepsIncoming(k, l) ==
    \/ l.incoming = k.incoming \/ l.incoming = <<>>
    \/ k.incoming # <<>> /\ l.incoming = Tail(k.incoming)
Inherits(c, k, r, l, t) ==
    /\ KeepsIncoming(k, l)
    /\ \A x : Item(t, x) /\ x.c = c => Item(r, x)
    /\ \A m : Handles(t.stack, c, m) =>
          \/ Handles(r.stack, c, m) \/ m \in Elems(k.incoming)
          \/ \E x : Item(r, x) /\ x.c = c /\ x.msg = m

LEMMA IncomingKept ==
    ASSUME NEW k \in ConnectionState, NEW l \in ConnectionState, KeepsIncoming(k, l)
    PROVE  /\ ReqIds(l.incoming) \subseteq ReqIds(k.incoming)
           /\ Sorted(k.incoming) => Sorted(l.incoming)
           /\ Elems(l.incoming) \subseteq Elems(k.incoming)
           /\ k.incoming \in Seq(Message)
<1>1. k.incoming \in Seq(Message)
  BY DEF ConnectionState
<1>2. CASE l.incoming = <<>>
  BY <1>1, <1>2, ReqIdsEmpty, ElemsEmpty
<1>3. CASE k.incoming # <<>> /\ l.incoming = Tail(k.incoming)
  BY <1>1, <1>3, ReqIdsTail, ElemsTail
<1>4. QED
  BY <1>1, <1>2, <1>3 DEF KeepsIncoming

LEMMA DeliveredKept ==
    ASSUME NEW p, NEW c, NEW k \in ConnectionState, NEW l \in ConnectionState, NEW e, NEW w, NEW f, NEW v,
           NEW r \in ProcState, NEW t \in ProcState, ProcFits(p, r), Plain(k.incoming),
           Delivered(c, k, e, w, r), Inherits(c, k, r, l, t),
           \A n \in Nat : Later(e, w, n) => Later(f, v, n)
    PROVE  Delivered(c, l, f, v, t)
<1>1. /\ ReqIds(l.incoming) \subseteq ReqIds(k.incoming) /\ Sorted(l.incoming)
      /\ k.incoming \in Seq(Message)
  BY IncomingKept DEF Inherits, Delivered
<1>2. ReqIds(k.incoming) \subseteq Nat
  BY <1>1, ReqIdsAre
<1>3. \A n \in ReqIds(l.incoming) : Later(f, v, n)
  BY <1>1, <1>2 DEF Delivered
<1>4. \A x : Item(r, x) => x.msg.id \in Nat
  <2>1. \A x : Item(r, x) => x \in Received
    BY DEF ProcFits, IsOurs
  <2>2. \A x \in Received : x.msg.id \in Number
    BY DEF Received, Message
  <2>3. QED
    BY <2>1, <2>2, Numbers
<1>5. \A x : Item(t, x) /\ x.c = c => Later(f, v, x.msg.id) /\ x.msg.id \notin ReqIds(l.incoming)
  BY <1>1, <1>4 DEF Delivered, Inherits
<1>6. ASSUME NEW m, Handles(t.stack, c, m)  PROVE Later(f, v, m.id)
  <2>1. CASE Handles(r.stack, c, m)
    <3>1. PICK fr \in Elems(r.stack) : fr.f = "handler" /\ fr.c = c /\ fr.msg = m
      BY <2>1 DEF Handles
    <3>2. r.stack \in Seq(Frame)
      BY DEF ProcState
    <3>3. fr \in Frame
      BY <3>1, <3>2, ElemsOf
    <3>4. m \in Message
      BY <3>1, <3>3, FrameKinds
    <3>5. m.id \in Nat
      BY <3>4, Numbers DEF Message
    <3>6. QED
      BY <2>1, <3>5 DEF Delivered
  <2>2. CASE m \in Elems(k.incoming)
    <3>1. m.id \in ReqIds(k.incoming)
      BY <1>1, <2>2, ReqIdsAre DEF Plain
    <3>2. QED
      BY <1>2, <3>1 DEF Delivered
  <2>3. CASE \E x : Item(r, x) /\ x.c = c /\ x.msg = m
    BY <1>4, <2>3 DEF Delivered
  <2>4. QED
    BY <1>6, <2>1, <2>2, <2>3 DEF Inherits
<1>7. QED
  BY <1>1, <1>3, <1>5, <1>6 DEF Delivered

\* A step that delivers nothing.
LEMMA OrderedStep ==
    ASSUME Held, Typed', Ordered,
           \A c \in Endpoint : Streams(conn[c], wire[c], conn'[c], wire'[c]),
           \A c \in Endpoint : Inherits(c, conn[c], main[Owner[c]], conn'[c], main'[Owner[c]]),
           \A p \in Proc : Once(main[p]) => Once(main'[p])
    PROVE  Ordered'
<1>1. ASSUME NEW c \in Endpoint
      PROVE  /\ Stream(conn'[c], wire'[c])
             /\ \A n \in Nat : Later(conn[c], wire[c], n) => Later(conn'[c], wire'[c], n)
  <2>1. /\ conn[c] \in ConnectionState /\ conn'[c] \in ConnectionState
        /\ wire[c] \in Seq(Message) /\ wire'[c] \in Seq(Message)
    BY <1>1 DEF Held, Typed
  <2>2. Stream(conn[c], wire[c]) /\ Streams(conn[c], wire[c], conn'[c], wire'[c])
    BY <1>1 DEF Ordered
  <2>3. QED
    BY <2>1, <2>2, StreamKept
<1>2. ASSUME NEW c \in Endpoint
      PROVE  Delivered(c, conn'[c], conn'[Peer[c]], wire'[Peer[c]], main'[Owner[c]])
  <2>1. PICK p \in Proc, d \in Endpoint : p = Owner[c] /\ d = Peer[c]
    BY <1>2, Ends2
  <2>2. /\ conn[c] \in ConnectionState /\ conn'[c] \in ConnectionState
        /\ main[p] \in ProcState /\ main'[p] \in ProcState
    BY <1>2, <2>1 DEF Held, Typed
  <2>3. ProcFits(p, main[p]) /\ Plain(conn[c].incoming)
    BY <1>2, <2>1 DEF Held, ConnFits
  <2>4. /\ Delivered(c, conn[c], conn[d], wire[d], main[p])
        /\ Inherits(c, conn[c], main[p], conn'[c], main'[p])
    BY <1>2, <2>1 DEF Ordered
  <2>5. \A n \in Nat : Later(conn[d], wire[d], n) => Later(conn'[d], wire'[d], n)
    BY <1>1, <2>1
  <2>6. Delivered(c, conn'[c], conn'[d], wire'[d], main'[p])
    BY <2>2, <2>3, <2>4, <2>5, DeliveredKept
  <2>7. QED
    BY <2>1, <2>6
<1>3. \A p \in Proc : Once(main'[p])
  BY DEF Ordered
<1>4. QED
  BY <1>1, <1>2, <1>3 DEF Ordered
\* What a step does to a process that may enter a handler of a message it held,
\* or of one of T on connection c.
Inherit(r, t, c, T) ==
    /\ \A x : Item(t, x) => Item(r, x)
    /\ Once(r) => Once(t)
    /\ \A d, m : Handles(t.stack, d, m) =>
          \/ Handles(r.stack, d, m) \/ (d = c /\ m \in T)
          \/ \E x : Item(r, x) /\ x.c = d /\ x.msg = m

LEMMA PassiveInherit ==
    ASSUME NEW r, NEW t, Passive(r, t), NEW c, NEW T
    PROVE  Inherit(r, t, c, T)
<1>1. \A d, m : Handles(t.stack, d, m) => Handles(r.stack, d, m)
  BY DEF Passive
<1>2. (\A x : Item(t, x) => Item(r, x)) /\ (Once(r) => Once(t))
  BY DEF Passive
<1>3. QED
  BY <1>1, <1>2, Zenon DEF Inherit

\* A step of one connection and one process that reads nothing from a wire.
LEMMA OrderedOne ==
    ASSUME Held, Typed', Ordered, NEW c \in Endpoint, NEW p \in Proc, OnlyConn(c), OnlyProc(p),
           \A d \in Endpoint \ {c} : wire'[d] = wire[d],
           Streams(conn[c], wire[c], conn'[c], wire'[c]), KeepsIncoming(conn[c], conn'[c]),
           Inherit(main[p], main'[p], c, Elems(conn[c].incoming))
    PROVE  Ordered'
<1>1. ASSUME NEW d \in Endpoint  PROVE Streams(conn[d], wire[d], conn'[d], wire'[d])
  <2>1. CASE d = c
    BY <2>1
  <2>2. CASE d # c
    <3>1. conn'[d] = conn[d] /\ wire'[d] = wire[d]
      BY <1>1, <2>2 DEF OnlyConn
    <3>2. QED
      BY <3>1 DEF Streams
  <2>3. QED
    BY <2>1, <2>2
<1>2. ASSUME NEW d \in Endpoint
      PROVE  Inherits(d, conn[d], main[Owner[d]], conn'[d], main'[Owner[d]])
  <2>1. KeepsIncoming(conn[d], conn'[d])
    <3>1. d # c => conn'[d] = conn[d]
      BY <1>2 DEF OnlyConn
    <3>2. QED
      BY <3>1 DEF KeepsIncoming
  <2>2. CASE Owner[d] = p
    BY <2>1, <2>2 DEF Inherits, Inherit
  <2>3. CASE Owner[d] # p
    <3>1. main'[Owner[d]] = main[Owner[d]]
      BY <1>2, <2>3, Ends2 DEF OnlyProc
    <3>2. QED
      BY <2>1, <3>1 DEF Inherits
  <2>4. QED
    BY <2>2, <2>3
<1>3. \A q \in Proc : Once(main[q]) => Once(main'[q])
  BY DEF OnlyProc, Inherit
<1>4. QED
  BY <1>1, <1>2, <1>3, OrderedStep

\* A step that leaves the requests where they are.
Untouched(c) ==
    /\ OnlyConn(c) /\ conn'[c].out = conn[c].out /\ conn'[c].sent = conn[c].sent
    /\ conn'[c].incoming = conn[c].incoming

LEMMA OrderedQuiet ==
    ASSUME Held, Typed', Ordered, NEW c \in Endpoint, NEW p \in Proc, Untouched(c), OnlyProc(p),
           wire' = wire, Passive(main[p], main'[p])
    PROVE  Ordered'
<1>1. Streams(conn[c], wire[c], conn'[c], wire'[c]) /\ KeepsIncoming(conn[c], conn'[c]) /\ OnlyConn(c)
  BY DEF Streams, KeepsIncoming, Untouched
<1>2. Inherit(main[p], main'[p], c, Elems(conn[c].incoming))
  BY PassiveInherit
<1>3. QED
  BY <1>1, <1>2, OrderedOne
-----------------------------------------------------------------------------
(* The fourth invariant: a request is handled once, and a reply says so.   *)

\* Connection d has received m and not handled it.
Got(d, m) ==
    \/ m \in Elems(conn[d].incoming)
    \/ \E x : Item(main[Owner[d]], x) /\ x.c = d /\ x.msg = m
\* Message m of connection c has yet to be handled.
ReqIn(c, m) == m \in Elems(conn[c].out) \cup Elems(wire[c]) \/ Got(Peer[c], m)

\* Request n has been handled: its handler runs, its reply is kept for later, on
\* its way, or with the caller.
Owes(d, n) ==
    \/ <<d, n>> \in main[Owner[d]].delayed
    \/ \E m : Handles(main[Owner[d]].stack, d, m) /\ m.kind = "sync" /\ m.id = n
Replies(d, n) ==
    \E m \in Elems(conn[d].out) \cup Elems(wire[d]) : m.kind = "reply" /\ m.id = n
HasReply(k, n) ==
    \/ \E i \in 1..Len(k.pending) : k.pending[i].didReceiveReply /\ k.pending[i].id = n
    \/ k.secondary.replied /\ k.secondary.id = n
RepIn(c, n) == Owes(Peer[c], n) \/ Replies(Peer[c], n) \/ HasReply(conn[c], n)

\* Those who wait for a reply are the calls that are sent.
Waits(k, res) ==
    /\ \A n \in Ids(k.pending) : res[n] = "sent"
    /\ k.secondary.at = "waiting" =>
          res[k.secondary.id] = "sent" /\ k.secondary.id \notin Ids(k.pending)
    /\ k.secondary.at # "waiting" => ~k.secondary.replied

Answered(c) ==
    /\ \A n \in Number : n > conn[c].sent => result[c][n] = "idle" /\ handled[c][n] = 0
    /\ \A n \in Number : handled[c][n] \in {0, 1} /\ (RepIn(c, n) => handled[c][n] = 1)
    /\ \A m \in Message : m.kind = "sync" /\ ReqIn(c, m) =>
          handled[c][m.id] = 0 /\ result[c][m.id] # "idle"
    /\ Waits(conn[c], result[c])
AllAnswered == \A c \in Endpoint : Answered(c)

\* A step in which no handler of a message of c is entered.
LEMMA AnsweredAt ==
    ASSUME Typed, Typed', NEW c \in Endpoint, Answered(c), conn[c].sent <= conn'[c].sent,
           \A n \in Number : \/ result'[c][n] = result[c][n]
                             \/ result'[c][n] # "idle" /\ n <= conn'[c].sent,
           handled'[c] = handled[c], Waits(conn'[c], result'[c]),
           \A n \in Number : RepIn(c, n)' => RepIn(c, n),
           \A m \in Message : m.kind = "sync" /\ ReqIn(c, m)' =>
              ReqIn(c, m) \/ (m.id > conn[c].sent /\ result'[c][m.id] # "idle")
    PROVE  Answered(c)'
<1>1. conn[c].sent \in Nat /\ conn'[c].sent \in Nat /\ \A n \in Number : n \in Nat
  <2>1. \A x : x \in Number \cup {0} => x \in Nat
    BY Numbers
  <2>2. conn[c].sent \in Number \cup {0} /\ conn'[c].sent \in Number \cup {0}
    BY DEF Typed, ConnectionState
  <2>3. QED
    BY <2>1, <2>2
<1>2. ASSUME NEW n \in Number, n > conn'[c].sent  PROVE result'[c][n] = "idle" /\ handled'[c][n] = 0
  <2>1. n > conn[c].sent /\ ~(n <= conn'[c].sent)
    BY <1>1, <1>2
  <2>2. QED
    BY <1>2, <2>1 DEF Answered
<1>3. ASSUME NEW n \in Number  PROVE handled'[c][n] \in {0, 1} /\ (RepIn(c, n)' => handled'[c][n] = 1)
  BY <1>3 DEF Answered
<1>4. ASSUME NEW m \in Message, m.kind = "sync", ReqIn(c, m)'
      PROVE  handled'[c][m.id] = 0 /\ result'[c][m.id] # "idle"
  <2>1. m.id \in Number
    BY DEF Message
  <2>2. CASE ReqIn(c, m)
    BY <1>4, <2>1, <2>2 DEF Answered
  <2>3. CASE m.id > conn[c].sent /\ result'[c][m.id] # "idle"
    BY <2>1, <2>3 DEF Answered
  <2>4. QED
    BY <1>4, <2>2, <2>3
<1>5. QED
  BY <1>2, <1>3, <1>4 DEF Answered

\* The handler of m is entered.
LEMMA AnsweredEnter ==
    ASSUME Typed, NEW c \in Endpoint, Answered(c), NEW m \in Message, m.kind = "sync", ReqIn(c, m),
           conn'[c].sent = conn[c].sent, result'[c] = result[c],
           handled'[c] = [handled[c] EXCEPT ![m.id] = @ + 1], Waits(conn'[c], result'[c]),
           \A n \in Number : RepIn(c, n)' => RepIn(c, n) \/ n = m.id,
           \A x \in Message : x.kind = "sync" /\ ReqIn(c, x)' => ReqIn(c, x) /\ x.id # m.id
    PROVE  Answered(c)'
<1>1. m.id \in Number /\ handled[c] \in [Number -> Nat]
  BY DEF Message, Typed
<1>2. handled[c][m.id] = 0 /\ result[c][m.id] # "idle"
  BY DEF Answered
<1>3. handled'[c][m.id] = 1 /\ \A n \in Number : n # m.id => handled'[c][n] = handled[c][n]
  BY <1>1, <1>2
<1>4. ASSUME NEW n \in Number, n > conn'[c].sent  PROVE result'[c][n] = "idle" /\ handled'[c][n] = 0
  BY <1>2, <1>3, <1>4 DEF Answered
<1>5. ASSUME NEW n \in Number  PROVE handled'[c][n] \in {0, 1} /\ (RepIn(c, n)' => handled'[c][n] = 1)
  BY <1>3, <1>5 DEF Answered
<1>6. ASSUME NEW x \in Message, x.kind = "sync", ReqIn(c, x)'
      PROVE  handled'[c][x.id] = 0 /\ result'[c][x.id] # "idle"
  <2>1. x.id \in Number /\ ReqIn(c, x) /\ x.id # m.id
    BY <1>6 DEF Message
  <2>2. QED
    BY <1>3, <1>6, <2>1 DEF Answered
<1>7. QED
  BY <1>4, <1>5, <1>6 DEF Answered
\* The secondary thread waits as before.
SecondaryKept(s, u) ==
    /\ u.at = "waiting" => s.at = "waiting" /\ u.id = s.id
    /\ u.at # "waiting" => s.at # "waiting"
    /\ u.replied <=> s.replied

LEMMA WaitsKept ==
    ASSUME NEW k, NEW l, NEW res, l.pending = k.pending, SecondaryKept(k.secondary, l.secondary),
           Waits(k, res)
    PROVE  /\ Waits(l, res)
           /\ \A n : HasReply(l, n) => HasReply(k, n)
<1>1. Waits(l, res)
  BY DEF Waits, SecondaryKept
<1>2. ASSUME NEW n, HasReply(l, n)  PROVE HasReply(k, n)
  <2>1. CASE l.secondary.replied /\ l.secondary.id = n
    <3>1. k.secondary.replied /\ k.secondary.at = "waiting"
      BY <2>1 DEF Waits, SecondaryKept
    <3>2. l.secondary.at = "waiting" /\ l.secondary.id = k.secondary.id
      BY <3>1 DEF SecondaryKept
    <3>3. QED
      BY <2>1, <3>1, <3>2 DEF HasReply
  <2>2. CASE \E i \in 1..Len(l.pending) : l.pending[i].didReceiveReply /\ l.pending[i].id = n
    BY <2>2 DEF HasReply
  <2>3. QED
    BY <1>2, <2>1, <2>2 DEF HasReply
<1>3. QED
  BY <1>1, <1>2

\* A step that only moves messages.
LEMMA AnsweredMoves ==
    ASSUME Held, Typed', AllAnswered, result' = result, handled' = handled,
           NEW c \in Endpoint, OnlyConn(c), conn[c].sent <= conn'[c].sent,
           conn'[c].pending = conn[c].pending, SecondaryKept(conn[c].secondary, conn'[c].secondary),
           \A d \in Endpoint, m \in Message : m.kind = "sync" /\ ReqIn(d, m)' => ReqIn(d, m),
           \A d \in Endpoint, n \in Number :
              Owes(d, n)' \/ Replies(d, n)' => Owes(d, n) \/ Replies(d, n)
    PROVE  AllAnswered'
<1>1. ASSUME NEW d \in Endpoint  PROVE Answered(d)'
  <2>1. Typed /\ Answered(d)
    BY <1>1 DEF Held, AllAnswered
  <2>2. /\ conn[d].sent <= conn'[d].sent /\ conn'[d].pending = conn[d].pending
        /\ SecondaryKept(conn[d].secondary, conn'[d].secondary)
    <3>1. CASE d = c
      BY <3>1
    <3>2. CASE d # c
      <4>1. conn'[d] = conn[d]
        BY <1>1, <3>2 DEF OnlyConn
      <4>2. conn[d].sent \in Nat
        BY <1>1, <2>1, TypedFacts
      <4>3. QED
        BY <4>1, <4>2 DEF SecondaryKept
    <3>3. QED
      BY <3>1, <3>2
  <2>3. /\ Waits(conn'[d], result'[d])
        /\ \A n : HasReply(conn'[d], n) => HasReply(conn[d], n)
    BY <2>1, <2>2, WaitsKept DEF Answered
  <2>4. ASSUME NEW n \in Number  PROVE RepIn(d, n)' => RepIn(d, n)
    <3>1. PICK e \in Endpoint : e = Peer[d]
      BY <1>1, Ends2
    <3>2. Owes(e, n)' \/ Replies(e, n)' => Owes(e, n) \/ Replies(e, n)
      BY <2>4
    <3>3. HasReply(conn[d], n)' => HasReply(conn[d], n)
      BY <2>3
    <3>4. QED
      BY <3>1, <3>2, <3>3 DEF RepIn
  <2>5. \A n \in Number : result'[d][n] = result[d][n]
    OBVIOUS
  <2>6. handled'[d] = handled[d]
    OBVIOUS
  <2>7. \A m \in Message : m.kind = "sync" /\ ReqIn(d, m)' => ReqIn(d, m)
    BY <1>1
  <2>8. QED
    BY <1>1, <2>1, <2>2, <2>3, <2>4, <2>5, <2>6, <2>7, AnsweredAt
<1>2. QED
  BY <1>1 DEF AllAnswered

LEMMA GotKept ==
    ASSUME Typed, Typed', NEW c \in Endpoint, OnlyConn(c), NEW p \in Proc, OnlyProc(p),
           KeepsIncoming(conn[c], conn'[c]), \A x : Item(main'[p], x) => Item(main[p], x)
    PROVE  \A d \in Endpoint : \A m : Got(d, m)' => Got(d, m)
<1>1. ASSUME NEW d \in Endpoint  PROVE Elems(conn'[d].incoming) \subseteq Elems(conn[d].incoming)
  <2>1. CASE d = c
    <3>1. conn[c] \in ConnectionState /\ conn'[c] \in ConnectionState
      BY DEF Typed
    <3>2. QED
      BY <2>1, <3>1, IncomingKept
  <2>2. CASE d # c
    BY <1>1, <2>2 DEF OnlyConn
  <2>3. QED
    BY <2>1, <2>2
<1>2. ASSUME NEW d \in Endpoint  PROVE \A x : Item(main'[Owner[d]], x) => Item(main[Owner[d]], x)
  <2>1. Owner[d] \in Proc
    BY <1>2, Ends2
  <2>2. CASE Owner[d] = p
    BY <2>2
  <2>3. CASE Owner[d] # p
    BY <2>1, <2>3 DEF OnlyProc
  <2>4. QED
    BY <2>2, <2>3
<1>3. QED
  BY <1>1, <1>2 DEF Got

LEMMA OwesKept ==
    ASSUME NEW p \in Proc, OnlyProc(p), Passive(main[p], main'[p]),
           main'[p].delayed \subseteq main[p].delayed
    PROVE  \A d \in Endpoint : \A n : Owes(d, n)' => Owes(d, n)
<1>1. ASSUME NEW d \in Endpoint
      PROVE  /\ \A m : Handles(main'[Owner[d]].stack, d, m) => Handles(main[Owner[d]].stack, d, m)
             /\ main'[Owner[d]].delayed \subseteq main[Owner[d]].delayed
  <2>1. Owner[d] \in Proc
    BY <1>1, Ends2
  <2>2. CASE Owner[d] = p
    BY <2>2 DEF Passive
  <2>3. CASE Owner[d] # p
    BY <2>1, <2>3 DEF OnlyProc
  <2>4. QED
    BY <2>2, <2>3
<1>2. QED
  BY <1>1 DEF Owes

LEMMA ReqKept ==
    ASSUME \A d \in Endpoint : \A m : Got(d, m)' => Got(d, m),
           \A d \in Endpoint : \A m \in Elems(conn'[d].out) \cup Elems(wire'[d]) :
              m \in Elems(conn[d].out) \cup Elems(wire[d]) \/ m.kind # "sync"
    PROVE  \A d \in Endpoint, m \in Message : m.kind = "sync" /\ ReqIn(d, m)' => ReqIn(d, m)
<1>1. ASSUME NEW d \in Endpoint, NEW m \in Message, m.kind = "sync", ReqIn(d, m)'  PROVE ReqIn(d, m)
  <2>1. PICK e \in Endpoint : e = Peer[d]
    BY <1>1, Ends2
  <2>2. Got(e, m)' => Got(e, m)
    BY <2>1
  <2>3. m \in Elems(conn'[d].out) \cup Elems(wire'[d]) => m \in Elems(conn[d].out) \cup Elems(wire[d])
    BY <1>1
  <2>4. m \in Elems(conn'[d].out) \cup Elems(wire'[d]) \/ Got(e, m)'
    BY <1>1, <2>1 DEF ReqIn
  <2>5. QED
    BY <2>1, <2>2, <2>3, <2>4 DEF ReqIn
<1>2. QED
  BY <1>1

LEMMA AnsweredQuiet ==
    ASSUME Held, Typed', AllAnswered, NEW c \in Endpoint, NEW p \in Proc, Untouched(c), OnlyProc(p),
           UNCHANGED <<wire, result, handled>>, Passive(main[p], main'[p]),
           main'[p].delayed = main[p].delayed, conn'[c].pending = conn[c].pending,
           SecondaryKept(conn[c].secondary, conn'[c].secondary)
    PROVE  AllAnswered'
<1>1. Typed /\ OnlyConn(c) /\ KeepsIncoming(conn[c], conn'[c]) /\ conn[c].sent <= conn'[c].sent
  <2>1. Typed
    BY DEF Held
  <2>2. conn[c].sent \in Nat
    BY <2>1, TypedFacts
  <2>3. QED
    BY <2>1, <2>2 DEF Untouched, KeepsIncoming
<1>2. \A d \in Endpoint : conn'[d].out = conn[d].out
  BY DEF Untouched, OnlyConn
<1>3. \A d \in Endpoint : \A m : Got(d, m)' => Got(d, m)
  <2>1. \A x : Item(main'[p], x) => Item(main[p], x)
    BY DEF Passive
  <2>2. QED
    BY <1>1, <2>1, GotKept
<1>4. \A d \in Endpoint : \A n : Owes(d, n)' => Owes(d, n)
  BY OwesKept
<1>5. \A d \in Endpoint, m \in Message : m.kind = "sync" /\ ReqIn(d, m)' => ReqIn(d, m)
  BY <1>2, <1>3, ReqKept
<1>6. \A d \in Endpoint, n \in Number : Owes(d, n)' \/ Replies(d, n)' => Owes(d, n) \/ Replies(d, n)
  BY <1>2, <1>4 DEF Replies
<1>7. QED
  BY <1>1, <1>5, <1>6, AnsweredMoves
Tracked == Ordered /\ AllAnswered

\* Steps that leave the requests, the replies and the calls where they are.
LEMMA TrackedQuiet ==
    ASSUME Held, Typed', Tracked, NEW c \in Endpoint, NEW p \in Proc, Untouched(c), OnlyProc(p),
           UNCHANGED <<wire, result, handled>>, Passive(main[p], main'[p]),
           main'[p].delayed = main[p].delayed, conn'[c].pending = conn[c].pending,
           SecondaryKept(conn[c].secondary, conn'[c].secondary)
    PROVE  Tracked'
<1>1. Ordered'
  BY OrderedQuiet DEF Tracked
<1>2. AllAnswered'
  BY AnsweredQuiet DEF Tracked
<1>3. QED
  BY <1>1, <1>2 DEF Tracked

LEMMA TrackedMain ==
    ASSUME Held, Typed', Tracked, NEW p \in Proc, OnlyProc(p), UNCHANGED <<conn, wire, result, handled>>,
           Passive(main[p], main'[p]), main'[p].delayed = main[p].delayed
    PROVE  Tracked'
<1>1. CASE Endpoint = {}
  <2>1. \A q \in Proc : Once(main'[q])
    BY DEF Passive, OnlyProc, Tracked, Ordered
  <2>2. Ordered'
    BY <1>1, <2>1 DEF Ordered
  <2>3. AllAnswered'
    BY <1>1 DEF AllAnswered
  <2>4. QED
    BY <2>2, <2>3 DEF Tracked
<1>2. ASSUME NEW c \in Endpoint  PROVE Tracked'
  <2>1. /\ Untouched(c) /\ conn'[c].pending = conn[c].pending
        /\ SecondaryKept(conn[c].secondary, conn'[c].secondary)
    BY DEF Untouched, OnlyConn, SecondaryKept
  <2>2. UNCHANGED <<wire, result, handled>>
    OBVIOUS
  <2>3. QED
    BY <1>2, <2>1, <2>2, TrackedQuiet
<1>3. QED
  BY <1>1, <1>2

LEMMA TrackedSwapMessages ==
    ASSUME Held, Tracked, NEW p \in Proc, SwapMessages(p)
    PROVE  Tracked'
<1>1. Typed /\ Bounded
  BY DEF Held
<1>2. /\ Typed' /\ OnlyProc(p) /\ UNCHANGED <<conn, wire, result, handled>>
      /\ IsSwap(main[p], main'[p])
  BY <1>1, FormSwapMessages
<1>3. main[p] \in ProcState /\ main'[p] \in ProcState /\ StackFits(p, main[p].stack)
  BY <1>2, HeldFacts
<1>4. Rearranged(main[p], main'[p])
  BY <1>2, <1>3, MoveSwap
<1>5. Passive(main[p], main'[p]) /\ main'[p].delayed = main[p].delayed
  BY <1>2, <1>3, <1>4, PassiveSwap DEF IsSwap
<1>6. QED
  BY <1>2, <1>5, TrackedMain

LEMMA TrackedPutBackMessages ==
    ASSUME Held, Tracked, NEW p \in Proc, PutBackMessages(p)
    PROVE  Tracked'
<1>1. Typed /\ Bounded
  BY DEF Held
<1>2. /\ Typed' /\ OnlyProc(p) /\ UNCHANGED <<conn, wire, result, handled>>
      /\ IsPutBack(main[p], main'[p])
  BY <1>1, FormPutBackMessages
<1>3. main[p] \in ProcState /\ main'[p] \in ProcState /\ StackFits(p, main[p].stack)
  BY <1>2, HeldFacts
<1>4. Rearranged(main[p], main'[p])
  BY <1>2, <1>3, MovePutBack
<1>5. Passive(main[p], main'[p]) /\ main'[p].delayed = main[p].delayed
  BY <1>2, <1>3, <1>4, PassivePutBack DEF IsPutBack
<1>6. QED
  BY <1>2, <1>5, TrackedMain

LEMMA TrackedWaitDispatches ==
    ASSUME Held, Tracked, NEW p \in Proc, WaitDispatches(p)
    PROVE  Tracked'
<1>1. Typed /\ Bounded
  BY DEF Held
<1>2. /\ Typed' /\ OnlyProc(p) /\ UNCHANGED <<conn, wire, result, handled>>
      /\ IsWaitDispatch(main[p], main'[p])
  BY <1>1, FormWaitDispatches
<1>3. main[p] \in ProcState /\ main'[p] \in ProcState /\ StackFits(p, main[p].stack)
  BY <1>2, HeldFacts
<1>4. Rearranged(main[p], main'[p])
  BY <1>2, <1>3, MoveWaitDispatch
<1>5. Passive(main[p], main'[p]) /\ main'[p].delayed = main[p].delayed
  BY <1>2, <1>3, <1>4, PassiveWaitDispatch DEF IsWaitDispatch
<1>6. QED
  BY <1>2, <1>5, TrackedMain

LEMMA TrackedTurn ==
    ASSUME Held, Tracked, NEW p \in Proc, NEW x, Typed', OnlyProc(p),
           UNCHANGED <<conn, wire, result, handled>>, IsTurn(main[p], main'[p], x)
    PROVE  Tracked'
<1>3. main[p] \in ProcState /\ main'[p] \in ProcState /\ StackFits(p, main[p].stack)
  BY HeldFacts
<1>4. Rearranged(main[p], main'[p])
  BY <1>3, MoveTurn
<1>5. Passive(main[p], main'[p]) /\ main'[p].delayed = main[p].delayed
  BY <1>3, <1>4, PassiveTurn DEF IsTurn
<1>6. QED
  BY <1>5, TrackedMain

\* Steps of one connection whose queues stay.
LEMMA TrackedConn ==
    ASSUME Held, Typed', Tracked, NEW c \in Endpoint, OnlyConn(c), main' = main,
           UNCHANGED <<wire, result, handled>>, SameQueues(conn[c], conn'[c])
    PROVE  Tracked'
<1>1. PICK p \in Proc : p = Owner[c]
  BY Ends2
<1>2. /\ Untouched(c) /\ conn'[c].pending = conn[c].pending /\ OnlyProc(p)
      /\ SecondaryKept(conn[c].secondary, conn'[c].secondary)
  BY DEF Untouched, SameQueues, SecondaryKept, OnlyProc
<1>3. Passive(main[p], main'[p]) /\ main'[p].delayed = main[p].delayed
  BY PassiveSame
<1>4. QED
  BY <1>1, <1>2, <1>3, TrackedQuiet

LEMMA TrackedAlone ==
    ASSUME Held, Tracked, NEW c \in Endpoint,
           Invalidate(c) \/ PlatformInvalidate(c) \/ (ReadyRead(c) /\ conn[c].connected)
    PROVE  Tracked'
<1>1. Typed /\ Bounded
  BY DEF Held
<1>2. /\ Typed' /\ OnlyConn(c) /\ UNCHANGED <<main, wire, result, handled>>
      /\ SameQueues(conn[c], conn'[c])
  <2>1. CASE Invalidate(c)
    BY <1>1, <2>1, FormInvalidate
  <2>2. CASE PlatformInvalidate(c) \/ (ReadyRead(c) /\ conn[c].connected)
    BY <1>1, <2>2, FormTasks
  <2>3. QED
    BY <2>1, <2>2
<1>3. QED
  BY <1>2, TrackedConn

\* The work queue signals the client.
LEMMA TrackedSignals ==
    ASSUME Held, Typed', Tracked, NEW c \in Endpoint, NEW p \in Proc, OnlyConn(c), OnlyProc(p),
           UNCHANGED <<wire, result, handled>>, main'[p].stack = main[p].stack,
           main'[p].messages = main[p].messages, main'[p].delayed = main[p].delayed,
           conn'[c].out = conn[c].out, conn'[c].incoming = conn[c].incoming,
           conn'[c].sent = conn[c].sent, conn'[c].pending = conn[c].pending,
           SecondaryKept(conn[c].secondary, conn'[c].secondary)
    PROVE  Tracked'
<1>1. Untouched(c)
  BY DEF Untouched
<1>2. Passive(main[p], main'[p])
  BY PassiveSame
<1>3. QED
  BY <1>1, <1>2, TrackedQuiet

LEMMA TrackedWakeUpClient ==
    ASSUME Held, Tracked, NEW c \in Endpoint, WakeUpClient(c)
    PROVE  Tracked'
<1>1. Typed /\ Bounded
  BY DEF Held
<1>2. PICK p \in Proc : p = Owner[c]
  BY Ends2
<1>3. /\ Typed' /\ OnlyConn(c) /\ OnlyProc(p) /\ UNCHANGED <<wire, result, handled>>
      /\ SameQueues(conn[c], conn'[c]) /\ IsStill(main[p], main'[p])
      /\ main'[p].delayed = main[p].delayed
  BY <1>1, <1>2, FormWakeUpClient
<1>4. /\ main'[p].stack = main[p].stack /\ main'[p].messages = main[p].messages
      /\ conn'[c].out = conn[c].out /\ conn'[c].incoming = conn[c].incoming
      /\ conn'[c].sent = conn[c].sent /\ conn'[c].pending = conn[c].pending
      /\ SecondaryKept(conn[c].secondary, conn'[c].secondary)
  BY <1>3 DEF SameQueues, IsStill, SecondaryKept
<1>5. QED
  BY <1>3, <1>4, TrackedSignals

LEMMA TrackedPostDidClose ==
    ASSUME Held, Tracked, NEW c \in Endpoint, PostDidClose(c)
    PROVE  Tracked'
<1>1. Typed /\ Bounded
  BY DEF Held
<1>2. PICK p \in Proc : p = Owner[c]
  BY Ends2
<1>3. /\ Typed' /\ OnlyConn(c) /\ OnlyProc(p) /\ UNCHANGED <<wire, result, handled>>
      /\ SameQueues(conn[c], conn'[c])
      /\ \E fn \in Function : IsPost(main[p], main'[p], fn)
  BY <1>1, <1>2, FormPostDidClose
<1>4. /\ main'[p].stack = main[p].stack /\ main'[p].messages = main[p].messages
      /\ main'[p].delayed = main[p].delayed
  BY <1>3 DEF IsPost
<1>5. /\ conn'[c].out = conn[c].out /\ conn'[c].incoming = conn[c].incoming
      /\ conn'[c].sent = conn[c].sent /\ conn'[c].pending = conn[c].pending
      /\ SecondaryKept(conn[c].secondary, conn'[c].secondary)
  BY <1>3 DEF SameQueues, SecondaryKept
<1>6. QED
  BY <1>3, <1>4, <1>5, TrackedSignals

LEMMA TrackedDidClose ==
    ASSUME Held, Tracked, NEW c \in Endpoint, HangUp(c) \/ (ReadyRead(c) /\ ~conn[c].connected)
    PROVE  Tracked'
<1>1. Typed /\ Bounded
  BY DEF Held
<1>2. PICK p \in Proc : p = Owner[c]
  BY Ends2
<1>3. PICK done \in SUBSET {"readyRead"} :
        /\ DidClose(c, done) /\ conn[c].wq = "idle"
        /\ \/ conn[c].connected /\ done = {}
           \/ "readyRead" \in conn[c].tasks /\ done = {"readyRead"} /\ ~conn[c].connected
  BY DEF HangUp, ReadyRead
<1>4. /\ Typed' /\ OnlyConn(c) /\ OnlyProc(p) /\ UNCHANGED <<wire, result, handled>>
      /\ conn'[c].out = conn[c].out /\ conn'[c].incoming = conn[c].incoming
      /\ conn'[c].pending = conn[c].pending /\ conn'[c].sent = conn[c].sent
      /\ conn'[c].secondary = Signalled(conn[c].secondary)
      /\ IsStill(main[p], main'[p]) /\ main'[p].delayed = main[p].delayed
  BY <1>1, <1>2, <1>3, FormDidClose
<1>5. SecondaryKept(conn[c].secondary, conn'[c].secondary)
  <2>1. conn[c].secondary \in Secondary
    BY <1>1, TypedFacts
  <2>2. QED
    BY <1>4, <2>1 DEF Signalled, SecondaryKept, Secondary
<1>6. main'[p].stack = main[p].stack /\ main'[p].messages = main[p].messages
  BY <1>4 DEF IsStill
<1>7. QED
  BY <1>4, <1>5, <1>6, TrackedSignals

LEMMA TrackedSecondaryChecks ==
    ASSUME Held, Tracked, NEW c \in Endpoint, SecondaryChecks(c)
    PROVE  Tracked'
<1>1. Typed /\ Bounded
  BY DEF Held
<1>2. PICK p \in Proc : p = Owner[c]
  BY Ends2
<1>3. /\ Typed' /\ OnlyConn(c) /\ UNCHANGED <<main, wire, result, handled>>
      /\ conn'[c].out = conn[c].out
      /\ conn'[c].incoming = conn[c].incoming /\ conn'[c].pending = conn[c].pending
      /\ conn'[c].sent = conn[c].sent
      /\ conn[c].secondary.at = "out" /\ conn'[c].secondary.at = "valid"
      /\ conn'[c].secondary.replied = conn[c].secondary.replied
  BY <1>1, FormSecondaryChecks
<1>4. SecondaryKept(conn[c].secondary, conn'[c].secondary)
  BY <1>3 DEF SecondaryKept
<1>5. OnlyProc(p) /\ main'[p].stack = main[p].stack /\ main'[p].messages = main[p].messages
      /\ main'[p].delayed = main[p].delayed
  BY <1>3 DEF OnlyProc
<1>6. QED
  BY <1>3, <1>4, <1>5, TrackedSignals
\* A call begins or ends on connection c, or an asynchronous message is sent.
LEMMA AnsweredCall ==
    ASSUME Held, Typed', AllAnswered, NEW c \in Endpoint, NEW p \in Proc, OnlyConn(c), OnlyProc(p),
           wire' = wire, handled' = handled, Passive(main[p], main'[p]),
           main'[p].delayed = main[p].delayed, conn'[c].incoming = conn[c].incoming,
           conn[c].sent <= conn'[c].sent,
           \/ conn'[c].out = conn[c].out
           \/ \E m \in Message : /\ conn'[c].out = Append(conn[c].out, m) /\ Request(m)
                                 /\ m.id > conn[c].sent
                                 /\ m.kind = "sync" => result'[c][m.id] # "idle",
           \A d \in Endpoint \ {c} : result'[d] = result[d],
           \A n \in Number : \/ result'[c][n] = result[c][n]
                             \/ result'[c][n] # "idle" /\ n <= conn'[c].sent,
           Waits(conn'[c], result'[c]),
           \A n : HasReply(conn'[c], n) => HasReply(conn[c], n)
    PROVE  AllAnswered'
<1>1. Typed
  BY DEF Held
<1>2. \A d \in Endpoint : \A m : Got(d, m)' => Got(d, m)
  <2>1. KeepsIncoming(conn[c], conn'[c]) /\ \A x : Item(main'[p], x) => Item(main[p], x)
    BY DEF KeepsIncoming, Passive
  <2>2. QED
    BY <1>1, <2>1, GotKept
<1>3. \A d \in Endpoint : \A n : Owes(d, n)' => Owes(d, n)
  BY OwesKept
<1>4. ASSUME NEW d \in Endpoint, NEW m \in Elems(conn'[d].out)
      PROVE  \/ m \in Elems(conn[d].out)
             \/ d = c /\ Request(m) /\ m.id > conn[c].sent /\ (m.kind = "sync" => result'[c][m.id] # "idle")
  <2>1. CASE conn'[d].out = conn[d].out
    BY <1>4, <2>1
  <2>2. ASSUME NEW x \in Message, d = c, conn'[c].out = Append(conn[c].out, x), Request(x),
               x.id > conn[c].sent, x.kind = "sync" => result'[c][x.id] # "idle"
        PROVE  \/ m \in Elems(conn[d].out)
               \/ d = c /\ Request(m) /\ m.id > conn[c].sent /\ (m.kind = "sync" => result'[c][m.id] # "idle")
    <3>1. conn[c].out \in Seq(Message)
      BY <1>1, TypedFacts
    <3>2. Elems(Append(conn[c].out, x)) = Elems(conn[c].out) \cup {x}
      BY <2>2, <3>1, ElemsAppend
    <3>3. m \in Elems(conn[c].out) \/ m = x
      BY <1>4, <2>2, <3>2
    <3>4. QED
      BY <2>2, <3>3
  <2>3. d # c => conn'[d].out = conn[d].out
    BY <1>4 DEF OnlyConn
  <2>4. QED
    BY <2>1, <2>2, <2>3
<1>5. \A d \in Endpoint : \A n : Replies(d, n)' => Replies(d, n)
  BY <1>4 DEF Replies, Request
<1>6. ASSUME NEW d \in Endpoint  PROVE Answered(d)'
  <2>1. PICK e \in Endpoint : e = Peer[d]
    BY <1>6, Ends2
  <2>2. Answered(d) /\ Waits(conn[d], result[d])
    BY <1>6 DEF AllAnswered, Answered
  <2>3. /\ conn[d].sent <= conn'[d].sent /\ Waits(conn'[d], result'[d])
        /\ \A n : HasReply(conn'[d], n) => HasReply(conn[d], n)
        /\ \A n \in Number : \/ result'[d][n] = result[d][n]
                             \/ result'[d][n] # "idle" /\ n <= conn'[d].sent
    <3>1. CASE d = c
      BY <3>1
    <3>2. CASE d # c
      <4>1. conn'[d] = conn[d] /\ result'[d] = result[d] /\ conn[d].sent \in Nat
        BY <1>1, <1>6, <3>2, TypedFacts DEF OnlyConn
      <4>2. QED
        BY <2>2, <4>1
    <3>3. QED
      BY <3>1, <3>2
  <2>4. \A n \in Number : RepIn(d, n)' => RepIn(d, n)
    <3>1. \A n : Owes(e, n)' => Owes(e, n)
      BY <1>3
    <3>2. \A n : Replies(e, n)' => Replies(e, n)
      BY <1>5
    <3>3. \A n : HasReply(conn[d], n)' => HasReply(conn[d], n)
      BY <2>3
    <3>4. QED
      BY <2>1, <3>1, <3>2, <3>3 DEF RepIn
  <2>5. ASSUME NEW m \in Message, m.kind = "sync", ReqIn(d, m)'
        PROVE  ReqIn(d, m) \/ (m.id > conn[d].sent /\ result'[d][m.id] # "idle")
    <3>1. Got(e, m)' => Got(e, m)
      BY <1>2
    <3>2. m \in Elems(conn'[d].out) \/ m \in Elems(wire[d]) \/ Got(e, m)'
      BY <2>1, <2>5 DEF ReqIn
    <3>3. QED
      BY <1>4, <1>6, <2>1, <2>5, <3>1, <3>2 DEF ReqIn
  <2>6. handled'[d] = handled[d]
    OBVIOUS
  <2>7. QED
    BY <1>1, <1>6, <2>2, <2>3, <2>4, <2>5, <2>6, AnsweredAt
<1>7. QED
  BY <1>6 DEF AllAnswered

\* The same for both invariants.
LEMMA TrackedCall ==
    ASSUME Held, Typed', Tracked, NEW c \in Endpoint, NEW p \in Proc, OnlyConn(c), OnlyProc(p),
           wire' = wire, handled' = handled, Passive(main[p], main'[p]),
           main'[p].delayed = main[p].delayed, conn'[c].incoming = conn[c].incoming,
           \/ conn'[c].out = conn[c].out /\ conn'[c].sent \in {conn[c].sent, conn[c].sent + 1}
           \/ \E m \in Message : /\ conn'[c].out = Append(conn[c].out, m) /\ Request(m)
                                 /\ m.id = conn[c].sent + 1 /\ conn'[c].sent = m.id
                                 /\ m.kind = "sync" => result'[c][m.id] # "idle",
           \A d \in Endpoint \ {c} : result'[d] = result[d],
           \A n \in Number : \/ result'[c][n] = result[c][n]
                             \/ result'[c][n] # "idle" /\ n <= conn'[c].sent,
           Waits(conn'[c], result'[c]),
           \A n : HasReply(conn'[c], n) => HasReply(conn[c], n)
    PROVE  Tracked'
<1>1. Typed /\ conn[c].sent \in Nat
  BY TypedFacts DEF Held
<1>2. Ordered'
  <2>1. Streams(conn[c], wire[c], conn'[c], wire'[c]) /\ KeepsIncoming(conn[c], conn'[c])
    BY DEF Streams, KeepsIncoming
  <2>2. Inherit(main[p], main'[p], c, Elems(conn[c].incoming))
    BY PassiveInherit
  <2>3. QED
    BY <2>1, <2>2, OrderedOne DEF Tracked
<1>3. AllAnswered'
  <2>1. /\ conn[c].sent <= conn'[c].sent
        /\ \/ conn'[c].out = conn[c].out
           \/ \E m \in Message : /\ conn'[c].out = Append(conn[c].out, m) /\ Request(m)
                                 /\ m.id > conn[c].sent
                                 /\ m.kind = "sync" => result'[c][m.id] # "idle"
    BY <1>1
  <2>2. QED
    BY <2>1, AnsweredCall DEF Tracked
<1>4. QED
  BY <1>2, <1>3 DEF Tracked

LEMMA TrackedSendAsync ==
    ASSUME Held, Tracked, NEW c \in Endpoint, NEW flag \in SendFlags, SendAsync(c, flag)
    PROVE  Tracked'
<1>1. Typed /\ Bounded
  BY DEF Held
<1>2. PICK p \in Proc : p = Owner[c]
  BY Ends2
<1>3. /\ Typed' /\ OnlyConn(c) /\ UNCHANGED <<main, wire, result, handled>>
      /\ conn'[c].pending = conn[c].pending /\ conn'[c].secondary = conn[c].secondary
      /\ \E m : IsSent(c, m) /\ m.kind = "async"
  BY <1>1, FormSendAsync
<1>4. PICK m : IsSent(c, m) /\ m.kind = "async"
  BY <1>3
<1>5. /\ m \in Message /\ conn'[c].out = Append(conn[c].out, m) /\ Request(m)
      /\ m.id = conn[c].sent + 1 /\ conn'[c].sent = m.id
      /\ (m.kind = "sync" => result'[c][m.id] # "idle") /\ conn'[c].incoming = conn[c].incoming
  BY <1>4 DEF IsSent, Request
<1>6. OnlyProc(p) /\ Passive(main[p], main'[p]) /\ main'[p].delayed = main[p].delayed
  BY <1>3, PassiveSame DEF OnlyProc
<1>7. /\ Waits(conn'[c], result'[c]) /\ \A n : HasReply(conn'[c], n) => HasReply(conn[c], n)
  <2>1. Waits(conn[c], result[c])
    BY DEF Tracked, AllAnswered, Answered
  <2>2. SecondaryKept(conn[c].secondary, conn'[c].secondary)
    BY <1>3 DEF SecondaryKept
  <2>3. QED
    BY <1>3, <2>1, <2>2, WaitsKept
<1>8. QED
  BY <1>2, <1>3, <1>5, <1>6, <1>7, TrackedCall
\* One call's result changes.
LEMMA ResultSet ==
    ASSUME Typed, NEW c \in Endpoint, NEW n \in Number, NEW x,
           result' = [result EXCEPT ![c][n] = x]
    PROVE  /\ \A d \in Endpoint \ {c} : result'[d] = result[d]
           /\ result'[c][n] = x /\ \A i \in Number : i # n => result'[c][i] = result[c][i]
BY DEF Typed

\* The next number on c is that of no call yet.
LEMMA NextNumber ==
    ASSUME Held, NEW c \in Endpoint
    PROVE  /\ \A n \in Ids(conn[c].pending) : n \in Number /\ n # conn[c].sent + 1
           /\ conn[c].secondary.at = "waiting" =>
                 conn[c].secondary.id \in Number /\ conn[c].secondary.id # conn[c].sent + 1
<1>1. Typed /\ conn[c].sent \in Nat /\ conn[c].pending \in Seq(PendingSyncReply)
  BY TypedFacts DEF Held
<1>2. Ids(conn[c].pending) \subseteq Number /\ \A n \in Number : n \in Nat
  BY <1>1, IdsAre, Numbers
<1>3. /\ \A n \in Ids(conn[c].pending) : n <= conn[c].sent
      /\ conn[c].secondary.at = "waiting" =>
            conn[c].secondary.id \in Number /\ conn[c].secondary.id <= conn[c].sent
  BY DEF Held, ConnFits, PendingFits, WaitingFits
<1>4. QED
  BY <1>1, <1>2, <1>3

LEMMA TrackedSendSync ==
    ASSUME Held, Tracked, NEW c \in Endpoint, SendSync(c)
    PROVE  Tracked'
<1>1. Typed /\ Bounded
  BY DEF Held
<1>2. PICK p \in Proc : p = Owner[c]
  BY Ends2
<1>3. /\ Typed' /\ OnlyConn(c) /\ OnlyProc(p) /\ UNCHANGED <<wire, handled>>
      /\ \E m : IsSent(c, m) /\ m.kind = "sync"
      /\ conn'[c].secondary = conn[c].secondary
      /\ conn'[c].pending = Append(conn[c].pending, [id |-> conn[c].sent + 1, didReceiveReply |-> FALSE])
      /\ \E fr \in Frame : fr.f = "sendSync" /\ fr.c = c /\ IsCall(main[p], main'[p], fr)
      /\ main'[p].delayed = main[p].delayed /\ conn[c].sent + 1 \in Number
      /\ result' = [result EXCEPT ![c][conn[c].sent + 1] = "sent"]
  BY <1>1, <1>2, FormSendSync
<1>4. PICK n \in Number : n = conn[c].sent + 1
  BY <1>3
<1>5. PICK m : IsSent(c, m) /\ m.kind = "sync"
  BY <1>3
<1>6. /\ \A d \in Endpoint \ {c} : result'[d] = result[d]
      /\ result'[c][n] = "sent" /\ \A i \in Number : i # n => result'[c][i] = result[c][i]
  BY <1>1, <1>3, <1>4, ResultSet
<1>7. /\ m \in Message /\ conn'[c].out = Append(conn[c].out, m) /\ Request(m)
      /\ m.id = conn[c].sent + 1 /\ conn'[c].sent = m.id /\ m.id = n
      /\ (m.kind = "sync" => result'[c][m.id] # "idle") /\ conn'[c].incoming = conn[c].incoming
  BY <1>4, <1>5, <1>6 DEF IsSent, Request
<1>8. Passive(main[p], main'[p])
  <2>1. PICK fr \in Frame : fr.f = "sendSync" /\ fr.c = c /\ IsCall(main[p], main'[p], fr)
    BY <1>3
  <2>2. main[p] \in ProcState /\ main'[p] \in ProcState /\ StackFits(p, main[p].stack)
    BY <1>3, HeldFacts
  <2>3. Settled(main[p].stack)
    BY <1>2, ClientSettled DEF SendSync
  <2>4. FrameFits(p, fr)
    BY <1>2, <2>1 DEF FrameFits
  <2>5. Rearranged(main[p], main'[p])
    BY <2>1, <2>2, <2>3, <2>4, MoveCall
  <2>6. QED
    BY <2>1, <2>2, <2>5, PassiveCall
<1>9. /\ conn[c].pending \in Seq(PendingSyncReply) /\ Waits(conn[c], result[c])
  BY <1>1, TypedFacts DEF Tracked, AllAnswered, Answered
<1>10. PICK x \in PendingSyncReply : x = [id |-> n, didReceiveReply |-> FALSE]
  BY DEF PendingSyncReply
<1>11. conn'[c].pending = Append(conn[c].pending, x) /\ x.id = n /\ ~x.didReceiveReply
  BY <1>3, <1>4, <1>10
<1>12. /\ Len(conn[c].pending) \in Nat /\ Len(conn'[c].pending) = Len(conn[c].pending) + 1
       /\ conn'[c].pending[Len(conn[c].pending) + 1] = x
       /\ \A i \in 1..Len(conn[c].pending) : conn'[c].pending[i] = conn[c].pending[i]
  BY <1>9, <1>11, AppendFacts
<1>13. \A i \in 1..Len(conn'[c].pending) :
          conn'[c].pending[i] = x \/ (i \in 1..Len(conn[c].pending) /\ conn'[c].pending[i] = conn[c].pending[i])
  BY <1>12
<1>14. Ids(conn'[c].pending) \subseteq Ids(conn[c].pending) \cup {n}
  BY <1>11, <1>13 DEF Ids
<1>15. \A i : HasReply(conn'[c], i) => HasReply(conn[c], i)
  BY <1>3, <1>11, <1>13 DEF HasReply
<1>16. Waits(conn'[c], result'[c])
  <2>1. /\ \A i \in Ids(conn[c].pending) : i \in Number /\ i # n
        /\ conn[c].secondary.at = "waiting" => conn[c].secondary.id \in Number /\ conn[c].secondary.id # n
    BY <1>4, NextNumber
  <2>2. \A i \in Ids(conn'[c].pending) : result'[c][i] = "sent"
    BY <1>6, <1>9, <1>14, <2>1 DEF Waits
  <2>3. QED
    BY <1>3, <1>6, <1>9, <1>14, <2>1, <2>2 DEF Waits
<1>17. \A i \in Number : \/ result'[c][i] = result[c][i]
                         \/ result'[c][i] # "idle" /\ i <= conn'[c].sent
  BY <1>6, <1>7, Numbers
<1>18. QED
  BY <1>2, <1>3, <1>6, <1>7, <1>8, <1>15, <1>16, <1>17, TrackedCall

\* The call fails at once.
LEMMA TrackedFails ==
    ASSUME Held, Typed', Tracked, NEW c \in Endpoint, OnlyConn(c), UNCHANGED <<main, wire, handled>>,
           conn'[c].out = conn[c].out, conn'[c].incoming = conn[c].incoming,
           conn'[c].pending = conn[c].pending, SecondaryKept(conn[c].secondary, conn'[c].secondary),
           conn'[c].sent = conn[c].sent + 1, conn[c].sent + 1 \in Number,
           result' = [result EXCEPT ![c][conn[c].sent + 1] = "failed"]
    PROVE  Tracked'
<1>1. Typed /\ Waits(conn[c], result[c])
  BY DEF Held, Tracked, AllAnswered, Answered
<1>2. PICK p \in Proc : p = Owner[c]
  BY Ends2
<1>4. PICK n \in Number : n = conn[c].sent + 1
  OBVIOUS
<1>6. /\ \A d \in Endpoint \ {c} : result'[d] = result[d]
      /\ result'[c][n] = "failed" /\ \A i \in Number : i # n => result'[c][i] = result[c][i]
  BY <1>1, <1>4, ResultSet
<1>7. Waits(conn'[c], result[c]) /\ \A i : HasReply(conn'[c], i) => HasReply(conn[c], i)
  BY <1>1, WaitsKept
<1>8. Waits(conn'[c], result'[c])
  <2>1. /\ \A i \in Ids(conn[c].pending) : i \in Number /\ i # n
        /\ conn[c].secondary.at = "waiting" => conn[c].secondary.id \in Number /\ conn[c].secondary.id # n
    BY <1>4, NextNumber
  <2>2. \A i \in Ids(conn'[c].pending) : result'[c][i] = "sent"
    BY <1>1, <1>6, <2>1 DEF Waits
  <2>3. conn'[c].secondary.at = "waiting" =>
           conn'[c].secondary.id \in Number /\ conn'[c].secondary.id # n
    BY <2>1 DEF SecondaryKept
  <2>4. QED
    BY <1>6, <1>7, <2>2, <2>3 DEF Waits
<1>9. \A i \in Number : \/ result'[c][i] = result[c][i]
                        \/ result'[c][i] # "idle" /\ i <= conn'[c].sent
  <2>1. n <= conn'[c].sent
    BY <1>4, Numbers
  <2>2. QED
    BY <1>6, <2>1
<1>10. OnlyProc(p) /\ Passive(main[p], main'[p]) /\ main'[p].delayed = main[p].delayed
  BY PassiveSame DEF OnlyProc
<1>11. QED
  BY <1>2, <1>6, <1>7, <1>8, <1>9, <1>10, TrackedCall

LEMMA TrackedSendSyncRefused ==
    ASSUME Held, Tracked, NEW c \in Endpoint, SendSyncFails(c), c \notin ExitOnFailure
    PROVE  Tracked'
<1>1. Typed /\ Bounded
  BY DEF Held
<1>2. /\ Typed' /\ OnlyConn(c) /\ UNCHANGED <<main, wire, handled>>
      /\ conn'[c].out = conn[c].out /\ conn'[c].incoming = conn[c].incoming
      /\ conn'[c].pending = conn[c].pending /\ conn'[c].secondary = conn[c].secondary
      /\ conn'[c].sent = conn[c].sent + 1 /\ conn[c].sent + 1 \in Number
      /\ result' = [result EXCEPT ![c][conn[c].sent + 1] = "failed"]
  BY <1>1, FormSendSyncFails
<1>3. SecondaryKept(conn[c].secondary, conn'[c].secondary)
  BY <1>2 DEF SecondaryKept
<1>4. QED
  BY <1>2, <1>3, TrackedFails
\* The secondary thread gives up, or sends.
LEMMA TrackedSecondarySends ==
    ASSUME Held, Tracked, NEW c \in Endpoint, SecondarySends(c)
    PROVE  Tracked'
<1>1. Typed /\ Bounded /\ Waits(conn[c], result[c])
  BY DEF Held, Tracked, AllAnswered, Answered
<1>2. PICK p \in Proc : p = Owner[c]
  BY Ends2
<1>3. /\ Typed' /\ OnlyConn(c) /\ UNCHANGED <<main, wire, handled>>
      /\ conn'[c].incoming = conn[c].incoming /\ conn'[c].pending = conn[c].pending
      /\ conn'[c].sent = conn[c].sent + 1 /\ conn[c].sent + 1 \in Number
      /\ conn[c].secondary.at = "valid"
      /\ \/ /\ conn'[c].secondary = NoSecondary /\ conn'[c].out = conn[c].out
            /\ result' = [result EXCEPT ![c][conn[c].sent + 1] = "failed"]
         \/ /\ conn'[c].secondary.at = "waiting" /\ conn'[c].secondary.id = conn[c].sent + 1
            /\ ~conn'[c].secondary.replied
            /\ result' = [result EXCEPT ![c][conn[c].sent + 1] = "sent"]
            /\ \/ conn'[c].out = conn[c].out
               \/ \E m : IsSent(c, m) /\ m.kind = "sync"
  BY <1>1, FormSecondarySends
<1>4. CASE /\ conn'[c].secondary = NoSecondary /\ conn'[c].out = conn[c].out
           /\ result' = [result EXCEPT ![c][conn[c].sent + 1] = "failed"]
  <2>1. SecondaryKept(conn[c].secondary, conn'[c].secondary)
    <3>1. ~conn[c].secondary.replied
      BY <1>1, <1>3 DEF Waits
    <3>2. QED
      BY <1>3, <1>4, <3>1 DEF SecondaryKept, NoSecondary
  <2>2. QED
    BY <1>3, <1>4, <2>1, TrackedFails
<1>5. CASE /\ conn'[c].secondary.at = "waiting" /\ conn'[c].secondary.id = conn[c].sent + 1
           /\ ~conn'[c].secondary.replied
           /\ result' = [result EXCEPT ![c][conn[c].sent + 1] = "sent"]
           /\ \/ conn'[c].out = conn[c].out
              \/ \E m : IsSent(c, m) /\ m.kind = "sync"
  <2>1. PICK n \in Number : n = conn[c].sent + 1
    BY <1>3
  <2>2. /\ \A d \in Endpoint \ {c} : result'[d] = result[d]
        /\ result'[c][n] = "sent" /\ \A i \in Number : i # n => result'[c][i] = result[c][i]
    <3>1. result' = [result EXCEPT ![c][n] = "sent"]
      BY <1>5, <2>1
    <3>2. Typed
      BY <1>1
    <3>3. QED
      BY <3>1, <3>2, ResultSet
  <2>3. \A i \in Ids(conn[c].pending) : i \in Number /\ i # n
    BY <2>1, NextNumber
  <2>4. Waits(conn'[c], result'[c])
    BY <1>1, <1>3, <1>5, <2>1, <2>2, <2>3 DEF Waits
  <2>5. \A i : HasReply(conn'[c], i) => HasReply(conn[c], i)
    BY <1>3, <1>5 DEF HasReply
  <2>6. \/ conn'[c].out = conn[c].out /\ conn'[c].sent \in {conn[c].sent, conn[c].sent + 1}
        \/ \E m \in Message : /\ conn'[c].out = Append(conn[c].out, m) /\ Request(m)
                              /\ m.id = conn[c].sent + 1 /\ conn'[c].sent = m.id
                              /\ m.kind = "sync" => result'[c][m.id] # "idle"
    BY <1>3, <1>5, <2>1, <2>2 DEF IsSent, Request
  <2>7. \A i \in Number : \/ result'[c][i] = result[c][i]
                          \/ result'[c][i] # "idle" /\ i <= conn'[c].sent
    <3>1. n <= conn'[c].sent
      BY <1>3, <2>1, Numbers
    <3>2. QED
      BY <2>2, <3>1
  <2>8. OnlyProc(p) /\ Passive(main[p], main'[p]) /\ main'[p].delayed = main[p].delayed
    BY <1>3, PassiveSame DEF OnlyProc
  <2>9. QED
    BY <1>2, <1>3, <2>2, <2>4, <2>5, <2>6, <2>7, <2>8, TrackedCall
<1>6. QED
  BY <1>3, <1>4, <1>5

\* A call that was sent ends.
LEMMA SentBefore ==
    ASSUME Held, Tracked, NEW c \in Endpoint, NEW n \in Number, result[c][n] = "sent"
    PROVE  n <= conn[c].sent
<1>1. n \in Nat /\ conn[c].sent \in Nat
  BY Numbers, TypedFacts DEF Held
<1>2. ~(n > conn[c].sent)
  BY DEF Tracked, AllAnswered, Answered
<1>3. QED
  BY <1>1, <1>2

LEMMA TrackedReturns ==
    ASSUME Held, Typed', Tracked, NEW c \in Endpoint, NEW p \in Proc, OnlyConn(c), OnlyProc(p),
           wire' = wire, handled' = handled, Passive(main[p], main'[p]),
           main'[p].delayed = main[p].delayed, conn'[c].incoming = conn[c].incoming,
           conn'[c].out = conn[c].out, conn'[c].sent = conn[c].sent,
           NEW n \in Number, NEW x \in {"ok", "failed"}, result' = [result EXCEPT ![c][n] = x],
           result[c][n] = "sent", Ids(conn'[c].pending) \subseteq Ids(conn[c].pending) \ {n},
           \/ SecondaryKept(conn[c].secondary, conn'[c].secondary)
              /\ (conn[c].secondary.at = "waiting" => conn[c].secondary.id \in Number \ {n})
           \/ conn'[c].secondary = NoSecondary,
           \A i : HasReply(conn'[c], i) => HasReply(conn[c], i)
    PROVE  Tracked'
<1>1. Typed /\ Waits(conn[c], result[c])
  BY DEF Held, Tracked, AllAnswered, Answered
<1>2. /\ \A d \in Endpoint \ {c} : result'[d] = result[d]
      /\ result'[c][n] = x /\ \A i \in Number : i # n => result'[c][i] = result[c][i]
  BY <1>1, ResultSet
<1>3. n <= conn'[c].sent
  BY SentBefore
<1>4. \A i \in Number : \/ result'[c][i] = result[c][i]
                        \/ result'[c][i] # "idle" /\ i <= conn'[c].sent
  BY <1>2, <1>3
<1>5. Waits(conn'[c], result'[c])
  <2>1. Ids(conn[c].pending) \subseteq Number
    BY <1>1, TypedFacts, IdsAre
  <2>2. \A i \in Ids(conn'[c].pending) : result'[c][i] = "sent"
    BY <1>1, <1>2, <2>1 DEF Waits
  <2>3. CASE SecondaryKept(conn[c].secondary, conn'[c].secondary)
             /\ (conn[c].secondary.at = "waiting" => conn[c].secondary.id \in Number \ {n})
    <3>1. CASE conn'[c].secondary.at = "waiting"
      <4>1. /\ conn[c].secondary.at = "waiting" /\ conn'[c].secondary.id = conn[c].secondary.id
            /\ conn[c].secondary.id \in Number /\ conn[c].secondary.id # n
        BY <2>3, <3>1 DEF SecondaryKept
      <4>2. result[c][conn[c].secondary.id] = "sent" /\ conn[c].secondary.id \notin Ids(conn[c].pending)
        BY <1>1, <4>1 DEF Waits
      <4>3. QED
        BY <1>2, <2>2, <3>1, <4>1, <4>2 DEF Waits
    <3>2. CASE conn'[c].secondary.at # "waiting"
      BY <1>1, <2>2, <2>3, <3>2 DEF Waits, SecondaryKept
    <3>3. QED
      BY <3>1, <3>2
  <2>4. CASE conn'[c].secondary = NoSecondary
    BY <2>2, <2>4 DEF Waits, NoSecondary
  <2>5. QED
    BY <2>3, <2>4
<1>6. QED
  BY <1>2, <1>4, <1>5, TrackedCall

LEMMA TrackedSecondaryReturns ==
    ASSUME Held, Tracked, NEW c \in Endpoint, SecondaryReturns(c)
    PROVE  Tracked'
<1>1. Typed /\ Bounded /\ Waits(conn[c], result[c])
  BY DEF Held, Tracked, AllAnswered, Answered
<1>2. PICK p \in Proc : p = Owner[c]
  BY Ends2
<1>3. conn[c].secondary.at = "waiting" /\ conn[c].secondary.id \in Number
  BY DEF SecondaryReturns, Held, ConnFits, WaitingFits
<1>4. /\ Typed' /\ OnlyConn(c) /\ UNCHANGED <<main, wire, handled>>
      /\ conn'[c].out = conn[c].out
      /\ conn'[c].incoming = conn[c].incoming /\ conn'[c].pending = conn[c].pending
      /\ conn'[c].sent = conn[c].sent /\ conn'[c].secondary = NoSecondary
      /\ result' = [result EXCEPT ![c][conn[c].secondary.id] =
                     IF conn[c].secondary.replied THEN "ok" ELSE "failed"]
  BY <1>1, <1>3, FormSecondaryReturns
<1>5. PICK n \in Number, x \in {"ok", "failed"} :
        /\ n = conn[c].secondary.id
        /\ x = IF conn[c].secondary.replied THEN "ok" ELSE "failed"
  BY <1>3
<1>6. /\ result' = [result EXCEPT ![c][n] = x] /\ x \in {"ok", "failed"} /\ result[c][n] = "sent"
      /\ Ids(conn'[c].pending) \subseteq Ids(conn[c].pending) \ {n}
  BY <1>1, <1>3, <1>4, <1>5 DEF Waits
<1>7. \A i : HasReply(conn'[c], i) => HasReply(conn[c], i)
  BY <1>4 DEF HasReply, NoSecondary
<1>8. OnlyProc(p) /\ Passive(main[p], main'[p]) /\ main'[p].delayed = main[p].delayed
  BY <1>4, PassiveSame DEF OnlyProc
<1>9. QED
  BY <1>2, <1>4, <1>6, <1>7, <1>8, TrackedReturns

\* The last pending reply is popped.
LEMMA PopIds ==
    ASSUME NEW q \in Seq(PendingSyncReply), q # <<>>, Increasing(q)
    PROVE  LET u == SubSeq(q, 1, Len(q) - 1)
           IN  /\ Ids(u) \subseteq Ids(q) \ {q[Len(q)].id}
               /\ \A i \in 1..Len(u) : i \in 1..Len(q) /\ u[i] = q[i]
<1>1. PICK u \in Seq(PendingSyncReply) : u = SubSeq(q, 1, Len(q) - 1)
  BY FrontFacts
<1>2. /\ Len(q) \in Nat \ {0} /\ Len(u) = Len(q) - 1
      /\ \A i \in 1..Len(q) - 1 : u[i] = q[i]
  BY <1>1, FrontFacts
<1>3. \A i \in 1..Len(q) : q[i].id \in Number
  BY IdsAre
<1>4. ASSUME NEW i \in 1..Len(u)  PROVE i \in 1..Len(q) /\ u[i] = q[i] /\ u[i].id # q[Len(q)].id
  <2>1. i \in 1..Len(q) /\ i < Len(q) /\ u[i] = q[i] /\ Len(q) \in 1..Len(q)
    BY <1>2, <1>4
  <2>2. q[i].id < q[Len(q)].id
    BY <2>1 DEF Increasing
  <2>3. q[i].id \in Nat /\ q[Len(q)].id \in Nat
    BY <1>3, <2>1, Numbers
  <2>4. QED
    BY <2>1, <2>2, <2>3
<1>5. Ids(u) \subseteq Ids(q) \ {q[Len(q)].id}
  BY <1>4 DEF Ids
<1>6. QED
  BY <1>1, <1>4, <1>5
\* The process ends: nothing is left of its part, and what it had sent stays on
\* the wires.
LEMMA EndsPassive ==
    ASSUME NEW r, NEW t, IsEnd(t)
    PROVE  Passive(r, t)
<1>1. t.stack = <<>> /\ t.messages = <<>> /\ Elems(<<>>) = {}
  BY ElemsEmpty DEF IsEnd
<1>2. \A c, m : ~Handles(t.stack, c, m)
  BY <1>1 DEF Handles
<1>3. \A x : ~Item(t, x)
  BY EndFits
<1>4. Once(t)
  <2>1. OnceOn(t.stack)
    <3>1. Len(<<>>) = 0
      OBVIOUS
    <3>2. QED
      BY <1>1, <3>1 DEF OnceOn
  <2>2. QED
    BY <1>1, <2>1, UniqueEmpty DEF Once
<1>5. QED
  BY <1>2, <1>3, <1>4 DEF Passive

LEMMA TrackedEnds ==
    ASSUME Held, Tracked, NEW p \in Proc, NEW failing \in SUBSET Endpoint, Ends(p, failing),
           \A c \in failing : conn[c].sent < MaxSends[c]
    PROVE  Tracked'
<1>1. Typed /\ Bounded
  BY DEF Held
<1>2. /\ Typed' /\ OnlyProc(p) /\ UNCHANGED <<wire, handled>> /\ IsEnd(main'[p])
      /\ \A c \in Endpoint :
           /\ Owner[c] # p => conn'[c] = conn[c] /\ result'[c] = result[c]
           /\ Owner[c] = p => IsEnded(conn[c], conn'[c])
           /\ Owner[c] = p => \A n \in Number :
                 result'[c][n] = IF \/ result[c][n] = "sent"
                                    \/ conn'[c].sent # conn[c].sent /\ n = conn[c].sent + 1
                                 THEN "failed" ELSE result[c][n]
  BY <1>1, FormEnds
<1>3. Passive(main[p], main'[p]) /\ main'[p].delayed \subseteq main[p].delayed
  BY <1>2, EndsPassive DEF IsEnd
<1>4. ASSUME NEW c \in Endpoint
      PROVE  /\ Streams(conn[c], wire[c], conn'[c], wire'[c]) /\ KeepsIncoming(conn[c], conn'[c])
             /\ Elems(conn'[c].out) \subseteq Elems(conn[c].out)
             /\ Elems(conn'[c].incoming) \subseteq Elems(conn[c].incoming)
  <2>1. CASE Owner[c] = p
    <3>1. /\ conn'[c].out = <<>> /\ conn'[c].incoming = <<>>
          /\ conn'[c].sent \in {conn[c].sent, conn[c].sent + 1}
      BY <1>2, <1>4, <2>1 DEF IsEnded
    <3>2. QED
      BY <1>2, <3>1, ElemsEmpty DEF Streams, KeepsIncoming
  <2>2. CASE Owner[c] # p
    <3>1. conn'[c] = conn[c]
      BY <1>2, <1>4, <2>2
    <3>2. QED
      BY <1>2, <3>1 DEF Streams, KeepsIncoming
  <2>3. QED
    BY <2>1, <2>2
<1>5. ASSUME NEW q \in Proc  PROVE Passive(main[q], main'[q])
  <2>1. CASE q = p
    BY <1>3, <2>1
  <2>2. CASE q # p
    <3>1. main'[q] = main[q]
      BY <1>2, <1>5, <2>2 DEF OnlyProc
    <3>2. QED
      BY <3>1, PassiveSame
  <2>3. QED
    BY <2>1, <2>2
<1>6. Ordered'
  <2>1. ASSUME NEW c \in Endpoint
        PROVE  Inherits(c, conn[c], main[Owner[c]], conn'[c], main'[Owner[c]])
    <3>1. PICK q \in Proc : q = Owner[c]
      BY <2>1, Ends2
    <3>2. /\ \A x : Item(main'[q], x) => Item(main[q], x)
          /\ \A d, m : Handles(main'[q].stack, d, m) => Handles(main[q].stack, d, m)
      BY <1>5 DEF Passive
    <3>3. KeepsIncoming(conn[c], conn'[c])
      BY <1>4, <2>1
    <3>4. QED
      BY <3>1, <3>2, <3>3 DEF Inherits
  <2>2. \A q \in Proc : Once(main[q]) => Once(main'[q])
    BY <1>5 DEF Passive
  <2>3. QED
    BY <1>2, <1>4, <2>1, <2>2, OrderedStep DEF Tracked
<1>7. \A d \in Endpoint : \A n : Owes(d, n)' => Owes(d, n)
  BY <1>2, <1>3, OwesKept
<1>8. ASSUME NEW d \in Endpoint, NEW m, Got(d, m)'  PROVE Got(d, m)
  <2>1. PICK q \in Proc : q = Owner[d]
    BY <1>8, Ends2
  <2>2. /\ \A x : Item(main'[q], x) => Item(main[q], x)
        /\ Elems(conn'[d].incoming) \subseteq Elems(conn[d].incoming)
    BY <1>4, <1>5, <1>8 DEF Passive
  <2>3. QED
    BY <1>8, <2>1, <2>2 DEF Got
<1>9. \A d \in Endpoint : \A m \in Elems(conn'[d].out) \cup Elems(wire'[d]) :
         m \in Elems(conn[d].out) \cup Elems(wire[d])
  BY <1>2, <1>4
<1>10. \A d \in Endpoint, m \in Message : m.kind = "sync" /\ ReqIn(d, m)' => ReqIn(d, m)
  BY <1>8, <1>9, ReqKept
<1>11. ASSUME NEW c \in Endpoint  PROVE Answered(c)'
  <2>1. PICK d \in Endpoint : d = Peer[c]
    BY <1>11, Ends2
  <2>2. Answered(c) /\ Waits(conn[c], result[c]) /\ conn[c].sent \in Nat
    BY <1>1, <1>11, TypedFacts DEF Tracked, AllAnswered, Answered
  <2>3. /\ conn[c].sent <= conn'[c].sent /\ Waits(conn'[c], result'[c])
        /\ \A n : HasReply(conn'[c], n) => HasReply(conn[c], n)
        /\ \A n \in Number : \/ result'[c][n] = result[c][n]
                             \/ result'[c][n] # "idle" /\ n <= conn'[c].sent
    <3>1. CASE Owner[c] # p
      <4>1. conn'[c] = conn[c] /\ result'[c] = result[c]
        BY <1>2, <1>11, <3>1
      <4>2. QED
        BY <2>2, <4>1
    <3>2. CASE Owner[c] = p
      <4>1. /\ conn'[c].pending = <<>> /\ conn'[c].secondary = NoSecondary
            /\ conn'[c].sent \in {conn[c].sent, conn[c].sent + 1}
        BY <1>2, <1>11, <3>2 DEF IsEnded
      <4>2. Len(<<>>) = 0
        OBVIOUS
      <4>3. Waits(conn'[c], result'[c])
        BY <4>1, <4>2 DEF Waits, Ids, NoSecondary
      <4>4. \A n : HasReply(conn'[c], n) => HasReply(conn[c], n)
        BY <4>1, <4>2 DEF HasReply, NoSecondary
      <4>5. ASSUME NEW n \in Number
            PROVE  \/ result'[c][n] = result[c][n]
                   \/ result'[c][n] # "idle" /\ n <= conn'[c].sent
        <5>1. CASE result[c][n] = "sent"
          <6>1. n <= conn[c].sent /\ n \in Nat
            BY <1>11, <4>5, <5>1, SentBefore, Numbers
          <6>2. result'[c][n] = "failed"
            BY <1>2, <1>11, <3>2, <4>5, <5>1
          <6>3. QED
            BY <2>2, <4>1, <6>1, <6>2
        <5>2. CASE conn'[c].sent # conn[c].sent /\ n = conn[c].sent + 1
          <6>1. result'[c][n] = "failed"
            BY <1>2, <1>11, <3>2, <4>5, <5>2
          <6>2. QED
            BY <2>2, <4>1, <5>2, <6>1
        <5>3. CASE ~(result[c][n] = "sent") /\ ~(conn'[c].sent # conn[c].sent /\ n = conn[c].sent + 1)
          BY <1>2, <1>11, <3>2, <4>5, <5>3
        <5>4. QED
          BY <5>1, <5>2, <5>3
      <4>6. conn[c].sent <= conn'[c].sent
        BY <2>2, <4>1
      <4>7. QED
        BY <4>3, <4>4, <4>5, <4>6
    <3>3. QED
      BY <3>1, <3>2
  <2>4. \A n \in Number : RepIn(c, n)' => RepIn(c, n)
    <3>1. \A n : Owes(d, n)' => Owes(d, n)
      BY <1>7
    <3>2. \A n : Replies(d, n)' => Replies(d, n)
      BY <1>9 DEF Replies
    <3>3. \A n : HasReply(conn[c], n)' => HasReply(conn[c], n)
      BY <2>3
    <3>4. QED
      BY <2>1, <3>1, <3>2, <3>3 DEF RepIn
  <2>5. \A m \in Message : m.kind = "sync" /\ ReqIn(c, m)' => ReqIn(c, m)
    BY <1>10, <1>11
  <2>6. handled'[c] = handled[c]
    BY <1>2
  <2>7. QED
    BY <1>1, <1>2, <1>11, <2>2, <2>3, <2>4, <2>5, <2>6, AnsweredAt
<1>12. QED
  BY <1>6, <1>11 DEF Tracked, AllAnswered

LEMMA TrackedCrash ==
    ASSUME Held, Tracked, NEW p \in Proc, Crash(p)
    PROVE  Tracked'
<1>1. Ends(p, {}) /\ {} \in SUBSET Endpoint /\ \A c \in {} : conn[c].sent < MaxSends[c]
  BY DEF Crash
<1>2. QED
  BY <1>1, TrackedEnds

LEMMA TrackedSendSyncFails ==
    ASSUME Held, Tracked, NEW c \in Endpoint, SendSyncFails(c)
    PROVE  Tracked'
<1>1. CASE c \notin ExitOnFailure
  BY <1>1, TrackedSendSyncRefused
<1>2. CASE c \in ExitOnFailure
  <2>1. /\ Ends(Owner[c], {c}) /\ Owner[c] \in Proc /\ {c} \in SUBSET Endpoint
        /\ \A d \in {c} : conn[d].sent < MaxSends[d]
    BY <1>2, Ends2 DEF SendSyncFails
  <2>2. QED
    BY <2>1, TrackedEnds
<1>3. QED
  BY <1>1, <1>2

LEMMA TrackedSendSyncReturns ==
    ASSUME Held, Tracked, NEW p \in Proc, NEW ok \in BOOLEAN, In(p, "sendSync"), SendSyncReturns(p, ok)
    PROVE  Tracked'
<1>1. Typed /\ Bounded
  BY DEF Held
<1>2. PICK fr \in Frame :
        /\ fr = Head(main[p].stack) /\ fr.f = "sendSync" /\ fr.c \in Endpoint /\ fr.id \in Number
        /\ conn[fr.c].pending \in Seq(PendingSyncReply) /\ conn[fr.c].pending # <<>>
        /\ conn[fr.c].pending[Len(conn[fr.c].pending)].id = fr.id
  BY InSendSync
<1>3. PICK c \in Endpoint, n \in Number : c = fr.c /\ n = fr.id
  BY <1>2
<1>4. CASE Ends(p, {})
  <2>1. {} \in SUBSET Endpoint /\ \A d \in {} : conn[d].sent < MaxSends[d]
    OBVIOUS
  <2>2. QED
    BY <1>4, <2>1, TrackedEnds
<1>5. CASE ~Ends(p, {})
  <2>1. /\ Typed' /\ OnlyProc(p) /\ UNCHANGED <<wire, handled>> /\ OnlyConn(c)
        /\ IsReturn(main[p], main'[p]) /\ main'[p].delayed = main[p].delayed
        /\ conn'[c].out = conn[c].out /\ conn'[c].incoming = conn[c].incoming
        /\ conn'[c].secondary = conn[c].secondary /\ conn'[c].sent = conn[c].sent
        /\ conn'[c].pending = SubSeq(conn[c].pending, 1, Len(conn[c].pending) - 1)
        /\ result' = [result EXCEPT ![c][n] = IF ok THEN "ok" ELSE "failed"]
    <3>1. c = Head(main[p].stack).c /\ n = Head(main[p].stack).id
      BY <1>2, <1>3
    <3>2. conn[Head(main[p].stack).c].pending # <<>>
      BY <1>2
    <3>3. QED
      BY <1>1, <1>5, <3>1, <3>2, FormSendSyncReturns
  <2>2. PICK x \in {"ok", "failed"} : x = IF ok THEN "ok" ELSE "failed"
    OBVIOUS
  <2>3. /\ Increasing(conn[c].pending) /\ Waits(conn[c], result[c])
    BY DEF Held, ConnFits, PendingFits, Tracked, AllAnswered, Answered
  <2>4. /\ Ids(conn'[c].pending) \subseteq Ids(conn[c].pending) \ {n}
        /\ \A i \in 1..Len(conn'[c].pending) :
              i \in 1..Len(conn[c].pending) /\ conn'[c].pending[i] = conn[c].pending[i]
    <3>1. PICK q \in Seq(PendingSyncReply) : q = conn[c].pending
      BY <1>2, <1>3
    <3>2. q # <<>> /\ Increasing(q) /\ q[Len(q)].id = n
      BY <1>2, <1>3, <2>3, <3>1
    <3>3. LET u == SubSeq(q, 1, Len(q) - 1)
          IN  /\ Ids(u) \subseteq Ids(q) \ {q[Len(q)].id}
              /\ \A i \in 1..Len(u) : i \in 1..Len(q) /\ u[i] = q[i]
      BY <3>2, PopIds
    <3>4. QED
      BY <2>1, <3>1, <3>2, <3>3
  <2>5. n \in Ids(conn[c].pending)
    <3>1. Len(conn[c].pending) \in 1..Len(conn[c].pending)
      BY <1>2, <1>3, LastPlace
    <3>2. QED
      BY <1>2, <1>3, <3>1 DEF Ids
  <2>6. /\ result[c][n] = "sent"
        /\ conn[c].secondary.at = "waiting" => conn[c].secondary.id \in Number \ {n}
    BY <2>3, <2>5, NextNumber DEF Waits
  <2>7. \A i : HasReply(conn'[c], i) => HasReply(conn[c], i)
    BY <2>1, <2>4 DEF HasReply
  <2>8. main[p] \in ProcState /\ main'[p] \in ProcState /\ StackFits(p, main[p].stack)
    BY <2>1, HeldFacts
  <2>9. Rearranged(main[p], main'[p])
    BY <2>1, <2>8, MoveReturn
  <2>10. Passive(main[p], main'[p])
    BY <2>1, <2>8, <2>9, PassiveReturn
  <2>11. /\ SecondaryKept(conn[c].secondary, conn'[c].secondary)
         /\ result' = [result EXCEPT ![c][n] = x]
    BY <2>1, <2>2 DEF SecondaryKept
  <2>12. wire' = wire /\ handled' = handled
    BY <2>1
  <2>13. QED
    BY <2>1, <2>4, <2>6, <2>7, <2>10, <2>11, <2>12, TrackedReturns
<1>6. QED
  BY <1>4, <1>5

LEMMA TrackedWaitChecks ==
    ASSUME Held, Tracked, NEW p \in Proc, WaitChecks(p)
    PROVE  Tracked'
<1>1. Typed /\ Bounded /\ In(p, "sendSync")
  BY DEF Held, WaitChecks
<1>2. CASE /\ Typed' /\ OnlyProc(p) /\ UNCHANGED <<conn, wire, result, handled>>
           /\ IsTurn(main[p], main'[p], "wait")
  BY <1>2, TrackedTurn
<1>3. CASE LET k == conn[Head(main[p].stack).c]
           IN  SendSyncReturns(p, k.pending[Len(k.pending)].didReceiveReply)
  <2>1. PICK fr \in Frame :
          /\ fr = Head(main[p].stack) /\ fr.c \in Endpoint
          /\ conn[fr.c].pending \in Seq(PendingSyncReply) /\ conn[fr.c].pending # <<>>
    BY <1>1, InSendSync
  <2>2. conn[fr.c].pending[Len(conn[fr.c].pending)] \in PendingSyncReply
    BY <2>1
  <2>3. PICK ok \in BOOLEAN : ok = conn[fr.c].pending[Len(conn[fr.c].pending)].didReceiveReply
    BY <2>2 DEF PendingSyncReply
  <2>4. SendSyncReturns(p, ok)
    BY <1>3, <2>1, <2>3
  <2>5. QED
    BY <1>1, <2>4, TrackedSendSyncReturns
<1>4. QED
  BY <1>1, <1>2, <1>3, FormWaitChecks

LEMMA TrackedWaitTimesOut ==
    ASSUME Held, Tracked, NEW p \in Proc, WaitTimesOut(p)
    PROVE  Tracked'
<1>1. In(p, "sendSync") /\ SendSyncReturns(p, FALSE)
  BY DEF WaitTimesOut
<1>2. QED
  BY <1>1, TrackedSendSyncReturns
\* The next message is written.
LEMMA TrackedSendOutgoing ==
    ASSUME Held, Tracked, NEW c \in Endpoint, SendOutgoing(c)
    PROVE  Tracked'
<1>1. Typed /\ Bounded
  BY DEF Held
<1>2. PICK p \in Proc : p = Owner[c]
  BY Ends2
<1>3. /\ Typed' /\ OnlyConn(c) /\ UNCHANGED <<main, result, handled>>
      /\ conn'[c].incoming = conn[c].incoming
      /\ conn'[c].pending = conn[c].pending /\ conn'[c].secondary = conn[c].secondary
      /\ conn'[c].sent = conn[c].sent
      /\ conn[c].out # <<>> /\ conn'[c].out = Tail(conn[c].out)
      /\ wire' = wire \/ wire' = [wire EXCEPT ![c] = Append(wire[c], Head(conn[c].out))]
  BY <1>1, FormSendOutgoing
<1>4. /\ conn[c].sent \in Nat /\ conn[c].out \in Seq(Message) /\ wire[c] \in Seq(Message)
      /\ wire \in [Endpoint -> Seq(Message)]
  BY <1>1, TypedFacts DEF Typed
<1>5. /\ \A d \in Endpoint \ {c} : wire'[d] = wire[d]
      /\ wire'[c] = wire[c] \/ wire'[c] = Append(wire[c], Head(conn[c].out))
  BY <1>3, <1>4
<1>6. OnlyProc(p) /\ Passive(main[p], main'[p]) /\ main'[p].delayed = main[p].delayed
  BY <1>3, PassiveSame DEF OnlyProc
<1>7. Ordered'
  <2>1. Streams(conn[c], wire[c], conn'[c], wire'[c]) /\ KeepsIncoming(conn[c], conn'[c])
    BY <1>3, <1>5 DEF Streams, KeepsIncoming
  <2>2. Inherit(main[p], main'[p], c, Elems(conn[c].incoming))
    BY <1>6, PassiveInherit
  <2>3. QED
    BY <1>3, <1>5, <1>6, <2>1, <2>2, OrderedOne DEF Tracked
<1>8. ASSUME NEW d \in Endpoint
      PROVE  Elems(conn'[d].out) \cup Elems(wire'[d]) \subseteq Elems(conn[d].out) \cup Elems(wire[d])
  <2>1. CASE d # c
    BY <1>3, <1>5, <1>8, <2>1 DEF OnlyConn
  <2>2. CASE d = c
    <3>1. PICK m \in Message : m = Head(conn[c].out)
      BY <1>3, <1>4, ElemsTail
    <3>2. Elems(conn'[c].out) \subseteq Elems(conn[c].out) /\ m \in Elems(conn[c].out)
      BY <1>3, <1>4, <3>1, ElemsTail
    <3>3. Elems(Append(wire[c], m)) = Elems(wire[c]) \cup {m}
      BY <1>4, ElemsAppend
    <3>4. QED
      BY <1>5, <2>2, <3>1, <3>2, <3>3
  <2>3. QED
    BY <2>1, <2>2
<1>9. AllAnswered'
  <2>1. \A d \in Endpoint : \A m : Got(d, m)' => Got(d, m)
    <3>1. KeepsIncoming(conn[c], conn'[c]) /\ \A x : Item(main'[p], x) => Item(main[p], x)
      BY <1>3 DEF KeepsIncoming
    <3>2. QED
      BY <1>1, <1>3, <1>6, <3>1, GotKept
  <2>2. \A d \in Endpoint, m \in Message : m.kind = "sync" /\ ReqIn(d, m)' => ReqIn(d, m)
    BY <1>8, <2>1, ReqKept
  <2>3. \A d \in Endpoint : \A n : Owes(d, n)' => Owes(d, n)
    BY <1>6, OwesKept
  <2>4. \A d \in Endpoint, n \in Number : Owes(d, n)' \/ Replies(d, n)' => Owes(d, n) \/ Replies(d, n)
    BY <1>8, <2>3 DEF Replies
  <2>5. SecondaryKept(conn[c].secondary, conn'[c].secondary) /\ conn[c].sent <= conn'[c].sent
    BY <1>3, <1>4 DEF SecondaryKept
  <2>6. QED
    BY <1>3, <2>2, <2>4, <2>5, AnsweredMoves DEF Tracked
<1>10. QED
  BY <1>7, <1>9 DEF Tracked

\* A reply that is owed is sent or kept.
LEMMA TrackedReply ==
    ASSUME Held, Typed', Tracked, NEW c \in Endpoint, NEW p \in Proc, p = Owner[c], NEW n \in Number,
           OnlyConn(c), OnlyProc(p), UNCHANGED <<wire, result, handled>>, Owes(c, n),
           conn'[c].out = conn[c].out \/ conn'[c].out = Append(conn[c].out, SyncReply(n)),
           conn'[c].incoming = conn[c].incoming, conn'[c].pending = conn[c].pending,
           conn'[c].secondary = conn[c].secondary, conn'[c].sent = conn[c].sent,
           Passive(main[p], main'[p]), main'[p].delayed \subseteq main[p].delayed \cup {<<c, n>>}
    PROVE  Tracked'
<1>1. Typed
  BY DEF Held
<1>2. conn[c].sent \in Nat /\ conn[c].out \in Seq(Message)
  BY <1>1, TypedFacts
<1>3. PICK m \in Message : m = SyncReply(n) /\ m.kind = "reply" /\ m.id = n /\ ~Request(m)
  <2>1. SyncReply(n) \in Message
    BY Numbers DEF SyncReply
  <2>2. SyncReply(n).kind = "reply" /\ SyncReply(n).id = n
    BY DEF SyncReply
  <2>3. QED
    BY <2>1, <2>2 DEF Request
<1>4. Ordered'
  <2>1. Streams(conn[c], wire[c], conn'[c], wire'[c]) /\ KeepsIncoming(conn[c], conn'[c])
    BY <1>3 DEF Streams, KeepsIncoming
  <2>2. Inherit(main[p], main'[p], c, Elems(conn[c].incoming))
    BY PassiveInherit
  <2>3. QED
    BY <2>1, <2>2, OrderedOne DEF Tracked
<1>5. ASSUME NEW d \in Endpoint, NEW x \in Elems(conn'[d].out)
      PROVE  x \in Elems(conn[d].out) \/ (d = c /\ x = m)
  <2>1. CASE conn'[d].out = conn[d].out
    BY <1>5, <2>1
  <2>2. CASE d = c /\ conn'[c].out = Append(conn[c].out, m)
    <3>1. Elems(Append(conn[c].out, m)) = Elems(conn[c].out) \cup {m}
      BY <1>2, ElemsAppend
    <3>2. QED
      BY <1>5, <2>2, <3>1
  <2>3. d # c => conn'[d].out = conn[d].out
    BY <1>5 DEF OnlyConn
  <2>4. QED
    BY <1>3, <2>1, <2>2, <2>3
<1>6. \A d \in Endpoint, x \in Message : x.kind = "sync" /\ ReqIn(d, x)' => ReqIn(d, x)
  <2>1. \A d \in Endpoint : \A x : Got(d, x)' => Got(d, x)
    <3>1. KeepsIncoming(conn[c], conn'[c]) /\ \A x : Item(main'[p], x) => Item(main[p], x)
      BY DEF KeepsIncoming, Passive
    <3>2. QED
      BY <1>1, <3>1, GotKept
  <2>2. \A d \in Endpoint : \A x \in Elems(conn'[d].out) \cup Elems(wire'[d]) :
           x \in Elems(conn[d].out) \cup Elems(wire[d]) \/ x.kind # "sync"
    BY <1>3, <1>5
  <2>3. QED
    BY <2>1, <2>2, ReqKept
<1>7. ASSUME NEW d \in Endpoint, NEW i \in Number, Owes(d, i)'  PROVE Owes(d, i)
  <2>1. CASE Owner[d] # p
    <3>1. main'[Owner[d]] = main[Owner[d]]
      BY <1>7, <2>1, Ends2 DEF OnlyProc
    <3>2. QED
      BY <1>7, <3>1 DEF Owes
  <2>2. CASE Owner[d] = p
    <3>1. CASE <<d, i>> = <<c, n>>
      BY <3>1
    <3>2. CASE <<d, i>> # <<c, n>>
      BY <1>7, <2>2, <3>2 DEF Owes, Passive
    <3>3. QED
      BY <3>1, <3>2
  <2>3. QED
    BY <2>1, <2>2
<1>8. \A d \in Endpoint, i \in Number : Owes(d, i)' \/ Replies(d, i)' => Owes(d, i) \/ Replies(d, i)
  BY <1>3, <1>5, <1>7 DEF Replies
<1>9. SecondaryKept(conn[c].secondary, conn'[c].secondary) /\ conn[c].sent <= conn'[c].sent
  BY <1>2 DEF SecondaryKept
<1>10. AllAnswered'
  BY <1>6, <1>8, <1>9, AnsweredMoves DEF Tracked
<1>11. QED
  BY <1>4, <1>10 DEF Tracked

LEMMA TrackedHandlerReturns ==
    ASSUME Held, Tracked, NEW p \in Proc, NEW keep \in BOOLEAN, HandlerReturns(p, keep)
    PROVE  Tracked'
<1>1. Typed /\ Bounded
  BY DEF Held
<1>2. /\ Typed' /\ OnlyProc(p) /\ UNCHANGED <<wire, result, handled>>
      /\ IsReturn(main[p], main'[p]) /\ Head(main[p].stack).f = "handler"
      /\ IF Head(main[p].stack).msg.kind = "sync" /\ ~keep
         THEN /\ IsReplied(Head(main[p].stack).c, Head(main[p].stack).msg.id)
              /\ main'[p].delayed = main[p].delayed
         ELSE /\ conn' = conn
              /\ \/ main'[p].delayed = main[p].delayed
                 \/ /\ Head(main[p].stack).msg.kind = "sync"
                    /\ main'[p].delayed = main[p].delayed \cup
                          {<<Head(main[p].stack).c, Head(main[p].stack).msg.id>>}
  BY <1>1, FormHandlerReturns
<1>3. main[p] \in ProcState /\ main'[p] \in ProcState /\ StackFits(p, main[p].stack)
  BY <1>2, HeldFacts
<1>4. Rearranged(main[p], main'[p])
  BY <1>2, <1>3, MoveReturn
<1>5. Passive(main[p], main'[p])
  BY <1>2, <1>3, <1>4, PassiveReturn
<1>6. PICK fr \in Frame, s \in Seq(Frame) : main[p].stack = Push(fr, s) /\ fr = Head(main[p].stack)
  BY <1>2, <1>3, StackSplit DEF IsReturn
<1>7. fr.f = "handler" /\ fr.c \in Endpoint /\ fr.msg \in Message
  BY <1>2, <1>6, FrameKinds
<1>8. PICK c \in Endpoint, m \in Message : c = fr.c /\ m = fr.msg
  BY <1>7
<1>9. p = Owner[c]
  <2>1. StackFits(p, Push(fr, s))
    BY <1>3, <1>6
  <2>2. FrameFits(p, fr)
    BY <2>1, FitsTail
  <2>3. QED
    BY <1>7, <1>8, <2>2 DEF FrameFits
<1>10. m.id \in Number
  BY DEF Message
<1>11. m.kind = "sync" => Owes(c, m.id)
  <2>1. Handles(Push(fr, s), c, m)
    BY <1>7, <1>8, HandlesPush
  <2>2. Handles(main[Owner[c]].stack, c, m)
    BY <1>6, <1>9, <2>1
  <2>3. QED
    BY <2>2 DEF Owes
<1>12. CASE m.kind = "sync" /\ ~keep
  <2>1. IsReplied(c, m.id) /\ main'[p].delayed = main[p].delayed
    BY <1>2, <1>6, <1>8, <1>12
  <2>2. conn'[c].out = conn[c].out \/ conn'[c].out = Append(conn[c].out, SyncReply(m.id))
    BY <2>1 DEF IsReplied
  <2>3. /\ conn'[c].incoming = conn[c].incoming /\ conn'[c].pending = conn[c].pending
        /\ conn'[c].secondary = conn[c].secondary /\ conn'[c].sent = conn[c].sent
        /\ main'[p].delayed \subseteq main[p].delayed \cup {<<c, m.id>>} /\ OnlyConn(c)
    BY <2>1 DEF IsReplied
  <2>4. QED
    BY <1>2, <1>5, <1>9, <1>10, <1>11, <1>12, <2>2, <2>3, TrackedReply
<1>13. CASE ~(m.kind = "sync" /\ ~keep)
  <2>1. /\ conn' = conn
        /\ \/ main'[p].delayed = main[p].delayed
           \/ m.kind = "sync" /\ main'[p].delayed = main[p].delayed \cup {<<c, m.id>>}
    BY <1>2, <1>6, <1>8, <1>13
  <2>2. CASE main'[p].delayed = main[p].delayed
    BY <1>2, <1>5, <2>1, <2>2, TrackedMain
  <2>3. CASE m.kind = "sync" /\ main'[p].delayed = main[p].delayed \cup {<<c, m.id>>}
    <3>1. OnlyConn(c) /\ conn'[c] = conn[c]
      BY <2>1 DEF OnlyConn
    <3>2. QED
      BY <1>2, <1>5, <1>9, <1>10, <1>11, <2>3, <3>1, TrackedReply
  <2>4. QED
    BY <2>1, <2>2, <2>3
<1>14. QED
  BY <1>12, <1>13

LEMMA TrackedSendDelayedReply ==
    ASSUME Held, Tracked, NEW p \in Proc, SendDelayedReply(p)
    PROVE  Tracked'
<1>1. Typed /\ Bounded
  BY DEF Held
<1>2. /\ Typed' /\ OnlyProc(p) /\ UNCHANGED <<wire, result, handled>>
      /\ IsStill(main[p], main'[p])
      /\ \E c \in Endpoint, n \in Number :
            /\ <<c, n>> \in main[p].delayed /\ main'[p].delayed = main[p].delayed \ {<<c, n>>}
            /\ IsReplied(c, n)
  BY <1>1, FormSendDelayedReply
<1>3. PICK c \in Endpoint, n \in Number :
        /\ <<c, n>> \in main[p].delayed /\ main'[p].delayed = main[p].delayed \ {<<c, n>>}
        /\ IsReplied(c, n)
  BY <1>2
<1>4. p = Owner[c]
  <2>1. \A d \in main[p].delayed : Owner[d[1]] = p
    BY DEF Held, ProcFits
  <2>2. Owner[<<c, n>>[1]] = p
    BY <1>3, <2>1
  <2>3. QED
    BY <2>2
<1>5. Owes(c, n)
  BY <1>3, <1>4 DEF Owes
<1>6. Passive(main[p], main'[p])
  BY <1>2, PassiveSame DEF IsStill
<1>7. /\ OnlyConn(c) /\ conn'[c].incoming = conn[c].incoming /\ conn'[c].pending = conn[c].pending
      /\ conn'[c].secondary = conn[c].secondary /\ conn'[c].sent = conn[c].sent
      /\ main'[p].delayed \subseteq main[p].delayed \cup {<<c, n>>}
  BY <1>3 DEF IsReplied
<1>8. conn'[c].out = conn[c].out \/ conn'[c].out = Append(conn[c].out, SyncReply(n))
  BY <1>3 DEF IsReplied
<1>9. QED
  BY <1>2, <1>4, <1>5, <1>6, <1>7, <1>8, TrackedReply
\* The handler of m, which connection c had received, is entered.
LEMMA AnsweredEntered ==
    ASSUME Held, Typed', AllAnswered, NEW c \in Endpoint, NEW p \in Proc, p = Owner[c],
           NEW m \in Message, Got(c, m), OnlyConn(c), OnlyProc(p), wire' = wire, result' = result,
           handled' = IF m.kind = "sync" THEN [handled EXCEPT ![Peer[c]][m.id] = @ + 1] ELSE handled,
           conn'[c].out = conn[c].out, conn'[c].pending = conn[c].pending,
           conn'[c].secondary = conn[c].secondary, conn'[c].sent = conn[c].sent,
           main'[p].delayed = main[p].delayed,
           \A d \in Endpoint : \A x : Got(d, x)' => Got(d, x),
           \A d, x : Handles(main'[p].stack, d, x) => Handles(main[p].stack, d, x) \/ (d = c /\ x = m),
           \A x \in Message : x.kind = "sync" /\ ReqIn(Peer[c], x)' => x.id # m.id
    PROVE  AllAnswered'
<1>1. Typed /\ conn[c].sent \in Nat /\ handled \in [Endpoint -> [Number -> Nat]]
  BY TypedFacts DEF Held, Typed
<1>2. PICK e \in Endpoint : e = Peer[c] /\ Peer[e] = c
  BY Ends2
<1>3. /\ \A d \in Endpoint : conn'[d].out = conn[d].out /\ conn'[d].pending = conn[d].pending
      /\ \A d \in Endpoint : conn'[d].secondary = conn[d].secondary /\ conn'[d].sent = conn[d].sent
  BY DEF OnlyConn
<1>4. \A d \in Endpoint, x \in Message : x.kind = "sync" /\ ReqIn(d, x)' => ReqIn(d, x)
  BY <1>3, ReqKept
<1>5. ASSUME NEW d \in Endpoint, NEW n \in Number, Owes(d, n)'
      PROVE  Owes(d, n) \/ (d = c /\ n = m.id /\ m.kind = "sync")
  <2>1. CASE Owner[d] # p
    <3>1. main'[Owner[d]] = main[Owner[d]]
      BY <1>5, <2>1, Ends2 DEF OnlyProc
    <3>2. QED
      BY <1>5, <3>1 DEF Owes
  <2>2. CASE Owner[d] = p
    <3>1. CASE <<d, n>> \in main'[p].delayed
      BY <2>2, <3>1 DEF Owes
    <3>2. ASSUME NEW x, Handles(main'[p].stack, d, x), x.kind = "sync", x.id = n
          PROVE  Owes(d, n) \/ (d = c /\ n = m.id /\ m.kind = "sync")
      <4>1. Handles(main[p].stack, d, x) \/ (d = c /\ x = m)
        BY <3>2
      <4>2. QED
        BY <2>2, <3>2, <4>1 DEF Owes
    <3>3. QED
      BY <1>5, <2>2, <3>1, <3>2 DEF Owes
  <2>3. QED
    BY <2>1, <2>2
<1>6. \A d \in Endpoint, n \in Number : Replies(d, n)' => Replies(d, n)
  BY <1>3 DEF Replies
<1>7. \A d \in Endpoint : SecondaryKept(conn[d].secondary, conn'[d].secondary)
  BY <1>3 DEF SecondaryKept
<1>8. CASE m.kind # "sync"
  <2>1. handled' = handled
    BY <1>8
  <2>2. \A d \in Endpoint, n \in Number : Owes(d, n)' \/ Replies(d, n)' => Owes(d, n) \/ Replies(d, n)
    BY <1>5, <1>6, <1>8
  <2>3. conn[c].sent <= conn'[c].sent
    BY <1>1
  <2>4. QED
    BY <1>4, <1>7, <2>1, <2>2, <2>3, AnsweredMoves
<1>9. CASE m.kind = "sync"
  <2>1. ASSUME NEW d \in Endpoint  PROVE Answered(d)'
    <3>1. PICK g \in Endpoint : g = Peer[d] /\ Peer[g] = d
      BY <2>1, Ends2
    <3>2. Answered(d) /\ Waits(conn[d], result[d]) /\ conn[d].sent \in Nat
      BY <1>1, <2>1, TypedFacts DEF AllAnswered, Answered
    <3>3. /\ Waits(conn'[d], result'[d]) /\ conn'[d].sent = conn[d].sent
          /\ \A n : HasReply(conn'[d], n) => HasReply(conn[d], n)
      BY <1>3, <1>7, <2>1, <3>2, WaitsKept
    <3>4. ASSUME NEW n \in Number, RepIn(d, n)'  PROVE RepIn(d, n) \/ (d = e /\ n = m.id)
      <4>1. Owes(g, n)' => Owes(g, n) \/ (g = c /\ n = m.id)
        BY <1>5
      <4>2. Replies(g, n)' => Replies(g, n)
        BY <1>6
      <4>3. HasReply(conn[d], n)' => HasReply(conn[d], n)
        BY <3>3
      <4>4. g = c => d = e
        BY <1>2, <3>1
      <4>5. QED
        BY <3>1, <3>4, <4>1, <4>2, <4>3, <4>4 DEF RepIn
    <3>5. \A x \in Message : x.kind = "sync" /\ ReqIn(d, x)' => ReqIn(d, x)
      BY <1>4, <2>1
    <3>6. CASE d = e
      <4>1. ReqIn(e, m)
        BY <1>2 DEF ReqIn
      <4>2. handled'[e] = [handled[e] EXCEPT ![m.id] = @ + 1]
        BY <1>1, <1>2, <1>9
      <4>3. \A x \in Message : x.kind = "sync" /\ ReqIn(e, x)' => ReqIn(e, x) /\ x.id # m.id
        BY <1>2, <3>5, <3>6
      <4>4. \A n \in Number : RepIn(e, n)' => RepIn(e, n) \/ n = m.id
        BY <3>4, <3>6
      <4>5. conn'[e].sent = conn[e].sent /\ result'[e] = result[e] /\ Waits(conn'[e], result'[e]) /\ Answered(e)
        BY <3>2, <3>3, <3>6
      <4>6. Answered(e)'
        BY <1>1, <1>9, <4>1, <4>2, <4>3, <4>4, <4>5, AnsweredEnter
      <4>7. QED
        BY <3>6, <4>6
    <3>7. CASE d # e
      <4>1. handled'[d] = handled[d]
        BY <1>1, <1>2, <1>9, <2>1, <3>7
      <4>2. \A n \in Number : RepIn(d, n)' => RepIn(d, n)
        BY <3>4, <3>7
      <4>3. conn[d].sent <= conn'[d].sent
        BY <3>2, <3>3
      <4>4. \A n \in Number : result'[d][n] = result[d][n]
        OBVIOUS
      <4>5. QED
        BY <1>1, <2>1, <3>2, <3>3, <3>5, <4>1, <4>2, <4>3, <4>4, AnsweredAt
    <3>8. QED
      BY <3>6, <3>7
  <2>2. QED
    BY <2>1 DEF AllAnswered
<1>10. QED
  BY <1>8, <1>9

LEMMA TrackedDispatchNext ==
    ASSUME Held, Tracked, NEW p \in Proc, DispatchNext(p)
    PROVE  Tracked'
<1>1. Typed /\ Bounded
  BY DEF Held
<1>2. /\ Typed' /\ OnlyProc(p) /\ UNCHANGED <<conn, wire, result>> /\ InLoop(main[p])
      /\ \/ IsSkip(main[p], main'[p]) /\ handled' = handled
         \/ \E u \in ProcState :
              /\ IsTake(main[p], u)
              /\ \/ main'[p] = u /\ handled' = handled
                 \/ \E x \in Received :
                       x = Head(Head(main[p].stack).todo) /\ IsEntered(u, main'[p], x.c, x.msg)
  BY <1>1, FormDispatchNext
<1>3. main[p] \in ProcState /\ main'[p] \in ProcState /\ StackFits(p, main[p].stack)
  BY <1>2, HeldFacts
<1>4. CASE (IsSkip(main[p], main'[p]) \/ IsTake(main[p], main'[p])) /\ handled' = handled
  <2>1. Rearranged(main[p], main'[p])
    BY <1>3, <1>4, MoveNext
  <2>2. Passive(main[p], main'[p])
    BY <1>3, <1>4, <2>1, PassiveNext
  <2>3. main'[p].delayed = main[p].delayed
    BY <1>4 DEF IsSkip, IsTake
  <2>4. QED
    BY <1>2, <1>4, <2>2, <2>3, TrackedMain
<1>5. ASSUME NEW u \in ProcState, IsTake(main[p], u), NEW x \in Received,
             x = Head(Head(main[p].stack).todo), IsEntered(u, main'[p], x.c, x.msg)
      PROVE  Tracked'
  <2>1. Item(main[p], x)
    BY <1>2, <1>3, <1>5, NextIsItem
  <2>2. IsOurs(p, x)
    BY <2>1 DEF Held, ProcFits
  <2>3. PICK c \in Endpoint, m \in Message : c = x.c /\ m = x.msg
    BY DEF Received
  <2>4. p = Owner[c] /\ Request(m) /\ Once(main[p])
    BY <2>2, <2>3 DEF IsOurs, Tracked, Ordered
  <2>5. Rearranged(main[p], u)
    BY <1>3, <1>5, MoveNext
  <2>6. Passive(main[p], u) /\ \A y : Item(u, y) => ~SameKey(x, y)
    BY <1>3, <1>5, <2>4, <2>5, PassiveNext
  <2>7. IsEntered(u, main'[p], c, m)
    BY <1>5, <2>3
  <2>8. /\ \A y : Item(main'[p], y) => Item(u, y)
        /\ \A d, n : Handles(main'[p].stack, d, n) => Handles(u.stack, d, n) \/ (d = c /\ n = m)
        /\ Once(u) => Once(main'[p])
    BY <1>3, <2>7, EnteredHandles
  <2>9. /\ \A y : Item(main'[p], y) => Item(main[p], y) /\ ~SameKey(x, y)
        /\ \A d, n : Handles(main'[p].stack, d, n) => Handles(main[p].stack, d, n) \/ (d = c /\ n = m)
        /\ Once(main[p]) => Once(main'[p])
    BY <2>6, <2>8 DEF Passive
  <2>10. OnlyConn(c) /\ KeepsIncoming(conn[c], conn'[c]) /\ Streams(conn[c], wire[c], conn'[c], wire'[c])
    BY <1>2 DEF OnlyConn, KeepsIncoming, Streams
  <2>11. Ordered'
    <3>1. Inherit(main[p], main'[p], c, Elems(conn[c].incoming))
      BY <2>1, <2>3, <2>9 DEF Inherit
    <3>2. QED
      BY <1>2, <2>10, <3>1, OrderedOne DEF Tracked
  <2>12. \A d \in Endpoint : \A y : Got(d, y)' => Got(d, y)
    BY <1>1, <1>2, <2>9, <2>10, GotKept
  <2>13. Got(c, m)
    BY <2>1, <2>3, <2>4 DEF Got
  <2>14. PICK e \in Endpoint : e = Peer[c] /\ Peer[e] = c
    BY Ends2
  <2>15. /\ Later(conn[e], wire[e], m.id) /\ m.id \notin ReqIds(conn[c].incoming)
    BY <2>1, <2>3, <2>4, <2>14 DEF Tracked, Ordered, Delivered
  <2>16. ASSUME NEW y \in Message, y.kind = "sync", ReqIn(e, y)'  PROVE y.id # m.id
    <3>1. Request(y) /\ y.id \in Nat /\ m.id \in Nat
      BY <2>16, Numbers DEF Request, Message
    <3>2. /\ conn[e].out \in Seq(Message) /\ wire[e] \in Seq(Message) /\ conn[c].incoming \in Seq(Message)
      BY <1>1, TypedFacts
    <3>3. CASE y \in Elems(conn[e].out) \cup Elems(wire[e])
      <4>1. y.id \in ReqIds(conn[e].out) \cup ReqIds(wire[e])
        BY <3>1, <3>2, <3>3, ReqIdsAre
      <4>2. QED
        BY <2>15, <3>1, <4>1 DEF Later
    <3>4. CASE y \in Elems(conn[c].incoming)
      BY <2>15, <3>1, <3>2, <3>4, ReqIdsAre
    <3>5. ASSUME NEW z, Item(main'[p], z), z.c = c, z.msg = y  PROVE y.id # m.id
      BY <2>3, <2>9, <3>5 DEF SameKey
    <3>6. QED
      BY <1>2, <2>4, <2>14, <2>16, <3>3, <3>4, <3>5 DEF ReqIn, Got
  <2>17. /\ handled' = IF m.kind = "sync" THEN [handled EXCEPT ![Peer[c]][m.id] = @ + 1] ELSE handled
         /\ main'[p].delayed = main[p].delayed
    BY <1>5, <2>7 DEF IsEntered, IsTake
  <2>18. AllAnswered'
    <3>1. \A y \in Message : y.kind = "sync" /\ ReqIn(Peer[c], y)' => y.id # m.id
      BY <2>14, <2>16
    <3>2. /\ conn'[c].out = conn[c].out /\ conn'[c].pending = conn[c].pending
          /\ conn'[c].secondary = conn[c].secondary /\ conn'[c].sent = conn[c].sent
          /\ wire' = wire /\ result' = result /\ AllAnswered
      BY <1>2 DEF Tracked
    <3>3. \A d, n : Handles(main'[p].stack, d, n) => Handles(main[p].stack, d, n) \/ (d = c /\ n = m)
      BY <2>9
    <3>4. QED
      BY <1>2, <2>4, <2>10, <2>12, <2>13, <2>17, <3>1, <3>2, <3>3, AnsweredEntered
  <2>19. QED
    BY <2>11, <2>18 DEF Tracked
<1>6. QED
  BY <1>2, <1>4, <1>5
LEMMA TrackedRunFunction ==
    ASSUME Held, Tracked, NEW p \in Proc, RunFunction(p)
    PROVE  Tracked'
<1>1. Typed /\ Bounded
  BY DEF Held
<1>2. /\ Typed' /\ OnlyProc(p) /\ UNCHANGED <<wire, result>>
      /\ \E fn \in Function :
           /\ main[p].runLoop # <<>> /\ fn = Head(main[p].runLoop)
           /\ OnlyConn(fn.c)
           /\ conn'[fn.c].out = conn[fn.c].out /\ conn'[fn.c].pending = conn[fn.c].pending
           /\ conn'[fn.c].secondary = conn[fn.c].secondary
           /\ conn'[fn.c].sent = conn[fn.c].sent
           /\ \/ /\ fn.f = "dispatchOneMessage" /\ conn[fn.c].incoming # <<>>
                 /\ conn'[fn.c].incoming = Tail(conn[fn.c].incoming)
                 /\ Head(conn[fn.c].incoming) \in Message
                 /\ \E u \in ProcState :
                       /\ IsRunOther(main[p], u)
                       /\ \/ main'[p] = u /\ handled' = handled
                          \/ IsEntered(u, main'[p], fn.c, Head(conn[fn.c].incoming))
              \/ /\ fn.f = "dispatchMessages" /\ IsRunAll(main[p], main'[p])
                 /\ conn'[fn.c].incoming = conn[fn.c].incoming /\ handled' = handled
              \/ /\ fn.f = "didClose" /\ IsRunOther(main[p], main'[p])
                 /\ conn'[fn.c].incoming = conn[fn.c].incoming /\ handled' = handled
  BY <1>1, FormRunFunction
<1>3. PICK fn \in Function :
           /\ main[p].runLoop # <<>> /\ fn = Head(main[p].runLoop)
           /\ OnlyConn(fn.c)
           /\ conn'[fn.c].out = conn[fn.c].out /\ conn'[fn.c].pending = conn[fn.c].pending
           /\ conn'[fn.c].secondary = conn[fn.c].secondary
           /\ conn'[fn.c].sent = conn[fn.c].sent
           /\ \/ /\ fn.f = "dispatchOneMessage" /\ conn[fn.c].incoming # <<>>
                 /\ conn'[fn.c].incoming = Tail(conn[fn.c].incoming)
                 /\ Head(conn[fn.c].incoming) \in Message
                 /\ \E u \in ProcState :
                       /\ IsRunOther(main[p], u)
                       /\ \/ main'[p] = u /\ handled' = handled
                          \/ IsEntered(u, main'[p], fn.c, Head(conn[fn.c].incoming))
              \/ /\ fn.f = "dispatchMessages" /\ IsRunAll(main[p], main'[p])
                 /\ conn'[fn.c].incoming = conn[fn.c].incoming /\ handled' = handled
              \/ /\ fn.f = "didClose" /\ IsRunOther(main[p], main'[p])
                 /\ conn'[fn.c].incoming = conn[fn.c].incoming /\ handled' = handled
  BY <1>2
<1>4. main[p] \in ProcState /\ main'[p] \in ProcState /\ StackFits(p, main[p].stack) /\ ProcFits(p, main[p])
  BY <1>2, HeldFacts
<1>5. PICK c \in Endpoint : c = fn.c
  BY DEF Function
<1>6. p = Owner[c]
  <2>1. main[p].runLoop \in Seq(Function)
    BY <1>4 DEF ProcState
  <2>2. fn \in Elems(main[p].runLoop)
    BY <1>3, <2>1, ElemsTail
  <2>3. QED
    BY <1>4, <1>5, <2>2 DEF ProcFits
<1>7. /\ OnlyConn(c) /\ conn'[c].out = conn[c].out /\ conn'[c].pending = conn[c].pending
      /\ conn'[c].secondary = conn[c].secondary /\ conn'[c].sent = conn[c].sent
      /\ SecondaryKept(conn[c].secondary, conn'[c].secondary) /\ wire' = wire /\ result' = result
  BY <1>2, <1>3, <1>5 DEF SecondaryKept
<1>8. CASE /\ handled' = handled /\ conn'[c].incoming = conn[c].incoming
           /\ IsRunAll(main[p], main'[p]) \/ IsRunOther(main[p], main'[p])
  <2>1. Passive(main[p], main'[p])
    <3>1. CASE IsRunOther(main[p], main'[p])
      BY <3>1, PassiveSame DEF IsRunOther, IsRun
    <3>2. CASE IsRunAll(main[p], main'[p])
      <4>1. Rearranged(main[p], main'[p])
        BY <1>4, <3>2, MoveRunAll
      <4>2. QED
        BY <1>4, <3>2, <4>1, PassiveRunAll
    <3>3. QED
      BY <1>8, <3>1, <3>2
  <2>2. main'[p].delayed = main[p].delayed
    BY <1>8 DEF IsRunAll, IsRunOther, IsRun
  <2>3. Untouched(c)
    BY <1>7, <1>8 DEF Untouched
  <2>4. QED
    BY <1>2, <1>7, <1>8, <2>1, <2>2, <2>3, TrackedQuiet
<1>9. ASSUME NEW m \in Message, m = Head(conn[c].incoming), conn[c].incoming # <<>>,
             conn'[c].incoming = Tail(conn[c].incoming),
             NEW u \in ProcState, IsRunOther(main[p], u),
             \/ main'[p] = u /\ handled' = handled
             \/ IsEntered(u, main'[p], c, m)
      PROVE  Tracked'
  <2>1. PICK e \in Endpoint : e = Peer[c] /\ Peer[e] = c
    BY Ends2
  <2>2. /\ conn[e].out \in Seq(Message) /\ wire[e] \in Seq(Message) /\ conn[c].incoming \in Seq(Message)
        /\ conn[c].sent \in Nat
    BY <1>1, TypedFacts
  <2>3. Passive(main[p], u) /\ u.delayed = main[p].delayed
    BY <1>9, PassiveSame DEF IsRunOther, IsRun
  <2>4. KeepsIncoming(conn[c], conn'[c]) /\ Streams(conn[c], wire[c], conn'[c], wire'[c])
    BY <1>7, <1>9 DEF KeepsIncoming, Streams
  <2>5. m \in Elems(conn[c].incoming) /\ Request(m)
    <3>1. Plain(conn[c].incoming)
      BY DEF Held, ConnFits
    <3>2. QED
      BY <1>9, <2>2, <3>1, ElemsTail DEF Plain
  <2>6. /\ \A y : Item(main'[p], y) => Item(main[p], y)
        /\ \A d, n : Handles(main'[p].stack, d, n) => Handles(main[p].stack, d, n) \/ (d = c /\ n = m)
        /\ Once(main[p]) => Once(main'[p])
    <3>1. CASE main'[p] = u
      BY <2>3, <3>1 DEF Passive
    <3>2. CASE IsEntered(u, main'[p], c, m)
      <4>1. /\ \A y : Item(main'[p], y) => Item(u, y)
            /\ \A d, n : Handles(main'[p].stack, d, n) => Handles(u.stack, d, n) \/ (d = c /\ n = m)
            /\ Once(u) => Once(main'[p])
        BY <1>4, <3>2, EnteredHandles
      <4>2. QED
        BY <2>3, <4>1 DEF Passive
    <3>3. QED
      BY <1>9, <3>1, <3>2
  <2>7. Ordered'
    <3>1. Inherit(main[p], main'[p], c, Elems(conn[c].incoming))
      BY <2>5, <2>6 DEF Inherit
    <3>2. QED
      BY <1>2, <1>7, <2>4, <3>1, OrderedOne DEF Tracked
  <2>8. \A d \in Endpoint : \A y : Got(d, y)' => Got(d, y)
    BY <1>1, <1>2, <1>7, <2>4, <2>6, GotKept
  <2>9. Got(c, m)
    BY <2>5 DEF Got
  <2>10. CASE main'[p] = u /\ handled' = handled
    <3>1. \A d \in Endpoint, y \in Message : y.kind = "sync" /\ ReqIn(d, y)' => ReqIn(d, y)
      <4>1. \A d \in Endpoint : conn'[d].out = conn[d].out
        BY <1>7 DEF OnlyConn
      <4>2. QED
        BY <1>7, <2>8, <4>1, ReqKept
    <3>2. \A d \in Endpoint : \A n : Owes(d, n)' => Owes(d, n)
      BY <1>2, <2>3, <2>10, OwesKept
    <3>3. \A d \in Endpoint, n \in Number : Owes(d, n)' \/ Replies(d, n)' => Owes(d, n) \/ Replies(d, n)
      <4>1. \A d \in Endpoint : conn'[d].out = conn[d].out
        BY <1>7 DEF OnlyConn
      <4>2. QED
        BY <1>7, <3>2, <4>1 DEF Replies
    <3>4. conn[c].sent <= conn'[c].sent
      BY <1>7, <2>2
    <3>5. AllAnswered'
      BY <1>2, <1>7, <2>10, <3>1, <3>3, <3>4, AnsweredMoves DEF Tracked
    <3>6. QED
      BY <2>7, <3>5 DEF Tracked
  <2>11. CASE IsEntered(u, main'[p], c, m)
    <3>1. /\ Later(conn[e], wire[e], m.id) /\ m.id \in ReqIds(conn[c].incoming)
          /\ \A n \in ReqIds(Tail(conn[c].incoming)) : m.id < n
          /\ \A x : Item(main[p], x) /\ x.c = c => x.msg.id # m.id
      <4>1. Delivered(c, conn[c], conn[e], wire[e], main[p])
        BY <1>6, <2>1 DEF Tracked, Ordered
      <4>2. m.id \in ReqIds(conn[c].incoming)
        BY <2>2, <2>5, ReqIdsAre
      <4>3. Sorted(conn[c].incoming)
        BY <4>1 DEF Delivered
      <4>4. \A n \in ReqIds(Tail(conn[c].incoming)) : m.id < n
        BY <1>9, <2>2, <2>5, <4>3, ReqIdsTail
      <4>5. QED
        BY <4>1, <4>2, <4>4 DEF Delivered
    <3>2. ASSUME NEW y \in Message, y.kind = "sync", ReqIn(e, y)'  PROVE y.id # m.id
      <4>1. Request(y) /\ y.id \in Nat /\ m.id \in Nat
        BY <3>2, Numbers DEF Request, Message
      <4>2. CASE y \in Elems(conn[e].out) \cup Elems(wire[e])
        <5>1. y.id \in ReqIds(conn[e].out) \cup ReqIds(wire[e])
          BY <2>2, <4>1, <4>2, ReqIdsAre
        <5>2. QED
          BY <3>1, <4>1, <5>1 DEF Later
      <4>3. CASE y \in Elems(Tail(conn[c].incoming))
        <5>1. y.id \in ReqIds(Tail(conn[c].incoming))
          <6>1. PICK q : q = Tail(conn[c].incoming)
            OBVIOUS
          <6>2. q \in Seq(Message)
            BY <1>9, <2>2, <6>1, ReqIdsTail
          <6>3. y.id \in ReqIds(q)
            BY <4>1, <4>3, <6>1, <6>2, ReqIdsAre
          <6>4. QED
            BY <6>1, <6>3
        <5>2. QED
          BY <3>1, <4>1, <5>1
      <4>4. ASSUME NEW z, Item(main'[p], z), z.c = c, z.msg = y  PROVE y.id # m.id
        BY <2>6, <3>1, <4>4
      <4>5. conn'[e].out = conn[e].out
        BY <1>7, <2>1, Ends2 DEF OnlyConn
      <4>6. QED
        BY <1>6, <1>7, <1>9, <2>1, <3>2, <4>2, <4>3, <4>4, <4>5 DEF ReqIn, Got
    <3>3. /\ handled' = IF m.kind = "sync" THEN [handled EXCEPT ![Peer[c]][m.id] = @ + 1] ELSE handled
          /\ main'[p].delayed = main[p].delayed
      BY <2>3, <2>11 DEF IsEntered
    <3>4. \A y \in Message : y.kind = "sync" /\ ReqIn(Peer[c], y)' => y.id # m.id
      BY <2>1, <3>2
    <3>5. \A d, n : Handles(main'[p].stack, d, n) => Handles(main[p].stack, d, n) \/ (d = c /\ n = m)
      BY <2>6
    <3>6. AllAnswered'
      BY <1>2, <1>6, <1>7, <2>8, <2>9, <3>3, <3>4, <3>5, AnsweredEntered DEF Tracked
    <3>7. QED
      BY <2>7, <3>6 DEF Tracked
  <2>12. QED
    BY <1>9, <2>10, <2>11
<1>10. QED
  BY <1>3, <1>5, <1>8, <1>9
\* What connection c reads from the wire of e.
LEMMA WireSet ==
    ASSUME Typed, NEW e \in Endpoint, wire[e] # <<>>, wire' = [wire EXCEPT ![e] = Tail(wire[e])]
    PROVE  /\ wire'[e] = Tail(wire[e]) /\ \A d \in Endpoint \ {e} : wire'[d] = wire[d]
           /\ wire[e] \in Seq(Message) /\ Head(wire[e]) \in Message
           /\ \A d \in Endpoint : Elems(wire'[d]) \subseteq Elems(wire[d])
           /\ Head(wire[e]) \in Elems(wire[e])
<1>1. wire \in [Endpoint -> Seq(Message)]
  BY DEF Typed
<1>2. wire'[e] = Tail(wire[e]) /\ \A d \in Endpoint \ {e} : wire'[d] = wire[d]
  BY <1>1
<1>3. PICK w \in Seq(Message) : w = wire[e]
  BY <1>1
<1>4. Elems(Tail(w)) \subseteq Elems(w) /\ Head(w) \in Elems(w) /\ Head(w) \in Message
  BY <1>3, ElemsTail
<1>5. \A d \in Endpoint : Elems(wire'[d]) \subseteq Elems(wire[d])
  BY <1>2, <1>3, <1>4
<1>6. QED
  BY <1>2, <1>3, <1>4, <1>5

LEMMA ReceiveStreams ==
    ASSUME Typed, NEW c \in Endpoint, NEW e \in Endpoint, e # c, OnlyConn(c),
           wire[e] # <<>>, wire' = [wire EXCEPT ![e] = Tail(wire[e])],
           conn'[c].out = conn[c].out, conn'[c].sent = conn[c].sent
    PROVE  \A d \in Endpoint : Streams(conn[d], wire[d], conn'[d], wire'[d])
<1>1. ASSUME NEW d \in Endpoint  PROVE Streams(conn[d], wire[d], conn'[d], wire'[d])
  <2>1. conn'[d].out = conn[d].out /\ conn'[d].sent = conn[d].sent
    BY <1>1 DEF OnlyConn
  <2>2. CASE d = e
    <3>1. wire'[d] = Tail(wire[d]) /\ wire[d] # <<>>
      BY <2>2, WireSet
    <3>2. QED
      BY <2>1, <3>1 DEF Streams
  <2>3. CASE d # e
    <3>1. wire'[d] = wire[d]
      BY <1>1, <2>3, WireSet
    <3>2. QED
      BY <2>1, <3>1 DEF Streams
  <2>4. QED
    BY <2>2, <2>3
<1>2. QED
  BY <1>1

\* Reply m is read.
LEMMA TrackedAnswer ==
    ASSUME Held, Tracked, NEW c \in Endpoint, Receive(c), Head(wire[Peer[c]]).kind = "reply"
    PROVE  Tracked'
<1>1. Typed /\ Bounded
  BY DEF Held
<1>2. PICK p \in Proc, e \in Endpoint : p = Owner[c] /\ e = Peer[c]
  BY Ends2
<1>e. e # c /\ Peer[e] = c
  BY <1>2, Ends2
<1>3. /\ Typed' /\ OnlyConn(c) /\ OnlyProc(p) /\ UNCHANGED <<result, handled>>
      /\ wire[e] # <<>> /\ wire' = [wire EXCEPT ![e] = Tail(wire[e])]
      /\ \E m \in Message : m = Head(wire[e]) /\ (m.kind = "reply" => ProcessIncomingSyncReply(c, m.id))
  BY <1>1, <1>2, FormReceive
<1>4. PICK m \in Message : m = Head(wire[e]) /\ ProcessIncomingSyncReply(c, m.id) /\ m.kind = "reply"
  BY <1>2, <1>3
<1>5. PICK n \in Number : n = m.id
  BY DEF Message
<1>6. /\ IsAnswered(c, n) /\ IsStill(main[p], main'[p]) /\ main'[p].delayed = main[p].delayed
  BY <1>1, <1>2, <1>4, <1>5, FormAnswer
<1>7. /\ conn'[c].pending = Replied(conn[c].pending, n) /\ conn'[c].out = conn[c].out
      /\ conn'[c].incoming = conn[c].incoming /\ conn'[c].sent = conn[c].sent
      /\ \/ conn'[c].secondary = conn[c].secondary
         \/ /\ conn[c].secondary.at = "waiting" /\ conn[c].secondary.id = n
            /\ conn'[c].secondary = [conn[c].secondary EXCEPT !.replied = TRUE, !.isSet = TRUE]
  BY <1>6 DEF IsAnswered
<1>8. /\ conn[c].secondary \in Secondary /\ conn[c].pending \in Seq(PendingSyncReply)
      /\ Waits(conn[c], result[c])
  BY <1>1, TypedFacts DEF Tracked, AllAnswered, Answered
<1>9. /\ conn'[c].secondary.at = conn[c].secondary.at /\ conn'[c].secondary.id = conn[c].secondary.id
      /\ conn'[c].secondary.replied =>
            conn[c].secondary.replied \/ (conn[c].secondary.at = "waiting" /\ conn[c].secondary.id = n)
  BY <1>7, <1>8 DEF Secondary
<1>10. /\ Len(conn'[c].pending) = Len(conn[c].pending)
       /\ \A i \in 1..Len(conn[c].pending) :
            /\ conn'[c].pending[i].id = conn[c].pending[i].id
            /\ conn'[c].pending[i].didReceiveReply =>
                  conn[c].pending[i].didReceiveReply \/ conn[c].pending[i].id = n
  BY <1>7, <1>8, RepliedFacts
<1>11. Ids(conn'[c].pending) = Ids(conn[c].pending)
  BY <1>10 DEF Ids
<1>12. Waits(conn'[c], result[c])
  <2>1. conn[c].secondary.at # "waiting" => ~conn'[c].secondary.replied
    BY <1>8, <1>9 DEF Waits
  <2>2. QED
    BY <1>8, <1>9, <1>11, <2>1 DEF Waits
<1>13. \A i : HasReply(conn'[c], i) => HasReply(conn[c], i) \/ i = n
  BY <1>9, <1>10 DEF HasReply
<1>14. Passive(main[p], main'[p])
  BY <1>6, PassiveSame DEF IsStill
<1>15. Ordered'
  <2>1. \A d \in Endpoint : Streams(conn[d], wire[d], conn'[d], wire'[d])
    BY <1>1, <1>e, <1>3, <1>7, ReceiveStreams
  <2>2. ASSUME NEW d \in Endpoint
        PROVE  Inherits(d, conn[d], main[Owner[d]], conn'[d], main'[Owner[d]])
    <3>1. KeepsIncoming(conn[d], conn'[d])
      BY <1>3, <1>7, <2>2 DEF OnlyConn, KeepsIncoming
    <3>2. PICK q \in Proc : q = Owner[d]
      BY <2>2, Ends2
    <3>3. Passive(main[q], main'[q])
      <4>1. CASE q = p
        BY <1>14, <4>1
      <4>2. CASE q # p
        <5>1. main'[q] = main[q]
          BY <1>3, <4>2 DEF OnlyProc
        <5>2. QED
          BY <5>1, PassiveSame
      <4>3. QED
        BY <4>1, <4>2
    <3>4. QED
      BY <3>1, <3>2, <3>3 DEF Inherits, Passive
  <2>3. \A q \in Proc : Once(main[q]) => Once(main'[q])
    BY <1>3, <1>14 DEF OnlyProc, Passive
  <2>4. QED
    BY <1>3, <2>1, <2>2, <2>3, OrderedStep DEF Tracked
<1>16. /\ \A d \in Endpoint : Elems(wire'[d]) \subseteq Elems(wire[d])
       /\ m \in Elems(wire[e])
  BY <1>1, <1>3, <1>4, WireSet
<1>17. \A d \in Endpoint : conn'[d].out = conn[d].out
  BY <1>3, <1>7 DEF OnlyConn
<1>18. \A d \in Endpoint : \A x : Got(d, x)' => Got(d, x)
  <2>1. KeepsIncoming(conn[c], conn'[c]) /\ \A x : Item(main'[p], x) => Item(main[p], x)
    BY <1>7, <1>14 DEF KeepsIncoming, Passive
  <2>2. QED
    BY <1>1, <1>3, <2>1, GotKept
<1>19. \A d \in Endpoint, x \in Message : x.kind = "sync" /\ ReqIn(d, x)' => ReqIn(d, x)
  BY <1>16, <1>17, <1>18, ReqKept
<1>20. \A d \in Endpoint : \A i : Owes(d, i)' => Owes(d, i)
  BY <1>3, <1>6, <1>14, OwesKept
<1>21. \A d \in Endpoint : \A i : Replies(d, i)' => Replies(d, i)
  BY <1>16, <1>17 DEF Replies
<1>22. Replies(e, n)
  BY <1>4, <1>5, <1>16 DEF Replies
<1>23. ASSUME NEW d \in Endpoint  PROVE Answered(d)'
  <2>1. PICK g \in Endpoint : g = Peer[d]
    BY <1>23, Ends2
  <2>2. Answered(d) /\ Waits(conn[d], result[d]) /\ conn[d].sent \in Nat
    BY <1>1, <1>23, TypedFacts DEF Tracked, AllAnswered, Answered
  <2>3. /\ conn[d].sent <= conn'[d].sent /\ Waits(conn'[d], result'[d])
        /\ \A i : HasReply(conn'[d], i) => HasReply(conn[d], i) \/ (d = c /\ i = n)
    <3>1. CASE d = c
      BY <1>3, <1>7, <1>12, <1>13, <2>2, <3>1
    <3>2. CASE d # c
      <4>1. conn'[d] = conn[d]
        BY <1>3, <1>23, <3>2 DEF OnlyConn
      <4>2. QED
        BY <1>3, <2>2, <4>1
    <3>3. QED
      BY <3>1, <3>2
  <2>4. ASSUME NEW i \in Number  PROVE RepIn(d, i)' => RepIn(d, i)
    <3>1. Owes(g, i)' => Owes(g, i)
      BY <1>20
    <3>2. Replies(g, i)' => Replies(g, i)
      BY <1>21
    <3>3. HasReply(conn[d], i)' => HasReply(conn[d], i) \/ Replies(g, i)
      BY <1>2, <1>22, <2>1, <2>3
    <3>4. QED
      BY <2>1, <3>1, <3>2, <3>3 DEF RepIn
  <2>5. \A x \in Message : x.kind = "sync" /\ ReqIn(d, x)' => ReqIn(d, x)
    BY <1>19, <1>23
  <2>6. handled'[d] = handled[d] /\ \A i \in Number : result'[d][i] = result[d][i]
    BY <1>3
  <2>7. QED
    BY <1>1, <1>3, <1>23, <2>2, <2>3, <2>4, <2>5, <2>6, AnsweredAt
<1>24. QED
  BY <1>15, <1>23 DEF Tracked, AllAnswered

\* Request m of the other end is later than all those that connection c holds.
LEMMA ArrivesLast ==
    ASSUME Held, Tracked, NEW c \in Endpoint, NEW e \in Endpoint, e = Peer[c], NEW p \in Proc, p = Owner[c],
           wire[e] # <<>>, NEW m \in Message, m = Head(wire[e]), Request(m)
    PROVE  /\ Later(conn[e], Tail(wire[e]), m.id)
           /\ \A n \in ReqIds(conn[c].incoming) : n < m.id
           /\ \A x : Item(main[p], x) /\ x.c = c => x.msg.id < m.id
<1>1. Typed /\ ProcFits(p, main[p]) /\ Stream(conn[e], wire[e])
  BY DEF Held, Tracked, Ordered
<1>2. conn[e] \in ConnectionState /\ wire[e] \in Seq(Message) /\ conn[c].incoming \in Seq(Message)
  BY <1>1, TypedFacts
<1>3. /\ Later(conn[e], Tail(wire[e]), m.id)
      /\ \A n \in Nat : Later(conn[e], wire[e], n) => n < m.id
  BY <1>1, <1>2, StreamHead
<1>4. Delivered(c, conn[c], conn[e], wire[e], main[p])
  BY DEF Tracked, Ordered
<1>5. ReqIds(conn[c].incoming) \subseteq Nat
  BY <1>2, ReqIdsAre
<1>6. \A x : Item(main[p], x) => x.msg.id \in Nat
  <2>1. \A x : Item(main[p], x) => x \in Received
    BY <1>1 DEF ProcFits, IsOurs
  <2>2. \A x \in Received : x.msg.id \in Number
    BY DEF Received, Message
  <2>3. QED
    BY <2>1, <2>2, Numbers
<1>7. QED
  BY <1>3, <1>4, <1>5, <1>6 DEF Delivered

\* The connections to which the request is not addressed.
LEMMA OrderedArrives ==
    ASSUME Held, Typed', Tracked, NEW c \in Endpoint, NEW e \in Endpoint, e = Peer[c],
           NEW p \in Proc, p = Owner[c], OnlyConn(c), OnlyProc(p),
           wire[e] # <<>>, wire' = [wire EXCEPT ![e] = Tail(wire[e])],
           NEW m \in Message, m = Head(wire[e]), Request(m),
           conn'[c].out = conn[c].out, conn'[c].sent = conn[c].sent, main'[p].stack = main[p].stack,
           \A x : Item(main'[p], x) => Item(main[p], x) \/ (x.c = c /\ x.msg = m),
           Once(main[p]) => Once(main'[p]),
           Delivered(c, conn'[c], conn[e], Tail(wire[e]), main'[p])
    PROVE  Ordered'
<1>1. Typed /\ Ordered /\ e # c /\ Peer[e] = c
  BY Ends2 DEF Held, Tracked
<1>2. \A d \in Endpoint : Streams(conn[d], wire[d], conn'[d], wire'[d])
  BY <1>1, ReceiveStreams
<1>3. ASSUME NEW d \in Endpoint
      PROVE  /\ Stream(conn'[d], wire'[d])
             /\ \A n \in Nat : Later(conn[d], wire[d], n) => Later(conn'[d], wire'[d], n)
  <2>1. /\ conn[d] \in ConnectionState /\ conn'[d] \in ConnectionState
        /\ wire[d] \in Seq(Message) /\ wire'[d] \in Seq(Message)
    BY <1>1, <1>3 DEF Typed
  <2>2. Stream(conn[d], wire[d]) /\ Streams(conn[d], wire[d], conn'[d], wire'[d])
    BY <1>1, <1>2, <1>3 DEF Ordered
  <2>3. QED
    BY <2>1, <2>2, StreamKept
<1>4. ASSUME NEW d \in Endpoint
      PROVE  Delivered(d, conn'[d], conn'[Peer[d]], wire'[Peer[d]], main'[Owner[d]])
  <2>1. PICK q \in Proc, f \in Endpoint : q = Owner[d] /\ f = Peer[d]
    BY <1>4, Ends2
  <2>2. CASE d = c
    <3>1. conn'[e] = conn[e] /\ wire'[e] = Tail(wire[e])
      BY <1>1, WireSet DEF OnlyConn
    <3>2. QED
      BY <2>1, <2>2, <3>1
  <2>3. CASE d # c
    <3>1. /\ conn[d] \in ConnectionState /\ main[q] \in ProcState /\ main'[q] \in ProcState
      BY <1>1, <1>4, <2>1 DEF Typed
    <3>2. ProcFits(q, main[q]) /\ Plain(conn[d].incoming)
      BY <1>4, <2>1 DEF Held, ConnFits
    <3>3. Delivered(d, conn[d], conn[f], wire[f], main[q])
      BY <1>1, <1>4, <2>1 DEF Ordered
    <3>4. \A n \in Nat : Later(conn[f], wire[f], n) => Later(conn'[f], wire'[f], n)
      BY <1>3, <2>1
    <3>5. conn'[d] = conn[d]
      BY <1>4, <2>3 DEF OnlyConn
    <3>6. Inherits(d, conn[d], main[q], conn[d], main'[q])
      <4>1. CASE q = p
        BY <2>3, <4>1 DEF Inherits, KeepsIncoming
      <4>2. CASE q # p
        <5>1. main'[q] = main[q]
          BY <4>2 DEF OnlyProc
        <5>2. QED
          BY <5>1 DEF Inherits, KeepsIncoming
      <4>3. QED
        BY <4>1, <4>2
    <3>7. Delivered(d, conn[d], conn'[f], wire'[f], main'[q])
      BY <3>1, <3>2, <3>3, <3>4, <3>6, DeliveredKept
    <3>8. QED
      BY <2>1, <3>5, <3>7
  <2>4. QED
    BY <2>2, <2>3
<1>5. \A q \in Proc : Once(main'[q])
  BY <1>1 DEF OnlyProc, Ordered
<1>6. QED
  BY <1>3, <1>4, <1>5 DEF Ordered

LEMMA AnsweredArrives ==
    ASSUME Held, Typed', Tracked, NEW c \in Endpoint, NEW e \in Endpoint, e = Peer[c],
           NEW p \in Proc, p = Owner[c], OnlyConn(c), OnlyProc(p),
           wire[e] # <<>>, wire' = [wire EXCEPT ![e] = Tail(wire[e])], result' = result, handled' = handled,
           NEW m \in Message, m = Head(wire[e]),
           conn'[c].out = conn[c].out, conn'[c].sent = conn[c].sent, conn'[c].pending = conn[c].pending,
           conn'[c].secondary = conn[c].secondary,
           Elems(conn'[c].incoming) \subseteq Elems(conn[c].incoming) \cup {m},
           main'[p].stack = main[p].stack, main'[p].delayed = main[p].delayed,
           \A x : Item(main'[p], x) => Item(main[p], x) \/ (x.c = c /\ x.msg = m)
    PROVE  AllAnswered'
<1>1. Typed /\ AllAnswered /\ Peer[e] = c /\ conn[c].sent \in Nat
  <2>1. Typed
    BY DEF Held
  <2>2. QED
    BY <2>1, Ends2, TypedFacts DEF Tracked
<1>2. /\ \A d \in Endpoint : Elems(wire'[d]) \subseteq Elems(wire[d])
      /\ m \in Elems(wire[e])
  BY <1>1, WireSet
<1>3. ASSUME NEW d \in Endpoint  PROVE conn'[d].out = conn[d].out
  BY <1>3 DEF OnlyConn
<1>4. ASSUME NEW d \in Endpoint, NEW x, Got(d, x)'  PROVE Got(d, x) \/ (d = c /\ x = m)
  <2>1. PICK q \in Proc : q = Owner[d]
    BY <1>4, Ends2
  <2>2. CASE x \in Elems(conn'[d].incoming)
    <3>1. CASE d = c
      BY <2>2, <3>1 DEF Got
    <3>2. CASE d # c
      BY <1>4, <2>2, <3>2 DEF Got, OnlyConn
    <3>3. QED
      BY <3>1, <3>2
  <2>3. ASSUME NEW y, Item(main'[q], y), y.c = d, y.msg = x  PROVE Got(d, x) \/ (d = c /\ x = m)
    <3>1. Item(main[q], y) \/ (y.c = c /\ y.msg = m)
      <4>1. CASE q = p
        BY <2>3, <4>1
      <4>2. CASE q # p
        BY <2>3, <4>2 DEF OnlyProc
      <4>3. QED
        BY <4>1, <4>2
    <3>2. QED
      BY <2>1, <2>3, <3>1 DEF Got
  <2>4. QED
    BY <1>4, <2>1, <2>2, <2>3 DEF Got
<1>5. ASSUME NEW d \in Endpoint, NEW x \in Message, ReqIn(d, x)'  PROVE ReqIn(d, x)
  <2>1. PICK f \in Endpoint : f = Peer[d] /\ Peer[f] = d
    BY <1>5, Ends2
  <2>2. Got(f, x)' => Got(f, x) \/ (f = c /\ x = m)
    BY <1>4
  <2>3. x \in Elems(conn'[d].out) \cup Elems(wire'[d]) => x \in Elems(conn[d].out) \cup Elems(wire[d])
    BY <1>2, <1>3, <1>5
  <2>4. f = c /\ x = m => x \in Elems(wire[d])
    BY <1>2, <2>1
  <2>5. x \in Elems(conn'[d].out) \cup Elems(wire'[d]) \/ Got(f, x)'
    BY <1>5, <2>1 DEF ReqIn
  <2>6. QED
    BY <2>1, <2>2, <2>3, <2>4, <2>5 DEF ReqIn
<1>6. ASSUME NEW d \in Endpoint, NEW n \in Number, Owes(d, n)' \/ Replies(d, n)'
      PROVE  Owes(d, n) \/ Replies(d, n)
  <2>1. Replies(d, n)' => Replies(d, n)
    BY <1>2, <1>3, <1>6 DEF Replies
  <2>2. PICK q \in Proc : q = Owner[d]
    BY <1>6, Ends2
  <2>3. main'[q].stack = main[q].stack /\ main'[q].delayed = main[q].delayed
    BY DEF OnlyProc
  <2>4. Owes(d, n)' => Owes(d, n)
    BY <2>2, <2>3 DEF Owes
  <2>5. QED
    BY <1>6, <2>1, <2>4
<1>7. SecondaryKept(conn[c].secondary, conn'[c].secondary) /\ conn[c].sent <= conn'[c].sent
  BY <1>1 DEF SecondaryKept
<1>8. \A d \in Endpoint, x \in Message : x.kind = "sync" /\ ReqIn(d, x)' => ReqIn(d, x)
  BY <1>5
<1>9. \A d \in Endpoint, n \in Number : Owes(d, n)' \/ Replies(d, n)' => Owes(d, n) \/ Replies(d, n)
  BY <1>6
<1>10. QED
  BY <1>1, <1>7, <1>8, <1>9, AnsweredMoves

\* A marked request is read.
LEMMA TrackedMarked ==
    ASSUME Held, Tracked, NEW c \in Endpoint, Receive(c), NEW m \in Message, m = Head(wire[Peer[c]]),
           Request(m), QueueMarked(c, m)
    PROVE  Tracked'
<1>1. Typed /\ Bounded
  BY DEF Held
<1>2. PICK p \in Proc, e \in Endpoint : p = Owner[c] /\ e = Peer[c]
  BY Ends2
<1>3. /\ Typed' /\ OnlyConn(c) /\ OnlyProc(p) /\ result' = result /\ handled' = handled
      /\ wire[e] # <<>> /\ wire' = [wire EXCEPT ![e] = Tail(wire[e])]
  BY <1>1, <1>2, FormReceive
<1>4. /\ SameQueues(conn[c], conn'[c])
      /\ \E x \in Received : x = [c |-> c, msg |-> m] /\ IsQueue(main[p], main'[p], x)
  BY <1>1, <1>2, FormQueueMarked
<1>5. PICK x \in Received : x = [c |-> c, msg |-> m] /\ IsQueue(main[p], main'[p], x)
  BY <1>4
<1>6. x.c = c /\ x.msg = m
  BY <1>5
<1>7. /\ conn'[c].out = conn[c].out /\ conn'[c].sent = conn[c].sent /\ conn'[c].pending = conn[c].pending
      /\ conn'[c].secondary = conn[c].secondary /\ conn'[c].incoming = conn[c].incoming
  BY <1>4 DEF SameQueues
<1>8. main[p] \in ProcState /\ main'[p] \in ProcState /\ conn[c].incoming \in Seq(Message)
  BY <1>1, <1>3, TypedFacts DEF Typed
<1>9. (\A y : Item(main'[p], y) => Item(main[p], y) \/ y = x) /\ main'[p].stack = main[p].stack
  BY <1>5, <1>8, MoveQueue
<1>10. main'[p].delayed = main[p].delayed
  BY <1>5 DEF IsQueue
<1>11. m = Head(wire[e]) /\ m.id \in Nat
  <2>1. m.id \in Number
    BY DEF Message
  <2>2. QED
    BY <1>2, <2>1, Numbers
<1>12. /\ Later(conn[e], Tail(wire[e]), m.id)
       /\ \A n \in ReqIds(conn[c].incoming) : n < m.id
       /\ \A y : Item(main[p], y) /\ y.c = c => y.msg.id < m.id
  BY <1>2, <1>3, <1>11, ArrivesLast
<1>13. Once(main[p]) => Once(main'[p])
  <2>1. \A y : Item(main[p], y) => ~SameKey(x, y)
    BY <1>6, <1>11, <1>12 DEF SameKey
  <2>2. QED
    BY <1>5, <1>8, <2>1, QueueOnce
<1>14. Delivered(c, conn'[c], conn[e], Tail(wire[e]), main'[p])
  <2>1. Inherits(c, conn[c], main[p], conn[c], main[p])
    BY DEF Inherits, KeepsIncoming
  <2>2. conn[c] \in ConnectionState /\ ProcFits(p, main[p]) /\ Plain(conn[c].incoming)
    BY <1>1, TypedFacts DEF Held, ConnFits
  <2>3. Delivered(c, conn[c], conn[e], wire[e], main[p]) /\ Stream(conn[e], wire[e])
    BY <1>2 DEF Tracked, Ordered
  <2>4. \A n \in Nat : Later(conn[e], wire[e], n) => Later(conn[e], Tail(wire[e]), n)
    <3>1. wire[e] \in Seq(Message)
      BY <1>1, TypedFacts
    <3>2. ReqIds(Tail(wire[e])) \subseteq ReqIds(wire[e])
      BY <1>3, <3>1, ReqIdsTail
    <3>3. QED
      BY <3>2 DEF Later
  <2>5. Delivered(c, conn[c], conn[e], Tail(wire[e]), main[p])
    BY <1>8, <2>1, <2>2, <2>3, <2>4, DeliveredKept
  <2>6. m.id \notin ReqIds(conn[c].incoming)
    BY <1>11, <1>12
  <2>7. \A y : Item(main'[p], y) /\ y.c = c =>
            Later(conn[e], Tail(wire[e]), y.msg.id) /\ y.msg.id \notin ReqIds(conn[c].incoming)
    BY <1>6, <1>9, <1>12, <2>5, <2>6 DEF Delivered
  <2>8. QED
    BY <1>7, <1>9, <2>5, <2>7 DEF Delivered
<1>15. \A y : Item(main'[p], y) => Item(main[p], y) \/ (y.c = c /\ y.msg = m)
  BY <1>6, <1>9
<1>16. Ordered'
  BY <1>2, <1>3, <1>7, <1>9, <1>11, <1>13, <1>14, <1>15, OrderedArrives
<1>17. AllAnswered'
  BY <1>2, <1>3, <1>7, <1>9, <1>10, <1>11, <1>15, AnsweredArrives
<1>18. QED
  BY <1>16, <1>17 DEF Tracked

\* An unmarked request is read.
LEMMA TrackedUnmarked ==
    ASSUME Held, Tracked, NEW c \in Endpoint, Receive(c), NEW m \in Message, m = Head(wire[Peer[c]]),
           Request(m), EnqueueIncoming(c, m)
    PROVE  Tracked'
<1>1. Typed /\ Bounded
  BY DEF Held
<1>2. PICK p \in Proc, e \in Endpoint : p = Owner[c] /\ e = Peer[c]
  BY Ends2
<1>3. /\ Typed' /\ OnlyConn(c) /\ OnlyProc(p) /\ result' = result /\ handled' = handled
      /\ wire[e] # <<>> /\ wire' = [wire EXCEPT ![e] = Tail(wire[e])]
  BY <1>1, <1>2, FormReceive
<1>4. /\ conn'[c].incoming = Append(conn[c].incoming, m)
      /\ conn'[c].out = conn[c].out /\ conn'[c].pending = conn[c].pending
      /\ conn'[c].secondary = conn[c].secondary /\ conn'[c].sent = conn[c].sent
      /\ IsPost(main[p], main'[p], OneOf(c))
  BY <1>1, <1>2, FormEnqueueIncoming
<1>5. /\ main'[p].stack = main[p].stack /\ main'[p].messages = main[p].messages
      /\ main'[p].delayed = main[p].delayed
  BY <1>4 DEF IsPost
<1>6. Passive(main[p], main'[p])
  BY <1>5, PassiveSame
<1>7. main[p] \in ProcState /\ conn[c].incoming \in Seq(Message)
  BY <1>1, TypedFacts DEF Typed
<1>8. (\A y : Item(main'[p], y) => Item(main[p], y)) /\ (Once(main[p]) => Once(main'[p]))
  BY <1>6 DEF Passive
<1>9. m = Head(wire[e]) /\ m.id \in Nat
  <2>1. m.id \in Number
    BY DEF Message
  <2>2. QED
    BY <1>2, <2>1, Numbers
<1>10. /\ Later(conn[e], Tail(wire[e]), m.id)
       /\ \A n \in ReqIds(conn[c].incoming) : n < m.id
       /\ \A y : Item(main[p], y) /\ y.c = c => y.msg.id < m.id
  BY <1>2, <1>3, <1>9, ArrivesLast
<1>11. Delivered(c, conn'[c], conn[e], Tail(wire[e]), main'[p])
  <2>1. Inherits(c, conn[c], main[p], conn[c], main[p])
    BY DEF Inherits, KeepsIncoming
  <2>2. conn[c] \in ConnectionState /\ ProcFits(p, main[p]) /\ Plain(conn[c].incoming)
    BY <1>1, TypedFacts DEF Held, ConnFits
  <2>3. Delivered(c, conn[c], conn[e], wire[e], main[p]) /\ Stream(conn[e], wire[e])
    BY <1>2 DEF Tracked, Ordered
  <2>4. \A n \in Nat : Later(conn[e], wire[e], n) => Later(conn[e], Tail(wire[e]), n)
    <3>1. wire[e] \in Seq(Message)
      BY <1>1, TypedFacts
    <3>2. ReqIds(Tail(wire[e])) \subseteq ReqIds(wire[e])
      BY <1>3, <3>1, ReqIdsTail
    <3>3. QED
      BY <3>2 DEF Later
  <2>5. Delivered(c, conn[c], conn[e], Tail(wire[e]), main[p])
    BY <1>7, <2>1, <2>2, <2>3, <2>4, DeliveredKept
  <2>6. /\ ReqIds(conn'[c].incoming) = ReqIds(conn[c].incoming) \cup {m.id}
        /\ Sorted(conn'[c].incoming)
    BY <1>4, <1>7, <1>10, <2>5, ReqIdsAppend DEF Delivered
  <2>7. \A n \in ReqIds(conn'[c].incoming) : Later(conn[e], Tail(wire[e]), n)
    BY <1>10, <2>5, <2>6 DEF Delivered
  <2>8. ASSUME NEW y, Item(main'[p], y), y.c = c
        PROVE  Later(conn[e], Tail(wire[e]), y.msg.id) /\ y.msg.id \notin ReqIds(conn'[c].incoming)
    <3>1. Item(main[p], y)
      BY <1>8, <2>8
    <3>2. y.msg.id < m.id /\ Later(conn[e], Tail(wire[e]), y.msg.id)
          /\ y.msg.id \notin ReqIds(conn[c].incoming)
      BY <1>10, <2>5, <2>8, <3>1 DEF Delivered
    <3>3. y.msg.id # m.id
      BY <1>9, <3>2
    <3>4. QED
      BY <2>6, <3>2, <3>3
  <2>9. QED
    BY <1>5, <2>5, <2>6, <2>7, <2>8 DEF Delivered
<1>12. \A y : Item(main'[p], y) => Item(main[p], y) \/ (y.c = c /\ y.msg = m)
  BY <1>8
<1>13. Ordered'
  BY <1>2, <1>3, <1>4, <1>5, <1>8, <1>9, <1>11, <1>12, OrderedArrives
<1>14. Elems(conn'[c].incoming) \subseteq Elems(conn[c].incoming) \cup {m}
  BY <1>4, <1>7, ElemsAppend
<1>15. AllAnswered'
  BY <1>2, <1>3, <1>4, <1>5, <1>9, <1>12, <1>14, AnsweredArrives
<1>16. QED
  BY <1>13, <1>15 DEF Tracked

LEMMA TrackedReceive ==
    ASSUME Held, Tracked, NEW c \in Endpoint, Receive(c)
    PROVE  Tracked'
<1>1. PICK m \in Message :
        /\ m = Head(wire[Peer[c]])
        /\ \/ m.kind = "reply" /\ ProcessIncomingSyncReply(c, m.id)
           \/ m.kind # "reply" /\ m.marked /\ QueueMarked(c, m)
           \/ m.kind # "reply" /\ ~m.marked /\ EnqueueIncoming(c, m)
  BY FormReceive DEF Held
<1>2. CASE m.kind = "reply"
  BY <1>1, <1>2, TrackedAnswer
<1>3. CASE m.kind # "reply"
  <2>1. Request(m)
    BY <1>3 DEF Request
  <2>2. QED
    BY <1>1, <1>3, <2>1, TrackedMarked, TrackedUnmarked
<1>4. QED
  BY <1>2, <1>3

LEMMA TrackedInit == Init => Tracked
<1>1. SUFFICES ASSUME Init  PROVE Tracked
  OBVIOUS
<1>2. ASSUME NEW p \in Proc
      PROVE  /\ Once(main[p]) /\ (\A x : ~Item(main[p], x)) /\ \A c, m : ~Handles(main[p].stack, c, m)
  <2>1. main[p].messages = <<>> /\ main[p].stack = <<>> /\ Len(<<>>) = 0
    BY <1>1 DEF Init
  <2>2. Unique(main[p].messages) /\ OnceOn(main[p].stack)
    BY <2>1, ElemsEmpty DEF Unique, OnceOn
  <2>3. Apart(Elems(main[p].messages), ItemsOn(main[p].stack))
    BY <2>1, ElemsEmpty DEF Apart
  <2>4. \A x : ~Item(main[p], x)
    BY <2>1, ElemsEmpty, OnEmpty DEF Item
  <2>5. \A c, m : ~Handles(main[p].stack, c, m)
    BY <2>1, ElemsEmpty DEF Handles
  <2>6. QED
    BY <2>2, <2>3, <2>4, <2>5 DEF Once
<1>3. ASSUME NEW c \in Endpoint
      PROVE  /\ conn[c].out = <<>> /\ conn[c].incoming = <<>> /\ conn[c].pending = <<>> /\ conn[c].sent = 0
             /\ conn[c].secondary = NoSecondary /\ wire[c] = <<>> /\ Owner[c] \in Proc /\ Peer[c] \in Endpoint
             /\ main[Owner[c]].delayed = {}
  BY <1>1, <1>3, Ends2 DEF Init
<1>4. ASSUME NEW c \in Endpoint  PROVE Stream(conn[c], wire[c])
  BY <1>3, <1>4, ReqIdsEmpty DEF Stream
<1>5. ASSUME NEW c \in Endpoint
      PROVE  Delivered(c, conn[c], conn[Peer[c]], wire[Peer[c]], main[Owner[c]])
  BY <1>2, <1>3, <1>5, ReqIdsEmpty DEF Delivered
<1>6. Ordered
  BY <1>2, <1>4, <1>5 DEF Ordered
<1>7. ASSUME NEW c \in Endpoint  PROVE Answered(c)
  <2>1. PICK e \in Endpoint : e = Peer[c]
    BY <1>3, <1>7
  <2>2. \A n \in Number : result[c][n] = "idle" /\ handled[c][n] = 0
    BY <1>1, <1>7 DEF Init
  <2>3. ASSUME NEW n \in Number  PROVE ~RepIn(c, n)
    <3>1. ~Owes(e, n)
      BY <1>2, <1>3, <2>1 DEF Owes
    <3>2. ~Replies(e, n)
      BY <1>3, <2>1, ElemsEmpty DEF Replies
    <3>3. conn[c].pending = <<>> /\ ~conn[c].secondary.replied /\ Len(<<>>) = 0
      BY <1>3, <1>7 DEF NoSecondary
    <3>4. ~HasReply(conn[c], n)
      BY <3>3 DEF HasReply
    <3>5. QED
      BY <2>1, <3>1, <3>2, <3>4 DEF RepIn
  <2>4. ASSUME NEW m \in Message  PROVE ~ReqIn(c, m)
    <3>1. ~Got(e, m)
      BY <1>2, <1>3, <2>1, ElemsEmpty DEF Got
    <3>2. QED
      BY <1>3, <1>7, <2>1, <3>1, ElemsEmpty DEF ReqIn
  <2>5. Waits(conn[c], result[c])
    <3>1. conn[c].pending = <<>> /\ conn[c].secondary.at = "out" /\ ~conn[c].secondary.replied /\ Len(<<>>) = 0
      BY <1>3, <1>7 DEF NoSecondary
    <3>2. QED
      BY <3>1 DEF Waits, Ids
  <2>6. QED
    BY <2>2, <2>3, <2>4, <2>5 DEF Answered
<1>8. QED
  BY <1>6, <1>7 DEF Tracked, AllAnswered

LEMMA TrackedWaitWakes ==
    ASSUME Held, Tracked, NEW p \in Proc, WaitWakes(p)
    PROVE  Tracked'
<1>1. Typed /\ Bounded
  BY DEF Held
<1>2. /\ Typed' /\ OnlyProc(p) /\ UNCHANGED <<conn, wire, result, handled>>
      /\ IsTurn(main[p], main'[p], "dispatch")
  BY <1>1, FormWaitWakes
<1>3. QED
  BY <1>2, TrackedTurn

LEMMA TrackedStutters == Tracked /\ UNCHANGED vars => Tracked'
<1>1. SUFFICES ASSUME Tracked, UNCHANGED vars  PROVE Tracked'
  OBVIOUS
<1>2. conn' = conn /\ main' = main /\ wire' = wire /\ result' = result /\ handled' = handled
  BY <1>1 DEF vars
<1>3. Ordered'
  BY <1>1, <1>2 DEF Tracked, Ordered
<1>4. \A d, n : (Owes(d, n)' <=> Owes(d, n)) /\ (Replies(d, n)' <=> Replies(d, n)) /\ (Got(d, n)' <=> Got(d, n))
  BY <1>2 DEF Owes, Replies, Got
<1>5. \A c, n : (RepIn(c, n)' <=> RepIn(c, n)) /\ (ReqIn(c, n)' <=> ReqIn(c, n))
  BY <1>2, <1>4 DEF RepIn, ReqIn
<1>6. AllAnswered'
  BY <1>1, <1>2, <1>5 DEF Tracked, AllAnswered, Answered
<1>7. QED
  BY <1>3, <1>6 DEF Tracked

LEMMA TrackedNext == Held /\ Tracked /\ [Next]_vars => Tracked'
<1>1. SUFFICES ASSUME Held, Tracked, [Next]_vars  PROVE Tracked'
  OBVIOUS
<1>2. CASE UNCHANGED vars
  BY <1>1, <1>2, TrackedStutters
<1>3. ASSUME NEW p \in Proc, MainThread(p) \/ SendDelayedReply(p) \/ WaitTimesOut(p) \/ Crash(p)
      PROVE  Tracked'
  BY <1>1, <1>3, TrackedHandlerReturns, TrackedSwapMessages, TrackedDispatchNext, TrackedPutBackMessages,
     TrackedWaitDispatches, TrackedWaitChecks, TrackedWaitWakes, TrackedRunFunction,
     TrackedSendDelayedReply, TrackedWaitTimesOut, TrackedCrash DEF MainThread
<1>4. ASSUME NEW c \in Endpoint,
             ClientCalls(c) \/ WorkQueue(c) \/ SecondaryChecks(c) \/ SecondarySends(c) \/ SecondaryReturns(c)
      PROVE  Tracked'
  <2>1. CASE ClientCalls(c)
    BY <1>1, <2>1, TrackedSendAsync, TrackedSendSync, TrackedSendSyncFails, TrackedAlone DEF ClientCalls
  <2>2. CASE ReadyRead(c)
    BY <1>1, <2>2, TrackedAlone, TrackedDidClose
  <2>3. CASE WorkQueue(c) /\ ~ReadyRead(c)
    BY <1>1, <2>3, TrackedAlone, TrackedReceive, TrackedSendOutgoing, TrackedWakeUpClient,
       TrackedPostDidClose, TrackedDidClose DEF WorkQueue
  <2>4. QED
    BY <1>1, <1>4, <2>1, <2>2, <2>3, TrackedSecondaryChecks, TrackedSecondarySends, TrackedSecondaryReturns
<1>5. QED
  BY <1>1, <1>2, <1>3, <1>4 DEF Next, Rest

\* In every reachable state the requests of a connection are received in the
\* order of sendMessage, each is in one place only, and a reply is on its way
\* only for a request whose handler has been entered.
THEOREM TrackedHolds == Spec => []Tracked
<1>1. QED
  BY HeldHolds, TrackedInit, TrackedNext, PTL DEF Spec

LEMMA HeldTypes == Held /\ Tracked => TypeOK
<1>1. SUFFICES ASSUME Held, Tracked  PROVE TypeOK
  OBVIOUS
<1>2. Typed
  BY <1>1 DEF Held
<1>3. \A c \in Endpoint, n \in Number : handled[c][n] \in 0..2
  <2>1. \A c \in Endpoint, n \in Number : handled[c][n] \in {0, 1}
    BY <1>1 DEF Tracked, AllAnswered, Answered
  <2>2. QED
    BY <2>1
<1>4. handled \in [Endpoint -> [Number -> 0..2]]
  BY <1>2, <1>3 DEF Typed
<1>5. QED
  BY <1>2, <1>4 DEF Typed, TypeOK

\* The state of every Connection, SyncMessageState and call stack stays in its
\* type - connectionDidClose runs at most twice, no handler of a sync message is
\* entered more often than the type allows - and no wake-up of waitForSyncReply
\* is lost, for any number of processes, connections and messages.
THEOREM ConnectionInvHolds == Spec => []ConnectionInv
<1>1. Held /\ Tracked /\ NoLostWakeup => ConnectionInv
  BY HeldTypes DEF ConnectionInv
<1>2. QED
  BY <1>1, HeldHolds, TrackedHolds, NoWakeupLost, PTL

-----------------------------------------------------------------------------
(* sendSyncMessage implements SyncCall.                                    *)

\* A step of the calls, or none.
CallStep == Calls!Next \/ UNCHANGED <<result, handled>>

LEMMA CallSent ==
    ASSUME NEW c \in Endpoint, NEW n \in Number, result[c][n] = "idle",
           result' = [result EXCEPT ![c][n] = "sent"], handled' = handled
    PROVE  CallStep
<1>1. Calls!Send(c, n)
  BY DEF Calls!Send
<1>2. QED
  BY <1>1 DEF CallStep, Calls!Next

LEMMA CallFailed ==
    ASSUME Typed, NEW c \in Endpoint, NEW n \in Number, result[c][n] \in {"idle", "sent"},
           result' = [result EXCEPT ![c][n] = "failed"], handled' = handled
    PROVE  CallStep
<1>1. /\ DOMAIN result' = Endpoint /\ \A d \in Endpoint : DOMAIN result'[d] = Number
  BY DEF Typed
<1>2. /\ \A d \in Endpoint \ {c} : result'[d] = result[d]
      /\ result'[c][n] = "failed" /\ \A i \in Number : i # n => result'[c][i] = result[c][i]
  BY ResultSet
<1>3. ASSUME NEW d \in Endpoint, NEW i \in Number
      PROVE  \/ result'[d][i] = result[d][i]
             \/ result[d][i] \in {"idle", "sent"} /\ result'[d][i] = "failed"
  BY <1>2, <1>3
<1>4. Calls!Fail
  BY <1>1, <1>3 DEF Calls!Fail
<1>5. QED
  BY <1>4 DEF CallStep, Calls!Next

LEMMA CallReplied ==
    ASSUME Typed, Tracked, NEW c \in Endpoint, NEW n \in Number, result[c][n] = "sent",
           HasReply(conn[c], n), result' = [result EXCEPT ![c][n] = "ok"], handled' = handled
    PROVE  CallStep
<1>1. RepIn(c, n) /\ Answered(c)
  BY DEF RepIn, Tracked, AllAnswered
<1>2. handled[c][n] = 1
  BY <1>1 DEF Answered
<1>3. Calls!Succeed(c, n)
  BY <1>2 DEF Calls!Succeed
<1>4. QED
  BY <1>3 DEF CallStep, Calls!Next

\* The process of some callers ends.
LEMMA CallEnds ==
    ASSUME Held, Tracked, NEW p \in Proc, NEW failing \in SUBSET Endpoint, Ends(p, failing),
           \A c \in failing : conn[c].sent < MaxSends[c]
    PROVE  CallStep
<1>1. Typed /\ Bounded
  BY DEF Held
<1>2. /\ Typed' /\ handled' = handled
      /\ \A c \in Endpoint :
           /\ Owner[c] # p => result'[c] = result[c]
           /\ Owner[c] = p => \A n \in Number :
                 result'[c][n] = IF \/ result[c][n] = "sent"
                                    \/ conn'[c].sent # conn[c].sent /\ n = conn[c].sent + 1
                                 THEN "failed" ELSE result[c][n]
  BY <1>1, FormEnds
<1>3. /\ DOMAIN result' = Endpoint /\ \A d \in Endpoint : DOMAIN result'[d] = Number
  BY <1>2 DEF Typed
<1>4. ASSUME NEW d \in Endpoint, NEW i \in Number
      PROVE  \/ result'[d][i] = result[d][i]
             \/ result[d][i] \in {"idle", "sent"} /\ result'[d][i] = "failed"
  <2>1. i = conn[d].sent + 1 => result[d][i] = "idle"
    <3>1. conn[d].sent \in Nat /\ Answered(d)
      BY <1>1, TypedFacts DEF Tracked, AllAnswered
    <3>2. i = conn[d].sent + 1 => i > conn[d].sent
      BY <3>1
    <3>3. QED
      BY <3>1, <3>2 DEF Answered
  <2>2. CASE Owner[d] = p
    BY <1>2, <1>4, <2>1, <2>2
  <2>3. CASE Owner[d] # p
    BY <1>2, <1>4, <2>3
  <2>4. QED
    BY <2>2, <2>3
<1>5. Calls!Fail
  BY <1>2, <1>3, <1>4 DEF Calls!Fail
<1>6. QED
  BY <1>5 DEF CallStep, Calls!Next

\* The handler of message m, which connection c holds, is entered.
LEMMA CallHandled ==
    ASSUME Typed, Tracked, NEW c \in Endpoint, NEW m \in Message, Got(c, m), result' = result,
           handled' = IF m.kind = "sync" THEN [handled EXCEPT ![Peer[c]][m.id] = @ + 1] ELSE handled
    PROVE  CallStep
<1>1. CASE m.kind # "sync"
  BY <1>1 DEF CallStep
<1>2. CASE m.kind = "sync"
  <2>1. PICK e \in Endpoint : e = Peer[c] /\ Peer[e] = c
    BY Ends2
  <2>2. PICK n \in Number : n = m.id
    BY DEF Message
  <2>3. ReqIn(e, m) /\ Answered(e)
    BY <2>1 DEF ReqIn, Tracked, AllAnswered
  <2>4. handled[e][n] = 0 /\ result[e][n] # "idle"
    BY <1>2, <2>2, <2>3 DEF Answered
  <2>5. handled' = [handled EXCEPT ![e][n] = @ + 1]
    BY <1>2, <2>1, <2>2
  <2>6. handled' = [handled EXCEPT ![e][n] = 1]
    <3>1. handled' = [handled EXCEPT ![e][n] = handled[e][n] + 1]
      BY <2>5
    <3>2. handled[e][n] + 1 = 1
      BY <2>4
    <3>3. QED
      BY <3>1, <3>2
  <2>7. Calls!Handle(e, n)
    BY <2>4, <2>6 DEF Calls!Handle
  <2>8. QED
    BY <2>7 DEF CallStep, Calls!Next
<1>3. QED
  BY <1>1, <1>2

LEMMA NextIsIdle ==
    ASSUME Held, Tracked, NEW c \in Endpoint, conn[c].sent + 1 \in Number
    PROVE  result[c][conn[c].sent + 1] = "idle"
<1>1. conn[c].sent \in Nat /\ Answered(c)
  BY TypedFacts DEF Held, Tracked, AllAnswered
<1>2. QED
  BY <1>1 DEF Answered

LEMMA CallsSendSync ==
    ASSUME Held, Tracked, NEW c \in Endpoint, SendSync(c) \/ SendSyncFails(c) \/ SecondarySends(c)
    PROVE  CallStep
<1>1. Typed /\ Bounded
  BY DEF Held
<1>2. CASE SendSync(c)
  <2>1. /\ conn[c].sent + 1 \in Number /\ handled' = handled
        /\ result' = [result EXCEPT ![c][conn[c].sent + 1] = "sent"]
    BY <1>1, <1>2, FormSendSync
  <2>2. PICK n \in Number : n = conn[c].sent + 1
    BY <2>1
  <2>3. result[c][n] = "idle"
    BY <2>2, NextIsIdle
  <2>4. QED
    BY <2>1, <2>2, <2>3, CallSent
<1>3. CASE SendSyncFails(c) /\ c \notin ExitOnFailure
  <2>1. /\ conn[c].sent + 1 \in Number /\ handled' = handled
        /\ result' = [result EXCEPT ![c][conn[c].sent + 1] = "failed"]
    BY <1>1, <1>3, FormSendSyncFails
  <2>2. PICK n \in Number : n = conn[c].sent + 1
    BY <2>1
  <2>3. result[c][n] = "idle"
    BY <2>2, NextIsIdle
  <2>4. QED
    BY <1>1, <2>1, <2>2, <2>3, CallFailed
<1>4. CASE SendSyncFails(c) /\ c \in ExitOnFailure
  <2>1. Ends(Owner[c], {c}) /\ Owner[c] \in Proc /\ conn[c].sent < MaxSends[c]
    BY <1>4, Ends2 DEF SendSyncFails
  <2>2. QED
    BY <2>1, CallEnds
<1>5. CASE SecondarySends(c)
  <2>1. /\ conn[c].sent + 1 \in Number /\ handled' = handled
        /\ \/ result' = [result EXCEPT ![c][conn[c].sent + 1] = "failed"]
           \/ result' = [result EXCEPT ![c][conn[c].sent + 1] = "sent"]
    BY <1>1, <1>5, FormSecondarySends
  <2>2. PICK n \in Number : n = conn[c].sent + 1
    BY <2>1
  <2>3. result[c][n] = "idle"
    BY <2>2, NextIsIdle
  <2>4. CASE result' = [result EXCEPT ![c][n] = "failed"]
    BY <1>1, <2>1, <2>3, <2>4, CallFailed
  <2>5. CASE result' = [result EXCEPT ![c][n] = "sent"]
    BY <2>1, <2>3, <2>5, CallSent
  <2>6. QED
    BY <2>1, <2>2, <2>4, <2>5
<1>6. QED
  BY <1>2, <1>3, <1>4, <1>5

LEMMA CallsSecondaryReturns ==
    ASSUME Held, Tracked, NEW c \in Endpoint, SecondaryReturns(c)
    PROVE  CallStep
<1>1. Typed /\ Bounded /\ WaitingFits(conn[c]) /\ Waits(conn[c], result[c])
  BY DEF Held, ConnFits, Tracked, AllAnswered, Answered
<1>2. conn[c].secondary.at = "waiting"
  BY DEF SecondaryReturns
<1>3. PICK n \in Number : n = conn[c].secondary.id
  BY <1>1, <1>2 DEF WaitingFits
<1>4. /\ handled' = handled
      /\ result' = [result EXCEPT ![c][n] = IF conn[c].secondary.replied THEN "ok" ELSE "failed"]
  BY <1>1, <1>3, FormSecondaryReturns
<1>5. result[c][n] = "sent"
  BY <1>1, <1>2, <1>3 DEF Waits
<1>6. CASE conn[c].secondary.replied
  <2>1. HasReply(conn[c], n)
    BY <1>3, <1>6 DEF HasReply
  <2>2. QED
    BY <1>1, <1>4, <1>5, <1>6, <2>1, CallReplied
<1>7. CASE ~conn[c].secondary.replied
  BY <1>1, <1>4, <1>5, <1>7, CallFailed
<1>8. QED
  BY <1>6, <1>7

LEMMA CallsReturn ==
    ASSUME Held, Tracked, NEW p \in Proc, NEW ok \in BOOLEAN, In(p, "sendSync"), SendSyncReturns(p, ok),
           ok => LET q == conn[Head(main[p].stack).c].pending IN q[Len(q)].didReceiveReply
    PROVE  CallStep
<1>1. Typed /\ Bounded
  BY DEF Held
<1>2. PICK fr \in Frame :
        /\ fr = Head(main[p].stack) /\ fr.c \in Endpoint /\ fr.id \in Number
        /\ conn[fr.c].pending \in Seq(PendingSyncReply) /\ conn[fr.c].pending # <<>>
        /\ conn[fr.c].pending[Len(conn[fr.c].pending)].id = fr.id
  BY InSendSync
<1>3. PICK c \in Endpoint, n \in Number, q \in Seq(PendingSyncReply) :
        c = fr.c /\ n = fr.id /\ q = conn[c].pending
  BY <1>2
<1>4. q # <<>> /\ Len(q) \in 1..Len(q) /\ q[Len(q)].id = n /\ (ok => q[Len(q)].didReceiveReply)
  <2>1. q # <<>> /\ q[Len(q)].id = n
    BY <1>2, <1>3
  <2>2. Len(q) \in 1..Len(q)
    BY <2>1, LastPlace
  <2>3. q = conn[Head(main[p].stack).c].pending
    BY <1>2, <1>3
  <2>4. QED
    BY <2>1, <2>2, <2>3
<1>5. CASE Ends(p, {})
  <2>1. {} \in SUBSET Endpoint /\ \A d \in {} : conn[d].sent < MaxSends[d]
    OBVIOUS
  <2>2. QED
    BY <1>5, <2>1, CallEnds
<1>6. CASE handled' = handled /\ result' = [result EXCEPT ![c][n] = IF ok THEN "ok" ELSE "failed"]
  <2>1. Waits(conn[c], result[c])
    BY DEF Tracked, AllAnswered, Answered
  <2>2. n \in Ids(q)
    BY <1>4 DEF Ids
  <2>3. result[c][n] = "sent"
    BY <1>3, <2>1, <2>2 DEF Waits
  <2>4. CASE ok
    <3>1. HasReply(conn[c], n)
      BY <1>3, <1>4, <2>4 DEF HasReply
    <3>2. QED
      BY <1>1, <1>6, <2>3, <2>4, <3>1, CallReplied
  <2>5. CASE ~ok
    BY <1>1, <1>6, <2>3, <2>5, CallFailed
  <2>6. QED
    BY <2>4, <2>5
<1>7. \/ Ends(p, {})
      \/ /\ handled' = handled
         /\ result' = [result EXCEPT ![Head(main[p].stack).c][Head(main[p].stack).id] =
                         IF ok THEN "ok" ELSE "failed"]
  <2>1. conn[Head(main[p].stack).c].pending # <<>>
    BY <1>2
  <2>2. QED
    BY <1>1, <2>1, FormSendSyncReturns
<1>8. QED
  BY <1>2, <1>3, <1>5, <1>6, <1>7

LEMMA CallsWait ==
    ASSUME Held, Tracked, NEW p \in Proc, WaitChecks(p) \/ WaitTimesOut(p)
    PROVE  CallStep
<1>1. CASE WaitTimesOut(p)
  <2>1. In(p, "sendSync") /\ SendSyncReturns(p, FALSE)
    BY <1>1 DEF WaitTimesOut
  <2>2. QED
    BY <2>1, CallsReturn
<1>2. CASE WaitChecks(p)
  <2>1. Typed /\ Bounded /\ In(p, "sendSync")
    BY <1>2 DEF Held, WaitChecks
  <2>2. PICK fr \in Frame :
        /\ fr = Head(main[p].stack) /\ fr.c \in Endpoint
        /\ conn[fr.c].pending \in Seq(PendingSyncReply) /\ conn[fr.c].pending # <<>>
    BY <2>1, InSendSync
  <2>3. PICK q \in Seq(PendingSyncReply) : q = conn[fr.c].pending
    BY <2>2
  <2>4. q # <<>> /\ Len(q) \in 1..Len(q)
    BY <2>2, <2>3
  <2>5. PICK ok \in BOOLEAN : ok <=> q[Len(q)].didReceiveReply
    BY <2>4 DEF PendingSyncReply
  <2>6. ok = q[Len(q)].didReceiveReply
    <3>1. q[Len(q)].didReceiveReply \in BOOLEAN
      <4>1. \A x \in PendingSyncReply : x.didReceiveReply \in BOOLEAN
        BY DEF PendingSyncReply
      <4>2. q[Len(q)] \in PendingSyncReply
        BY <2>4
      <4>3. QED
        BY <4>1, <4>2
    <3>2. QED
      BY <2>5, <3>1
  <2>7. UNCHANGED <<result, handled>> \/ SendSyncReturns(p, q[Len(q)].didReceiveReply)
    BY <1>2, <2>1, <2>2, <2>3, FormWaitChecks
  <2>8. CASE UNCHANGED <<result, handled>>
    BY <2>8 DEF CallStep
  <2>9. CASE SendSyncReturns(p, ok)
    <3>1. ok => LET r == conn[Head(main[p].stack).c].pending IN r[Len(r)].didReceiveReply
      BY <2>2, <2>3, <2>6
    <3>2. QED
      BY <2>1, <2>9, <3>1, CallsReturn
  <2>10. QED
    BY <2>6, <2>7, <2>8, <2>9
<1>3. QED
  BY <1>1, <1>2

LEMMA CallsDispatch ==
    ASSUME Held, Tracked, NEW p \in Proc, DispatchNext(p) \/ RunFunction(p)
    PROVE  CallStep
<1>1. Typed /\ Bounded /\ main[p] \in ProcState /\ ProcFits(p, main[p])
  BY DEF Held, Typed
<1>2. CASE DispatchNext(p)
  <2>1. /\ result' = result /\ InLoop(main[p])
        /\ \/ handled' = handled
           \/ \E u, x : x = Head(Head(main[p].stack).todo) /\ IsEntered(u, main'[p], x.c, x.msg)
    BY <1>1, <1>2, FormDispatchNext
  <2>2. CASE handled' = handled
    BY <2>1, <2>2 DEF CallStep
  <2>3. ASSUME NEW u, NEW x, x = Head(Head(main[p].stack).todo), IsEntered(u, main'[p], x.c, x.msg)
        PROVE  CallStep
    <3>1. Item(main[p], x) /\ IsOurs(p, x)
      BY <1>1, <2>1, <2>3, NextIsItem DEF ProcFits
    <3>2. PICK c \in Endpoint, m \in Message : c = x.c /\ m = x.msg
      BY <3>1 DEF IsOurs, Received
    <3>3. Got(c, m)
      BY <3>1, <3>2 DEF Got, IsOurs
    <3>4. handled' = IF m.kind = "sync" THEN [handled EXCEPT ![Peer[c]][m.id] = @ + 1] ELSE handled
      BY <2>3, <3>2 DEF IsEntered
    <3>5. QED
      BY <1>1, <2>1, <3>3, <3>4, CallHandled
  <2>4. QED
    BY <2>1, <2>2, <2>3
<1>3. CASE RunFunction(p)
  <2>1. /\ result' = result
        /\ \E fn \in Function :
             \/ handled' = handled
             \/ /\ conn[fn.c].incoming # <<>>
                /\ \E u : IsEntered(u, main'[p], fn.c, Head(conn[fn.c].incoming))
    BY <1>1, <1>3, FormRunFunction
  <2>2. CASE handled' = handled
    BY <2>1, <2>2 DEF CallStep
  <2>3. ASSUME NEW fn \in Function, NEW u, conn[fn.c].incoming # <<>>,
               IsEntered(u, main'[p], fn.c, Head(conn[fn.c].incoming))
        PROVE  CallStep
    <3>1. PICK c \in Endpoint : c = fn.c
      BY DEF Function
    <3>2. conn[c].incoming \in Seq(Message)
      BY <1>1, TypedFacts
    <3>3. Head(conn[c].incoming) \in Elems(conn[c].incoming) /\ Head(conn[c].incoming) \in Message
      BY <2>3, <3>1, <3>2, ElemsTail
    <3>4. PICK m \in Message : m = Head(conn[c].incoming)
      BY <3>3
    <3>5. Got(c, m)
      BY <3>3, <3>4 DEF Got
    <3>6. handled' = IF m.kind = "sync" THEN [handled EXCEPT ![Peer[c]][m.id] = @ + 1] ELSE handled
      BY <2>3, <3>1, <3>4 DEF IsEntered
    <3>7. QED
      BY <1>1, <2>1, <3>5, <3>6, CallHandled
  <2>4. QED
    BY <2>1, <2>2, <2>3
<1>4. QED
  BY <1>2, <1>3

\* Every step is one of the calls', or leaves them alone.
LEMMA CallsNext == Held /\ Tracked /\ [Next]_vars => [Calls!Next]_(Calls!vars)
<1>1. SUFFICES ASSUME Held, Tracked, [Next]_vars  PROVE CallStep
  BY DEF CallStep, Calls!vars
<1>2. CASE UNCHANGED vars
  BY <1>2 DEF vars, CallStep
<1>3. ASSUME NEW p \in Proc, MainThread(p) \/ SendDelayedReply(p) \/ WaitTimesOut(p) \/ Crash(p)
      PROVE  CallStep
  <2>1. CASE Crash(p)
    <3>1. Ends(p, {})
      BY <2>1 DEF Crash
    <3>2. QED
      BY <1>1, <3>1, CallEnds
  <2>2. CASE WaitChecks(p) \/ WaitTimesOut(p)
    BY <1>1, <2>2, CallsWait
  <2>3. CASE DispatchNext(p) \/ RunFunction(p)
    BY <1>1, <2>3, CallsDispatch
  <2>4. CASE \/ \E keep \in BOOLEAN : HandlerReturns(p, keep)
             \/ SwapMessages(p) \/ PutBackMessages(p) \/ WaitDispatches(p) \/ WaitWakes(p)
             \/ SendDelayedReply(p)
    BY <2>4 DEF CallStep, HandlerReturns, SwapMessages, PutBackMessages, WaitDispatches, WaitWakes,
       SendDelayedReply
  <2>5. QED
    BY <1>3, <2>1, <2>2, <2>3, <2>4 DEF MainThread
<1>4. ASSUME NEW c \in Endpoint,
             ClientCalls(c) \/ WorkQueue(c) \/ SecondaryChecks(c) \/ SecondarySends(c) \/ SecondaryReturns(c)
      PROVE  CallStep
  <2>1. CASE SendSync(c) \/ SendSyncFails(c) \/ SecondarySends(c)
    BY <1>1, <2>1, CallsSendSync
  <2>2. CASE SecondaryReturns(c)
    BY <1>1, <2>2, CallsSecondaryReturns
  <2>3. CASE (\E flag \in SendFlags : SendAsync(c, flag)) \/ Invalidate(c) \/ SecondaryChecks(c)
    BY <2>3 DEF CallStep, SendAsync, Invalidate, SecondaryChecks
  <2>4. CASE WorkQueue(c)
    <3>1. HangUp(c) \/ ReadyRead(c) => UNCHANGED <<result, handled>>
      BY DEF HangUp, ReadyRead, DidClose
    <3>2. SendOutgoing(c) \/ WakeUpClient(c) \/ PostDidClose(c) \/ PlatformInvalidate(c)
            => UNCHANGED <<result, handled>>
      BY DEF SendOutgoing, WakeUpClient, PostDidClose, PlatformInvalidate
    <3>3. Receive(c) => UNCHANGED <<result, handled>>
      BY DEF Receive
    <3>4. QED
      BY <2>4, <3>1, <3>2, <3>3 DEF WorkQueue, CallStep
  <2>5. QED
    BY <1>4, <2>1, <2>2, <2>3, <2>4 DEF ClientCalls
<1>5. QED
  BY <1>1, <1>2, <1>3, <1>4 DEF Next, Rest

\* sendSyncMessage keeps the promise of SyncCall, with any nesting of calls
\* inside handlers, replies kept for later, timeouts, secondary threads, closes
\* and crashes: a handler is entered at most once and only for a call that was
\* made, a call succeeds only after its handler was entered, and a call that has
\* ended stays as it ended.
THEOREM SyncCallImplemented == Spec => ImplementsSyncCall
<1>1. Init => Calls!Init
  BY DEF Init, Calls!Init
<1>2. QED
  BY <1>1, CallsNext, HeldHolds, TrackedHolds, PTL DEF Spec, ImplementsSyncCall, Calls!Safety
-----------------------------------------------------------------------------
(* The fifth invariant: the run loop keeps the order of the messages.      *)

\* f[i] is the place in the run loop of p, now r, of the dispatchOneMessage for
\* message i of q, the incoming messages of c.  A marked message sent before it
\* and kept by p is dispatched by a dispatchMessages that comes first.
InTurnAt(c, q, r, f) ==
    /\ f \in [1..Len(q) -> 1..Len(r.runLoop)]
    /\ \A i, j \in 1..Len(q) : i < j => f[i] < f[j]
    /\ \A k \in 1..Len(r.runLoop) : r.runLoop[k] = OneOf(c) <=> \E i \in 1..Len(q) : f[i] = k
    /\ \A x : \A i \in 1..Len(q) : Kept(r, x) /\ x.c = c /\ x.msg.id < q[i].id =>
          \/ AboutToSwap(r.stack, c)
          \/ \E k \in 1..Len(r.runLoop) : k < f[i] /\ r.runLoop[k] = AllOf(c)
InTurn(c, q, r) == \E f : InTurnAt(c, q, r, f)

\* No message sent before an unmarked one whose handler runs is left.
NoEarlier(c, q, r) ==
    \A m : Handles(r.stack, c, m) /\ ~m.marked =>
        /\ \A x : Item(r, x) /\ x.c = c => ~(x.msg.id < m.id)
        /\ \A n \in ReqIds(q) : ~(n < m.id)

InOrder ==
    \A c \in Endpoint : /\ InTurn(c, conn[c].incoming, main[Owner[c]])
                        /\ NoEarlier(c, conn[c].incoming, main[Owner[c]])

LEMMA Functions == \A c, d : AllOf(c) # OneOf(d) /\ (OneOf(c) = OneOf(d) => c = d) /\ (AllOf(c) = AllOf(d) => c = d)
<1>1. \A c : AllOf(c).f = "dispatchMessages" /\ OneOf(c).f = "dispatchOneMessage" /\ AllOf(c).c = c /\ OneOf(c).c = c
  BY DEF AllOf, OneOf
<1>2. QED
  BY <1>1

\* Functions other than c's dispatchOneMessage are appended; what is newly kept
\* is later than q.
LEMMA TurnKept ==
    ASSUME NEW c, NEW q, NEW r \in ProcState, NEW t, InTurn(c, q, r),
           \/ t.runLoop = r.runLoop
           \/ \E fn \in Function : fn # OneOf(c) /\ t.runLoop = Append(r.runLoop, fn),
           \A x : Kept(t, x) /\ x.c = c =>
              \/ Kept(r, x) /\ (AboutToSwap(r.stack, c) => AboutToSwap(t.stack, c))
              \/ \A i \in 1..Len(q) : ~(x.msg.id < q[i].id)
    PROVE  InTurn(c, q, t)
<1>1. PICK f : InTurnAt(c, q, r, f)
  BY DEF InTurn
<1>2. r.runLoop \in Seq(Function) /\ Len(r.runLoop) \in Nat
  BY DEF ProcState
<1>3. PICK k \in Nat : /\ k = Len(r.runLoop)
                       /\ \/ Len(t.runLoop) = k
                          \/ Len(t.runLoop) = k + 1 /\ t.runLoop[k + 1] # OneOf(c)
                       /\ \A j \in 1..k : t.runLoop[j] = r.runLoop[j]
  <2>1. CASE t.runLoop = r.runLoop
    BY <1>2, <2>1
  <2>2. ASSUME NEW fn \in Function, fn # OneOf(c), t.runLoop = Append(r.runLoop, fn)
        PROVE  /\ Len(t.runLoop) = Len(r.runLoop) + 1 /\ t.runLoop[Len(r.runLoop) + 1] # OneOf(c)
               /\ \A j \in 1..Len(r.runLoop) : t.runLoop[j] = r.runLoop[j]
    BY <1>2, <2>2, AppendFacts
  <2>3. QED
    BY <1>2, <2>1, <2>2
<1>4. 1..k \subseteq 1..Len(t.runLoop) /\ \A j \in 1..Len(t.runLoop) : j \in 1..k \/ t.runLoop[j] # OneOf(c)
  BY <1>3
<1>5. /\ f \in [1..Len(q) -> 1..k] /\ \A i, j \in 1..Len(q) : i < j => f[i] < f[j]
      /\ \A j \in 1..k : r.runLoop[j] = OneOf(c) <=> \E i \in 1..Len(q) : f[i] = j
  BY <1>1, <1>3 DEF InTurnAt
<1>6. f \in [1..Len(q) -> 1..Len(t.runLoop)]
  BY <1>4, <1>5
<1>7. \A j \in 1..Len(t.runLoop) : t.runLoop[j] = OneOf(c) <=> \E i \in 1..Len(q) : f[i] = j
  <2>1. ASSUME NEW j \in 1..Len(t.runLoop), j \in 1..k
        PROVE  t.runLoop[j] = OneOf(c) <=> \E i \in 1..Len(q) : f[i] = j
    BY <1>3, <1>5, <2>1
  <2>2. ASSUME NEW j \in 1..Len(t.runLoop), j \notin 1..k
        PROVE  t.runLoop[j] # OneOf(c) /\ ~\E i \in 1..Len(q) : f[i] = j
    BY <1>4, <1>5, <2>2
  <2>3. QED
    BY <2>1, <2>2
<1>8. ASSUME NEW x, NEW i \in 1..Len(q), Kept(t, x), x.c = c, x.msg.id < q[i].id
      PROVE  \/ AboutToSwap(t.stack, c)
             \/ \E j \in 1..Len(t.runLoop) : j < f[i] /\ t.runLoop[j] = AllOf(c)
  <2>1. Kept(r, x) /\ (AboutToSwap(r.stack, c) => AboutToSwap(t.stack, c))
    BY <1>8
  <2>2. \/ AboutToSwap(r.stack, c)
        \/ \E j \in 1..k : j < f[i] /\ r.runLoop[j] = AllOf(c)
    BY <1>1, <1>3, <1>8, <2>1 DEF InTurnAt
  <2>3. QED
    BY <1>3, <1>4, <2>1, <2>2
<1>9. InTurnAt(c, q, t, f)
  BY <1>5, <1>6, <1>7, <1>8 DEF InTurnAt
<1>10. QED
  BY <1>9 DEF InTurn

\* enqueueIncomingMessage.
LEMMA TurnEnqueue ==
    ASSUME NEW c \in Endpoint, NEW q \in Seq(Message), NEW m \in Message, NEW r \in ProcState, NEW t,
           InTurn(c, q, r), Served(r), t.runLoop = Append(r.runLoop, OneOf(c)),
           t.stack = r.stack, t.messages = r.messages
    PROVE  InTurn(c, Append(q, m), t)
<1>1. PICK f : InTurnAt(c, q, r, f)
  BY DEF InTurn
<1>2. PICK u : u = Append(q, m)
  OBVIOUS
<1>3. /\ Len(q) \in Nat /\ Len(u) = Len(q) + 1 /\ \A i \in 1..Len(q) : u[i] = q[i]
  BY <1>2, AppendFacts
<1>4. r.runLoop \in Seq(Function) /\ OneOf(c) \in Function
  BY DEF ProcState, OneOf, Function
<1>5. PICK k \in Nat : /\ k = Len(r.runLoop) /\ Len(t.runLoop) = k + 1 /\ t.runLoop[k + 1] = OneOf(c)
                       /\ \A j \in 1..k : t.runLoop[j] = r.runLoop[j]
  <2>1. PICK w \in Seq(Function), fn \in Function : w = r.runLoop /\ fn = OneOf(c)
    BY <1>4
  <2>2. /\ Len(w) \in Nat /\ Len(Append(w, fn)) = Len(w) + 1 /\ Append(w, fn)[Len(w) + 1] = fn
        /\ \A j \in 1..Len(w) : Append(w, fn)[j] = w[j]
    BY AppendFacts
  <2>3. QED
    BY <2>1, <2>2
<1>6. /\ f \in [1..Len(q) -> 1..k] /\ \A i, j \in 1..Len(q) : i < j => f[i] < f[j]
      /\ \A j \in 1..k : r.runLoop[j] = OneOf(c) <=> \E i \in 1..Len(q) : f[i] = j
  BY <1>1, <1>5 DEF InTurnAt
<1>7. PICK g : g = [i \in 1..Len(u) |-> IF i \in 1..Len(q) THEN f[i] ELSE k + 1]
  OBVIOUS
<1>8. /\ \A i \in 1..Len(q) : g[i] = f[i] /\ f[i] \in 1..k /\ i \in 1..Len(u)
      /\ g[Len(u)] = k + 1 /\ Len(u) \in 1..Len(u)
      /\ \A i \in 1..Len(u) : i \in 1..Len(q) \/ i = Len(u)
  <2>1. /\ \A i \in 1..Len(q) : i \in 1..Len(u) /\ i # Len(u)
        /\ Len(u) \in 1..Len(u) /\ Len(u) \notin 1..Len(q)
        /\ \A i \in 1..Len(u) : i \in 1..Len(q) \/ i = Len(u)
    BY <1>3
  <2>2. \A i \in 1..Len(q) : f[i] \in 1..k
    BY <1>6
  <2>3. QED
    BY <1>7, <2>1, <2>2
<1>9. g \in [1..Len(u) -> 1..Len(t.runLoop)]
  <2>1. \A i \in 1..Len(u) : g[i] \in 1..Len(t.runLoop)
    BY <1>5, <1>8
  <2>2. QED
    BY <1>7, <2>1
<1>10. \A i, j \in 1..Len(u) : i < j => g[i] < g[j]
  BY <1>3, <1>6, <1>8
<1>11. \A j \in 1..Len(t.runLoop) : t.runLoop[j] = OneOf(c) <=> \E i \in 1..Len(u) : g[i] = j
  <2>1. \A j \in 1..Len(t.runLoop) : j \in 1..k \/ j = k + 1
    BY <1>5
  <2>2. ASSUME NEW j \in 1..k  PROVE t.runLoop[j] = OneOf(c) <=> \E i \in 1..Len(u) : g[i] = j
    <3>1. j # k + 1
      BY <2>2
    <3>2. t.runLoop[j] = OneOf(c) <=> \E i \in 1..Len(q) : f[i] = j
      BY <1>5, <1>6
    <3>3. QED
      BY <1>8, <3>1, <3>2
  <2>3. QED
    BY <1>5, <1>8, <2>1, <2>2
<1>12. ASSUME NEW x, NEW i \in 1..Len(u), Kept(t, x), x.c = c, x.msg.id < u[i].id
       PROVE  \/ AboutToSwap(t.stack, c)
              \/ \E j \in 1..Len(t.runLoop) : j < g[i] /\ t.runLoop[j] = AllOf(c)
  <2>1. Kept(r, x)
    BY <1>12 DEF Kept
  <2>2. CASE i \in 1..Len(q)
    <3>1. \/ AboutToSwap(r.stack, c)
          \/ \E j \in 1..k : j < f[i] /\ r.runLoop[j] = AllOf(c)
      BY <1>1, <1>3, <1>5, <1>12, <2>1, <2>2 DEF InTurnAt
    <3>2. QED
      BY <1>5, <1>8, <2>2, <3>1
  <2>3. CASE i = Len(u)
    <3>1. Runs(r.runLoop, c) \/ AboutToSwap(r.stack, c)
      BY <1>12, <2>1 DEF Served
    <3>2. CASE Runs(r.runLoop, c)
      <4>1. PICK j \in 1..k : r.runLoop[j] = AllOf(c)
        BY <1>5, <3>2 DEF Runs, Elems
      <4>2. j \in 1..Len(t.runLoop) /\ j < k + 1 /\ t.runLoop[j] = AllOf(c)
        BY <1>5, <4>1
      <4>3. QED
        BY <1>8, <2>3, <4>2
    <3>3. QED
      BY <3>1, <3>2
  <2>4. QED
    BY <1>8, <2>2, <2>3
<1>13. InTurnAt(c, u, t, g)
  BY <1>9, <1>10, <1>11, <1>12 DEF InTurnAt
<1>14. QED
  BY <1>2, <1>13 DEF InTurn

\* The run loop takes a function that is not c's dispatchOneMessage.
LEMMA TurnRun ==
    ASSUME NEW c \in Endpoint, NEW q, NEW r \in ProcState, NEW t, InTurn(c, q, r), r.stack = <<>>,
           r.runLoop # <<>>, t.runLoop = Tail(r.runLoop), Head(r.runLoop) # OneOf(c),
           \A x : Kept(t, x) => Kept(r, x), Head(r.runLoop) = AllOf(c) => AboutToSwap(t.stack, c)
    PROVE  InTurn(c, q, t)
<1>1. PICK f : InTurnAt(c, q, r, f)
  BY DEF InTurn
<1>2. r.runLoop \in Seq(Function)
  BY DEF ProcState
<1>3. PICK k \in Nat : /\ k = Len(r.runLoop) /\ k >= 1 /\ Len(t.runLoop) = k - 1 /\ Head(r.runLoop) = r.runLoop[1]
                       /\ \A j \in 1..k - 1 : t.runLoop[j] = r.runLoop[j + 1]
  BY <1>2, PopFacts
<1>4. /\ f \in [1..Len(q) -> 1..k] /\ \A i, j \in 1..Len(q) : i < j => f[i] < f[j]
      /\ \A j \in 1..k : r.runLoop[j] = OneOf(c) <=> \E i \in 1..Len(q) : f[i] = j
  BY <1>1, <1>3 DEF InTurnAt
<1>5. \A i \in 1..Len(q) : f[i] \in 1..k /\ f[i] # 1
  BY <1>3, <1>4
<1>6. PICK g : g = [i \in 1..Len(q) |-> f[i] - 1]
  OBVIOUS
<1>7. \A i \in 1..Len(q) : g[i] = f[i] - 1 /\ g[i] \in 1..k - 1
  BY <1>3, <1>5, <1>6
<1>8. g \in [1..Len(q) -> 1..Len(t.runLoop)]
  BY <1>3, <1>6, <1>7
<1>9. \A i, j \in 1..Len(q) : i < j => g[i] < g[j]
  BY <1>4, <1>5, <1>7
<1>10. \A j \in 1..Len(t.runLoop) : t.runLoop[j] = OneOf(c) <=> \E i \in 1..Len(q) : g[i] = j
  <2>1. ASSUME NEW j \in 1..k - 1  PROVE t.runLoop[j] = OneOf(c) <=> \E i \in 1..Len(q) : g[i] = j
    <3>1. j + 1 \in 1..k /\ t.runLoop[j] = r.runLoop[j + 1]
      BY <1>3
    <3>2. t.runLoop[j] = OneOf(c) <=> \E i \in 1..Len(q) : f[i] = j + 1
      BY <1>4, <3>1
    <3>3. \A i \in 1..Len(q) : f[i] = j + 1 <=> g[i] = j
      BY <1>5, <1>7
    <3>4. QED
      BY <3>2, <3>3
  <2>2. QED
    BY <1>3, <2>1
<1>11. ASSUME NEW x, NEW i \in 1..Len(q), Kept(t, x), x.c = c, x.msg.id < q[i].id
       PROVE  \/ AboutToSwap(t.stack, c)
              \/ \E j \in 1..Len(t.runLoop) : j < g[i] /\ t.runLoop[j] = AllOf(c)
  <2>1. Kept(r, x) /\ ~AboutToSwap(r.stack, c)
    BY <1>11, OnEmpty
  <2>2. PICK j \in 1..k : j < f[i] /\ r.runLoop[j] = AllOf(c)
    BY <1>1, <1>3, <1>11, <2>1 DEF InTurnAt
  <2>3. CASE j = 1
    BY <1>3, <2>2, <2>3
  <2>4. CASE j # 1
    <3>1. j - 1 \in 1..k - 1 /\ (j - 1) + 1 = j /\ j - 1 < f[i] - 1
      BY <1>5, <2>2, <2>4
    <3>2. t.runLoop[j - 1] = AllOf(c) /\ j - 1 < g[i] /\ j - 1 \in 1..Len(t.runLoop)
      BY <1>3, <1>7, <2>2, <3>1
    <3>3. QED
      BY <3>2
  <2>5. QED
    BY <2>3, <2>4
<1>12. InTurnAt(c, q, t, g)
  BY <1>8, <1>9, <1>10, <1>11 DEF InTurnAt
<1>13. QED
  BY <1>12 DEF InTurn

\* ... or one that is: nothing kept is earlier than the message it takes.
LEMMA TurnTake ==
    ASSUME NEW c \in Endpoint, NEW q \in Seq(Message), q # <<>>, NEW r \in ProcState, NEW t, InTurn(c, q, r),
           r.stack = <<>>, r.runLoop # <<>>, t.runLoop = Tail(r.runLoop), Head(r.runLoop) = OneOf(c),
           \A x : Kept(t, x) => Kept(r, x)
    PROVE  /\ InTurn(c, Tail(q), t)
           /\ \A x : Kept(r, x) /\ x.c = c => ~(x.msg.id < Head(q).id)
<1>1. PICK f : InTurnAt(c, q, r, f)
  BY DEF InTurn
<1>2. r.runLoop \in Seq(Function)
  BY DEF ProcState
<1>3. PICK k \in Nat : /\ k = Len(r.runLoop) /\ k >= 1 /\ Len(t.runLoop) = k - 1 /\ Head(r.runLoop) = r.runLoop[1]
                       /\ \A j \in 1..k - 1 : t.runLoop[j] = r.runLoop[j + 1]
  BY <1>2, PopFacts
<1>4. PICK n \in Nat, u \in Seq(Message) :
        /\ n = Len(q) /\ u = Tail(q) /\ n >= 1 /\ Len(u) = n - 1 /\ Head(q) = q[1]
        /\ \A i \in 1..n - 1 : u[i] = q[i + 1]
  <2>1. Tail(q) \in Seq(Message)
    BY ReqIdsTail
  <2>2. /\ Len(q) \in Nat /\ Len(q) >= 1 /\ Len(Tail(q)) = Len(q) - 1 /\ Head(q) = q[1]
        /\ \A i \in 1..Len(q) - 1 : Tail(q)[i] = q[i + 1]
    BY PopFacts
  <2>3. QED
    BY <2>1, <2>2
<1>5. /\ f \in [1..n -> 1..k] /\ \A i, j \in 1..n : i < j => f[i] < f[j]
      /\ \A j \in 1..k : r.runLoop[j] = OneOf(c) <=> \E i \in 1..n : f[i] = j
  BY <1>1, <1>3, <1>4 DEF InTurnAt
<1>6. \A i \in 1..n : f[i] \in 1..k
  BY <1>5
<1>7. f[1] = 1 /\ \A i \in 1..n : i # 1 => f[i] # 1
  <2>1. 1 \in 1..k /\ r.runLoop[1] = OneOf(c) /\ 1 \in 1..n
    BY <1>3, <1>4
  <2>2. PICK i \in 1..n : f[i] = 1
    BY <1>5, <2>1
  <2>3. i = 1
    <3>1. CASE 1 < i
      BY <1>5, <1>6, <2>1, <2>2, <3>1
    <3>2. QED
      BY <3>1
  <2>4. QED
    BY <1>5, <1>6, <2>1, <2>2, <2>3
<1>8. PICK g : g = [i \in 1..Len(u) |-> f[i + 1] - 1]
  OBVIOUS
<1>9. \A i \in 1..Len(u) : i + 1 \in 1..n /\ g[i] = f[i + 1] - 1 /\ g[i] \in 1..k - 1 /\ f[i + 1] \in 1..k
  <2>1. \A i \in 1..Len(u) : i + 1 \in 1..n /\ i + 1 # 1
    BY <1>4
  <2>2. QED
    BY <1>6, <1>7, <1>8, <2>1
<1>10. g \in [1..Len(u) -> 1..Len(t.runLoop)]
  BY <1>3, <1>8, <1>9
<1>11. \A i, j \in 1..Len(u) : i < j => g[i] < g[j]
  <2>1. ASSUME NEW i \in 1..Len(u), NEW j \in 1..Len(u), i < j  PROVE g[i] < g[j]
    <3>1. i + 1 < j + 1 /\ i + 1 \in 1..n /\ j + 1 \in 1..n
      BY <1>9, <2>1
    <3>2. f[i + 1] < f[j + 1]
      BY <1>5, <3>1
    <3>3. QED
      BY <1>9, <3>2
  <2>2. QED
    BY <2>1
<1>12. \A j \in 1..Len(t.runLoop) : t.runLoop[j] = OneOf(c) <=> \E i \in 1..Len(u) : g[i] = j
  <2>1. ASSUME NEW j \in 1..k - 1  PROVE t.runLoop[j] = OneOf(c) <=> \E i \in 1..Len(u) : g[i] = j
    <3>1. j + 1 \in 1..k /\ t.runLoop[j] = r.runLoop[j + 1] /\ j + 1 # 1
      BY <1>3
    <3>2. t.runLoop[j] = OneOf(c) <=> \E i \in 1..n : f[i] = j + 1
      BY <1>5, <3>1
    <3>3. ASSUME NEW i \in 1..n, f[i] = j + 1  PROVE \E l \in 1..Len(u) : g[l] = j
      <4>1. i # 1
        BY <1>7, <3>1, <3>3
      <4>2. i - 1 \in 1..Len(u) /\ (i - 1) + 1 = i
        BY <1>4, <4>1
      <4>3. g[i - 1] = j
        BY <1>9, <3>3, <4>2
      <4>4. QED
        BY <4>2, <4>3
    <3>4. \A i \in 1..Len(u) : g[i] = j => f[i + 1] = j + 1 /\ i + 1 \in 1..n
      BY <1>9
    <3>5. QED
      BY <3>2, <3>3, <3>4
  <2>2. QED
    BY <1>3, <2>1
<1>13. \A c2 : ~AboutToSwap(r.stack, c2)
  BY OnEmpty
<1>14. ASSUME NEW x, NEW i \in 1..Len(u), Kept(t, x), x.c = c, x.msg.id < u[i].id
       PROVE  \E j \in 1..Len(t.runLoop) : j < g[i] /\ t.runLoop[j] = AllOf(c)
  <2>1. Kept(r, x) /\ i + 1 \in 1..n /\ u[i] = q[i + 1]
    BY <1>4, <1>9, <1>14
  <2>2. PICK j \in 1..k : j < f[i + 1] /\ r.runLoop[j] = AllOf(c)
    BY <1>1, <1>3, <1>4, <1>13, <1>14, <2>1 DEF InTurnAt
  <2>3. j # 1
    BY <1>3, <2>2, Functions
  <2>4. j - 1 \in 1..k - 1 /\ (j - 1) + 1 = j /\ j - 1 < f[i + 1] - 1
    BY <1>9, <2>2, <2>3
  <2>5. t.runLoop[j - 1] = AllOf(c) /\ j - 1 < g[i] /\ j - 1 \in 1..Len(t.runLoop)
    BY <1>3, <1>9, <2>2, <2>4
  <2>6. QED
    BY <2>5
<1>15. InTurnAt(c, u, t, g)
  BY <1>10, <1>11, <1>12, <1>14 DEF InTurnAt
<1>16. ASSUME NEW x, Kept(r, x), x.c = c  PROVE ~(x.msg.id < Head(q).id)
  <2>1. SUFFICES ASSUME x.msg.id < q[1].id  PROVE FALSE
    BY <1>4
  <2>2. 1 \in 1..Len(q)
    BY <1>4
  <2>3. PICK j \in 1..Len(r.runLoop) : j < f[1]
    BY <1>1, <1>13, <1>16, <2>1, <2>2 DEF InTurnAt
  <2>4. QED
    BY <1>7, <2>3
<1>17. QED
  BY <1>4, <1>15, <1>16 DEF InTurn

LEMMA InOrderStep ==
    ASSUME InOrder, NEW p \in Proc, OnlyProc(p),
           \A d \in Endpoint : Owner[d] # p => conn'[d].incoming = conn[d].incoming,
           \A d \in Endpoint : Owner[d] = p =>
              InTurn(d, conn'[d].incoming, main'[p]) /\ NoEarlier(d, conn'[d].incoming, main'[p])
    PROVE  InOrder'
<1>1. ASSUME NEW d \in Endpoint
      PROVE  /\ InTurn(d, conn'[d].incoming, main'[Owner[d]])
             /\ NoEarlier(d, conn'[d].incoming, main'[Owner[d]])
  <2>1. CASE Owner[d] = p
    BY <2>1
  <2>2. CASE Owner[d] # p
    <3>1. main'[Owner[d]] = main[Owner[d]] /\ conn'[d].incoming = conn[d].incoming
      BY <1>1, <2>2, Ends2 DEF OnlyProc
    <3>2. InTurn(d, conn[d].incoming, main[Owner[d]]) /\ NoEarlier(d, conn[d].incoming, main[Owner[d]])
      BY <1>1 DEF InOrder
    <3>3. QED
      BY <3>1, <3>2
  <2>3. QED
    BY <2>1, <2>2
<1>2. QED
  BY <1>1 DEF InOrder

\* No message appears in a process, and no handler but those of marked messages.
Calm(r, t) ==
    /\ Rearranged(r, t) /\ t.runLoop = r.runLoop
    /\ \A d, m : Handles(t.stack, d, m) => Handles(r.stack, d, m) \/ m.marked

LEMMA InOrderCalm ==
    ASSUME Held, InOrder, NEW p \in Proc, OnlyProc(p), Calm(main[p], main'[p]),
           \A d \in Endpoint : conn'[d].incoming = conn[d].incoming
    PROVE  InOrder'
<1>1. PICK r \in ProcState : r = main[p]
  BY DEF Held, Typed
<1>a. PICK t : t = main'[p]
  OBVIOUS
<1>2. Calm(r, t)
  BY <1>1, <1>a
<1>3. ASSUME NEW d \in Endpoint, Owner[d] = p
      PROVE  InTurn(d, conn'[d].incoming, main'[p]) /\ NoEarlier(d, conn'[d].incoming, main'[p])
  <2>1. PICK q : q = conn[d].incoming /\ q = conn'[d].incoming
    BY <1>3
  <2>2. InTurn(d, q, r) /\ NoEarlier(d, q, r)
    BY <1>1, <1>3, <2>1 DEF InOrder
  <2>3. InTurn(d, q, t)
    <3>1. t.runLoop = r.runLoop
      BY <1>2 DEF Calm
    <3>2. \A x : Kept(t, x) /\ x.c = d => Kept(r, x) /\ (AboutToSwap(r.stack, d) => AboutToSwap(t.stack, d))
      BY <1>2 DEF Calm, Rearranged
    <3>3. QED
      BY <2>2, <3>1, <3>2, TurnKept
  <2>4. NoEarlier(d, q, t)
    BY <1>2, <2>2 DEF NoEarlier, Calm, Rearranged
  <2>5. QED
    BY <1>a, <2>1, <2>3, <2>4
<1>4. QED
  BY <1>3, InOrderStep

LEMMA CalmPassive ==
    ASSUME NEW r, NEW t, Rearranged(r, t), Passive(r, t), t.runLoop = r.runLoop
    PROVE  Calm(r, t)
  BY DEF Calm, Passive

LEMMA CalmStill ==
    ASSUME NEW r, NEW t, IsStill(r, t)
    PROVE  Calm(r, t)
<1>1. Rearranged(r, t) /\ t.runLoop = r.runLoop /\ t.stack = r.stack
  BY MoveStill DEF IsStill, SameLoop
<1>2. QED
  BY <1>1 DEF Calm

\* Steps of one connection that leave its incoming messages where they are.
LEMMA InOrderOne ==
    ASSUME Held, InOrder, NEW c \in Endpoint, NEW p \in Proc, OnlyConn(c), OnlyProc(p),
           conn'[c].incoming = conn[c].incoming, Calm(main[p], main'[p])
    PROVE  InOrder'
<1>1. \A d \in Endpoint : conn'[d].incoming = conn[d].incoming
  BY DEF OnlyConn
<1>2. QED
  BY <1>1, InOrderCalm

LEMMA InOrderConn ==
    ASSUME InOrder, main' = main, NEW c \in Endpoint, OnlyConn(c), conn'[c].incoming = conn[c].incoming
    PROVE  InOrder'
<1>1. \A d \in Endpoint : conn'[d].incoming = conn[d].incoming
  BY DEF OnlyConn
<1>2. QED
  BY <1>1 DEF InOrder

LEMMA InOrderMain ==
    ASSUME Held, InOrder, NEW p \in Proc, OnlyProc(p), conn' = conn, Calm(main[p], main'[p])
    PROVE  InOrder'
  BY InOrderCalm

LEMMA InOrderSwapMessages ==
    ASSUME Held, InOrder, NEW p \in Proc, SwapMessages(p)
    PROVE  InOrder'
<1>1. Typed /\ Bounded
  BY DEF Held
<1>2. /\ Typed' /\ OnlyProc(p) /\ UNCHANGED <<conn, wire, result, handled>>
      /\ IsSwap(main[p], main'[p])
  BY <1>1, FormSwapMessages
<1>3. main[p] \in ProcState /\ main'[p] \in ProcState /\ StackFits(p, main[p].stack)
  BY <1>2, HeldFacts
<1>4. Rearranged(main[p], main'[p]) /\ main'[p].runLoop = main[p].runLoop
  BY <1>2, <1>3, MoveSwap DEF IsSwap, SameLoop
<1>5. Passive(main[p], main'[p])
  BY <1>2, <1>3, <1>4, PassiveSwap
<1>6. QED
  BY <1>2, <1>4, <1>5, CalmPassive, InOrderMain

LEMMA InOrderPutBackMessages ==
    ASSUME Held, InOrder, NEW p \in Proc, PutBackMessages(p)
    PROVE  InOrder'
<1>1. Typed /\ Bounded
  BY DEF Held
<1>2. /\ Typed' /\ OnlyProc(p) /\ UNCHANGED <<conn, wire, result, handled>>
      /\ IsPutBack(main[p], main'[p])
  BY <1>1, FormPutBackMessages
<1>3. main[p] \in ProcState /\ main'[p] \in ProcState /\ StackFits(p, main[p].stack)
  BY <1>2, HeldFacts
<1>4. Rearranged(main[p], main'[p]) /\ main'[p].runLoop = main[p].runLoop
  BY <1>2, <1>3, MovePutBack DEF IsPutBack, SameLoop
<1>5. Passive(main[p], main'[p])
  BY <1>2, <1>3, <1>4, PassivePutBack
<1>6. QED
  BY <1>2, <1>4, <1>5, CalmPassive, InOrderMain

LEMMA InOrderWaitDispatches ==
    ASSUME Held, InOrder, NEW p \in Proc, WaitDispatches(p)
    PROVE  InOrder'
<1>1. Typed /\ Bounded
  BY DEF Held
<1>2. /\ Typed' /\ OnlyProc(p) /\ UNCHANGED <<conn, wire, result, handled>>
      /\ IsWaitDispatch(main[p], main'[p])
  BY <1>1, FormWaitDispatches
<1>3. main[p] \in ProcState /\ main'[p] \in ProcState /\ StackFits(p, main[p].stack)
  BY <1>2, HeldFacts
<1>4. Rearranged(main[p], main'[p]) /\ main'[p].runLoop = main[p].runLoop
  BY <1>2, <1>3, MoveWaitDispatch DEF IsWaitDispatch, SameLoop
<1>5. Passive(main[p], main'[p])
  BY <1>2, <1>3, <1>4, PassiveWaitDispatch
<1>6. QED
  BY <1>2, <1>4, <1>5, CalmPassive, InOrderMain

LEMMA InOrderTurn ==
    ASSUME Held, InOrder, NEW p \in Proc, NEW x, Typed', OnlyProc(p), conn' = conn,
           IsTurn(main[p], main'[p], x)
    PROVE  InOrder'
<1>3. main[p] \in ProcState /\ main'[p] \in ProcState /\ StackFits(p, main[p].stack)
  BY HeldFacts
<1>4. Rearranged(main[p], main'[p]) /\ main'[p].runLoop = main[p].runLoop
  <2>1. main'[p].runLoop = main[p].runLoop
    BY DEF IsTurn, SameLoop
  <2>2. Rearranged(main[p], main'[p])
    BY <1>3, MoveTurn
  <2>3. QED
    BY <2>1, <2>2
<1>5. Passive(main[p], main'[p])
  BY <1>3, <1>4, PassiveTurn
<1>6. QED
  BY <1>4, <1>5, CalmPassive, InOrderMain

\* Steps of a connection that its process does not notice.
LEMMA InOrderQuiet ==
    ASSUME Held, InOrder, NEW c \in Endpoint,
           \/ \E flag \in SendFlags : SendAsync(c, flag)
           \/ SendSyncFails(c) /\ c \notin ExitOnFailure
           \/ Invalidate(c) \/ PlatformInvalidate(c) \/ (ReadyRead(c) /\ conn[c].connected)
           \/ SendOutgoing(c) \/ SecondaryChecks(c) \/ SecondarySends(c)
    PROVE  InOrder'
<1>1. Typed /\ Bounded
  BY DEF Held
<1>2. ASSUME NEW flag \in SendFlags, SendAsync(c, flag)  PROVE InOrder'
  <2>1. main' = main /\ OnlyConn(c) /\ \E m : IsSent(c, m)
    BY <1>1, <1>2, FormSendAsync
  <2>2. QED
    BY <2>1, InOrderConn DEF IsSent
<1>3. CASE SendSyncFails(c) /\ c \notin ExitOnFailure
  <2>1. main' = main /\ OnlyConn(c) /\ conn'[c].incoming = conn[c].incoming
    BY <1>1, <1>3, FormSendSyncFails
  <2>2. QED
    BY <2>1, InOrderConn
<1>4. CASE Invalidate(c)
  <2>1. main' = main /\ OnlyConn(c) /\ SameQueues(conn[c], conn'[c])
    BY <1>1, <1>4, FormInvalidate
  <2>2. QED
    BY <2>1, InOrderConn DEF SameQueues
<1>5. CASE PlatformInvalidate(c) \/ (ReadyRead(c) /\ conn[c].connected)
  <2>1. main' = main /\ OnlyConn(c) /\ SameQueues(conn[c], conn'[c])
    BY <1>1, <1>5, FormTasks
  <2>2. QED
    BY <2>1, InOrderConn DEF SameQueues
<1>6. CASE SendOutgoing(c)
  <2>1. main' = main /\ OnlyConn(c) /\ conn'[c].incoming = conn[c].incoming
    BY <1>1, <1>6, FormSendOutgoing
  <2>2. QED
    BY <2>1, InOrderConn
<1>7. CASE SecondaryChecks(c)
  <2>1. main' = main /\ OnlyConn(c) /\ conn'[c].incoming = conn[c].incoming
    BY <1>1, <1>7, FormSecondaryChecks
  <2>2. QED
    BY <2>1, InOrderConn
<1>8. CASE SecondarySends(c)
  <2>1. main' = main /\ OnlyConn(c) /\ conn'[c].incoming = conn[c].incoming
    BY <1>1, <1>8, FormSecondarySends
  <2>2. QED
    BY <2>1, InOrderConn
<1>9. QED
  BY <1>2, <1>3, <1>4, <1>5, <1>6, <1>7, <1>8

LEMMA InOrderSecondaryReturns ==
    ASSUME Held, InOrder, NEW c \in Endpoint, SecondaryReturns(c)
    PROVE  InOrder'
<1>1. Typed /\ Bounded
  BY DEF Held
<1>2. conn[c].secondary.at = "waiting" /\ conn[c].secondary.id \in Number
  BY DEF SecondaryReturns, Held, ConnFits, WaitingFits
<1>3. OnlyConn(c) /\ main' = main /\ conn'[c].incoming = conn[c].incoming
  BY <1>1, <1>2, FormSecondaryReturns
<1>4. QED
  BY <1>3, InOrderConn

LEMMA InOrderWakeUpClient ==
    ASSUME Held, InOrder, NEW c \in Endpoint, WakeUpClient(c)
    PROVE  InOrder'
<1>1. Typed /\ Bounded
  BY DEF Held
<1>2. PICK p \in Proc : p = Owner[c]
  BY Ends2
<1>3. OnlyConn(c) /\ OnlyProc(p) /\ SameQueues(conn[c], conn'[c]) /\ IsStill(main[p], main'[p])
  BY <1>1, <1>2, FormWakeUpClient
<1>4. conn'[c].incoming = conn[c].incoming
  BY <1>3 DEF SameQueues
<1>5. QED
  BY <1>3, <1>4, CalmStill, InOrderOne

LEMMA InOrderDidClose ==
    ASSUME Held, InOrder, NEW c \in Endpoint, HangUp(c) \/ (ReadyRead(c) /\ ~conn[c].connected)
    PROVE  InOrder'
<1>1. Typed /\ Bounded
  BY DEF Held
<1>2. PICK p \in Proc : p = Owner[c]
  BY Ends2
<1>3. PICK done \in SUBSET {"readyRead"} :
        /\ DidClose(c, done) /\ conn[c].wq = "idle"
        /\ \/ conn[c].connected /\ done = {}
           \/ "readyRead" \in conn[c].tasks /\ done = {"readyRead"} /\ ~conn[c].connected
  BY DEF HangUp, ReadyRead
<1>4. /\ OnlyConn(c) /\ OnlyProc(p) /\ conn'[c].incoming = conn[c].incoming
      /\ IsStill(main[p], main'[p])
  BY <1>1, <1>2, <1>3, FormDidClose
<1>5. QED
  BY <1>4, CalmStill, InOrderOne

LEMMA InOrderSendDelayedReply ==
    ASSUME Held, InOrder, NEW p \in Proc, SendDelayedReply(p)
    PROVE  InOrder'
<1>1. Typed /\ Bounded
  BY DEF Held
<1>2. /\ OnlyProc(p) /\ IsStill(main[p], main'[p])
      /\ \E c \in Endpoint, n \in Number : IsReplied(c, n)
  BY <1>1, FormSendDelayedReply
<1>3. PICK c \in Endpoint, n \in Number : IsReplied(c, n)
  BY <1>2
<1>4. OnlyConn(c) /\ conn'[c].incoming = conn[c].incoming
  BY <1>3 DEF IsReplied
<1>5. QED
  BY <1>2, <1>4, CalmStill, InOrderOne

LEMMA InOrderSendSync ==
    ASSUME Held, InOrder, NEW c \in Endpoint, SendSync(c)
    PROVE  InOrder'
<1>1. Typed /\ Bounded
  BY DEF Held
<1>2. PICK p \in Proc : p = Owner[c]
  BY Ends2
<1>3. /\ Typed' /\ OnlyConn(c) /\ OnlyProc(p) /\ \E m : IsSent(c, m)
      /\ \E fr \in Frame : fr.f = "sendSync" /\ fr.c = c /\ IsCall(main[p], main'[p], fr)
  BY <1>1, <1>2, FormSendSync
<1>4. conn'[c].incoming = conn[c].incoming
  BY <1>3 DEF IsSent
<1>5. PICK fr \in Frame : fr.f = "sendSync" /\ fr.c = c /\ IsCall(main[p], main'[p], fr)
  BY <1>3
<1>6. main[p] \in ProcState /\ main'[p] \in ProcState /\ StackFits(p, main[p].stack)
  BY <1>3, HeldFacts
<1>7. Settled(main[p].stack)
  BY <1>2, ClientSettled DEF SendSync
<1>8. FrameFits(p, fr)
  BY <1>2, <1>5 DEF FrameFits
<1>9. Rearranged(main[p], main'[p])
  BY <1>5, <1>6, <1>7, <1>8, MoveCall
<1>10. Passive(main[p], main'[p]) /\ main'[p].runLoop = main[p].runLoop
  BY <1>5, <1>6, <1>9, PassiveCall DEF IsCall, SameLoop
<1>11. QED
  BY <1>3, <1>4, <1>9, <1>10, CalmPassive, InOrderOne

\* The innermost frame, not dispatchMessages, returns.
LEMMA InOrderReturn ==
    ASSUME Held, InOrder, NEW p \in Proc, Typed', OnlyProc(p), IsReturn(main[p], main'[p]),
           \A d \in Endpoint : conn'[d].incoming = conn[d].incoming
    PROVE  InOrder'
<1>1. main[p] \in ProcState /\ main'[p] \in ProcState /\ StackFits(p, main[p].stack)
  BY HeldFacts
<1>2. Rearranged(main[p], main'[p]) /\ main'[p].runLoop = main[p].runLoop
  BY <1>1, MoveReturn DEF IsReturn, SameLoop
<1>3. Passive(main[p], main'[p])
  BY <1>1, <1>2, PassiveReturn
<1>4. QED
  BY <1>2, <1>3, CalmPassive, InOrderCalm

LEMMA InOrderHandlerReturns ==
    ASSUME Held, InOrder, NEW p \in Proc, NEW keep \in BOOLEAN, HandlerReturns(p, keep)
    PROVE  InOrder'
<1>1. Typed /\ Bounded
  BY DEF Held
<1>2. /\ Typed' /\ OnlyProc(p) /\ IsReturn(main[p], main'[p])
      /\ \/ conn' = conn
         \/ IsReplied(Head(main[p].stack).c, Head(main[p].stack).msg.id)
  BY <1>1, FormHandlerReturns
<1>3. \A d \in Endpoint : conn'[d].incoming = conn[d].incoming
  <2>1. CASE conn' = conn
    BY <2>1
  <2>2. ASSUME NEW c, NEW n, IsReplied(c, n)  PROVE \A d \in Endpoint : conn'[d].incoming = conn[d].incoming
    BY <2>2 DEF IsReplied, OnlyConn
  <2>3. QED
    BY <1>2, <2>1, <2>2
<1>4. QED
  BY <1>2, <1>3, InOrderReturn


\* A process with nothing to run, and no incoming message.
LEMMA EmptyInOrder ==
    ASSUME NEW c, NEW t, t.runLoop = <<>>, \A d, m : ~Handles(t.stack, d, m)
    PROVE  InTurn(c, <<>>, t) /\ NoEarlier(c, <<>>, t)
<1>1. PICK q : q = <<>> /\ Len(q) = 0 /\ 1..Len(q) = {}
  <2>1. Len(<<>>) = 0 /\ 1..0 = {}
    OBVIOUS
  <2>2. QED
    BY <2>1
<1>2. PICK f : f = [i \in 1..Len(q) |-> 0]
  OBVIOUS
<1>3. f \in [1..Len(q) -> 1..Len(t.runLoop)] /\ 1..Len(t.runLoop) = {}
  BY <1>1, <1>2
<1>4. InTurnAt(c, q, t, f)
  BY <1>1, <1>3 DEF InTurnAt
<1>5. QED
  BY <1>1, <1>4 DEF InTurn, NoEarlier

\* The process ends.
LEMMA InOrderEnds ==
    ASSUME Held, InOrder, NEW p \in Proc, NEW failing \in SUBSET Endpoint, Ends(p, failing),
           \A c \in failing : conn[c].sent < MaxSends[c]
    PROVE  InOrder'
<1>1. Typed /\ Bounded
  BY DEF Held
<1>2. /\ OnlyProc(p) /\ IsEnd(main'[p])
      /\ \A c \in Endpoint : /\ Owner[c] # p => conn'[c] = conn[c]
                             /\ Owner[c] = p => IsEnded(conn[c], conn'[c])
  BY <1>1, FormEnds
<1>3. PICK t : t = main'[p]
  OBVIOUS
<1>4. /\ t.runLoop = <<>> /\ t.stack = <<>> /\ \A x : ~Item(t, x) /\ ~Kept(t, x)
  BY <1>2, <1>3, EndFits DEF IsEnd
<1>5. \A c, m : ~Handles(t.stack, c, m)
  BY <1>4, ElemsEmpty DEF Handles
<1>6. \A d \in Endpoint : Owner[d] = p =>
         InTurn(d, conn'[d].incoming, main'[p]) /\ NoEarlier(d, conn'[d].incoming, main'[p])
  BY <1>2, <1>3, <1>4, <1>5, EmptyInOrder DEF IsEnded
<1>7. QED
  BY <1>2, <1>6, InOrderStep

LEMMA InOrderCrash ==
    ASSUME Held, InOrder, NEW p \in Proc, Crash(p)
    PROVE  InOrder'
<1>1. Ends(p, {}) /\ {} \in SUBSET Endpoint /\ \A c \in {} : conn[c].sent < MaxSends[c]
  BY DEF Crash
<1>2. QED
  BY <1>1, InOrderEnds

LEMMA InOrderSendSyncFails ==
    ASSUME Held, InOrder, NEW c \in Endpoint, SendSyncFails(c)
    PROVE  InOrder'
<1>1. CASE c \notin ExitOnFailure
  BY <1>1, InOrderQuiet
<1>2. CASE c \in ExitOnFailure
  <2>1. /\ Ends(Owner[c], {c}) /\ Owner[c] \in Proc /\ {c} \in SUBSET Endpoint
        /\ \A d \in {c} : conn[d].sent < MaxSends[d]
    BY <1>2, Ends2 DEF SendSyncFails
  <2>2. QED
    BY <2>1, InOrderEnds
<1>3. QED
  BY <1>1, <1>2

LEMMA InOrderSendSyncReturns ==
    ASSUME Held, InOrder, NEW p \in Proc, NEW ok \in BOOLEAN, In(p, "sendSync"), SendSyncReturns(p, ok)
    PROVE  InOrder'
<1>1. Typed /\ Bounded
  BY DEF Held
<1>2. PICK fr \in Frame :
        /\ fr = Head(main[p].stack) /\ fr.f = "sendSync" /\ fr.c \in Endpoint /\ fr.id \in Number
        /\ conn[fr.c].pending \in Seq(PendingSyncReply) /\ conn[fr.c].pending # <<>>
  BY InSendSync
<1>3. PICK c \in Endpoint, n \in Number : c = fr.c /\ n = fr.id
  BY <1>2
<1>4. CASE Ends(p, {})
  <2>1. {} \in SUBSET Endpoint /\ \A d \in {} : conn[d].sent < MaxSends[d]
    OBVIOUS
  <2>2. QED
    BY <1>4, <2>1, InOrderEnds
<1>5. CASE ~Ends(p, {})
  <2>1. /\ Typed' /\ OnlyProc(p) /\ OnlyConn(c) /\ IsReturn(main[p], main'[p])
        /\ conn'[c].incoming = conn[c].incoming
    BY <1>1, <1>2, <1>3, <1>5, FormSendSyncReturns
  <2>2. \A d \in Endpoint : conn'[d].incoming = conn[d].incoming
    BY <2>1 DEF OnlyConn
  <2>3. QED
    BY <2>1, <2>2, InOrderReturn
<1>6. QED
  BY <1>4, <1>5

LEMMA InOrderWaitChecks ==
    ASSUME Held, InOrder, NEW p \in Proc, WaitChecks(p)
    PROVE  InOrder'
<1>1. Typed /\ Bounded /\ In(p, "sendSync")
  BY DEF Held, WaitChecks
<1>2. CASE /\ Typed' /\ OnlyProc(p) /\ UNCHANGED <<conn, wire, result, handled>>
           /\ IsTurn(main[p], main'[p], "wait")
  BY <1>2, InOrderTurn
<1>3. CASE LET k == conn[Head(main[p].stack).c]
           IN  SendSyncReturns(p, k.pending[Len(k.pending)].didReceiveReply)
  <2>1. PICK fr \in Frame :
          /\ fr = Head(main[p].stack) /\ fr.c \in Endpoint
          /\ conn[fr.c].pending \in Seq(PendingSyncReply) /\ conn[fr.c].pending # <<>>
    BY <1>1, InSendSync
  <2>2. conn[fr.c].pending[Len(conn[fr.c].pending)] \in PendingSyncReply
    BY <2>1
  <2>3. PICK ok \in BOOLEAN : ok = conn[fr.c].pending[Len(conn[fr.c].pending)].didReceiveReply
    BY <2>2 DEF PendingSyncReply
  <2>4. SendSyncReturns(p, ok)
    BY <1>3, <2>1, <2>3
  <2>5. QED
    BY <1>1, <2>4, InOrderSendSyncReturns
<1>4. QED
  BY <1>1, <1>2, <1>3, FormWaitChecks

LEMMA InOrderWaitTimesOut ==
    ASSUME Held, InOrder, NEW p \in Proc, WaitTimesOut(p)
    PROVE  InOrder'
<1>1. In(p, "sendSync") /\ SendSyncReturns(p, FALSE)
  BY DEF WaitTimesOut
<1>2. QED
  BY <1>1, InOrderSendSyncReturns

LEMMA InOrderWaitWakes ==
    ASSUME Held, InOrder, NEW p \in Proc, WaitWakes(p)
    PROVE  InOrder'
<1>1. Typed /\ Bounded
  BY DEF Held
<1>2. Typed' /\ OnlyProc(p) /\ conn' = conn /\ IsTurn(main[p], main'[p], "dispatch")
  BY <1>1, FormWaitWakes
<1>3. QED
  BY <1>2, InOrderTurn

\* A handler is entered: what is kept, and what is to run, stays.
LEMMA EnteredKeeps ==
    ASSUME NEW u \in ProcState, NEW t \in ProcState, NEW c, NEW m, IsEntered(u, t, c, m)
    PROVE  /\ t.runLoop = u.runLoop
           /\ \A x : Kept(t, x) <=> Kept(u, x)
           /\ \A d : AboutToSwap(t.stack, d) <=> AboutToSwap(u.stack, d)
<1>1. PICK fr \in Frame : fr.f = "handler" /\ IsCall(u, t, fr)
  BY DEF IsEntered
<1>2. /\ t.stack = Push(fr, u.stack) /\ u.stack \in Seq(Frame) /\ t.messages = u.messages
      /\ t.runLoop = u.runLoop
  BY <1>1 DEF IsCall, SameLoop, ProcState
<1>3. PICK s \in Seq(Frame) : s = u.stack
  BY <1>2
<1>4. FrameKeeps(fr) = {}
  BY <1>1 DEF FrameKeeps
<1>5. /\ \A x : KeptOn(Push(fr, s), x) <=> KeptOn(s, x)
      /\ \A d : AboutToSwap(Push(fr, s), d) <=> AboutToSwap(s, d)
  BY <1>1, <1>4, OnPush
<1>6. QED
  BY <1>2, <1>3, <1>5 DEF Kept

\* dispatchMessages dispatches a marked message, or keeps it.
LEMMA InOrderDispatchNext ==
    ASSUME Held, InOrder, NEW p \in Proc, DispatchNext(p)
    PROVE  InOrder'
<1>1. Typed /\ Bounded
  BY DEF Held
<1>2. /\ Typed' /\ OnlyProc(p) /\ conn' = conn /\ InLoop(main[p])
      /\ \/ IsSkip(main[p], main'[p])
         \/ \E u \in ProcState :
              /\ IsTake(main[p], u)
              /\ \/ main'[p] = u
                 \/ \E x \in Received :
                       x = Head(Head(main[p].stack).todo) /\ IsEntered(u, main'[p], x.c, x.msg)
  BY <1>1, FormDispatchNext
<1>3. main[p] \in ProcState /\ main'[p] \in ProcState /\ StackFits(p, main[p].stack)
  BY <1>2, HeldFacts
<1>4. CASE IsSkip(main[p], main'[p]) \/ IsTake(main[p], main'[p])
  <2>1. Rearranged(main[p], main'[p]) /\ main'[p].runLoop = main[p].runLoop
    BY <1>3, <1>4, MoveNext DEF IsSkip, IsTake, SameLoop
  <2>2. Passive(main[p], main'[p])
    BY <1>3, <1>4, <2>1, PassiveNext
  <2>3. QED
    BY <1>2, <2>1, <2>2, CalmPassive, InOrderMain
<1>5. ASSUME NEW u \in ProcState, IsTake(main[p], u), NEW x \in Received,
             x = Head(Head(main[p].stack).todo), IsEntered(u, main'[p], x.c, x.msg)
      PROVE  InOrder'
  <2>1. Item(main[p], x)
    BY <1>2, <1>3, <1>5, NextIsItem
  <2>2. x.msg.marked
    BY <2>1 DEF Held, ProcFits, IsOurs
  <2>3. Rearranged(main[p], u) /\ u.runLoop = main[p].runLoop
    BY <1>3, <1>5, MoveNext DEF IsTake, SameLoop
  <2>4. Passive(main[p], u)
    BY <1>3, <1>5, <2>3, PassiveNext
  <2>5. PICK t \in ProcState, c \in Endpoint, m \in Message : t = main'[p] /\ c = x.c /\ m = x.msg
    BY <1>3 DEF Received
  <2>6. IsEntered(u, t, c, m)
    BY <1>5, <2>5
  <2>7. /\ \A y : Item(t, y) => Item(u, y)
        /\ \A d, n : Handles(t.stack, d, n) => Handles(u.stack, d, n) \/ (d = c /\ n = m)
    BY <2>6, EnteredHandles
  <2>8. /\ t.runLoop = u.runLoop
        /\ \A y : Kept(t, y) <=> Kept(u, y)
        /\ \A d : AboutToSwap(t.stack, d) <=> AboutToSwap(u.stack, d)
    BY <2>6, EnteredKeeps
  <2>9. Rearranged(main[p], t)
    BY <2>3, <2>7, <2>8 DEF Rearranged
  <2>10. \A d, n : Handles(t.stack, d, n) => Handles(main[p].stack, d, n) \/ n.marked
    BY <2>2, <2>4, <2>5, <2>7 DEF Passive
  <2>11. Calm(main[p], main'[p])
    BY <2>3, <2>5, <2>8, <2>9, <2>10 DEF Calm
  <2>12. QED
    BY <1>2, <2>11, InOrderMain
<1>6. QED
  BY <1>2, <1>4, <1>5

\* The connections whose dispatchOneMessage the run loop does not take.
LEMMA RunInOrder ==
    ASSUME Held, InOrder, NEW p \in Proc, NEW d \in Endpoint, Owner[d] = p, NEW t,
           main[p].stack = <<>>, main[p].runLoop # <<>>, t.runLoop = Tail(main[p].runLoop),
           Head(main[p].runLoop) # OneOf(d), \A x : Kept(t, x) => Kept(main[p], x),
           Head(main[p].runLoop) = AllOf(d) => AboutToSwap(t.stack, d),
           \A m : ~Handles(t.stack, d, m)
    PROVE  InTurn(d, conn[d].incoming, t) /\ NoEarlier(d, conn[d].incoming, t)
<1>1. PICK r \in ProcState : r = main[p]
  BY DEF Held, Typed
<1>2. PICK q : q = conn[d].incoming
  OBVIOUS
<1>3. InTurn(d, q, r)
  BY <1>1, <1>2 DEF InOrder
<1>4. InTurn(d, q, t)
  BY <1>1, <1>3, TurnRun
<1>5. NoEarlier(d, q, t)
  BY DEF NoEarlier
<1>6. QED
  BY <1>2, <1>4, <1>5

LEMMA NamesFunction == \A fn \in Function : /\ fn.f = "dispatchOneMessage" => fn = OneOf(fn.c)
                                            /\ fn.f = "dispatchMessages" => fn = AllOf(fn.c)
  BY DEF Function, OneOf, AllOf

\* dispatchOneMessage of c.
LEMMA InOrderRunOne ==
    ASSUME Held, Tracked, InOrder, Typed', NEW p \in Proc, NEW c \in Endpoint, p = Owner[c], OnlyProc(p), OnlyConn(c),
           main[p].runLoop # <<>>, Head(main[p].runLoop) = OneOf(c), conn[c].incoming # <<>>,
           conn'[c].incoming = Tail(conn[c].incoming),
           NEW m \in Message, m = Head(conn[c].incoming),
           NEW u \in ProcState, IsRunOther(main[p], u),
           main'[p] = u \/ IsEntered(u, main'[p], c, m)
    PROVE  InOrder'
<1>1. PICK r \in ProcState, t \in ProcState, q \in Seq(Message) :
        r = main[p] /\ t = main'[p] /\ q = conn[c].incoming
  BY TypedFacts DEF Held, Typed
<1>2. /\ r.stack = <<>> /\ u.stack = r.stack /\ u.messages = r.messages /\ u.runLoop = Tail(r.runLoop)
      /\ r.runLoop # <<>>
  BY <1>1 DEF IsRunOther, IsRun
<1>3. /\ t.runLoop = Tail(r.runLoop) /\ (\A x : Kept(t, x) => Kept(r, x)) /\ (\A x : Item(t, x) => Item(r, x))
      /\ \A d, n : Handles(t.stack, d, n) => d = c /\ n = m
  <2>1. /\ (\A x : Kept(u, x) => Kept(r, x)) /\ (\A x : Item(u, x) => Item(r, x))
        /\ \A d, n : ~Handles(u.stack, d, n)
    BY <1>2, ElemsEmpty DEF Kept, Item, Handles
  <2>2. CASE t = u
    BY <1>2, <2>1, <2>2
  <2>3. CASE IsEntered(u, t, c, m)
    <3>1. t.runLoop = u.runLoop /\ \A x : Kept(t, x) <=> Kept(u, x)
      BY <2>3, EnteredKeeps
    <3>2. /\ \A x : Item(t, x) => Item(u, x)
          /\ \A d, n : Handles(t.stack, d, n) => Handles(u.stack, d, n) \/ (d = c /\ n = m)
      BY <2>3, EnteredHandles
    <3>3. QED
      BY <1>2, <2>1, <3>1, <3>2
  <2>4. QED
    BY <1>1, <2>2, <2>3
<1>4. InTurn(c, q, r)
  BY <1>1 DEF InOrder
<1>5. /\ InTurn(c, Tail(q), t)
      /\ \A x : Kept(r, x) /\ x.c = c => ~(x.msg.id < m.id)
  BY <1>1, <1>2, <1>3, <1>4, TurnTake
<1>6. \A x : Item(r, x) => Kept(r, x)
  BY <1>2, OnEmpty DEF Item, Kept
<1>7. \A n \in ReqIds(Tail(q)) : ~(n < m.id)
  <2>1. Sorted(q) /\ Plain(q)
    BY <1>1, Ends2 DEF Held, ConnFits, Tracked, Ordered, Delivered
  <2>2. Request(m) /\ m.id \in Nat
    BY <1>1, <2>1, PlainTail, Numbers DEF Message
  <2>3. Tail(q) \in Seq(Message) /\ \A n \in ReqIds(Tail(q)) : m.id < n
    BY <1>1, <2>1, <2>2, ReqIdsTail
  <2>4. ReqIds(Tail(q)) \subseteq Nat
    BY <2>3, ReqIdsAre
  <2>5. QED
    BY <2>2, <2>3, <2>4
<1>8. NoEarlier(c, Tail(q), t)
  BY <1>3, <1>5, <1>6, <1>7 DEF NoEarlier
<1>9. ASSUME NEW d \in Endpoint, Owner[d] = p
      PROVE  InTurn(d, conn'[d].incoming, main'[p]) /\ NoEarlier(d, conn'[d].incoming, main'[p])
  <2>1. CASE d = c
    BY <1>1, <1>5, <1>8, <2>1
  <2>2. CASE d # c
    <3>1. conn'[d] = conn[d] /\ OneOf(c) # OneOf(d) /\ OneOf(c) # AllOf(d)
      BY <2>2, Functions DEF OnlyConn
    <3>2. \A n : ~Handles(t.stack, d, n)
      BY <1>3, <2>2
    <3>3. InTurn(d, conn[d].incoming, t) /\ NoEarlier(d, conn[d].incoming, t)
      BY <1>1, <1>2, <1>3, <1>9, <3>1, <3>2, RunInOrder
    <3>4. QED
      BY <1>1, <3>1, <3>3
  <2>3. QED
    BY <2>1, <2>2
<1>10. \A d \in Endpoint : Owner[d] # p => conn'[d].incoming = conn[d].incoming
  BY DEF OnlyConn
<1>11. QED
  BY <1>9, <1>10, InOrderStep

LEMMA InOrderRunFunction ==
    ASSUME Held, Tracked, InOrder, NEW p \in Proc, RunFunction(p)
    PROVE  InOrder'
<1>1. Typed /\ Bounded
  BY DEF Held
<1>2. /\ Typed' /\ OnlyProc(p)
      /\ \E fn \in Function :
           /\ main[p].runLoop # <<>> /\ fn = Head(main[p].runLoop)
           /\ OnlyConn(fn.c)
           /\ \/ /\ fn.f = "dispatchOneMessage" /\ conn[fn.c].incoming # <<>>
                 /\ conn'[fn.c].incoming = Tail(conn[fn.c].incoming)
                 /\ Head(conn[fn.c].incoming) \in Message
                 /\ \E u \in ProcState :
                       /\ IsRunOther(main[p], u)
                       /\ \/ main'[p] = u
                          \/ IsEntered(u, main'[p], fn.c, Head(conn[fn.c].incoming))
              \/ /\ fn.f = "dispatchMessages" /\ IsRunAll(main[p], main'[p])
                 /\ conn'[fn.c].incoming = conn[fn.c].incoming
              \/ /\ fn.f = "didClose" /\ IsRunOther(main[p], main'[p])
                 /\ conn'[fn.c].incoming = conn[fn.c].incoming
  BY <1>1, FormRunFunction
<1>3. PICK fn \in Function :
           /\ main[p].runLoop # <<>> /\ fn = Head(main[p].runLoop)
           /\ OnlyConn(fn.c)
           /\ \/ /\ fn.f = "dispatchOneMessage" /\ conn[fn.c].incoming # <<>>
                 /\ conn'[fn.c].incoming = Tail(conn[fn.c].incoming)
                 /\ Head(conn[fn.c].incoming) \in Message
                 /\ \E u \in ProcState :
                       /\ IsRunOther(main[p], u)
                       /\ \/ main'[p] = u
                          \/ IsEntered(u, main'[p], fn.c, Head(conn[fn.c].incoming))
              \/ /\ fn.f = "dispatchMessages" /\ IsRunAll(main[p], main'[p])
                 /\ conn'[fn.c].incoming = conn[fn.c].incoming
              \/ /\ fn.f = "didClose" /\ IsRunOther(main[p], main'[p])
                 /\ conn'[fn.c].incoming = conn[fn.c].incoming
  BY <1>2
<1>4. main[p] \in ProcState /\ main'[p] \in ProcState /\ ProcFits(p, main[p])
  BY <1>2, HeldFacts
<1>5. PICK c \in Endpoint : c = fn.c
  BY DEF Function
<1>6. p = Owner[c]
  <2>1. main[p].runLoop \in Seq(Function)
    BY <1>4 DEF ProcState
  <2>2. fn \in Elems(main[p].runLoop)
    BY <1>3, <2>1, ElemsTail
  <2>3. QED
    BY <1>4, <1>5, <2>2 DEF ProcFits
<1>7. CASE /\ fn.f # "dispatchOneMessage" /\ conn'[c].incoming = conn[c].incoming
           /\ \/ IsRunAll(main[p], main'[p])
              \/ fn.f # "dispatchMessages" /\ IsRunOther(main[p], main'[p])
  <2>1. PICK r \in ProcState, t \in ProcState : r = main[p] /\ t = main'[p]
    BY <1>4
  <2>2. r.stack = <<>> /\ r.runLoop # <<>> /\ t.runLoop = Tail(r.runLoop)
    BY <1>7, <2>1 DEF IsRunAll, IsRunOther, IsRun
  <2>3. \A d, m : ~Handles(r.stack, d, m)
    BY <2>2, ElemsEmpty DEF Handles
  <2>4. /\ Rearranged(r, t) /\ (\A d, m : ~Handles(t.stack, d, m))
        /\ \A d : fn = AllOf(d) => AboutToSwap(t.stack, d)
    <3>1. CASE IsRunOther(r, t) /\ fn.f # "dispatchMessages"
      <4>1. Rearranged(r, t) /\ t.stack = r.stack
        BY <3>1, MoveRunOther DEF IsRunOther
      <4>2. \A d : fn # AllOf(d)
        BY <3>1 DEF AllOf
      <4>3. QED
        BY <2>3, <4>1, <4>2
    <3>2. CASE IsRunAll(r, t)
      <4>1. Rearranged(r, t) /\ AboutToSwap(t.stack, Head(r.runLoop).c)
        BY <3>2, MoveRunAll
      <4>2. Passive(r, t)
        BY <3>2, <4>1, PassiveRunAll
      <4>3. \A d : fn = AllOf(d) => fn.c = d
        BY DEF AllOf
      <4>4. QED
        BY <1>3, <2>1, <2>3, <4>1, <4>2, <4>3 DEF Passive
    <3>3. QED
      BY <1>7, <2>1, <3>1, <3>2
  <2>5. \A d \in Endpoint : conn'[d].incoming = conn[d].incoming
    BY <1>3, <1>5, <1>7 DEF OnlyConn
  <2>6. \A d : fn # OneOf(d)
    BY <1>7 DEF OneOf
  <2>7. \A d \in Endpoint : Owner[d] = p =>
           InTurn(d, conn[d].incoming, t) /\ NoEarlier(d, conn[d].incoming, t)
    <3>1. \A x : Kept(t, x) => Kept(main[p], x)
      BY <2>1, <2>4 DEF Rearranged
    <3>2. QED
      BY <1>3, <2>1, <2>2, <2>4, <2>6, <3>1, RunInOrder
  <2>8. \A d \in Endpoint : Owner[d] = p =>
           InTurn(d, conn'[d].incoming, main'[p]) /\ NoEarlier(d, conn'[d].incoming, main'[p])
    BY <2>1, <2>5, <2>7
  <2>9. QED
    BY <1>2, <2>5, <2>8, InOrderStep
<1>8. ASSUME NEW m \in Message, m = Head(conn[c].incoming), conn[c].incoming # <<>>,
             fn.f = "dispatchOneMessage", conn'[c].incoming = Tail(conn[c].incoming),
             NEW u \in ProcState, IsRunOther(main[p], u),
             main'[p] = u \/ IsEntered(u, main'[p], c, m)
      PROVE  InOrder'
  <2>1. Head(main[p].runLoop) = OneOf(c) /\ OnlyConn(c) /\ main[p].runLoop # <<>>
    BY <1>3, <1>5, <1>8, NamesFunction
  <2>2. QED
    BY <1>2, <1>6, <1>8, <2>1, InOrderRunOne
<1>9. QED
  BY <1>3, <1>5, <1>7, <1>8

\* The run loop of a process gets a function that is no dispatchOneMessage of d,
\* and perhaps a marked message that is the last to arrive.
LEMMA PostInOrder ==
    ASSUME Held, InOrder, NEW p \in Proc, NEW d \in Endpoint, Owner[d] = p, NEW t, t.stack = main[p].stack,
           \/ t.runLoop = main[p].runLoop
           \/ \E fn \in Function : fn # OneOf(d) /\ t.runLoop = Append(main[p].runLoop, fn),
           \A x : Kept(t, x) /\ x.c = d =>
              Kept(main[p], x) \/ \A n \in ReqIds(conn[d].incoming) : ~(x.msg.id < n),
           \A x : Item(t, x) /\ x.c = d =>
              Item(main[p], x) \/ \A m : Handles(t.stack, d, m) => ~(x.msg.id < m.id)
    PROVE  InTurn(d, conn[d].incoming, t) /\ NoEarlier(d, conn[d].incoming, t)
<1>1. PICK r \in ProcState, q \in Seq(Message) : r = main[p] /\ q = conn[d].incoming
  BY TypedFacts DEF Held, Typed
<1>2. InTurn(d, q, r) /\ NoEarlier(d, q, r)
  BY <1>1 DEF InOrder
<1>3. \A i \in 1..Len(q) : q[i].id \in ReqIds(q)
  <2>1. Plain(q)
    BY <1>1 DEF Held, ConnFits
  <2>2. \A i \in 1..Len(q) : q[i] \in Elems(q)
    BY ElemsOf
  <2>3. QED
    BY <2>1, <2>2, ReqIdsAre DEF Plain
<1>4. InTurn(d, q, t)
  <2>1. \A x : Kept(t, x) /\ x.c = d =>
          \/ Kept(r, x) /\ (AboutToSwap(r.stack, d) => AboutToSwap(t.stack, d))
          \/ \A i \in 1..Len(q) : ~(x.msg.id < q[i].id)
    BY <1>1, <1>3
  <2>2. \/ t.runLoop = r.runLoop
        \/ \E fn \in Function : fn # OneOf(d) /\ t.runLoop = Append(r.runLoop, fn)
    BY <1>1
  <2>3. QED
    BY <1>2, <2>1, <2>2, TurnKept
<1>5. NoEarlier(d, q, t)
  BY <1>1, <1>2 DEF NoEarlier
<1>6. QED
  BY <1>1, <1>4, <1>5

LEMMA InOrderPostDidClose ==
    ASSUME Held, InOrder, NEW c \in Endpoint, PostDidClose(c)
    PROVE  InOrder'
<1>1. Typed /\ Bounded
  BY DEF Held
<1>2. PICK p \in Proc : p = Owner[c]
  BY Ends2
<1>3. /\ OnlyConn(c) /\ OnlyProc(p) /\ SameQueues(conn[c], conn'[c])
      /\ \E fn \in Function : fn.f = "didClose" /\ IsPost(main[p], main'[p], fn)
  BY <1>1, <1>2, FormPostDidClose
<1>4. PICK t : t = main'[p]
  OBVIOUS
<1>5. PICK fn \in Function : fn.f = "didClose" /\ IsPost(main[p], t, fn)
  BY <1>3, <1>4
<1>6. /\ t.stack = main[p].stack /\ t.messages = main[p].messages /\ t.runLoop = Append(main[p].runLoop, fn)
  BY <1>5 DEF IsPost
<1>7. (\A x : Kept(t, x) => Kept(main[p], x)) /\ (\A x : Item(t, x) => Item(main[p], x))
  BY <1>6 DEF Kept, Item
<1>8. \A d : fn # OneOf(d)
  BY <1>5 DEF OneOf
<1>9. \A d \in Endpoint : conn'[d].incoming = conn[d].incoming
  BY <1>3 DEF OnlyConn, SameQueues
<1>10. \A d \in Endpoint : Owner[d] = p =>
          InTurn(d, conn[d].incoming, t) /\ NoEarlier(d, conn[d].incoming, t)
  BY <1>6, <1>7, <1>8, PostInOrder
<1>11. QED
  BY <1>3, <1>4, <1>9, <1>10, InOrderStep

\* The handlers that run are those of earlier requests.
LEMMA ArrivesAfter ==
    ASSUME Held, Tracked, NEW c \in Endpoint, NEW e \in Endpoint, e = Peer[c], NEW p \in Proc, p = Owner[c],
           wire[e] # <<>>, NEW m \in Message, m = Head(wire[e]), Request(m)
    PROVE  \A n : Handles(main[p].stack, c, n) => n.id \in Nat /\ n.id < m.id
<1>1. Typed /\ Stream(conn[e], wire[e])
  BY DEF Held, Tracked, Ordered
<1>2. conn[e] \in ConnectionState /\ wire[e] \in Seq(Message) /\ main[p].stack \in Seq(Frame)
  BY <1>1, TypedFacts
<1>3. \A n \in Nat : Later(conn[e], wire[e], n) => n < m.id
  BY <1>1, <1>2, StreamHead
<1>4. Delivered(c, conn[c], conn[e], wire[e], main[p])
  BY DEF Tracked, Ordered
<1>5. ASSUME NEW n, Handles(main[p].stack, c, n)  PROVE n.id \in Nat /\ n.id < m.id
  <2>1. PICK fr \in Elems(main[p].stack) : fr.f = "handler" /\ fr.msg = n
    BY <1>5 DEF Handles
  <2>2. fr \in Frame
    BY <1>2, <2>1, ElemsOf
  <2>3. n \in Message
    BY <2>1, <2>2, FrameKinds
  <2>4. n.id \in Nat
    BY <2>3, Numbers DEF Message
  <2>5. QED
    BY <1>3, <1>4, <1>5, <2>4 DEF Delivered
<1>6. QED
  BY <1>5

\* A marked request is read.
LEMMA InOrderMarked ==
    ASSUME Held, Tracked, InOrder, NEW c \in Endpoint, Receive(c), NEW m \in Message, m = Head(wire[Peer[c]]),
           Request(m), QueueMarked(c, m)
    PROVE  InOrder'
<1>1. Typed /\ Bounded
  BY DEF Held
<1>2. PICK p \in Proc, e \in Endpoint : p = Owner[c] /\ e = Peer[c]
  BY Ends2
<1>3. Typed' /\ OnlyConn(c) /\ OnlyProc(p) /\ wire[e] # <<>>
  BY <1>1, <1>2, FormReceive
<1>4. /\ SameQueues(conn[c], conn'[c])
      /\ \E x \in Received : x = [c |-> c, msg |-> m] /\ IsQueue(main[p], main'[p], x)
  BY <1>1, <1>2, FormQueueMarked
<1>5. PICK x \in Received : x = [c |-> c, msg |-> m] /\ IsQueue(main[p], main'[p], x)
  BY <1>4
<1>6. x.c = c /\ x.msg = m
  BY <1>5
<1>7. PICK r \in ProcState, t \in ProcState : r = main[p] /\ t = main'[p]
  BY <1>1, <1>3 DEF Typed
<1>8. /\ (\A y : Item(t, y) => Item(r, y) \/ y = x) /\ (\A y : Kept(t, y) => Kept(r, y) \/ y = x)
      /\ t.stack = r.stack
  BY <1>5, <1>7, MoveQueue
<1>9. t.runLoop = r.runLoop \/ t.runLoop = Append(r.runLoop, AllOf(c))
  BY <1>5, <1>6, <1>7 DEF IsQueue
<1>10. AllOf(c) \in Function /\ \A d : AllOf(c) # OneOf(d)
  BY Functions DEF AllOf, Function
<1>11. m = Head(wire[e]) /\ m.id \in Nat
  BY <1>2, Numbers DEF Message
<1>12. /\ \A n \in ReqIds(conn[c].incoming) : n < m.id /\ n \in Nat
       /\ \A n : Handles(r.stack, c, n) => n.id \in Nat /\ n.id < m.id
  <2>1. \A n \in ReqIds(conn[c].incoming) : n < m.id
    BY <1>2, <1>3, <1>11, ArrivesLast
  <2>2. \A n : Handles(main[p].stack, c, n) => n.id \in Nat /\ n.id < m.id
    BY <1>2, <1>3, <1>11, ArrivesAfter
  <2>3. conn[c].incoming \in Seq(Message)
    BY <1>1, TypedFacts
  <2>4. QED
    BY <1>7, <2>1, <2>2, <2>3, ReqIdsAre
<1>13. /\ \A n \in ReqIds(conn[c].incoming) : ~(m.id < n)
       /\ \A n : Handles(t.stack, c, n) => ~(m.id < n.id)
  BY <1>8, <1>11, <1>12
<1>14. ASSUME NEW d \in Endpoint, Owner[d] = p
       PROVE  InTurn(d, conn[d].incoming, t) /\ NoEarlier(d, conn[d].incoming, t)
  <2>1. \/ t.runLoop = main[p].runLoop
        \/ \E fn \in Function : fn # OneOf(d) /\ t.runLoop = Append(main[p].runLoop, fn)
    BY <1>7, <1>9, <1>10
  <2>2. \A y : Kept(t, y) /\ y.c = d =>
            Kept(main[p], y) \/ \A n \in ReqIds(conn[d].incoming) : ~(y.msg.id < n)
    BY <1>6, <1>7, <1>8, <1>13
  <2>3. \A y : Item(t, y) /\ y.c = d =>
            Item(main[p], y) \/ \A n : Handles(t.stack, d, n) => ~(y.msg.id < n.id)
    BY <1>6, <1>7, <1>8, <1>13
  <2>4. t.stack = main[p].stack
    BY <1>7, <1>8
  <2>5. QED
    BY <1>14, <2>1, <2>2, <2>3, <2>4, PostInOrder
<1>15. \A d \in Endpoint : conn'[d].incoming = conn[d].incoming
  BY <1>3, <1>4 DEF OnlyConn, SameQueues
<1>16. QED
  BY <1>3, <1>7, <1>14, <1>15, InOrderStep

\* An unmarked request is read.
LEMMA InOrderUnmarked ==
    ASSUME Held, Tracked, InOrder, NEW c \in Endpoint, Receive(c), NEW m \in Message, m = Head(wire[Peer[c]]),
           Request(m), EnqueueIncoming(c, m)
    PROVE  InOrder'
<1>1. Typed /\ Bounded
  BY DEF Held
<1>2. PICK p \in Proc, e \in Endpoint : p = Owner[c] /\ e = Peer[c]
  BY Ends2
<1>3. Typed' /\ OnlyConn(c) /\ OnlyProc(p) /\ wire[e] # <<>>
  BY <1>1, <1>2, FormReceive
<1>4. conn'[c].incoming = Append(conn[c].incoming, m) /\ IsPost(main[p], main'[p], OneOf(c))
  BY <1>1, <1>2, FormEnqueueIncoming
<1>5. PICK r \in ProcState, t \in ProcState, q \in Seq(Message) :
        r = main[p] /\ t = main'[p] /\ q = conn[c].incoming
  BY <1>1, <1>3, TypedFacts DEF Typed
<1>6. /\ t.stack = r.stack /\ t.messages = r.messages /\ t.runLoop = Append(r.runLoop, OneOf(c))
      /\ OneOf(c) \in Function
  BY <1>4, <1>5 DEF IsPost
<1>7. (\A x : Kept(t, x) => Kept(r, x)) /\ (\A x : Item(t, x) => Item(r, x))
  BY <1>6 DEF Kept, Item
<1>8. m = Head(wire[e]) /\ m.id \in Nat
  BY <1>2, Numbers DEF Message
<1>9. \A n : Handles(r.stack, c, n) => n.id \in Nat /\ n.id < m.id
  BY <1>2, <1>3, <1>5, <1>8, ArrivesAfter
<1>10. InTurn(c, q, r) /\ NoEarlier(c, q, r) /\ Served(r)
  BY <1>2, <1>5 DEF InOrder, Held, ProcFits
<1>11. InTurn(c, Append(q, m), t)
  BY <1>6, <1>10, TurnEnqueue
<1>12. NoEarlier(c, Append(q, m), t)
  <2>1. ReqIds(Append(q, m)) = ReqIds(q) \cup {m.id}
    BY ReqIdsAppend
  <2>2. \A n : Handles(r.stack, c, n) => ~(m.id < n.id)
    BY <1>8, <1>9
  <2>3. QED
    BY <1>6, <1>7, <1>10, <2>1, <2>2 DEF NoEarlier
<1>13. ASSUME NEW d \in Endpoint, Owner[d] = p
       PROVE  InTurn(d, conn'[d].incoming, main'[p]) /\ NoEarlier(d, conn'[d].incoming, main'[p])
  <2>1. CASE d = c
    BY <1>4, <1>5, <1>11, <1>12, <2>1
  <2>2. CASE d # c
    <3>1. conn'[d] = conn[d] /\ OneOf(c) # OneOf(d)
      BY <1>3, <2>2, Functions DEF OnlyConn
    <3>2. \E fn \in Function : fn # OneOf(d) /\ t.runLoop = Append(main[p].runLoop, fn)
      BY <1>5, <1>6, <3>1
    <3>3. InTurn(d, conn[d].incoming, t) /\ NoEarlier(d, conn[d].incoming, t)
      BY <1>5, <1>6, <1>7, <1>13, <3>2, PostInOrder
    <3>4. QED
      BY <1>5, <3>1, <3>3
  <2>3. QED
    BY <2>1, <2>2
<1>14. \A d \in Endpoint : Owner[d] # p => conn'[d].incoming = conn[d].incoming
  BY <1>2, <1>3 DEF OnlyConn
<1>15. QED
  BY <1>3, <1>13, <1>14, InOrderStep

LEMMA InOrderReceive ==
    ASSUME Held, Tracked, InOrder, NEW c \in Endpoint, Receive(c)
    PROVE  InOrder'
<1>1. PICK m \in Message :
        /\ m = Head(wire[Peer[c]])
        /\ \/ m.kind = "reply" /\ ProcessIncomingSyncReply(c, m.id)
           \/ m.kind # "reply" /\ m.marked /\ QueueMarked(c, m)
           \/ m.kind # "reply" /\ ~m.marked /\ EnqueueIncoming(c, m)
  BY FormReceive DEF Held
<1>2. CASE m.kind = "reply"
  <2>1. PICK p \in Proc, n \in Number : p = Owner[c] /\ n = m.id
    BY Ends2 DEF Message
  <2>2. ProcessIncomingSyncReply(c, n)
    BY <1>1, <1>2, <2>1
  <2>3. OnlyConn(c) /\ OnlyProc(p) /\ IsAnswered(c, n) /\ IsStill(main[p], main'[p])
    BY <2>1, <2>2, FormAnswer DEF Held
  <2>4. conn'[c].incoming = conn[c].incoming
    BY <2>3 DEF IsAnswered
  <2>5. QED
    BY <2>3, <2>4, CalmStill, InOrderOne
<1>3. CASE m.kind # "reply"
  <2>1. Request(m)
    BY <1>3 DEF Request
  <2>2. QED
    BY <1>1, <1>3, <2>1, InOrderMarked, InOrderUnmarked
<1>4. QED
  BY <1>2, <1>3

LEMMA InOrderInit == Init => InOrder
<1>1. SUFFICES ASSUME Init, NEW c \in Endpoint
               PROVE  /\ InTurn(c, conn[c].incoming, main[Owner[c]])
                      /\ NoEarlier(c, conn[c].incoming, main[Owner[c]])
  BY DEF InOrder
<1>2. PICK p \in Proc : p = Owner[c]
  BY <1>1, Ends2
<1>3. conn[c].incoming = <<>> /\ main[p].runLoop = <<>> /\ main[p].stack = <<>>
  BY <1>1 DEF Init
<1>4. \A d, m : ~Handles(main[p].stack, d, m)
  BY <1>3, ElemsEmpty DEF Handles
<1>5. QED
  BY <1>2, <1>3, <1>4, EmptyInOrder

LEMMA InOrderNext == Held /\ Tracked /\ InOrder /\ [Next]_vars => InOrder'
<1>1. SUFFICES ASSUME Held, Tracked, InOrder, [Next]_vars  PROVE InOrder'
  OBVIOUS
<1>2. CASE UNCHANGED vars
  BY <1>1, <1>2 DEF InOrder, vars
<1>3. ASSUME NEW p \in Proc, MainThread(p) \/ SendDelayedReply(p) \/ WaitTimesOut(p) \/ Crash(p)
      PROVE  InOrder'
  BY <1>1, <1>3, InOrderHandlerReturns, InOrderSwapMessages, InOrderDispatchNext, InOrderPutBackMessages,
     InOrderWaitDispatches, InOrderWaitChecks, InOrderWaitWakes, InOrderRunFunction,
     InOrderSendDelayedReply, InOrderWaitTimesOut, InOrderCrash DEF MainThread
<1>4. ASSUME NEW c \in Endpoint,
             ClientCalls(c) \/ WorkQueue(c) \/ SecondaryChecks(c) \/ SecondarySends(c) \/ SecondaryReturns(c)
      PROVE  InOrder'
  <2>1. CASE ClientCalls(c)
    BY <1>1, <2>1, InOrderQuiet, InOrderSendSync, InOrderSendSyncFails DEF ClientCalls
  <2>2. CASE ReadyRead(c)
    BY <1>1, <2>2, InOrderQuiet, InOrderDidClose
  <2>3. CASE WorkQueue(c) /\ ~ReadyRead(c)
    BY <1>1, <2>3, InOrderQuiet, InOrderReceive, InOrderWakeUpClient, InOrderPostDidClose,
       InOrderDidClose DEF WorkQueue
  <2>4. QED
    BY <1>1, <1>4, <2>1, <2>2, <2>3, InOrderQuiet, InOrderSecondaryReturns
<1>5. QED
  BY <1>1, <1>2, <1>3, <1>4 DEF Next, Rest

\* The messages that wait for a handler.
LEMMA EarlierHandled ==
    ASSUME Held, InOrder, NEW p \in Proc, NEW i \in DOMAIN main[p].stack,
           main[p].stack[i].f = "handler", ~main[p].stack[i].msg.marked,
           NEW c, c = main[p].stack[i].c, NEW n, n = main[p].stack[i].msg.id
    PROVE  /\ ~\E k \in DOMAIN main[p].messages :
                 main[p].messages[k].c = c /\ main[p].messages[k].msg.id < n
           /\ ~\E k \in DOMAIN conn[c].incoming : conn[c].incoming[k].id < n
           /\ ~\E k \in DOMAIN main[p].stack :
                 /\ main[p].stack[k].f = "dispatchMessages"
                 /\ \E j \in DOMAIN main[p].stack[k].todo :
                       main[p].stack[k].todo[j].c = c /\ main[p].stack[k].todo[j].msg.id < n
<1>2. Typed /\ main[p].stack \in Seq(Frame) /\ main[p].messages \in Seq(Received)
  BY TypedFacts DEF Held
<1>3. PICK fr \in Frame : fr = main[p].stack[i] /\ fr \in Elems(main[p].stack)
  BY <1>2, ElemsOf
<1>4. /\ fr.f = "handler" /\ fr.c \in Endpoint /\ fr.c = c /\ ~fr.msg.marked /\ fr.msg.id = n
  BY <1>3, FrameKinds
<1>5. Owner[c] = p /\ c \in Endpoint
  <2>1. StackFits(p, main[p].stack)
    BY DEF Held, ProcFits
  <2>2. FrameFits(p, fr)
    BY <1>3, <2>1 DEF StackFits
  <2>3. QED
    BY <1>4, <2>2 DEF FrameFits
<1>6. Handles(main[p].stack, c, fr.msg)
  BY <1>3, <1>4 DEF Handles
<1>7. /\ \A x : Item(main[p], x) /\ x.c = c => ~(x.msg.id < n)
      /\ \A k \in ReqIds(conn[c].incoming) : ~(k < n)
  <2>1. NoEarlier(c, conn[c].incoming, main[p])
    BY <1>5 DEF InOrder
  <2>2. QED
    BY <1>4, <1>6, <2>1 DEF NoEarlier
<1>8. ASSUME NEW k \in DOMAIN main[p].messages  PROVE Item(main[p], main[p].messages[k])
  BY <1>2, <1>8, ElemsOf DEF Item
<1>9. ASSUME NEW k \in DOMAIN conn[c].incoming  PROVE conn[c].incoming[k].id \in ReqIds(conn[c].incoming)
  <2>1. PICK q \in Seq(Message) : q = conn[c].incoming
    BY <1>2, <1>5, TypedFacts
  <2>2. Plain(q)
    BY <1>5, <2>1 DEF Held, ConnFits
  <2>3. q[k] \in Elems(q)
    BY <1>9, <2>1, ElemsOf
  <2>4. QED
    BY <2>1, <2>2, <2>3, ReqIdsAre DEF Plain
<1>10. ASSUME NEW k \in DOMAIN main[p].stack, main[p].stack[k].f = "dispatchMessages",
              NEW j \in DOMAIN main[p].stack[k].todo
       PROVE  Item(main[p], main[p].stack[k].todo[j])
  <2>1. PICK g \in Frame : g = main[p].stack[k] /\ g \in Elems(main[p].stack)
    BY <1>2, <1>10, ElemsOf
  <2>2. g.f = "dispatchMessages" /\ g.todo \in Seq(Received)
    BY <1>10, <2>1, FrameKinds
  <2>3. g.todo[j] \in Elems(g.todo)
    BY <1>10, <2>1, <2>2, ElemsOf
  <2>4. g.todo[j] \in FrameItems(g)
    BY <2>2, <2>3 DEF FrameItems
  <2>5. QED
    BY <2>1, <2>4 DEF Item, OnStack
<1>11. QED
  BY <1>7, <1>8, <1>9, <1>10

LEMMA InOrderEarlier == Held /\ InOrder => EarlierMessagesFirst
<1>1. SUFFICES ASSUME Held, InOrder  PROVE EarlierMessagesFirst
  OBVIOUS
<1>2. ASSUME NEW p \in Proc, NEW i \in DOMAIN main[p].stack,
             main[p].stack[i].f = "handler", ~main[p].stack[i].msg.marked
      PROVE  LET c == main[p].stack[i].c
                 n == main[p].stack[i].msg.id
             IN  ~(\/ \E k \in DOMAIN main[p].messages :
                         main[p].messages[k].c = c /\ main[p].messages[k].msg.id < n
                   \/ \E k \in DOMAIN conn[c].incoming : conn[c].incoming[k].id < n
                   \/ \E k \in DOMAIN main[p].stack :
                         /\ main[p].stack[k].f = "dispatchMessages"
                         /\ \E j \in DOMAIN main[p].stack[k].todo :
                               main[p].stack[k].todo[j].c = c /\ main[p].stack[k].todo[j].msg.id < n)
  <2>1. PICK c : c = main[p].stack[i].c
    OBVIOUS
  <2>2. PICK n : n = main[p].stack[i].msg.id
    OBVIOUS
  <2>3. /\ ~\E k \in DOMAIN main[p].messages :
              main[p].messages[k].c = c /\ main[p].messages[k].msg.id < n
        /\ ~\E k \in DOMAIN conn[c].incoming : conn[c].incoming[k].id < n
        /\ ~\E k \in DOMAIN main[p].stack :
              /\ main[p].stack[k].f = "dispatchMessages"
              /\ \E j \in DOMAIN main[p].stack[k].todo :
                    main[p].stack[k].todo[j].c = c /\ main[p].stack[k].todo[j].msg.id < n
    BY <1>1, <1>2, <2>1, <2>2, EarlierHandled
  <2>4. QED
    BY <2>1, <2>2, <2>3
<1>3. QED
  BY <1>2, Zenon DEF EarlierMessagesFirst

\* An unmarked message is handled only after every message sent before it on
\* its connection, through the run loop (dispatchOneMessage) or through the
\* SyncMessageState (dispatchMessages), for any number of processes and
\* connections.  It is what WebProcess::initializeConnection relies on.
THEOREM UnmarkedInOrder == Spec => []EarlierMessagesFirst
<1>1. Spec => []InOrder
  BY HeldHolds, TrackedHolds, InOrderInit, InOrderNext, PTL DEF Spec
<1>2. QED
  BY <1>1, HeldHolds, InOrderEarlier, PTL
=============================================================================
