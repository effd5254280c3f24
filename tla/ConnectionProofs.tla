-------------------------- MODULE ConnectionProofs --------------------------
(***************************************************************************)
(* What each step of Connection does to its connection and to a process,   *)
(* and two invariants: who holds which message, so that none is stranded,  *)
(* and that no wake-up of waitForSyncReply is lost.  Proved for any number *)
(* of processes, connections and messages and any nesting of calls.        *)
(***************************************************************************)
EXTENDS Connection, TLAPS

-----------------------------------------------------------------------------
(* Sequences and call stacks.                                              *)

Elems(s) == {s[i] : i \in 1..Len(s)}

LEMMA PushFacts ==
    ASSUME NEW F, NEW s \in Seq(F), NEW f \in F
    PROVE  /\ Push(f, s) \in Seq(F) /\ Push(f, s) # <<>>
           /\ Len(s) \in Nat /\ Len(Push(f, s)) = Len(s) + 1
           /\ Head(Push(f, s)) = f /\ Push(f, s)[1] = f
           /\ \A i \in 1..Len(s) : Push(f, s)[i + 1] = s[i]
           /\ \A i \in 2..Len(s) + 1 : Push(f, s)[i] = s[i - 1] /\ i - 1 \in 1..Len(s)
  BY DEF Push

LEMMA PopFacts ==
    ASSUME NEW F, NEW s \in Seq(F), s # <<>>
    PROVE  /\ Tail(s) \in Seq(F) /\ Len(s) \in Nat /\ Len(s) >= 1
           /\ Len(Tail(s)) = Len(s) - 1
           /\ Head(s) = s[1] /\ Head(s) \in F
           /\ \A i \in 1..Len(s) - 1 : Tail(s)[i] = s[i + 1]
  OBVIOUS

LEMMA AppendFacts ==
    ASSUME NEW F, NEW s \in Seq(F), NEW f \in F
    PROVE  /\ Append(s, f) \in Seq(F) /\ Append(s, f) # <<>>
           /\ Len(s) \in Nat /\ Len(Append(s, f)) = Len(s) + 1
           /\ Append(s, f)[Len(s) + 1] = f
           /\ \A i \in 1..Len(s) : Append(s, f)[i] = s[i]
  OBVIOUS

LEMMA LastPlace ==
    ASSUME NEW F, NEW s \in Seq(F), s # <<>>
    PROVE  Len(s) \in 1..Len(s)
  OBVIOUS

\* A stack is its innermost frame on the rest; taking that one off and putting
\* it back changes nothing.
LEMMA PushTail ==
    ASSUME NEW F, NEW s \in Seq(F)
    PROVE  /\ s # <<>> => /\ s = Push(Head(s), Tail(s)) /\ Head(s) \in F /\ Tail(s) \in Seq(F)
           /\ \A f \in F : Tail(Push(f, s)) = s /\ Head(Push(f, s)) = f /\ Push(f, s) # <<>>
                           /\ Push(f, s) \in Seq(F)
           /\ \A f \in F : s # <<>> => Retop(f, s) = Push(f, Tail(s))
  BY DEF Push, Retop

LEMMA RetopFacts ==
    ASSUME NEW F, NEW s \in Seq(F), s # <<>>, NEW f \in F
    PROVE  Retop(f, s) = Push(f, Tail(s)) /\ Push(f, Tail(s)) \in Seq(F)
  BY DEF Push, Retop

\* All but the last element.
LEMMA FrontFacts ==
    ASSUME NEW F, NEW s \in Seq(F), s # <<>>
    PROVE  /\ SubSeq(s, 1, Len(s) - 1) \in Seq(F) /\ Len(s) \in Nat \ {0}
           /\ Len(SubSeq(s, 1, Len(s) - 1)) = Len(s) - 1
           /\ \A i \in 1..Len(s) - 1 : SubSeq(s, 1, Len(s) - 1)[i] = s[i]
<1>1. Len(s) \in Nat \ {0}
  OBVIOUS
<1>2. Len(s) - 1 \in Nat
  BY <1>1
<1>3. PICK n \in Nat : n = Len(s) - 1
  BY <1>2
<1>4. \A i \in 1..n : s[i] \in F
  BY <1>1, <1>3
<1>5. SubSeq(s, 1, n) \in Seq(F) /\ Len(SubSeq(s, 1, n)) = n /\ \A i \in 1..n : SubSeq(s, 1, n)[i] = s[i]
  BY <1>1, <1>3, <1>4
<1>6. QED
  BY <1>1, <1>3, <1>5

LEMMA ElemsPush ==
    ASSUME NEW F, NEW s \in Seq(F), NEW f \in F
    PROVE  Elems(Push(f, s)) = {f} \cup Elems(s)
<1>1. /\ Len(s) \in Nat /\ Len(Push(f, s)) = Len(s) + 1 /\ Push(f, s)[1] = f
      /\ \A i \in 1..Len(s) : Push(f, s)[i + 1] = s[i]
      /\ \A i \in 2..Len(s) + 1 : Push(f, s)[i] = s[i - 1] /\ i - 1 \in 1..Len(s)
  BY DEF Push
<1>2. PICK t : t = Push(f, s)
  OBVIOUS
<1>3. ASSUME NEW x \in Elems(t)  PROVE x \in {f} \cup Elems(s)
  <2>1. PICK i \in 1..Len(t) : x = t[i]
    BY <1>3 DEF Elems
  <2>2. i = 1 \/ i \in 2..Len(s) + 1
    BY <1>1, <1>2, <2>1
  <2>3. QED
    BY <1>1, <1>2, <2>1, <2>2 DEF Elems
<1>4. ASSUME NEW x \in Elems(s)  PROVE x \in Elems(t)
  <2>1. PICK i \in 1..Len(s) : x = s[i]
    BY <1>4 DEF Elems
  <2>2. i + 1 \in 1..Len(t) /\ t[i + 1] = x
    BY <1>1, <1>2, <2>1
  <2>3. QED
    BY <2>2 DEF Elems
<1>5. f \in Elems(t)
  <2>1. 1 \in 1..Len(t)
    BY <1>1, <1>2
  <2>2. QED
    BY <2>1, <1>1, <1>2 DEF Elems
<1>6. QED
  BY <1>2, <1>3, <1>4, <1>5

LEMMA EmptyIn ==
    ASSUME NEW F
    PROVE  <<>> \in Seq(F)
  OBVIOUS

LEMMA ElemsEmpty == Elems(<<>>) = {}
  BY DEF Elems

LEMMA ElemsOf ==
    ASSUME NEW F, NEW s \in Seq(F)
    PROVE  /\ Elems(s) \subseteq F
           /\ \A i \in 1..Len(s) : s[i] \in Elems(s)
           /\ \A x \in Elems(s) : \E i \in 1..Len(s) : s[i] = x
           /\ Len(s) \in Nat /\ DOMAIN s = 1..Len(s)
  BY DEF Elems

LEMMA ElemsTail ==
    ASSUME NEW F, NEW s \in Seq(F), s # <<>>
    PROVE  /\ Elems(s) = {Head(s)} \cup Elems(Tail(s)) /\ Elems(Tail(s)) \subseteq Elems(s)
           /\ Head(s) \in Elems(s) /\ Head(s) \in F /\ Tail(s) \in Seq(F)
<1>1. s = Push(Head(s), Tail(s)) /\ Head(s) \in F /\ Tail(s) \in Seq(F)
  BY PushTail
<1>2. PICK h, t : h = Head(s) /\ t = Tail(s)
  OBVIOUS
<1>3. Elems(Push(h, t)) = {h} \cup Elems(t)
  BY <1>1, <1>2, ElemsPush
<1>4. QED
  BY <1>1, <1>2, <1>3

LEMMA ElemsAppend ==
    ASSUME NEW F, NEW s \in Seq(F), NEW f \in F
    PROVE  Elems(Append(s, f)) = Elems(s) \cup {f} /\ Append(s, f) \in Seq(F)
<1>1. /\ Append(s, f) \in Seq(F) /\ Len(s) \in Nat /\ Len(Append(s, f)) = Len(s) + 1
      /\ Append(s, f)[Len(s) + 1] = f
      /\ \A i \in 1..Len(s) : Append(s, f)[i] = s[i]
  BY AppendFacts
<1>2. PICK t : t = Append(s, f)
  OBVIOUS
<1>3. ASSUME NEW x \in Elems(t)  PROVE x \in {f} \cup Elems(s)
  <2>1. PICK i \in 1..Len(t) : x = t[i]
    BY <1>3 DEF Elems
  <2>2. i = Len(s) + 1 \/ i \in 1..Len(s)
    BY <1>1, <1>2, <2>1
  <2>3. QED
    BY <1>1, <1>2, <2>1, <2>2 DEF Elems
<1>4. ASSUME NEW x \in Elems(s)  PROVE x \in Elems(t)
  <2>1. PICK i \in 1..Len(s) : x = s[i]
    BY <1>4 DEF Elems
  <2>2. i \in 1..Len(t) /\ t[i] = x
    BY <1>1, <1>2, <2>1
  <2>3. QED
    BY <2>2 DEF Elems
<1>5. f \in Elems(t)
  <2>1. Len(s) + 1 \in 1..Len(t)
    BY <1>1, <1>2
  <2>2. QED
    BY <2>1, <1>1, <1>2 DEF Elems
<1>6. QED
  BY <1>1, <1>2, <1>3, <1>4, <1>5

LEMMA ElemsConcat ==
    ASSUME NEW F, NEW s \in Seq(F), NEW u \in Seq(F)
    PROVE  Elems(s \o u) = Elems(s) \cup Elems(u) /\ s \o u \in Seq(F)
<1>1. /\ s \o u \in Seq(F) /\ Len(s) \in Nat /\ Len(u) \in Nat /\ Len(s \o u) = Len(s) + Len(u)
      /\ \A i \in 1..Len(s) : (s \o u)[i] = s[i]
      /\ \A i \in 1..Len(u) : (s \o u)[Len(s) + i] = u[i]
  OBVIOUS
<1>2. PICK t : t = s \o u
  OBVIOUS
<1>3. ASSUME NEW x \in Elems(t)  PROVE x \in Elems(s) \cup Elems(u)
  <2>1. PICK i \in 1..Len(t) : x = t[i]
    BY <1>3 DEF Elems
  <2>2. CASE i \in 1..Len(s)
    BY <1>1, <1>2, <2>1, <2>2 DEF Elems
  <2>3. CASE i \notin 1..Len(s)
    <3>1. i - Len(s) \in 1..Len(u) /\ Len(s) + (i - Len(s)) = i
      BY <1>1, <1>2, <2>1, <2>3
    <3>2. x = u[i - Len(s)]
      BY <1>1, <1>2, <2>1, <3>1
    <3>3. QED
      BY <3>1, <3>2 DEF Elems
  <2>4. QED
    BY <2>2, <2>3
<1>4. ASSUME NEW x \in Elems(s)  PROVE x \in Elems(t)
  <2>1. PICK i \in 1..Len(s) : x = s[i]
    BY <1>4 DEF Elems
  <2>2. i \in 1..Len(t) /\ t[i] = x
    BY <1>1, <1>2, <2>1
  <2>3. QED
    BY <2>2 DEF Elems
<1>5. ASSUME NEW x \in Elems(u)  PROVE x \in Elems(t)
  <2>1. PICK i \in 1..Len(u) : x = u[i]
    BY <1>5 DEF Elems
  <2>2. Len(s) + i \in 1..Len(t) /\ t[Len(s) + i] = x
    BY <1>1, <1>2, <2>1
  <2>3. QED
    BY <2>2 DEF Elems
<1>6. QED
  BY <1>1, <1>2, <1>3, <1>4, <1>5

\* The kinds of frames.
LEMMA FrameKinds ==
    ASSUME NEW fr \in Frame
    PROVE  /\ fr.f \in {"handler", "dispatchMessages", "sendSync"}
           /\ fr.f = "handler" => fr.c \in Endpoint /\ fr.msg \in Message
           /\ fr.f = "sendSync" => /\ fr.c \in Endpoint /\ fr.id \in Number
                                   /\ fr.pc \in {"dispatch", "check", "wait"}
           /\ fr.f = "dispatchMessages" =>
                 /\ fr.allowed \in SUBSET Endpoint /\ fr.swapped \in BOOLEAN
                 /\ fr.todo \in Seq(Received) /\ fr.putBack \in Seq(Received)
  BY DEF Frame

-----------------------------------------------------------------------------
(* Types and bounds.                                                       *)

\* TypeOK without its bound on the number of times a handler is entered.
Typed ==
    /\ conn \in [Endpoint -> ConnectionState]
    /\ main \in [Proc -> ProcState]
    /\ wire \in [Endpoint -> Seq(Message)]
    /\ result \in [Endpoint -> [Number -> {"idle", "sent", "ok", "failed"}]]
    /\ handled \in [Endpoint -> [Number -> Nat]]

\* A connection closes once when its socket ends, and once more if the first
\* readyReadHandler then finds no socket.
ClosesTwice(k) ==
    k.didClose <= (IF k.connected THEN 0 ELSE 1) + (IF "readyRead" \in k.tasks THEN 0 ELSE 1)

Bounded ==
    \A c \in Endpoint :
        /\ ClosesTwice(conn[c])
        /\ conn[c].sent <= MaxSends[c]

LEMMA Numbers ==
    /\ Number \subseteq Nat \ {0}
    /\ \A c \in Endpoint, n \in Nat : n < MaxSends[c] => n + 1 \in Number
    /\ \A n \in Number, b \in BOOLEAN, k \in {"async", "sync", "reply"} :
          [kind |-> k, id |-> n, marked |-> b] \in Message
  BY ConnectionAssumption DEF Number, Message

\* The endpoints.
LEMMA Ends2 ==
    ASSUME NEW c \in Endpoint
    PROVE  Owner[c] \in Proc /\ Peer[c] \in Endpoint /\ Peer[c] # c /\ Peer[Peer[c]] = c
  BY ConnectionAssumption

\* The fields of a connection that stay as they are when it sends a message.
SameSockets(k, l) ==
    /\ l.client = k.client /\ l.connected = k.connected /\ l.didClose = k.didClose
    /\ l.tasks = k.tasks /\ l.wq = k.wq

SameQueues(k, l) ==
    /\ l.out = k.out /\ l.incoming = k.incoming /\ l.pending = k.pending
    /\ l.secondary = k.secondary /\ l.sent = k.sent

LEMMA OutgoingFacts ==
    ASSUME NEW k \in ConnectionState, NEW m \in Message
    PROVE  /\ Outgoing(k, m) \in ConnectionState /\ SameSockets(k, Outgoing(k, m))
           /\ Outgoing(k, m).out = IF k.client THEN Append(k.out, m) ELSE k.out
           /\ Outgoing(k, m).incoming = k.incoming /\ Outgoing(k, m).pending = k.pending
           /\ Outgoing(k, m).secondary = k.secondary /\ Outgoing(k, m).sent = k.sent
<1>1. k.out \in Seq(Message) /\ Append(k.out, m) \in Seq(Message)
  BY DEF ConnectionState
<1>2. QED
  BY <1>1 DEF Outgoing, ConnectionState, SameSockets

LEMMA SendingFacts ==
    ASSUME NEW k \in ConnectionState, NEW m \in Message
    PROVE  /\ Sending(k, m) \in ConnectionState /\ SameSockets(k, Sending(k, m))
           /\ Sending(k, m).out = IF k.client THEN Append(k.out, m) ELSE k.out
           /\ Sending(k, m).incoming = k.incoming /\ Sending(k, m).pending = k.pending
           /\ Sending(k, m).secondary = k.secondary /\ Sending(k, m).sent = m.id
<1>1. PICK l : l = Outgoing(k, m)
  OBVIOUS
<1>2. m.id \in Number
  BY DEF Message
<1>3. /\ l \in ConnectionState /\ SameSockets(k, l)
      /\ l.out = IF k.client THEN Append(k.out, m) ELSE k.out
      /\ l.incoming = k.incoming /\ l.pending = k.pending
      /\ l.secondary = k.secondary /\ l.sent = k.sent
  BY <1>1, OutgoingFacts
<1>4. Sending(k, m) = [l EXCEPT !.sent = m.id]
  BY <1>1 DEF Sending
<1>5. QED
  BY <1>2, <1>3, <1>4 DEF ConnectionState, SameSockets

LEMMA ExpectingFacts ==
    ASSUME NEW k \in ConnectionState, NEW n \in Number
    PROVE  /\ Expecting(k, n) \in ConnectionState /\ SameSockets(k, Expecting(k, n))
           /\ Expecting(k, n).pending = Append(k.pending, [id |-> n, didReceiveReply |-> FALSE])
           /\ Expecting(k, n).out = k.out /\ Expecting(k, n).incoming = k.incoming
           /\ Expecting(k, n).secondary = k.secondary /\ Expecting(k, n).sent = k.sent
<1>1. /\ k.pending \in Seq(PendingSyncReply)
      /\ Append(k.pending, [id |-> n, didReceiveReply |-> FALSE]) \in Seq(PendingSyncReply)
  BY DEF ConnectionState, PendingSyncReply
<1>2. QED
  BY <1>1 DEF Expecting, ConnectionState, SameSockets

LEMMA ClosedFacts ==
    ASSUME NEW k \in ConnectionState, NEW done \in SUBSET {"readyRead"}, ClosesTwice(k),
           \/ k.connected /\ done = {}
           \/ "readyRead" \in k.tasks /\ done = {"readyRead"} /\ ~k.connected
    PROVE  /\ Closed(k, done) \in ConnectionState /\ ClosesTwice(Closed(k, done))
           /\ Closed(k, done).didClose = k.didClose + 1 /\ Closed(k, done).wq = "post"
           /\ Closed(k, done).out = k.out /\ Closed(k, done).incoming = k.incoming
           /\ Closed(k, done).pending = k.pending /\ Closed(k, done).sent = k.sent
           /\ Closed(k, done).secondary = Signalled(k.secondary)
<1>1. Signalled(k.secondary) \in Secondary
  BY DEF Signalled, Secondary, ConnectionState
<1>2. k.didClose \in 0..1 /\ k.tasks \ done \in SUBSET {"readyRead", "invalidate"}
  BY DEF ClosesTwice, ConnectionState
<1>3. /\ Closed(k, done).connected = FALSE /\ Closed(k, done).didClose = k.didClose + 1
      /\ Closed(k, done).tasks = k.tasks \ done
  BY DEF Closed, ConnectionState
<1>6. k.didClose + 1 \in 0..2
  BY <1>2
<1>7. Closed(k, done) \in ConnectionState
  BY <1>1, <1>2, <1>6 DEF Closed, ConnectionState
<1>4. ClosesTwice(Closed(k, done))
  BY <1>2, <1>3 DEF ClosesTwice, ConnectionState
<1>5. QED
  BY <1>3, <1>4, <1>7 DEF Closed, ConnectionState

-----------------------------------------------------------------------------
(* What a step does to a process, r before and t after it.                 *)

SameLoop(r, t) == t.alive = r.alive /\ t.scheduled = r.scheduled /\ t.runLoop = r.runLoop

\* Nothing but the semaphore and the replies kept.
IsStill(r, t) == SameLoop(r, t) /\ t.messages = r.messages /\ t.stack = r.stack

\* A function is called, or the innermost one returns; fr is not dispatchMessages.
IsCall(r, t, fr) ==
    /\ SameLoop(r, t) /\ t.messages = r.messages
    /\ fr \in Frame /\ fr.f # "dispatchMessages" /\ t.stack = Push(fr, r.stack)

IsReturn(r, t) ==
    /\ SameLoop(r, t) /\ t.messages = r.messages
    /\ r.stack # <<>> /\ Head(r.stack).f # "dispatchMessages" /\ t.stack = Tail(r.stack)

\* waitForSyncReply goes on to x.
IsTurn(r, t, x) ==
    /\ SameLoop(r, t) /\ t.messages = r.messages /\ t.delayed = r.delayed
    /\ r.stack # <<>> /\ Head(r.stack).f = "sendSync"
    /\ \E g \in Frame :
          /\ g.f = "sendSync" /\ g.c = Head(r.stack).c /\ g.id = Head(r.stack).id /\ g.pc = x
          /\ t.stack = Push(g, Tail(r.stack))

\* dispatchMessages goes on with other messages to do and to put back.
GoesOn(fr, g, todo, putBack) ==
    /\ g \in Frame /\ g.f = "dispatchMessages" /\ g.allowed = fr.allowed /\ g.swapped
    /\ g.todo = todo /\ g.putBack = putBack

IsSwap(r, t) ==
    /\ SameLoop(r, t) /\ t.messages = <<>> /\ t.delayed = r.delayed /\ t.semaphore = r.semaphore
    /\ r.stack # <<>> /\ Head(r.stack).f = "dispatchMessages" /\ ~Head(r.stack).swapped
    /\ \E g : /\ GoesOn(Head(r.stack), g, r.messages, Head(r.stack).putBack)
              /\ t.stack = Push(g, Tail(r.stack))

InLoop(r) ==
    /\ r.stack # <<>> /\ Head(r.stack).f = "dispatchMessages"
    /\ Head(r.stack).swapped /\ Head(r.stack).todo # <<>>

IsTake(r, t) ==
    /\ SameLoop(r, t) /\ t.messages = r.messages /\ t.delayed = r.delayed
    /\ t.semaphore = r.semaphore
    /\ InLoop(r) /\ Head(Head(r.stack).todo).c \in Head(r.stack).allowed
    /\ \E g : /\ GoesOn(Head(r.stack), g, Tail(Head(r.stack).todo), Head(r.stack).putBack)
              /\ t.stack = Push(g, Tail(r.stack))

IsSkip(r, t) ==
    /\ SameLoop(r, t) /\ t.messages = r.messages /\ t.delayed = r.delayed
    /\ t.semaphore = r.semaphore
    /\ InLoop(r) /\ Head(Head(r.stack).todo).c \notin Head(r.stack).allowed
    /\ \E g : /\ GoesOn(Head(r.stack), g, Tail(Head(r.stack).todo),
                        Append(Head(r.stack).putBack, Head(Head(r.stack).todo)))
              /\ t.stack = Push(g, Tail(r.stack))

IsPutBack(r, t) ==
    /\ SameLoop(r, t) /\ t.delayed = r.delayed /\ t.semaphore = r.semaphore
    /\ r.stack # <<>> /\ Head(r.stack).f = "dispatchMessages"
    /\ Head(r.stack).swapped /\ Head(r.stack).todo = <<>>
    /\ t.messages = r.messages \o Head(r.stack).putBack /\ t.stack = Tail(r.stack)

\* waitForSyncReply calls dispatchMessages.
IsWaitDispatch(r, t) ==
    /\ SameLoop(r, t) /\ t.messages = <<>> /\ t.delayed = r.delayed
    /\ t.semaphore = r.semaphore
    /\ r.stack # <<>> /\ Head(r.stack).f = "sendSync" /\ Head(r.stack).pc = "dispatch"
    /\ \E g \in Frame, h \in Frame :
          /\ g.f = "sendSync" /\ g.c = Head(r.stack).c /\ g.id = Head(r.stack).id
          /\ g.pc = "check"
          /\ h.f = "dispatchMessages" /\ h.allowed = Endpoint /\ h.swapped
          /\ h.todo = r.messages /\ h.putBack = <<>>
          /\ t.stack = Push(h, Push(g, Tail(r.stack)))

\* The run loop takes its next function; dispatchMessages starts.
IsRun(r, t) ==
    /\ r.stack = <<>> /\ r.runLoop # <<>> /\ t.alive = r.alive /\ t.runLoop = Tail(r.runLoop)
    /\ t.messages = r.messages /\ t.delayed = r.delayed /\ t.semaphore = r.semaphore

IsRunOther(r, t) ==
    /\ IsRun(r, t) /\ Head(r.runLoop).f # "dispatchMessages"
    /\ t.scheduled = r.scheduled /\ t.stack = r.stack

IsRunAll(r, t) ==
    /\ IsRun(r, t) /\ Head(r.runLoop).f = "dispatchMessages"
    /\ t.scheduled = r.scheduled \ {Head(r.runLoop).c}
    /\ \E g \in Frame : /\ g.f = "dispatchMessages" /\ g.allowed = {Head(r.runLoop).c}
                        /\ ~g.swapped /\ g.todo = <<>> /\ g.putBack = <<>>
                        /\ t.stack = Push(g, r.stack)

\* The work queue posts a function, or queues a marked message.
IsPost(r, t, fn) ==
    /\ t.alive = r.alive /\ t.scheduled = r.scheduled /\ t.messages = r.messages
    /\ t.stack = r.stack /\ t.delayed = r.delayed /\ t.semaphore = r.semaphore
    /\ fn \in Function /\ fn.f # "dispatchMessages" /\ t.runLoop = Append(r.runLoop, fn)

AllOf(c) == [f |-> "dispatchMessages", c |-> c]
OneOf(c) == [f |-> "dispatchOneMessage", c |-> c]

IsQueue(r, t, x) ==
    /\ t.alive = r.alive /\ t.stack = r.stack /\ t.delayed = r.delayed
    /\ t.semaphore = r.semaphore /\ x \in Received
    /\ t.messages = Append(r.messages, x) /\ t.scheduled = r.scheduled \cup {x.c}
    /\ t.runLoop = IF x.c \in r.scheduled THEN r.runLoop ELSE Append(r.runLoop, AllOf(x.c))

\* The process is gone.
IsEnd(t) ==
    /\ ~t.alive /\ t.messages = <<>> /\ t.scheduled = {} /\ ~t.semaphore
    /\ t.runLoop = <<>> /\ t.stack = <<>> /\ t.delayed = {}

-----------------------------------------------------------------------------
(* What each action does, in these terms.                                  *)

OnlyProc(p) == \A q \in Proc \ {p} : main'[q] = main[q]
OnlyConn(c) == \A d \in Endpoint \ {c} : conn'[d] = conn[d]

\* One connection and one process change, and keep their types.
LEMMA ConnSet ==
    ASSUME Typed, Bounded, NEW c \in Endpoint, NEW k \in ConnectionState,
           conn' = [conn EXCEPT ![c] = k], ClosesTwice(k), k.sent <= MaxSends[c]
    PROVE  /\ conn' \in [Endpoint -> ConnectionState] /\ conn'[c] = k /\ OnlyConn(c) /\ Bounded'
<1>1. /\ conn' \in [Endpoint -> ConnectionState] /\ conn'[c] = k
      /\ \A d \in Endpoint \ {c} : conn'[d] = conn[d]
  BY DEF Typed
<1>2. ASSUME NEW d \in Endpoint  PROVE ClosesTwice(conn'[d]) /\ conn'[d].sent <= MaxSends[d]
  BY <1>1 DEF Bounded
<1>3. QED
  BY <1>1, <1>2 DEF Bounded, OnlyConn, ClosesTwice

LEMMA MainSet ==
    ASSUME Typed, NEW p \in Proc, NEW t \in ProcState, main' = [main EXCEPT ![p] = t]
    PROVE  main' \in [Proc -> ProcState] /\ main'[p] = t /\ OnlyProc(p)
  BY DEF Typed, OnlyProc

LEMMA SameTwice ==
    ASSUME NEW k, NEW l, SameSockets(k, l)
    PROVE  ClosesTwice(k) <=> ClosesTwice(l)
  BY DEF SameSockets, ClosesTwice

\* NewMessage.
LEMMA NewMessageFacts ==
    ASSUME Typed, NEW c \in Endpoint, conn[c].sent < MaxSends[c],
           NEW k \in {"async", "sync"}, NEW b \in BOOLEAN
    PROVE  /\ NewMessage(c, k, b) \in Message /\ NewMessage(c, k, b).kind = k
           /\ NewMessage(c, k, b).id = conn[c].sent + 1 /\ NewMessage(c, k, b).marked = b
           /\ conn[c].sent \in Nat /\ conn[c].sent + 1 \in Number /\ conn[c].sent + 1 <= MaxSends[c]
<1>4. conn[c].sent \in Number \cup {0} /\ MaxSends[c] \in Nat
  BY ConnectionAssumption DEF Typed, ConnectionState
<1>5. \A x : x \in Number \cup {0} => x \in Nat
  BY Numbers
<1>1. conn[c].sent \in Nat /\ MaxSends[c] \in Nat
  BY <1>4, <1>5, Zenon
<1>2. conn[c].sent + 1 \in Number /\ conn[c].sent + 1 <= MaxSends[c]
  BY <1>1, Numbers
<1>3. QED
  BY <1>1, <1>2, Numbers DEF NewMessage

\* A message is sent on c.
IsSent(c, m) ==
    /\ m \in Message /\ m.id = conn[c].sent + 1
    /\ conn'[c].out = Append(conn[c].out, m) /\ conn'[c].sent = m.id
    /\ conn'[c].incoming = conn[c].incoming

LEMMA FormSendAsync ==
    ASSUME Typed, Bounded, NEW c \in Endpoint, NEW flag \in SendFlags, SendAsync(c, flag)
    PROVE  /\ Typed' /\ Bounded' /\ OnlyConn(c) /\ UNCHANGED <<main, wire, result, handled>>
           /\ \E m : IsSent(c, m) /\ m.kind = "async"
           /\ SameSockets(conn[c], conn'[c]) /\ conn'[c].pending = conn[c].pending
           /\ conn'[c].secondary = conn[c].secondary
<1>1. (flag /\ Marks(c)) \in BOOLEAN
  BY DEF Marks
<1>2. PICK m : m = NewMessage(c, "async", flag /\ Marks(c))
  OBVIOUS
<1>3. m \in Message /\ m.kind = "async" /\ m.id = conn[c].sent + 1 /\ m.id <= MaxSends[c]
  BY <1>1, <1>2, NewMessageFacts DEF SendAsync
<1>4. conn[c] \in ConnectionState /\ conn[c].client
  BY DEF Typed, SendAsync
<1>5. PICK k : k = Sending(conn[c], m)
  OBVIOUS
<1>6. /\ k \in ConnectionState /\ SameSockets(conn[c], k)
      /\ k.out = Append(conn[c].out, m) /\ k.incoming = conn[c].incoming
      /\ k.pending = conn[c].pending /\ k.secondary = conn[c].secondary /\ k.sent = m.id
  BY <1>3, <1>4, <1>5, SendingFacts
<1>7. ClosesTwice(k) /\ k.sent <= MaxSends[c]
  BY <1>3, <1>6, SameTwice DEF Bounded
<1>8. conn' = [conn EXCEPT ![c] = k] /\ UNCHANGED <<main, wire, result, handled>>
  BY <1>2, <1>5 DEF SendAsync
<1>9. conn' \in [Endpoint -> ConnectionState] /\ conn'[c] = k /\ OnlyConn(c) /\ Bounded'
  BY <1>6, <1>7, <1>8, ConnSet
<1>10. QED
  BY <1>3, <1>6, <1>8, <1>9 DEF Typed, IsSent

LEMMA FormSendSync ==
    ASSUME Typed, Bounded, NEW c \in Endpoint, SendSync(c)
    PROVE  /\ Typed' /\ Bounded' /\ OnlyConn(c) /\ OnlyProc(Owner[c]) /\ UNCHANGED <<wire, handled>>
           /\ \E m : IsSent(c, m) /\ m.kind = "sync"
           /\ SameSockets(conn[c], conn'[c]) /\ conn'[c].secondary = conn[c].secondary
           /\ conn'[c].pending =
                 Append(conn[c].pending, [id |-> conn[c].sent + 1, didReceiveReply |-> FALSE])
           /\ \E fr \in Frame :
                 /\ fr.f = "sendSync" /\ fr.c = c /\ fr.id = conn[c].sent + 1 /\ fr.pc = "dispatch"
                 /\ IsCall(main[Owner[c]], main'[Owner[c]], fr)
           /\ main'[Owner[c]].delayed = main[Owner[c]].delayed
           /\ main'[Owner[c]].semaphore = main[Owner[c]].semaphore
           /\ conn[c].sent + 1 \in Number
           /\ result' = [result EXCEPT ![c][conn[c].sent + 1] = "sent"]
<1>1. Marks(c) \in BOOLEAN
  BY DEF Marks
<1>2. PICK m : m = NewMessage(c, "sync", Marks(c))
  OBVIOUS
<1>3. /\ m \in Message /\ m.kind = "sync" /\ m.id = conn[c].sent + 1 /\ m.id <= MaxSends[c]
      /\ m.id \in Number
  BY <1>1, <1>2, NewMessageFacts DEF SendSync
<1>4. conn[c] \in ConnectionState /\ conn[c].client
  BY DEF Typed, SendSync
<1>5. PICK l : l = Sending(conn[c], m)
  OBVIOUS
<1>6. /\ l \in ConnectionState /\ SameSockets(conn[c], l)
      /\ l.out = Append(conn[c].out, m) /\ l.incoming = conn[c].incoming
      /\ l.pending = conn[c].pending /\ l.secondary = conn[c].secondary /\ l.sent = m.id
  BY <1>3, <1>4, <1>5, SendingFacts
<1>7. PICK k : k = Expecting(l, m.id)
  OBVIOUS
<1>8. /\ k \in ConnectionState /\ SameSockets(l, k)
      /\ k.pending = Append(l.pending, [id |-> m.id, didReceiveReply |-> FALSE])
      /\ k.out = l.out /\ k.incoming = l.incoming /\ k.secondary = l.secondary /\ k.sent = l.sent
  BY <1>3, <1>6, <1>7, ExpectingFacts
<1>9. ClosesTwice(k) /\ k.sent <= MaxSends[c]
  BY <1>3, <1>6, <1>8, SameTwice DEF Bounded
<1>10. PICK fr : fr = [f |-> "sendSync", c |-> c, id |-> m.id, pc |-> "dispatch"]
  OBVIOUS
<1>11. /\ conn' = [conn EXCEPT ![c] = k] /\ UNCHANGED <<wire, handled>>
       /\ main' = [main EXCEPT ![Owner[c]].stack = Push(fr, main[Owner[c]].stack)]
       /\ result' = [result EXCEPT ![c][m.id] = "sent"]
  BY <1>2, <1>5, <1>7, <1>10 DEF SendSync
<1>12. conn' \in [Endpoint -> ConnectionState] /\ conn'[c] = k /\ OnlyConn(c) /\ Bounded'
  BY <1>8, <1>9, <1>11, ConnSet
<1>13. /\ fr \in Frame /\ fr.f = "sendSync" /\ fr.c = c /\ fr.id = conn[c].sent + 1
       /\ fr.pc = "dispatch"
  BY <1>3, <1>10 DEF Frame
<1>14. PICK r : r = main[Owner[c]]
  OBVIOUS
<1>15. Owner[c] \in Proc /\ r \in ProcState /\ r.stack \in Seq(Frame)
  BY <1>14, Ends2 DEF Typed, ProcState
<1>16. PICK t : t = [r EXCEPT !.stack = Push(fr, r.stack)]
  OBVIOUS
<1>17. Push(fr, r.stack) \in Seq(Frame)
  BY <1>13, <1>15, PushFacts
<1>18. t \in ProcState /\ IsCall(r, t, fr) /\ t.delayed = r.delayed /\ t.semaphore = r.semaphore
  BY <1>13, <1>15, <1>16, <1>17 DEF ProcState, IsCall, SameLoop
<1>19. main' = [main EXCEPT ![Owner[c]] = t]
  BY <1>11, <1>14, <1>16
<1>20. main' \in [Proc -> ProcState] /\ main'[Owner[c]] = t /\ OnlyProc(Owner[c])
  BY <1>15, <1>18, <1>19, MainSet
<1>21. result' \in [Endpoint -> [Number -> {"idle", "sent", "ok", "failed"}]]
  BY <1>3, <1>11 DEF Typed
<1>22. Typed'
  BY <1>11, <1>12, <1>20, <1>21 DEF Typed
<1>23. SameSockets(conn[c], conn'[c])
  BY <1>6, <1>8, <1>12 DEF SameSockets
<1>24. IsSent(c, m)
  BY <1>3, <1>6, <1>8, <1>12 DEF IsSent
<1>25. \E f \in Frame :
                 /\ f.f = "sendSync" /\ f.c = c /\ f.id = conn[c].sent + 1 /\ f.pc = "dispatch"
                 /\ IsCall(main[Owner[c]], main'[Owner[c]], f)
  BY <1>13, <1>14, <1>18, <1>20
<1>26. conn'[c].pending =
                 Append(conn[c].pending, [id |-> conn[c].sent + 1, didReceiveReply |-> FALSE])
  BY <1>3, <1>6, <1>8, <1>12
<1>27. QED
  BY <1>3, <1>6, <1>8, <1>11, <1>12, <1>14, <1>18, <1>20, <1>22, <1>23, <1>24, <1>25, <1>26

\* A message that cannot be sent.
LEMMA FormSendSyncFails ==
    ASSUME Typed, Bounded, NEW c \in Endpoint, SendSyncFails(c), c \notin ExitOnFailure
    PROVE  /\ Typed' /\ Bounded' /\ OnlyConn(c) /\ UNCHANGED <<main, wire, handled>>
           /\ SameSockets(conn[c], conn'[c]) /\ conn'[c].out = conn[c].out
           /\ conn'[c].incoming = conn[c].incoming /\ conn'[c].pending = conn[c].pending
           /\ conn'[c].secondary = conn[c].secondary /\ conn'[c].sent = conn[c].sent + 1
           /\ conn[c].sent + 1 \in Number
           /\ result' = [result EXCEPT ![c][conn[c].sent + 1] = "failed"]
<1>1. /\ conn[c].sent \in Nat /\ conn[c].sent + 1 \in Number /\ conn[c].sent + 1 <= MaxSends[c]
      /\ conn[c] \in ConnectionState
  BY NewMessageFacts DEF SendSyncFails, Typed
<1>2. PICK k : k = [conn[c] EXCEPT !.sent = conn[c].sent + 1]
  OBVIOUS
<1>3. /\ k \in ConnectionState /\ SameSockets(conn[c], k) /\ k.out = conn[c].out
      /\ k.incoming = conn[c].incoming /\ k.pending = conn[c].pending
      /\ k.secondary = conn[c].secondary /\ k.sent = conn[c].sent + 1
  BY <1>1, <1>2 DEF ConnectionState, SameSockets
<1>4. /\ conn' = [conn EXCEPT ![c] = k] /\ UNCHANGED <<main, wire, handled>>
      /\ result' = [result EXCEPT ![c][conn[c].sent + 1] = "failed"]
  BY <1>2 DEF SendSyncFails
<1>5. ClosesTwice(k) /\ k.sent <= MaxSends[c]
  BY <1>1, <1>3, SameTwice DEF Bounded
<1>6. conn' \in [Endpoint -> ConnectionState] /\ conn'[c] = k /\ OnlyConn(c) /\ Bounded'
  BY <1>3, <1>4, <1>5, ConnSet
<1>7. result' \in [Endpoint -> [Number -> {"idle", "sent", "ok", "failed"}]]
  BY <1>1, <1>4 DEF Typed
<1>8. QED
  BY <1>1, <1>3, <1>4, <1>6, <1>7 DEF Typed

LEMMA FormInvalidate ==
    ASSUME Typed, Bounded, NEW c \in Endpoint, Invalidate(c)
    PROVE  /\ Typed' /\ Bounded' /\ OnlyConn(c) /\ UNCHANGED <<main, wire, result, handled>>
           /\ SameQueues(conn[c], conn'[c]) /\ conn'[c].didClose = conn[c].didClose
           /\ conn'[c].wq = conn[c].wq
<1>1. conn[c] \in ConnectionState /\ conn[c].tasks \in SUBSET {"readyRead", "invalidate"}
  BY DEF Typed, ConnectionState
<1>2. PICK k : k = [conn[c] EXCEPT !.client = FALSE, !.tasks = conn[c].tasks \cup {"invalidate"}]
  OBVIOUS
<1>3. /\ k \in ConnectionState /\ SameQueues(conn[c], k) /\ k.didClose = conn[c].didClose
      /\ k.wq = conn[c].wq /\ k.connected = conn[c].connected /\ k.sent = conn[c].sent
      /\ k.tasks = conn[c].tasks \cup {"invalidate"}
  BY <1>1, <1>2 DEF ConnectionState, SameQueues
<1>4. conn' = [conn EXCEPT ![c] = k] /\ UNCHANGED <<main, wire, result, handled>>
  BY <1>2 DEF Invalidate
<1>5. ClosesTwice(k) /\ k.sent <= MaxSends[c]
  BY <1>3 DEF Bounded, ClosesTwice
<1>6. conn' \in [Endpoint -> ConnectionState] /\ conn'[c] = k /\ OnlyConn(c) /\ Bounded'
  BY <1>3, <1>4, <1>5, ConnSet
<1>7. QED
  BY <1>3, <1>4, <1>6 DEF Typed

\* The reply to message n is sent on c, unless its client is gone.
IsReplied(c, n) ==
    /\ OnlyConn(c) /\ SameSockets(conn[c], conn'[c])
    /\ conn'[c].out = conn[c].out \/ conn'[c].out = Append(conn[c].out, SyncReply(n))
    /\ conn'[c].incoming = conn[c].incoming /\ conn'[c].pending = conn[c].pending
    /\ conn'[c].secondary = conn[c].secondary /\ conn'[c].sent = conn[c].sent

LEMMA FormReply ==
    ASSUME Typed, Bounded, NEW c \in Endpoint, NEW n \in Number,
           conn' = [conn EXCEPT ![c] = Outgoing(conn[c], SyncReply(n))]
    PROVE  /\ IsReplied(c, n) /\ Bounded' /\ conn' \in [Endpoint -> ConnectionState]
<1>1. SyncReply(n) \in Message /\ conn[c] \in ConnectionState
  BY Numbers DEF SyncReply, Typed
<1>2. PICK k : k = Outgoing(conn[c], SyncReply(n))
  OBVIOUS
<1>3. /\ k \in ConnectionState /\ SameSockets(conn[c], k)
      /\ k.out = IF conn[c].client THEN Append(conn[c].out, SyncReply(n)) ELSE conn[c].out
      /\ k.incoming = conn[c].incoming /\ k.pending = conn[c].pending
      /\ k.secondary = conn[c].secondary /\ k.sent = conn[c].sent
  BY <1>1, <1>2, OutgoingFacts
<1>4. ClosesTwice(k) /\ k.sent <= MaxSends[c]
  BY <1>3, SameTwice DEF Bounded
<1>5. conn' \in [Endpoint -> ConnectionState] /\ conn'[c] = k /\ OnlyConn(c) /\ Bounded'
  BY <1>2, <1>3, <1>4, ConnSet
<1>6. QED
  BY <1>3, <1>5 DEF IsReplied

\* Facts of a process whose innermost frame is known.
LEMMA InFacts ==
    ASSUME Typed, NEW p \in Proc, NEW f, In(p, f)
    PROVE  /\ main[p] \in ProcState /\ main[p].stack \in Seq(Frame) /\ main[p].stack # <<>>
           /\ Head(main[p].stack) \in Frame /\ Head(main[p].stack).f = f
           /\ Tail(main[p].stack) \in Seq(Frame) /\ main[p].alive
           /\ Top(p) = Head(main[p].stack) /\ main[p].messages \in Seq(Received)
           /\ main[p].delayed \in SUBSET (Endpoint \X Number)
<1>1. main[p] \in ProcState /\ main[p].stack \in Seq(Frame) /\ main[p].stack # <<>> /\ main[p].alive
      /\ Top(p).f = f /\ main[p].messages \in Seq(Received)
      /\ main[p].delayed \in SUBSET (Endpoint \X Number)
  BY DEF Typed, ProcState, In
<1>2. Head(main[p].stack) \in Frame /\ Tail(main[p].stack) \in Seq(Frame)
  BY <1>1, PushTail
<1>3. QED
  BY <1>1, <1>2 DEF Top

LEMMA FormHandlerReturns ==
    ASSUME Typed, Bounded, NEW p \in Proc, NEW keep \in BOOLEAN, HandlerReturns(p, keep)
    PROVE  /\ Typed' /\ Bounded' /\ OnlyProc(p) /\ UNCHANGED <<wire, result, handled>>
           /\ IsReturn(main[p], main'[p]) /\ Head(main[p].stack).f = "handler"
           /\ main'[p].semaphore = main[p].semaphore
           /\ IF Head(main[p].stack).msg.kind = "sync" /\ ~keep
              THEN /\ IsReplied(Head(main[p].stack).c, Head(main[p].stack).msg.id)
                   /\ main'[p].delayed = main[p].delayed
              ELSE /\ conn' = conn
                   /\ \/ main'[p].delayed = main[p].delayed
                      \/ /\ Head(main[p].stack).msg.kind = "sync"
                         /\ main'[p].delayed = main[p].delayed \cup
                               {<<Head(main[p].stack).c, Head(main[p].stack).msg.id>>}
<1>1. /\ main[p] \in ProcState /\ main[p].stack \in Seq(Frame) /\ main[p].stack # <<>>
      /\ Head(main[p].stack) \in Frame /\ Head(main[p].stack).f = "handler"
      /\ Tail(main[p].stack) \in Seq(Frame)
      /\ Top(p) = Head(main[p].stack) /\ main[p].delayed \in SUBSET (Endpoint \X Number)
  BY InFacts DEF HandlerReturns
<1>2. PICK fr : fr = Head(main[p].stack)
  OBVIOUS
<1>3. fr.c \in Endpoint /\ fr.msg \in Message /\ fr.msg.id \in Number
  BY <1>1, <1>2, FrameKinds DEF Message
<1>4. PICK d : d = IF keep THEN main[p].delayed \cup {<<fr.c, fr.msg.id>>} ELSE main[p].delayed
  OBVIOUS
<1>5. d \in SUBSET (Endpoint \X Number)
  BY <1>1, <1>3, <1>4
<1>6. PICK t : t = [main[p] EXCEPT !.stack = Tail(main[p].stack), !.delayed = d]
  OBVIOUS
<1>7. t \in ProcState /\ IsReturn(main[p], t) /\ t.delayed = d /\ t.semaphore = main[p].semaphore
  BY <1>1, <1>5, <1>6 DEF ProcState, IsReturn, SameLoop
<1>8. main' = [main EXCEPT ![p] = t]
  BY <1>1, <1>2, <1>4, <1>6 DEF HandlerReturns
<1>9. main' \in [Proc -> ProcState] /\ main'[p] = t /\ OnlyProc(p)
  BY <1>7, <1>8, MainSet
<1>10. /\ conn' = (IF fr.msg.kind = "sync" /\ ~keep
                   THEN [conn EXCEPT ![fr.c] = Outgoing(conn[fr.c], SyncReply(fr.msg.id))]
                   ELSE conn)
       /\ keep => fr.msg.kind = "sync"
       /\ UNCHANGED <<wire, result, handled>>
  BY <1>1, <1>2, <1>3 DEF HandlerReturns, Typed
<1>11. CASE fr.msg.kind = "sync" /\ ~keep
  <2>1. conn' = [conn EXCEPT ![fr.c] = Outgoing(conn[fr.c], SyncReply(fr.msg.id))]
    BY <1>10, <1>11
  <2>2. IsReplied(fr.c, fr.msg.id) /\ Bounded' /\ conn' \in [Endpoint -> ConnectionState]
    BY <1>3, <2>1, FormReply
  <2>3. Typed'
    BY <1>9, <1>10, <2>2 DEF Typed
  <2>4. main'[p].delayed = main[p].delayed
    BY <1>4, <1>7, <1>9, <1>11
  <2>5. QED
    BY <1>1, <1>2, <1>7, <1>9, <1>10, <1>11, <2>2, <2>3, <2>4
<1>12. CASE ~(fr.msg.kind = "sync" /\ ~keep)
  <2>1. conn' = conn
    BY <1>10, <1>12
  <2>2. Typed' /\ Bounded'
    BY <1>9, <1>10, <2>1 DEF Typed, Bounded
  <2>3. \/ main'[p].delayed = main[p].delayed
        \/ fr.msg.kind = "sync" /\ main'[p].delayed = main[p].delayed \cup {<<fr.c, fr.msg.id>>}
    BY <1>4, <1>7, <1>9, <1>10
  <2>4. QED
    BY <1>1, <1>2, <1>7, <1>9, <1>10, <1>12, <2>1, <2>2, <2>3
<1>13. QED
  BY <1>11, <1>12

LEMMA FormSendDelayedReply ==
    ASSUME Typed, Bounded, NEW p \in Proc, SendDelayedReply(p)
    PROVE  /\ Typed' /\ Bounded' /\ OnlyProc(p) /\ UNCHANGED <<wire, result, handled>>
           /\ IsStill(main[p], main'[p]) /\ main'[p].semaphore = main[p].semaphore
           /\ \E c \in Endpoint, n \in Number :
                 /\ <<c, n>> \in main[p].delayed /\ main'[p].delayed = main[p].delayed \ {<<c, n>>}
                 /\ IsReplied(c, n)
<1>1. main[p] \in ProcState /\ main[p].delayed \in SUBSET (Endpoint \X Number)
  BY DEF Typed, ProcState
<1>2. PICK d \in main[p].delayed :
          /\ main' = [main EXCEPT ![p].delayed = @ \ {d}]
          /\ conn' = [conn EXCEPT ![d[1]] = Outgoing(@, SyncReply(d[2]))]
  BY DEF SendDelayedReply
<1>3. PICK c \in Endpoint, n \in Number : d = <<c, n>>
  BY <1>1, <1>2
<1>4. conn' = [conn EXCEPT ![c] = Outgoing(conn[c], SyncReply(n))]
  BY <1>2, <1>3
<1>5. IsReplied(c, n) /\ Bounded' /\ conn' \in [Endpoint -> ConnectionState]
  BY <1>4, FormReply
<1>6. PICK t : t = [main[p] EXCEPT !.delayed = main[p].delayed \ {d}]
  OBVIOUS
<1>7. /\ t \in ProcState /\ IsStill(main[p], t) /\ t.semaphore = main[p].semaphore
      /\ t.delayed = main[p].delayed \ {d}
  BY <1>1, <1>6 DEF ProcState, IsStill, SameLoop
<1>8. main' = [main EXCEPT ![p] = t]
  BY <1>2, <1>6
<1>9. main' \in [Proc -> ProcState] /\ main'[p] = t /\ OnlyProc(p)
  BY <1>7, <1>8, MainSet
<1>10. UNCHANGED <<wire, result, handled>>
  BY DEF SendDelayedReply
<1>11. Typed'
  BY <1>5, <1>9, <1>10 DEF Typed
<1>12. QED
  BY <1>2, <1>3, <1>5, <1>7, <1>9, <1>10, <1>11

\* A step of the main thread that leaves everything else alone.
LEMMA MainOnly ==
    ASSUME Typed, Bounded, NEW p \in Proc, NEW t \in ProcState, main' = [main EXCEPT ![p] = t],
           UNCHANGED <<conn, wire, result, handled>>
    PROVE  Typed' /\ Bounded' /\ OnlyProc(p) /\ main'[p] = t
<1>1. main' \in [Proc -> ProcState] /\ main'[p] = t /\ OnlyProc(p)
  BY MainSet
<1>2. QED
  BY <1>1 DEF Typed, Bounded

LEMMA FormSwapMessages ==
    ASSUME Typed, Bounded, NEW p \in Proc, SwapMessages(p)
    PROVE  /\ Typed' /\ Bounded' /\ OnlyProc(p) /\ UNCHANGED <<conn, wire, result, handled>>
           /\ IsSwap(main[p], main'[p])
<1>1. /\ main[p] \in ProcState /\ main[p].stack \in Seq(Frame) /\ main[p].stack # <<>>
      /\ Head(main[p].stack) \in Frame /\ Head(main[p].stack).f = "dispatchMessages"
      /\ Tail(main[p].stack) \in Seq(Frame) /\ ~Head(main[p].stack).swapped
      /\ Top(p) = Head(main[p].stack) /\ main[p].messages \in Seq(Received)
  BY InFacts DEF SwapMessages
<1>2. PICK r, fr : r = main[p] /\ fr = Head(main[p].stack)
  OBVIOUS
<1>3. PICK g : g = [fr EXCEPT !.swapped = TRUE, !.todo = r.messages]
  OBVIOUS
<1>4. GoesOn(fr, g, r.messages, fr.putBack)
  BY <1>1, <1>2, <1>3 DEF Frame, GoesOn
<1>5. g \in Frame
  BY <1>4 DEF GoesOn
<1>6. /\ Retop(g, r.stack) = Push(g, Tail(r.stack)) /\ Push(g, Tail(r.stack)) \in Seq(Frame)
      /\ <<>> \in Seq(Received)
  BY <1>1, <1>2, <1>5, RetopFacts
<1>7. PICK t : t = [r EXCEPT !.stack = Push(g, Tail(r.stack)), !.messages = <<>>]
  OBVIOUS
<1>8. /\ t \in ProcState /\ SameLoop(r, t) /\ t.messages = <<>> /\ t.delayed = r.delayed
      /\ t.semaphore = r.semaphore /\ t.stack = Push(g, Tail(r.stack))
  BY <1>1, <1>2, <1>6, <1>7 DEF ProcState, SameLoop
<1>9. IsSwap(r, t)
  BY <1>1, <1>2, <1>4, <1>8 DEF IsSwap
<1>10. main' = [main EXCEPT ![p] = t] /\ UNCHANGED <<conn, wire, result, handled>>
  BY <1>1, <1>2, <1>3, <1>6, <1>7 DEF SwapMessages
<1>11. QED
  BY <1>2, <1>8, <1>9, <1>10, MainOnly

LEMMA FormPutBackMessages ==
    ASSUME Typed, Bounded, NEW p \in Proc, PutBackMessages(p)
    PROVE  /\ Typed' /\ Bounded' /\ OnlyProc(p) /\ UNCHANGED <<conn, wire, result, handled>>
           /\ IsPutBack(main[p], main'[p])
<1>1. /\ main[p] \in ProcState /\ main[p].stack \in Seq(Frame) /\ main[p].stack # <<>>
      /\ Head(main[p].stack) \in Frame /\ Head(main[p].stack).f = "dispatchMessages"
      /\ Tail(main[p].stack) \in Seq(Frame) /\ Head(main[p].stack).swapped
      /\ Head(main[p].stack).todo = <<>>
      /\ Top(p) = Head(main[p].stack) /\ main[p].messages \in Seq(Received)
  BY InFacts DEF PutBackMessages
<1>2. PICK r, fr : r = main[p] /\ fr = Head(main[p].stack)
  OBVIOUS
<1>3. fr.putBack \in Seq(Received)
  BY <1>1, <1>2, FrameKinds
<1>4. r.messages \o fr.putBack \in Seq(Received)
  BY <1>1, <1>2, <1>3
<1>5. PICK t : t = [r EXCEPT !.stack = Tail(r.stack), !.messages = r.messages \o fr.putBack]
  OBVIOUS
<1>6. t \in ProcState /\ IsPutBack(r, t)
  BY <1>1, <1>2, <1>4, <1>5 DEF ProcState, IsPutBack, SameLoop
<1>7. main' = [main EXCEPT ![p] = t] /\ UNCHANGED <<conn, wire, result, handled>>
  BY <1>1, <1>2, <1>5 DEF PutBackMessages
<1>8. QED
  BY <1>2, <1>6, <1>7, MainOnly

LEMMA FormWaitDispatches ==
    ASSUME Typed, Bounded, NEW p \in Proc, WaitDispatches(p)
    PROVE  /\ Typed' /\ Bounded' /\ OnlyProc(p) /\ UNCHANGED <<conn, wire, result, handled>>
           /\ IsWaitDispatch(main[p], main'[p])
<1>1. /\ main[p] \in ProcState /\ main[p].stack \in Seq(Frame) /\ main[p].stack # <<>>
      /\ Head(main[p].stack) \in Frame /\ Head(main[p].stack).f = "sendSync"
      /\ Tail(main[p].stack) \in Seq(Frame) /\ Head(main[p].stack).pc = "dispatch"
      /\ Top(p) = Head(main[p].stack) /\ main[p].messages \in Seq(Received)
  BY InFacts DEF WaitDispatches
<1>2. PICK r, fr : r = main[p] /\ fr = Head(main[p].stack)
  OBVIOUS
<1>3. PICK g, h : g = [fr EXCEPT !.pc = "check"] /\ h = DispatchMessages(Endpoint, TRUE, r.messages)
  OBVIOUS
<1>4. g \in Frame /\ g.f = "sendSync" /\ g.c = fr.c /\ g.id = fr.id /\ g.pc = "check"
  BY <1>1, <1>2, <1>3 DEF Frame
<1>5. /\ h \in Frame /\ h.f = "dispatchMessages" /\ h.allowed = Endpoint /\ h.swapped
      /\ h.todo = r.messages /\ h.putBack = <<>>
  BY <1>1, <1>2, <1>3 DEF Frame, DispatchMessages
<1>6. PICK u : u = Push(g, Tail(r.stack))
  OBVIOUS
<1>7. Retop(g, r.stack) = u /\ u \in Seq(Frame)
  BY <1>1, <1>2, <1>4, <1>6, RetopFacts
<1>8. Push(h, u) \in Seq(Frame) /\ <<>> \in Seq(Received)
  BY <1>5, <1>7, PushTail
<1>9. PICK t : t = [r EXCEPT !.stack = Push(h, u), !.messages = <<>>]
  OBVIOUS
<1>10. /\ t \in ProcState /\ SameLoop(r, t) /\ t.messages = <<>> /\ t.delayed = r.delayed
       /\ t.semaphore = r.semaphore /\ t.stack = Push(h, u)
  BY <1>1, <1>2, <1>8, <1>9 DEF ProcState, SameLoop
<1>11. IsWaitDispatch(r, t)
  BY <1>1, <1>2, <1>4, <1>5, <1>6, <1>10 DEF IsWaitDispatch
<1>12. main' = [main EXCEPT ![p] = t] /\ UNCHANGED <<conn, wire, result, handled>>
  BY <1>1, <1>2, <1>3, <1>7, <1>9 DEF WaitDispatches
<1>13. QED
  BY <1>2, <1>10, <1>11, <1>12, MainOnly

LEMMA TurnFacts ==
    ASSUME NEW r \in ProcState, r.stack # <<>>, Head(r.stack).f = "sendSync",
           NEW x \in {"dispatch", "check", "wait"}, NEW b \in BOOLEAN,
           NEW t, t = [r EXCEPT !.semaphore = b,
                                !.stack = Retop([Head(r.stack) EXCEPT !.pc = x], r.stack)]
    PROVE  t \in ProcState /\ IsTurn(r, t, x) /\ t.semaphore = b
<1>1. /\ r.stack \in Seq(Frame) /\ Head(r.stack) \in Frame /\ Tail(r.stack) \in Seq(Frame)
  BY PushTail DEF ProcState
<1>2. PICK fr, g : fr = Head(r.stack) /\ g = [fr EXCEPT !.pc = x]
  OBVIOUS
<1>3. g \in Frame /\ g.f = "sendSync" /\ g.c = fr.c /\ g.id = fr.id /\ g.pc = x
  BY <1>1, <1>2 DEF Frame
<1>4. /\ Retop(g, r.stack) = Push(g, Tail(r.stack)) /\ Push(g, Tail(r.stack)) \in Seq(Frame)
  BY <1>1, <1>2, <1>3, RetopFacts
<1>5. t = [r EXCEPT !.semaphore = b, !.stack = Push(g, Tail(r.stack))]
  BY <1>2, <1>4
<1>6. /\ t \in ProcState /\ SameLoop(r, t) /\ t.messages = r.messages /\ t.delayed = r.delayed
      /\ t.semaphore = b /\ t.stack = Push(g, Tail(r.stack))
  BY <1>1, <1>4, <1>5 DEF ProcState, SameLoop
<1>7. QED
  BY <1>2, <1>3, <1>6 DEF IsTurn

LEMMA FormWaitWakes ==
    ASSUME Typed, Bounded, NEW p \in Proc, WaitWakes(p)
    PROVE  /\ Typed' /\ Bounded' /\ OnlyProc(p) /\ UNCHANGED <<conn, wire, result, handled>>
           /\ IsTurn(main[p], main'[p], "dispatch")
<1>1. /\ main[p] \in ProcState /\ main[p].stack # <<>> /\ Head(main[p].stack).f = "sendSync"
      /\ Top(p) = Head(main[p].stack)
  BY InFacts DEF WaitWakes
<1>2. PICK r, t : /\ r = main[p]
                  /\ t = [r EXCEPT !.semaphore = FALSE,
                             !.stack = Retop([Head(r.stack) EXCEPT !.pc = "dispatch"], r.stack)]
  OBVIOUS
<1>3. t \in ProcState /\ IsTurn(r, t, "dispatch")
  <2>1. PICK x \in {"dispatch", "check", "wait"}, b \in BOOLEAN : x = "dispatch" /\ b = FALSE
    OBVIOUS
  <2>2. t = [r EXCEPT !.semaphore = b, !.stack = Retop([Head(r.stack) EXCEPT !.pc = x], r.stack)]
    BY <1>2, <2>1
  <2>3. r \in ProcState /\ r.stack # <<>> /\ Head(r.stack).f = "sendSync"
    BY <1>1, <1>2
  <2>4. t \in ProcState /\ IsTurn(r, t, x)
    BY <2>2, <2>3, TurnFacts
  <2>5. QED
    BY <2>1, <2>4
<1>4. main' = [main EXCEPT ![p] = t] /\ UNCHANGED <<conn, wire, result, handled>>
  BY <1>1, <1>2 DEF WaitWakes
<1>5. QED
  BY <1>2, <1>3, <1>4, MainOnly

\* waitForSyncReply finds that it has to wait.
HasToWait(p) ==
    LET k == conn[Head(main[p].stack).c]
    IN  /\ ~k.pending[Len(k.pending)].didReceiveReply /\ k.didClose = 0 /\ k.client

LEMMA FormWaitChecks ==
    ASSUME Typed, Bounded, NEW p \in Proc, WaitChecks(p)
    PROVE  /\ main[p].stack # <<>> /\ Head(main[p].stack).f = "sendSync"
           /\ Head(main[p].stack).pc = "check"
           /\ \/ /\ Typed' /\ Bounded' /\ OnlyProc(p) /\ UNCHANGED <<conn, wire, result, handled>>
                 /\ IsTurn(main[p], main'[p], "wait") /\ HasToWait(p)
                 /\ main'[p].semaphore = main[p].semaphore
              \/ LET k == conn[Head(main[p].stack).c]
                 IN  SendSyncReturns(p, k.pending[Len(k.pending)].didReceiveReply)
<1>1. /\ main[p] \in ProcState /\ main[p].stack # <<>> /\ Head(main[p].stack).f = "sendSync"
      /\ Top(p) = Head(main[p].stack) /\ Head(main[p].stack).pc = "check"
      /\ Head(main[p].stack) \in Frame
  BY InFacts DEF WaitChecks
<1>2. PICK r : r = main[p]
  OBVIOUS
<1>3. PICK b \in BOOLEAN : b = r.semaphore
  BY <1>1, <1>2 DEF ProcState
<1>10. PICK t :
          t = [r EXCEPT !.semaphore = b, !.stack = Retop([Head(r.stack) EXCEPT !.pc = "wait"], r.stack)]
  OBVIOUS
<1>11. r \in ProcState /\ r.stack # <<>> /\ Head(r.stack).f = "sendSync"
  BY <1>1, <1>2
<1>4. t \in ProcState /\ IsTurn(r, t, "wait") /\ t.semaphore = b
  BY <1>10, <1>11, TurnFacts
<1>5. PICK k : k = conn[Head(r.stack).c]
  OBVIOUS
<1>6. Head(r.stack).c \in Endpoint /\ k.didClose \in 0..2
  BY <1>1, <1>2, <1>5, FrameKinds DEF Typed, ConnectionState
<1>7. CASE k.pending[Len(k.pending)].didReceiveReply \/ k.didClose > 0 \/ ~k.client
  BY <1>1, <1>2, <1>5, <1>7 DEF WaitChecks
<1>8. CASE ~(k.pending[Len(k.pending)].didReceiveReply \/ k.didClose > 0 \/ ~k.client)
  <2>1. /\ main' = [main EXCEPT ![p].stack = Retop([Head(r.stack) EXCEPT !.pc = "wait"], r.stack)]
        /\ UNCHANGED <<conn, wire, result, handled>>
    BY <1>1, <1>2, <1>5, <1>8 DEF WaitChecks
  <2>2. t = [r EXCEPT !.stack = Retop([Head(r.stack) EXCEPT !.pc = "wait"], r.stack)]
    BY <1>1, <1>2, <1>3, <1>10 DEF ProcState
  <2>3. main' = [main EXCEPT ![p] = t]
    BY <1>2, <2>1, <2>2
  <2>4. Typed' /\ Bounded' /\ OnlyProc(p) /\ main'[p] = t
    BY <1>4, <2>1, <2>3, MainOnly
  <2>5. k.didClose = 0
    BY <1>6, <1>8
  <2>6. HasToWait(p)
    BY <1>2, <1>5, <1>8, <2>5 DEF HasToWait
  <2>7. QED
    BY <1>1, <1>2, <1>3, <1>4, <2>1, <2>4, <2>6
<1>9. QED
  BY <1>7, <1>8

\* sendSyncMessage returns.
LEMMA FormSendSyncReturns ==
    ASSUME Typed, Bounded, NEW p \in Proc, NEW ok \in BOOLEAN,
           In(p, "sendSync"), SendSyncReturns(p, ok),
           conn[Head(main[p].stack).c].pending # <<>>
    PROVE  \/ Ends(p, {})
           \/ /\ Typed' /\ Bounded' /\ OnlyProc(p) /\ UNCHANGED <<wire, handled>>
              /\ OnlyConn(Head(main[p].stack).c)
              /\ Head(main[p].stack).f = "sendSync" /\ Head(main[p].stack) \in Frame
              /\ IsReturn(main[p], main'[p])
              /\ main'[p].semaphore = main[p].semaphore /\ main'[p].delayed = main[p].delayed
              /\ LET c == Head(main[p].stack).c
                     k == conn[c]
                     l == conn'[c]
                 IN  /\ SameSockets(k, l) /\ l.out = k.out /\ l.incoming = k.incoming
                     /\ l.secondary = k.secondary /\ l.sent = k.sent
                     /\ l.pending = SubSeq(k.pending, 1, Len(k.pending) - 1)
                     /\ result' = [result EXCEPT ![c][Head(main[p].stack).id] =
                                    IF ok THEN "ok" ELSE "failed"]
<1>1. /\ main[p] \in ProcState /\ main[p].stack \in Seq(Frame) /\ main[p].stack # <<>>
      /\ Head(main[p].stack) \in Frame /\ Head(main[p].stack).f = "sendSync"
      /\ Tail(main[p].stack) \in Seq(Frame)
      /\ Top(p) = Head(main[p].stack)
  BY InFacts
<1>2. PICK r, fr : r = main[p] /\ fr = Head(main[p].stack)
  OBVIOUS
<1>3. PICK c, n : c = fr.c /\ n = fr.id
  OBVIOUS
<1>4. c \in Endpoint /\ n \in Number
  BY <1>1, <1>2, <1>3, FrameKinds
<1>5. CASE Ends(p, {})
  BY <1>5
<1>6. CASE ~Ends(p, {})
  <2>1. /\ main' = [main EXCEPT ![p].stack = Tail(@)]
        /\ conn' = [conn EXCEPT ![c].pending = SubSeq(@, 1, Len(@) - 1)]
        /\ result' = [result EXCEPT ![c][n] = IF ok THEN "ok" ELSE "failed"]
        /\ UNCHANGED <<wire, handled>>
    BY <1>1, <1>2, <1>3, <1>6 DEF SendSyncReturns
  <2>2. PICK t : t = [r EXCEPT !.stack = Tail(r.stack)]
    OBVIOUS
  <2>3. t \in ProcState /\ IsReturn(r, t) /\ t.delayed = r.delayed /\ t.semaphore = r.semaphore
    BY <1>1, <1>2, <2>2 DEF ProcState, IsReturn, SameLoop
  <2>4. main' = [main EXCEPT ![p] = t]
    BY <1>2, <2>1, <2>2
  <2>5. main' \in [Proc -> ProcState] /\ main'[p] = t /\ OnlyProc(p)
    BY <2>3, <2>4, MainSet
  <2>6. PICK q : q = SubSeq(conn[c].pending, 1, Len(conn[c].pending) - 1)
    OBVIOUS
  <2>7. conn[c] \in ConnectionState /\ conn[c].pending \in Seq(PendingSyncReply)
    BY <1>4 DEF Typed, ConnectionState
  <2>8. q \in Seq(PendingSyncReply)
    BY <1>2, <1>3, <2>6, <2>7, FrontFacts
  <2>9. PICK k : k = [conn[c] EXCEPT !.pending = q]
    OBVIOUS
  <2>10. /\ k \in ConnectionState /\ SameSockets(conn[c], k) /\ k.out = conn[c].out
         /\ k.incoming = conn[c].incoming /\ k.secondary = conn[c].secondary
         /\ k.sent = conn[c].sent /\ k.pending = q
    BY <2>7, <2>8, <2>9 DEF ConnectionState, SameSockets
  <2>11. conn' = [conn EXCEPT ![c] = k]
    BY <2>1, <2>6, <2>9
  <2>12. ClosesTwice(k) /\ k.sent <= MaxSends[c]
    BY <1>4, <2>10, SameTwice DEF Bounded
  <2>13. conn' \in [Endpoint -> ConnectionState] /\ conn'[c] = k /\ OnlyConn(c) /\ Bounded'
    BY <1>4, <2>10, <2>11, <2>12, ConnSet
  <2>14. result' \in [Endpoint -> [Number -> {"idle", "sent", "ok", "failed"}]]
    BY <1>4, <2>1 DEF Typed
  <2>15. Typed'
    BY <2>1, <2>5, <2>13, <2>14 DEF Typed
  <2>16. QED
    BY <1>1, <1>2, <1>3, <2>1, <2>3, <2>5, <2>6, <2>10, <2>13, <2>15
<1>7. QED
  BY <1>5, <1>6

\* dispatchMessage enters the handler of m, in a process that is then t.
IsEntered(u, t, c, m) ==
    /\ \E fr \in Frame : fr.f = "handler" /\ fr.c = c /\ fr.msg = m /\ IsCall(u, t, fr)
    /\ t.delayed = u.delayed /\ t.semaphore = u.semaphore
    /\ handled' = IF m.kind = "sync" THEN [handled EXCEPT ![Peer[c]][m.id] = @ + 1] ELSE handled

LEMMA FormDispatch ==
    ASSUME Typed, NEW p \in Proc, NEW c \in Endpoint, NEW m \in Message, NEW u \in ProcState,
           Dispatch(p, c, m, u)
    PROVE  /\ main' \in [Proc -> ProcState] /\ OnlyProc(p)
           /\ handled' \in [Endpoint -> [Number -> Nat]]
           /\ \/ main'[p] = u /\ handled' = handled
              \/ IsEntered(u, main'[p], c, m)
<1>1. CASE ~conn[c].client
  <2>1. main' = [main EXCEPT ![p] = u] /\ handled' = handled
    BY <1>1 DEF Dispatch
  <2>2. main' \in [Proc -> ProcState] /\ main'[p] = u /\ OnlyProc(p)
    BY <2>1, MainSet
  <2>3. QED
    BY <2>1, <2>2 DEF Typed
<1>2. CASE conn[c].client
  <2>1. PICK fr : fr = [f |-> "handler", c |-> c, msg |-> m]
    OBVIOUS
  <2>2. fr \in Frame /\ fr.f = "handler" /\ fr.c = c /\ fr.msg = m
    BY <2>1 DEF Frame
  <2>3. PICK t : t = [u EXCEPT !.stack = Push(fr, u.stack)]
    OBVIOUS
  <2>4. u.stack \in Seq(Frame) /\ Push(fr, u.stack) \in Seq(Frame)
    BY <2>2, PushTail DEF ProcState
  <2>5. t \in ProcState /\ IsCall(u, t, fr) /\ t.delayed = u.delayed /\ t.semaphore = u.semaphore
    BY <2>2, <2>3, <2>4 DEF ProcState, IsCall, SameLoop
  <2>6. /\ main' = [main EXCEPT ![p] = t]
        /\ handled' = IF m.kind = "sync" THEN [handled EXCEPT ![Peer[c]][m.id] = @ + 1] ELSE handled
    BY <1>2, <2>1, <2>3 DEF Dispatch
  <2>7. main' \in [Proc -> ProcState] /\ main'[p] = t /\ OnlyProc(p)
    BY <2>5, <2>6, MainSet
  <2>8. Peer[c] \in Endpoint /\ m.id \in Number
    BY Ends2 DEF Message
  <2>9. handled' \in [Endpoint -> [Number -> Nat]]
    BY <2>6, <2>8 DEF Typed
  <2>10. QED
    BY <2>2, <2>5, <2>6, <2>7, <2>9 DEF IsEntered
<1>3. QED
  BY <1>1, <1>2

LEMMA FormDispatchNext ==
    ASSUME Typed, Bounded, NEW p \in Proc, DispatchNext(p)
    PROVE  /\ Typed' /\ Bounded' /\ OnlyProc(p) /\ UNCHANGED <<conn, wire, result>>
           /\ InLoop(main[p]) /\ Head(main[p].stack) \in Frame
           /\ \/ IsSkip(main[p], main'[p]) /\ handled' = handled
              \/ \E u \in ProcState :
                   /\ IsTake(main[p], u)
                   /\ \/ main'[p] = u /\ handled' = handled
                      \/ \E x \in Received :
                            x = Head(Head(main[p].stack).todo) /\ IsEntered(u, main'[p], x.c, x.msg)
<1>1. /\ main[p] \in ProcState /\ main[p].stack \in Seq(Frame) /\ main[p].stack # <<>>
      /\ Head(main[p].stack) \in Frame /\ Head(main[p].stack).f = "dispatchMessages"
      /\ Tail(main[p].stack) \in Seq(Frame) /\ Head(main[p].stack).swapped
      /\ Head(main[p].stack).todo # <<>>
      /\ Top(p) = Head(main[p].stack) /\ main[p].messages \in Seq(Received)
  BY InFacts DEF DispatchNext
<1>2. PICK r, fr : r = main[p] /\ fr = Head(main[p].stack)
  OBVIOUS
<1>3. fr.todo \in Seq(Received) /\ fr.putBack \in Seq(Received) /\ fr.todo # <<>>
  BY <1>1, <1>2, FrameKinds
<1>4. PICK x : x = Head(fr.todo)
  OBVIOUS
<1>5. x \in Received /\ x.c \in Endpoint /\ x.msg \in Message /\ Tail(fr.todo) \in Seq(Received)
      /\ Append(fr.putBack, x) \in Seq(Received)
  <2>1. x \in Received /\ Tail(fr.todo) \in Seq(Received) /\ Append(fr.putBack, x) \in Seq(Received)
    BY <1>3, <1>4
  <2>2. QED
    BY <2>1 DEF Received
<1>6. UNCHANGED <<conn, wire, result>>
  BY DEF DispatchNext
<1>7. InLoop(main[p])
  BY <1>1 DEF InLoop
<1>8. CASE x.c \notin fr.allowed
  <2>1. PICK g : g = [fr EXCEPT !.todo = Tail(fr.todo), !.putBack = Append(fr.putBack, x)]
    OBVIOUS
  <2>2. GoesOn(fr, g, Tail(fr.todo), Append(fr.putBack, x))
    BY <1>1, <1>2, <1>5, <2>1 DEF Frame, GoesOn
  <2>3. g \in Frame
    BY <2>2 DEF GoesOn
  <2>4. Retop(g, r.stack) = Push(g, Tail(r.stack)) /\ Push(g, Tail(r.stack)) \in Seq(Frame)
    BY <1>1, <1>2, <2>3, RetopFacts
  <2>5. PICK t : t = [r EXCEPT !.stack = Push(g, Tail(r.stack))]
    OBVIOUS
  <2>6. /\ t \in ProcState /\ SameLoop(r, t) /\ t.messages = r.messages /\ t.delayed = r.delayed
        /\ t.semaphore = r.semaphore /\ t.stack = Push(g, Tail(r.stack))
    BY <1>1, <1>2, <2>4, <2>5 DEF ProcState, SameLoop
  <2>7. IsSkip(r, t)
    BY <1>2, <1>4, <1>7, <1>8, <2>2, <2>6 DEF IsSkip
  <2>8. main' = [main EXCEPT ![p] = t] /\ handled' = handled
    BY <1>1, <1>2, <1>4, <1>8, <2>1, <2>4, <2>5 DEF DispatchNext
  <2>9. Typed' /\ Bounded' /\ OnlyProc(p) /\ main'[p] = t
    BY <1>6, <2>6, <2>8, MainOnly
  <2>10. QED
    BY <1>1, <1>2, <1>6, <1>7, <2>7, <2>8, <2>9
<1>9. CASE x.c \in fr.allowed
  <2>1. PICK g : g = [fr EXCEPT !.todo = Tail(fr.todo), !.putBack = fr.putBack]
    OBVIOUS
  <2>2. GoesOn(fr, g, Tail(fr.todo), fr.putBack)
    BY <1>1, <1>2, <1>3, <1>5, <2>1 DEF Frame, GoesOn
  <2>3. g \in Frame
    BY <2>2 DEF GoesOn
  <2>4. Retop(g, r.stack) = Push(g, Tail(r.stack)) /\ Push(g, Tail(r.stack)) \in Seq(Frame)
    BY <1>1, <1>2, <2>3, RetopFacts
  <2>5. PICK u : u = [r EXCEPT !.stack = Push(g, Tail(r.stack))]
    OBVIOUS
  <2>6. /\ u \in ProcState /\ SameLoop(r, u) /\ u.messages = r.messages /\ u.delayed = r.delayed
        /\ u.semaphore = r.semaphore /\ u.stack = Push(g, Tail(r.stack))
    BY <1>1, <1>2, <2>4, <2>5 DEF ProcState, SameLoop
  <2>7. IsTake(r, u)
    BY <1>2, <1>4, <1>7, <1>9, <2>2, <2>6 DEF IsTake
  <2>8. Dispatch(p, x.c, x.msg, u)
    BY <1>1, <1>2, <1>4, <1>9, <2>1, <2>4, <2>5 DEF DispatchNext
  <2>9. /\ main' \in [Proc -> ProcState] /\ OnlyProc(p)
        /\ handled' \in [Endpoint -> [Number -> Nat]]
        /\ \/ main'[p] = u /\ handled' = handled
           \/ IsEntered(u, main'[p], x.c, x.msg)
    BY <1>5, <2>6, <2>8, FormDispatch
  <2>10. Typed' /\ Bounded'
    BY <1>6, <2>9 DEF Typed, Bounded
  <2>11. QED
    BY <1>1, <1>2, <1>4, <1>5, <1>6, <1>7, <2>6, <2>7, <2>9, <2>10
<1>10. QED
  BY <1>8, <1>9

LEMMA FormRunFunction ==
    ASSUME Typed, Bounded, NEW p \in Proc, RunFunction(p)
    PROVE  /\ Typed' /\ Bounded' /\ OnlyProc(p) /\ UNCHANGED <<wire, result>>
           /\ \E fn \in Function :
                /\ main[p].runLoop # <<>> /\ fn = Head(main[p].runLoop)
                /\ OnlyConn(fn.c) /\ conn'[fn.c].didClose = conn[fn.c].didClose
                /\ conn'[fn.c].wq = conn[fn.c].wq
                /\ conn'[fn.c].out = conn[fn.c].out /\ conn'[fn.c].pending = conn[fn.c].pending
                /\ conn'[fn.c].secondary = conn[fn.c].secondary
                /\ conn'[fn.c].sent = conn[fn.c].sent
                /\ \/ /\ fn.f = "dispatchOneMessage" /\ conn[fn.c].incoming # <<>>
                      /\ conn'[fn.c].incoming = Tail(conn[fn.c].incoming)
                      /\ Head(conn[fn.c].incoming) \in Message
                      /\ \E u \in ProcState :
                            /\ IsRunOther(main[p], u)
                            /\ \/ main'[p] = u /\ handled' = handled
                               \/ IsEntered(u, main'[p], fn.c, Head(conn[fn.c].incoming))
                   \/ /\ fn.f = "dispatchMessages" /\ IsRunAll(main[p], main'[p])
                      /\ conn'[fn.c].incoming = conn[fn.c].incoming /\ handled' = handled
                   \/ /\ fn.f = "didClose" /\ IsRunOther(main[p], main'[p])
                      /\ conn'[fn.c].incoming = conn[fn.c].incoming /\ handled' = handled
<1>1. /\ main[p] \in ProcState /\ main[p].stack = <<>> /\ main[p].runLoop # <<>>
      /\ main[p].runLoop \in Seq(Function)
  BY DEF RunFunction, Typed, ProcState
<1>2. PICK r, fn : r = main[p] /\ fn = Head(main[p].runLoop)
  OBVIOUS
<1>3. fn \in Function /\ Tail(r.runLoop) \in Seq(Function)
  BY <1>1, <1>2
<1>4. fn.c \in Endpoint /\ fn.f \in {"dispatchOneMessage", "dispatchMessages", "didClose"}
  BY <1>3 DEF Function
<1>5. PICK c : c = fn.c
  OBVIOUS
<1>6. PICK u : u = [r EXCEPT !.runLoop = Tail(r.runLoop)]
  OBVIOUS
<1>7. u \in ProcState /\ IsRun(r, u) /\ u.scheduled = r.scheduled /\ u.stack = <<>>
  BY <1>1, <1>2, <1>3, <1>6 DEF ProcState, IsRun
<1>8. UNCHANGED <<wire, result>>
  BY DEF RunFunction
<1>9. conn[c] \in ConnectionState /\ c \in Endpoint /\ ClosesTwice(conn[c]) /\ conn[c].sent <= MaxSends[c]
  BY <1>4, <1>5 DEF Typed, Bounded
<1>10. CASE fn.f = "dispatchOneMessage"
  <2>1. /\ conn[c].incoming # <<>>
        /\ conn' = [conn EXCEPT ![c].incoming = Tail(conn[c].incoming)]
        /\ Dispatch(p, c, Head(conn[c].incoming), u)
    BY <1>1, <1>2, <1>5, <1>6, <1>10 DEF RunFunction
  <2>2. conn[c].incoming \in Seq(Message)
    BY <1>9 DEF ConnectionState
  <2>3. Head(conn[c].incoming) \in Message /\ Tail(conn[c].incoming) \in Seq(Message)
    BY <2>1, <2>2
  <2>4. PICK k : k = [conn[c] EXCEPT !.incoming = Tail(conn[c].incoming)]
    OBVIOUS
  <2>5. /\ k \in ConnectionState /\ SameSockets(conn[c], k) /\ k.out = conn[c].out
        /\ k.incoming = Tail(conn[c].incoming) /\ k.pending = conn[c].pending
        /\ k.secondary = conn[c].secondary /\ k.sent = conn[c].sent
    BY <1>9, <2>3, <2>4 DEF ConnectionState, SameSockets
  <2>6. ClosesTwice(k) /\ k.sent <= MaxSends[c]
    BY <1>9, <2>5, SameTwice
  <2>7. conn' = [conn EXCEPT ![c] = k]
    BY <2>1, <2>4
  <2>8. conn' \in [Endpoint -> ConnectionState] /\ conn'[c] = k /\ OnlyConn(c) /\ Bounded'
    BY <1>9, <2>5, <2>6, <2>7, ConnSet
  <2>9. /\ main' \in [Proc -> ProcState] /\ OnlyProc(p)
        /\ handled' \in [Endpoint -> [Number -> Nat]]
        /\ \/ main'[p] = u /\ handled' = handled
           \/ IsEntered(u, main'[p], c, Head(conn[c].incoming))
    BY <1>7, <1>9, <2>1, <2>3, FormDispatch
  <2>10. IsRunOther(r, u)
    BY <1>1, <1>2, <1>7, <1>10 DEF IsRunOther
  <2>11. Typed'
    BY <1>8, <2>8, <2>9 DEF Typed
  <2>12. conn'[c].didClose = conn[c].didClose /\ conn'[c].wq = conn[c].wq
    BY <2>5, <2>8 DEF SameSockets
  <2>13. /\ OnlyConn(fn.c) /\ conn'[fn.c].didClose = conn[fn.c].didClose
         /\ conn'[fn.c].wq = conn[fn.c].wq
         /\ conn'[fn.c].out = conn[fn.c].out /\ conn'[fn.c].pending = conn[fn.c].pending
         /\ conn'[fn.c].secondary = conn[fn.c].secondary
         /\ conn'[fn.c].sent = conn[fn.c].sent
    BY <1>5, <2>5, <2>8, <2>12
  <2>14. /\ conn[fn.c].incoming # <<>> /\ conn'[fn.c].incoming = Tail(conn[fn.c].incoming)
         /\ Head(conn[fn.c].incoming) \in Message
    BY <1>5, <2>1, <2>3, <2>5, <2>8
  <2>15. \/ main'[p] = u /\ handled' = handled
         \/ IsEntered(u, main'[p], fn.c, Head(conn[fn.c].incoming))
    BY <1>5, <2>9
  <2>16. u \in ProcState /\ IsRunOther(main[p], u)
    BY <1>2, <1>7, <2>10
  <2>17. OnlyProc(p) /\ Bounded'
    BY <2>8, <2>9
  <2>18. fn \in Function /\ main[p].runLoop # <<>> /\ fn = Head(main[p].runLoop)
    BY <1>1, <1>2, <1>3
  <2>19. QED
    BY <1>8, <1>10, <2>11, <2>13, <2>14, <2>15, <2>16, <2>17, <2>18
<1>11. CASE fn.f = "dispatchMessages"
  <2>1. PICK g : g = DispatchMessages({c}, FALSE, <<>>)
    OBVIOUS
  <2>2. /\ g \in Frame /\ g.f = "dispatchMessages" /\ g.allowed = {c} /\ ~g.swapped
        /\ g.todo = <<>> /\ g.putBack = <<>>
    BY <1>9, <2>1 DEF DispatchMessages, Frame
  <2>3. r.stack \in Seq(Frame) /\ Push(g, r.stack) \in Seq(Frame)
    BY <1>1, <1>2, <2>2, PushTail DEF ProcState
  <2>4. PICK t : t = [u EXCEPT !.scheduled = u.scheduled \ {c}, !.stack = Push(g, r.stack)]
    OBVIOUS
  <2>5. /\ t \in ProcState /\ IsRun(r, t) /\ t.scheduled = r.scheduled \ {c}
        /\ t.stack = Push(g, r.stack)
    BY <1>7, <2>3, <2>4 DEF ProcState, IsRun
  <2>6. IsRunAll(r, t)
    BY <1>2, <1>5, <1>11, <2>2, <2>5 DEF IsRunAll
  <2>7. main' = [main EXCEPT ![p] = t] /\ UNCHANGED <<conn, handled>>
    BY <1>1, <1>2, <1>5, <1>6, <1>7, <1>11, <2>1, <2>4 DEF RunFunction
  <2>8. Typed' /\ Bounded' /\ OnlyProc(p) /\ main'[p] = t
    BY <1>8, <2>5, <2>7, MainOnly
  <2>9. OnlyConn(c) /\ conn'[c] = conn[c]
    BY <2>7 DEF OnlyConn
  <2>10. QED
    BY <1>1, <1>2, <1>3, <1>5, <1>8, <1>11, <2>6, <2>7, <2>8, <2>9
<1>12. CASE fn.f = "didClose"
  <2>1. main' = [main EXCEPT ![p] = u] /\ conn' = [conn EXCEPT ![c].client = FALSE]
        /\ handled' = handled
    BY <1>1, <1>2, <1>5, <1>6, <1>12 DEF RunFunction
  <2>2. PICK k : k = [conn[c] EXCEPT !.client = FALSE]
    OBVIOUS
  <2>3. /\ k \in ConnectionState /\ SameQueues(conn[c], k) /\ k.sent = conn[c].sent
        /\ k.didClose = conn[c].didClose /\ k.wq = conn[c].wq
        /\ k.connected = conn[c].connected /\ k.tasks = conn[c].tasks
    BY <1>9, <2>2 DEF ConnectionState, SameQueues
  <2>4. ClosesTwice(k) /\ k.sent <= MaxSends[c]
    BY <1>9, <2>3 DEF ClosesTwice
  <2>5. conn' = [conn EXCEPT ![c] = k]
    BY <2>1, <2>2
  <2>6. conn' \in [Endpoint -> ConnectionState] /\ conn'[c] = k /\ OnlyConn(c) /\ Bounded'
    BY <1>9, <2>3, <2>4, <2>5, ConnSet
  <2>7. main' \in [Proc -> ProcState] /\ main'[p] = u /\ OnlyProc(p)
    BY <1>7, <2>1, MainSet
  <2>8. Typed'
    BY <1>8, <2>1, <2>6, <2>7 DEF Typed
  <2>9. IsRunOther(r, u)
    BY <1>1, <1>2, <1>7, <1>12 DEF IsRunOther
  <2>10. /\ OnlyConn(fn.c) /\ conn'[fn.c].didClose = conn[fn.c].didClose
         /\ conn'[fn.c].wq = conn[fn.c].wq
         /\ conn'[fn.c].out = conn[fn.c].out /\ conn'[fn.c].pending = conn[fn.c].pending
         /\ conn'[fn.c].secondary = conn[fn.c].secondary
         /\ conn'[fn.c].sent = conn[fn.c].sent
         /\ conn'[fn.c].incoming = conn[fn.c].incoming
    BY <1>5, <2>3, <2>6 DEF SameQueues
  <2>11. IsRunOther(main[p], main'[p]) /\ handled' = handled
    BY <1>2, <2>1, <2>7, <2>9
  <2>12. fn \in Function /\ main[p].runLoop # <<>> /\ fn = Head(main[p].runLoop)
    BY <1>1, <1>2, <1>3
  <2>13. OnlyProc(p) /\ Bounded'
    BY <2>6, <2>7
  <2>14. QED
    BY <1>8, <1>12, <2>8, <2>10, <2>11, <2>12, <2>13
<1>13. QED
  BY <1>4, <1>10, <1>11, <1>12

-----------------------------------------------------------------------------
(* The same for the work queue and the secondary thread.                   *)

LEMMA FormSendOutgoing ==
    ASSUME Typed, Bounded, NEW c \in Endpoint, SendOutgoing(c)
    PROVE  /\ Typed' /\ Bounded' /\ OnlyConn(c) /\ UNCHANGED <<main, result, handled>>
           /\ SameSockets(conn[c], conn'[c]) /\ conn'[c].incoming = conn[c].incoming
           /\ conn'[c].pending = conn[c].pending /\ conn'[c].secondary = conn[c].secondary
           /\ conn'[c].sent = conn[c].sent
           /\ conn[c].out # <<>> /\ conn'[c].out = Tail(conn[c].out)
           /\ wire' = wire \/ wire' = [wire EXCEPT ![c] = Append(wire[c], Head(conn[c].out))]
<1>1. conn[c] \in ConnectionState /\ conn[c].out \in Seq(Message) /\ conn[c].out # <<>>
  BY DEF Typed, ConnectionState, SendOutgoing
<1>2. Tail(conn[c].out) \in Seq(Message) /\ Head(conn[c].out) \in Message
  BY <1>1
<1>3. PICK k : k = [conn[c] EXCEPT !.out = Tail(conn[c].out)]
  OBVIOUS
<1>4. /\ k \in ConnectionState /\ SameSockets(conn[c], k) /\ k.out = Tail(conn[c].out)
      /\ k.incoming = conn[c].incoming /\ k.pending = conn[c].pending
      /\ k.secondary = conn[c].secondary /\ k.sent = conn[c].sent
  BY <1>1, <1>2, <1>3 DEF ConnectionState, SameSockets
<1>5. ClosesTwice(k) /\ k.sent <= MaxSends[c]
  BY <1>4, SameTwice DEF Bounded
<1>6. /\ conn' = [conn EXCEPT ![c] = k] /\ UNCHANGED <<main, result, handled>>
      /\ wire' = wire \/ wire' = [wire EXCEPT ![c] = Append(wire[c], Head(conn[c].out))]
  BY <1>3 DEF SendOutgoing
<1>7. conn' \in [Endpoint -> ConnectionState] /\ conn'[c] = k /\ OnlyConn(c) /\ Bounded'
  BY <1>4, <1>5, <1>6, ConnSet
<1>8. wire[c] \in Seq(Message) /\ Append(wire[c], Head(conn[c].out)) \in Seq(Message)
  BY <1>2 DEF Typed
<1>9. wire' \in [Endpoint -> Seq(Message)]
  BY <1>6, <1>8 DEF Typed
<1>10. QED
  BY <1>1, <1>4, <1>6, <1>7, <1>9 DEF Typed

LEMMA RepliedFacts ==
    ASSUME NEW q \in Seq(PendingSyncReply), NEW n \in Number
    PROVE  /\ Replied(q, n) \in Seq(PendingSyncReply) /\ Len(Replied(q, n)) = Len(q)
           /\ \A i \in 1..Len(q) :
                 /\ Replied(q, n)[i].id = q[i].id /\ q[i].id \in Number
                 /\ Replied(q, n)[i].didReceiveReply <=> q[i].didReceiveReply \/ q[i].id = n
<1>1. Len(q) \in Nat /\ DOMAIN q = 1..Len(q) /\ \A i \in 1..Len(q) : q[i] \in PendingSyncReply
  OBVIOUS
<1>2. ASSUME NEW i \in 1..Len(q)
      PROVE  LET e == [q[i] EXCEPT !.didReceiveReply = @ \/ q[i].id = n]
             IN  /\ e \in PendingSyncReply /\ e.id = q[i].id /\ q[i].id \in Number
                 /\ e.didReceiveReply <=> q[i].didReceiveReply \/ q[i].id = n
  BY <1>1 DEF PendingSyncReply
<1>3. Replied(q, n) = [i \in 1..Len(q) |-> [q[i] EXCEPT !.didReceiveReply = @ \/ q[i].id = n]]
  BY <1>1 DEF Replied, Answers
<1>4. PICK t : t = Replied(q, n)
  OBVIOUS
<1>5. \A i \in 1..Len(q) : /\ t[i] \in PendingSyncReply /\ t[i].id = q[i].id /\ q[i].id \in Number
                           /\ t[i].didReceiveReply <=> q[i].didReceiveReply \/ q[i].id = n
  BY <1>2, <1>3, <1>4
<1>6. t \in [1..Len(q) -> PendingSyncReply]
  BY <1>3, <1>4, <1>5
<1>7. t \in Seq(PendingSyncReply) /\ Len(t) = Len(q)
  BY <1>1, <1>6
<1>8. QED
  BY <1>4, <1>5, <1>7

\* A reply is read from the socket.
IsAnswered(c, n) ==
    /\ conn'[c].pending = Replied(conn[c].pending, n)
    /\ \/ conn'[c].secondary = conn[c].secondary
       \/ /\ conn[c].secondary.at = "waiting" /\ conn[c].secondary.id = n
          /\ conn'[c].secondary = [conn[c].secondary EXCEPT !.replied = TRUE, !.isSet = TRUE]
    /\ SameSockets(conn[c], conn'[c]) /\ conn'[c].out = conn[c].out
    /\ conn'[c].incoming = conn[c].incoming /\ conn'[c].sent = conn[c].sent

LEMMA FormAnswer ==
    ASSUME Typed, Bounded, NEW c \in Endpoint, NEW n \in Number, ProcessIncomingSyncReply(c, n)
    PROVE  /\ conn' \in [Endpoint -> ConnectionState] /\ main' \in [Proc -> ProcState] /\ Bounded'
           /\ OnlyConn(c) /\ OnlyProc(Owner[c])
           /\ IsAnswered(c, n) /\ IsStill(main[Owner[c]], main'[Owner[c]])
           /\ main'[Owner[c]].delayed = main[Owner[c]].delayed
           /\ main[Owner[c]].semaphore \/ AnswersTop(conn[c].pending, n)
                 => main'[Owner[c]].semaphore
<1>1. /\ conn[c] \in ConnectionState /\ conn[c].pending \in Seq(PendingSyncReply)
      /\ conn[c].secondary \in Secondary
  BY DEF Typed, ConnectionState
<1>2. PICK q : q = Replied(conn[c].pending, n)
  OBVIOUS
<1>3. q \in Seq(PendingSyncReply)
  BY <1>1, <1>2, RepliedFacts
<1>4. PICK s : s = IF /\ ~(\E i \in DOMAIN conn[c].pending : Answers(conn[c].pending[i], n))
                      /\ conn[c].secondary.at = "waiting" /\ conn[c].secondary.id = n
                   THEN [conn[c].secondary EXCEPT !.replied = TRUE, !.isSet = TRUE]
                   ELSE conn[c].secondary
  OBVIOUS
<1>5. s \in Secondary
  BY <1>1, <1>4 DEF Secondary
<1>6. PICK k : k = [conn[c] EXCEPT !.pending = q, !.secondary = s]
  OBVIOUS
<1>7. /\ k \in ConnectionState /\ SameSockets(conn[c], k) /\ k.pending = q /\ k.secondary = s
      /\ k.out = conn[c].out /\ k.incoming = conn[c].incoming /\ k.sent = conn[c].sent
  BY <1>1, <1>3, <1>5, <1>6 DEF ConnectionState, SameSockets
<1>8. conn' = [conn EXCEPT ![c] = k]
  BY <1>2, <1>4, <1>6 DEF ProcessIncomingSyncReply
<1>9. ClosesTwice(k) /\ k.sent <= MaxSends[c]
  BY <1>7, SameTwice DEF Bounded
<1>10. conn' \in [Endpoint -> ConnectionState] /\ conn'[c] = k /\ OnlyConn(c) /\ Bounded'
  BY <1>7, <1>8, <1>9, ConnSet
<1>11. IsAnswered(c, n)
  BY <1>2, <1>4, <1>7, <1>10 DEF IsAnswered
<1>12. Owner[c] \in Proc /\ main[Owner[c]] \in ProcState
  BY Ends2 DEF Typed
<1>13. CASE AnswersTop(conn[c].pending, n)
  <2>1. PICK t : t = [main[Owner[c]] EXCEPT !.semaphore = TRUE]
    OBVIOUS
  <2>2. t \in ProcState /\ IsStill(main[Owner[c]], t) /\ t.delayed = main[Owner[c]].delayed /\ t.semaphore
    BY <1>12, <2>1 DEF ProcState, IsStill, SameLoop
  <2>3. main' = [main EXCEPT ![Owner[c]] = t]
    BY <1>13, <2>1 DEF ProcessIncomingSyncReply
  <2>4. main' \in [Proc -> ProcState] /\ main'[Owner[c]] = t /\ OnlyProc(Owner[c])
    BY <1>12, <2>2, <2>3, MainSet
  <2>5. QED
    BY <1>10, <1>11, <2>2, <2>4
<1>14. CASE ~AnswersTop(conn[c].pending, n)
  <2>1. main' = main
    BY <1>14 DEF ProcessIncomingSyncReply
  <2>2. OnlyProc(Owner[c]) /\ IsStill(main[Owner[c]], main'[Owner[c]])
    BY <2>1 DEF OnlyProc, IsStill, SameLoop
  <2>3. QED
    BY <1>10, <1>11, <1>14, <2>1, <2>2 DEF Typed
<1>15. QED
  BY <1>13, <1>14

LEMMA FormQueueMarked ==
    ASSUME Typed, Bounded, NEW c \in Endpoint, NEW m \in Message, QueueMarked(c, m)
    PROVE  /\ conn' \in [Endpoint -> ConnectionState] /\ main' \in [Proc -> ProcState] /\ Bounded'
           /\ OnlyConn(c) /\ OnlyProc(Owner[c])
           /\ SameQueues(conn[c], conn'[c]) /\ conn'[c].didClose = conn[c].didClose
           /\ conn'[c].wq = "wake"
           /\ \E x \in Received : x = [c |-> c, msg |-> m] /\ IsQueue(main[Owner[c]], main'[Owner[c]], x)
<1>1. Owner[c] \in Proc /\ main[Owner[c]] \in ProcState /\ conn[c] \in ConnectionState
  BY Ends2 DEF Typed
<1>2. PICK r, x : r = main[Owner[c]] /\ x = [c |-> c, msg |-> m]
  OBVIOUS
<1>3. x \in Received /\ x.c = c /\ AllOf(c) \in Function
  BY <1>2 DEF Received, AllOf, Function
<1>4. /\ r.messages \in Seq(Received) /\ r.runLoop \in Seq(Function)
      /\ r.scheduled \in SUBSET Endpoint
  BY <1>1, <1>2 DEF ProcState
<1>5. Append(r.messages, x) \in Seq(Received) /\ Append(r.runLoop, AllOf(c)) \in Seq(Function)
  BY <1>3, <1>4
<1>6. PICK q : q = IF c \in r.scheduled THEN r.runLoop ELSE Append(r.runLoop, AllOf(c))
  OBVIOUS
<1>7. q \in Seq(Function)
  BY <1>4, <1>5, <1>6
<1>8. PICK t : t = [r EXCEPT !.scheduled = r.scheduled \cup {c}, !.runLoop = q,
                             !.messages = Append(r.messages, x)]
  OBVIOUS
<1>9. t \in ProcState /\ IsQueue(r, t, x)
  BY <1>1, <1>2, <1>3, <1>4, <1>5, <1>6, <1>7, <1>8 DEF ProcState, IsQueue
<1>10. main' = [main EXCEPT ![Owner[c]] = t]
  BY <1>2, <1>6, <1>8 DEF QueueMarked, IsNewEntry, AllOf
<1>11. main' \in [Proc -> ProcState] /\ main'[Owner[c]] = t /\ OnlyProc(Owner[c])
  BY <1>1, <1>9, <1>10, MainSet
<1>12. PICK k : k = [conn[c] EXCEPT !.wq = "wake"]
  OBVIOUS
<1>13. /\ k \in ConnectionState /\ SameQueues(conn[c], k) /\ k.didClose = conn[c].didClose
       /\ k.wq = "wake" /\ k.sent = conn[c].sent
       /\ k.connected = conn[c].connected /\ k.tasks = conn[c].tasks
  BY <1>1, <1>12 DEF ConnectionState, SameQueues
<1>14. conn' = [conn EXCEPT ![c] = k]
  BY <1>12 DEF QueueMarked
<1>15. ClosesTwice(k) /\ k.sent <= MaxSends[c]
  BY <1>13 DEF Bounded, ClosesTwice
<1>16. conn' \in [Endpoint -> ConnectionState] /\ conn'[c] = k /\ OnlyConn(c) /\ Bounded'
  BY <1>13, <1>14, <1>15, ConnSet
<1>17. QED
  BY <1>2, <1>3, <1>9, <1>11, <1>13, <1>16

LEMMA PostFacts ==
    ASSUME Typed, NEW p \in Proc, NEW fn \in Function, fn.f # "dispatchMessages",
           main' = [main EXCEPT ![p].runLoop = Append(@, fn)]
    PROVE  /\ main' \in [Proc -> ProcState] /\ OnlyProc(p) /\ IsPost(main[p], main'[p], fn)
<1>1. main[p] \in ProcState /\ main[p].runLoop \in Seq(Function)
  BY DEF Typed, ProcState
<1>2. Append(main[p].runLoop, fn) \in Seq(Function)
  BY <1>1
<1>3. PICK t : t = [main[p] EXCEPT !.runLoop = Append(main[p].runLoop, fn)]
  OBVIOUS
<1>4. t \in ProcState /\ IsPost(main[p], t, fn)
  BY <1>1, <1>2, <1>3 DEF ProcState, IsPost
<1>5. main' = [main EXCEPT ![p] = t]
  BY <1>3
<1>6. QED
  BY <1>4, <1>5, MainSet

LEMMA FormEnqueueIncoming ==
    ASSUME Typed, Bounded, NEW c \in Endpoint, NEW m \in Message, EnqueueIncoming(c, m)
    PROVE  /\ conn' \in [Endpoint -> ConnectionState] /\ main' \in [Proc -> ProcState] /\ Bounded'
           /\ OnlyConn(c) /\ OnlyProc(Owner[c]) /\ SameSockets(conn[c], conn'[c])
           /\ conn'[c].incoming = Append(conn[c].incoming, m)
           /\ conn'[c].out = conn[c].out /\ conn'[c].pending = conn[c].pending
           /\ conn'[c].secondary = conn[c].secondary /\ conn'[c].sent = conn[c].sent
           /\ IsPost(main[Owner[c]], main'[Owner[c]], OneOf(c))
<1>1. Owner[c] \in Proc /\ conn[c] \in ConnectionState /\ conn[c].incoming \in Seq(Message)
  BY Ends2 DEF Typed, ConnectionState
<1>2. OneOf(c) \in Function /\ OneOf(c).f # "dispatchMessages"
  BY DEF OneOf, Function
<1>3. main' = [main EXCEPT ![Owner[c]].runLoop = Append(@, OneOf(c))]
  BY DEF EnqueueIncoming, OneOf
<1>4. /\ main' \in [Proc -> ProcState] /\ OnlyProc(Owner[c])
      /\ IsPost(main[Owner[c]], main'[Owner[c]], OneOf(c))
  BY <1>1, <1>2, <1>3, PostFacts
<1>5. Append(conn[c].incoming, m) \in Seq(Message)
  BY <1>1
<1>6. PICK k : k = [conn[c] EXCEPT !.incoming = Append(conn[c].incoming, m)]
  OBVIOUS
<1>7. /\ k \in ConnectionState /\ SameSockets(conn[c], k)
      /\ k.incoming = Append(conn[c].incoming, m)
      /\ k.out = conn[c].out /\ k.pending = conn[c].pending
      /\ k.secondary = conn[c].secondary /\ k.sent = conn[c].sent
  BY <1>1, <1>5, <1>6 DEF ConnectionState, SameSockets
<1>8. conn' = [conn EXCEPT ![c] = k]
  BY <1>6 DEF EnqueueIncoming
<1>9. ClosesTwice(k) /\ k.sent <= MaxSends[c]
  BY <1>7, SameTwice DEF Bounded
<1>10. conn' \in [Endpoint -> ConnectionState] /\ conn'[c] = k /\ OnlyConn(c) /\ Bounded'
  BY <1>7, <1>8, <1>9, ConnSet
<1>11. QED
  BY <1>4, <1>7, <1>10

LEMMA FormReceive ==
    ASSUME Typed, Bounded, NEW c \in Endpoint, Receive(c)
    PROVE  /\ Typed' /\ Bounded' /\ OnlyConn(c) /\ OnlyProc(Owner[c]) /\ UNCHANGED <<result, handled>>
           /\ wire[Peer[c]] # <<>> /\ wire' = [wire EXCEPT ![Peer[c]] = Tail(wire[Peer[c]])]
           /\ \E m \in Message :
                /\ m = Head(wire[Peer[c]])
                /\ \/ m.kind = "reply" /\ ProcessIncomingSyncReply(c, m.id)
                   \/ m.kind # "reply" /\ m.marked /\ QueueMarked(c, m)
                   \/ m.kind # "reply" /\ ~m.marked /\ EnqueueIncoming(c, m)
<1>1. wire[Peer[c]] # <<>> /\ wire[Peer[c]] \in Seq(Message) /\ Peer[c] \in Endpoint
  BY Ends2 DEF Receive, Typed
<1>2. Head(wire[Peer[c]]) \in Message /\ Tail(wire[Peer[c]]) \in Seq(Message)
  BY <1>1
<1>3. PICK m \in Message : m = Head(wire[Peer[c]])
  BY <1>2
<1>4. m.id \in Number
  BY DEF Message
<1>5. /\ UNCHANGED <<result, handled>> /\ wire' = [wire EXCEPT ![Peer[c]] = Tail(wire[Peer[c]])]
      /\ \/ m.kind = "reply" /\ ProcessIncomingSyncReply(c, m.id)
         \/ m.kind # "reply" /\ m.marked /\ QueueMarked(c, m)
         \/ m.kind # "reply" /\ ~m.marked /\ EnqueueIncoming(c, m)
  BY <1>3 DEF Receive
<1>6. /\ conn' \in [Endpoint -> ConnectionState] /\ main' \in [Proc -> ProcState] /\ Bounded'
      /\ OnlyConn(c) /\ OnlyProc(Owner[c])
  BY <1>4, <1>5, FormAnswer, FormQueueMarked, FormEnqueueIncoming
<1>7. wire' \in [Endpoint -> Seq(Message)]
  BY <1>1, <1>2, <1>5 DEF Typed
<1>8. QED
  BY <1>1, <1>3, <1>5, <1>6, <1>7 DEF Typed

LEMMA SignalFacts ==
    ASSUME Typed, NEW p \in Proc, main' = [main EXCEPT ![p].semaphore = TRUE]
    PROVE  /\ main' \in [Proc -> ProcState] /\ OnlyProc(p) /\ IsStill(main[p], main'[p])
           /\ main'[p].semaphore /\ main'[p].delayed = main[p].delayed
<1>1. main[p] \in ProcState
  BY DEF Typed
<1>2. PICK t : t = [main[p] EXCEPT !.semaphore = TRUE]
  OBVIOUS
<1>3. t \in ProcState /\ IsStill(main[p], t) /\ t.semaphore /\ t.delayed = main[p].delayed
  BY <1>1, <1>2 DEF ProcState, IsStill, SameLoop
<1>4. main' = [main EXCEPT ![p] = t]
  BY <1>2
<1>5. QED
  BY <1>3, <1>4, MainSet

LEMMA IdleFacts ==
    ASSUME Typed, Bounded, NEW c \in Endpoint, conn' = [conn EXCEPT ![c].wq = "idle"]
    PROVE  /\ conn' \in [Endpoint -> ConnectionState] /\ OnlyConn(c) /\ Bounded'
           /\ SameQueues(conn[c], conn'[c]) /\ conn'[c].didClose = conn[c].didClose
           /\ conn'[c].wq = "idle"
<1>1. conn[c] \in ConnectionState
  BY DEF Typed
<1>2. PICK k : k = [conn[c] EXCEPT !.wq = "idle"]
  OBVIOUS
<1>3. /\ k \in ConnectionState /\ SameQueues(conn[c], k) /\ k.didClose = conn[c].didClose
      /\ k.wq = "idle" /\ k.sent = conn[c].sent
      /\ k.connected = conn[c].connected /\ k.tasks = conn[c].tasks
  BY <1>1, <1>2 DEF ConnectionState, SameQueues
<1>4. conn' = [conn EXCEPT ![c] = k]
  BY <1>2
<1>5. ClosesTwice(k) /\ k.sent <= MaxSends[c]
  BY <1>3 DEF Bounded, ClosesTwice
<1>6. QED
  BY <1>3, <1>4, <1>5, ConnSet

LEMMA FormWakeUpClient ==
    ASSUME Typed, Bounded, NEW c \in Endpoint, WakeUpClient(c)
    PROVE  /\ Typed' /\ Bounded' /\ OnlyConn(c) /\ OnlyProc(Owner[c])
           /\ UNCHANGED <<wire, result, handled>>
           /\ SameQueues(conn[c], conn'[c]) /\ conn'[c].didClose = conn[c].didClose
           /\ conn'[c].wq = "idle"
           /\ IsStill(main[Owner[c]], main'[Owner[c]]) /\ main'[Owner[c]].semaphore
           /\ main'[Owner[c]].delayed = main[Owner[c]].delayed
<1>1. /\ conn' = [conn EXCEPT ![c].wq = "idle"]
      /\ main' = [main EXCEPT ![Owner[c]].semaphore = TRUE] /\ Owner[c] \in Proc
      /\ UNCHANGED <<wire, result, handled>>
  BY Ends2 DEF WakeUpClient
<1>2. /\ conn' \in [Endpoint -> ConnectionState] /\ OnlyConn(c) /\ Bounded'
      /\ SameQueues(conn[c], conn'[c]) /\ conn'[c].didClose = conn[c].didClose
      /\ conn'[c].wq = "idle"
  BY <1>1, IdleFacts
<1>3. /\ main' \in [Proc -> ProcState] /\ OnlyProc(Owner[c])
      /\ IsStill(main[Owner[c]], main'[Owner[c]]) /\ main'[Owner[c]].semaphore
      /\ main'[Owner[c]].delayed = main[Owner[c]].delayed
  BY <1>1, SignalFacts
<1>4. QED
  BY <1>1, <1>2, <1>3 DEF Typed

LEMMA FormPostDidClose ==
    ASSUME Typed, Bounded, NEW c \in Endpoint, PostDidClose(c)
    PROVE  /\ Typed' /\ Bounded' /\ OnlyConn(c) /\ OnlyProc(Owner[c])
           /\ UNCHANGED <<wire, result, handled>>
           /\ SameQueues(conn[c], conn'[c]) /\ conn'[c].didClose = conn[c].didClose
           /\ conn[c].wq = "post" /\ conn'[c].wq = "idle"
           /\ \E fn \in Function : /\ fn.f = "didClose" /\ fn.c = c
                                   /\ IsPost(main[Owner[c]], main'[Owner[c]], fn)
<1>1. /\ conn' = [conn EXCEPT ![c].wq = "idle"] /\ conn[c].wq = "post"
      /\ main' = [main EXCEPT ![Owner[c]].runLoop = Append(@, [f |-> "didClose", c |-> c])]
      /\ Owner[c] \in Proc /\ UNCHANGED <<wire, result, handled>>
  BY Ends2 DEF PostDidClose
<1>2. /\ conn' \in [Endpoint -> ConnectionState] /\ OnlyConn(c) /\ Bounded'
      /\ SameQueues(conn[c], conn'[c]) /\ conn'[c].didClose = conn[c].didClose
      /\ conn'[c].wq = "idle"
  BY <1>1, IdleFacts
<1>3. PICK fn : fn = [f |-> "didClose", c |-> c]
  OBVIOUS
<1>4. fn \in Function /\ fn.f = "didClose" /\ fn.c = c
  BY <1>3 DEF Function
<1>5. /\ main' \in [Proc -> ProcState] /\ OnlyProc(Owner[c])
      /\ IsPost(main[Owner[c]], main'[Owner[c]], fn)
  BY <1>1, <1>3, <1>4, PostFacts
<1>6. QED
  BY <1>1, <1>2, <1>4, <1>5 DEF Typed

LEMMA FormDidClose ==
    ASSUME Typed, Bounded, NEW c \in Endpoint, NEW done \in SUBSET {"readyRead"}, DidClose(c, done),
           conn[c].wq = "idle",
           \/ conn[c].connected /\ done = {}
           \/ "readyRead" \in conn[c].tasks /\ done = {"readyRead"} /\ ~conn[c].connected
    PROVE  /\ Typed' /\ Bounded' /\ OnlyConn(c) /\ OnlyProc(Owner[c])
           /\ UNCHANGED <<wire, result, handled>>
           /\ conn[c].wq = "idle" /\ conn'[c].wq = "post"
           /\ conn'[c].out = conn[c].out /\ conn'[c].incoming = conn[c].incoming
           /\ conn'[c].pending = conn[c].pending /\ conn'[c].sent = conn[c].sent
           /\ conn'[c].secondary = Signalled(conn[c].secondary)
           /\ IsStill(main[Owner[c]], main'[Owner[c]])
           /\ conn[c].pending # <<>> \/ main[Owner[c]].semaphore => main'[Owner[c]].semaphore
           /\ main'[Owner[c]].delayed = main[Owner[c]].delayed
<1>1. /\ conn' = [conn EXCEPT ![c] = Closed(conn[c], done)] /\ Owner[c] \in Proc
      /\ UNCHANGED <<wire, result, handled>>
  BY Ends2 DEF DidClose
<1>2. conn[c] \in ConnectionState /\ ClosesTwice(conn[c]) /\ conn[c].sent <= MaxSends[c]
  BY DEF Typed, Bounded
<1>3. PICK k : k = Closed(conn[c], done)
  OBVIOUS
<1>4. /\ k \in ConnectionState /\ ClosesTwice(k) /\ k.wq = "post"
      /\ k.out = conn[c].out /\ k.incoming = conn[c].incoming
      /\ k.pending = conn[c].pending /\ k.sent = conn[c].sent
      /\ k.secondary = Signalled(conn[c].secondary)
  BY <1>2, <1>3, ClosedFacts
<1>5. conn' \in [Endpoint -> ConnectionState] /\ conn'[c] = k /\ OnlyConn(c) /\ Bounded'
  BY <1>1, <1>2, <1>3, <1>4, ConnSet
<1>6. CASE conn[c].pending # <<>>
  <2>1. main' = [main EXCEPT ![Owner[c]].semaphore = TRUE]
    BY <1>6 DEF DidClose
  <2>2. /\ main' \in [Proc -> ProcState] /\ OnlyProc(Owner[c])
        /\ IsStill(main[Owner[c]], main'[Owner[c]]) /\ main'[Owner[c]].semaphore
        /\ main'[Owner[c]].delayed = main[Owner[c]].delayed
    BY <1>1, <2>1, SignalFacts
  <2>3. QED
    BY <1>1, <1>4, <1>5, <2>2 DEF Typed
<1>7. CASE conn[c].pending = <<>>
  <2>1. main' = main
    BY <1>7 DEF DidClose
  <2>2. OnlyProc(Owner[c]) /\ IsStill(main[Owner[c]], main'[Owner[c]])
    BY <2>1 DEF OnlyProc, IsStill, SameLoop
  <2>3. QED
    BY <1>1, <1>4, <1>5, <1>7, <2>1, <2>2 DEF Typed
<1>8. QED
  BY <1>6, <1>7

\* The socket is given up without a close.
LEMMA FormTasks ==
    ASSUME Typed, Bounded, NEW c \in Endpoint,
           PlatformInvalidate(c) \/ (ReadyRead(c) /\ conn[c].connected)
    PROVE  /\ Typed' /\ Bounded' /\ OnlyConn(c) /\ UNCHANGED <<main, wire, result, handled>>
           /\ SameQueues(conn[c], conn'[c]) /\ conn'[c].didClose = conn[c].didClose
           /\ conn'[c].wq = conn[c].wq
<1>1. /\ conn[c] \in ConnectionState /\ ClosesTwice(conn[c]) /\ conn[c].sent <= MaxSends[c]
      /\ conn[c].tasks \in SUBSET {"readyRead", "invalidate"}
      /\ conn[c].connected \in BOOLEAN /\ conn[c].didClose \in 0..2
  BY DEF Typed, Bounded, ConnectionState
<1>2. PICK b \in BOOLEAN, ts \in SUBSET {"readyRead", "invalidate"} :
          /\ conn' = [conn EXCEPT ![c].connected = b, ![c].tasks = ts]
          /\ b => conn[c].connected
          /\ "readyRead" \in ts => "readyRead" \in conn[c].tasks
  <2>1. CASE PlatformInvalidate(c)
    <3>1. /\ conn' = [conn EXCEPT ![c].connected = FALSE, ![c].tasks = conn[c].tasks \ {"invalidate"}]
          /\ conn[c].tasks \ {"invalidate"} \in SUBSET {"readyRead", "invalidate"}
      BY <1>1, <2>1 DEF PlatformInvalidate
    <3>2. QED
      BY <3>1
  <2>2. CASE ReadyRead(c) /\ conn[c].connected
    <3>1. /\ conn' = [conn EXCEPT ![c].tasks = conn[c].tasks \ {"readyRead"}]
          /\ conn[c].tasks \ {"readyRead"} \in SUBSET {"readyRead", "invalidate"}
      BY <1>1, <2>2 DEF ReadyRead
    <3>2. conn' = [conn EXCEPT ![c].connected = conn[c].connected, ![c].tasks = conn[c].tasks \ {"readyRead"}]
      BY <1>1, <3>1 DEF Typed, ConnectionState
    <3>3. QED
      BY <1>1, <3>1, <3>2
  <2>3. QED
    BY <2>1, <2>2
<1>3. PICK k : k = [conn[c] EXCEPT !.connected = b, !.tasks = ts]
  OBVIOUS
<1>4. /\ k \in ConnectionState /\ SameQueues(conn[c], k) /\ k.didClose = conn[c].didClose
      /\ k.wq = conn[c].wq /\ k.sent = conn[c].sent /\ k.connected = b /\ k.tasks = ts
  BY <1>1, <1>3 DEF ConnectionState, SameQueues
<1>5. ClosesTwice(k)
  BY <1>1, <1>2, <1>4 DEF ClosesTwice
<1>6. conn' = [conn EXCEPT ![c] = k]
  BY <1>2, <1>3
<1>7. conn' \in [Endpoint -> ConnectionState] /\ conn'[c] = k /\ OnlyConn(c) /\ Bounded'
  BY <1>1, <1>4, <1>5, <1>6, ConnSet
<1>8. UNCHANGED <<main, wire, result, handled>>
  BY DEF PlatformInvalidate, ReadyRead
<1>9. QED
  BY <1>4, <1>7, <1>8 DEF Typed

\* The secondary thread has seen a valid connection, or is done.
WithSecondary(k, s, n) == [k EXCEPT !.secondary = s, !.sent = n]

LEMMA SecondaryFacts ==
    ASSUME NEW k \in ConnectionState, NEW s \in Secondary, NEW n, n \in Number \cup {0}
    PROVE  LET l == WithSecondary(k, s, n)
           IN  /\ l \in ConnectionState /\ SameSockets(k, l) /\ l.out = k.out
               /\ l.incoming = k.incoming /\ l.pending = k.pending
               /\ l.secondary = s /\ l.sent = n
  BY DEF ConnectionState, SameSockets, WithSecondary

LEMMA FormSecondaryChecks ==
    ASSUME Typed, Bounded, NEW c \in Endpoint, SecondaryChecks(c)
    PROVE  /\ Typed' /\ Bounded' /\ OnlyConn(c) /\ UNCHANGED <<main, wire, result, handled>>
           /\ SameSockets(conn[c], conn'[c]) /\ conn'[c].out = conn[c].out
           /\ conn'[c].incoming = conn[c].incoming /\ conn'[c].pending = conn[c].pending
           /\ conn'[c].sent = conn[c].sent
           /\ conn[c].secondary.at = "out" /\ conn'[c].secondary.at = "valid"
           /\ conn'[c].secondary.replied = conn[c].secondary.replied
<1>1. /\ conn[c] \in ConnectionState /\ conn[c].secondary \in Secondary
      /\ conn[c].sent \in Number \cup {0} /\ conn[c].sent <= MaxSends[c]
  BY DEF Typed, Bounded, ConnectionState
<1>2. PICK s : s = [conn[c].secondary EXCEPT !.at = "valid"]
  OBVIOUS
<1>3. s \in Secondary /\ s.at = "valid" /\ s.replied = conn[c].secondary.replied
  BY <1>1, <1>2 DEF Secondary
<1>4. conn' = [conn EXCEPT ![c].secondary = s] /\ UNCHANGED <<main, wire, result, handled>>
  BY <1>2 DEF SecondaryChecks
<1>9. PICK k : k = WithSecondary(conn[c], s, conn[c].sent)
  OBVIOUS
<1>10. /\ k \in ConnectionState /\ SameSockets(conn[c], k) /\ k.out = conn[c].out
       /\ k.incoming = conn[c].incoming /\ k.pending = conn[c].pending
       /\ k.secondary = s /\ k.sent = conn[c].sent
  BY <1>1, <1>3, <1>9, SecondaryFacts
<1>11. ClosesTwice(k)
  BY <1>10, SameTwice DEF Bounded
<1>5. conn' = [conn EXCEPT ![c] = k]
  BY <1>1, <1>4, <1>9 DEF Typed, ConnectionState, WithSecondary
<1>6. conn' \in [Endpoint -> ConnectionState] /\ conn'[c] = k /\ OnlyConn(c) /\ Bounded'
  BY <1>1, <1>5, <1>10, <1>11, ConnSet
<1>7. conn[c].secondary.at = "out"
  BY DEF SecondaryChecks
<1>8. QED
  BY <1>3, <1>4, <1>6, <1>7, <1>10 DEF Typed

LEMMA FormSecondaryReturns ==
    ASSUME Typed, Bounded, NEW c \in Endpoint, SecondaryReturns(c), conn[c].secondary.id \in Number
    PROVE  /\ Typed' /\ Bounded' /\ OnlyConn(c) /\ UNCHANGED <<main, wire, handled>>
           /\ SameSockets(conn[c], conn'[c]) /\ conn'[c].out = conn[c].out
           /\ conn'[c].incoming = conn[c].incoming /\ conn'[c].pending = conn[c].pending
           /\ conn'[c].sent = conn[c].sent
           /\ conn[c].secondary.at = "waiting" /\ conn'[c].secondary = NoSecondary
           /\ result' = [result EXCEPT ![c][conn[c].secondary.id] =
                          IF conn[c].secondary.replied THEN "ok" ELSE "failed"]
<1>1. /\ conn[c] \in ConnectionState /\ conn[c].secondary \in Secondary
      /\ conn[c].sent \in Number \cup {0} /\ conn[c].sent <= MaxSends[c]
  BY DEF Typed, Bounded, ConnectionState
<1>2. NoSecondary \in Secondary
  BY DEF Secondary, NoSecondary
<1>3. /\ conn' = [conn EXCEPT ![c].secondary = NoSecondary] /\ UNCHANGED <<main, wire, handled>>
      /\ conn[c].secondary.at = "waiting"
      /\ result' = [result EXCEPT ![c][conn[c].secondary.id] =
                          IF conn[c].secondary.replied THEN "ok" ELSE "failed"]
  BY DEF SecondaryReturns
<1>8. PICK k : k = WithSecondary(conn[c], NoSecondary, conn[c].sent)
  OBVIOUS
<1>9. /\ k \in ConnectionState /\ SameSockets(conn[c], k) /\ k.out = conn[c].out
      /\ k.incoming = conn[c].incoming /\ k.pending = conn[c].pending
      /\ k.secondary = NoSecondary /\ k.sent = conn[c].sent
  BY <1>1, <1>2, <1>8, SecondaryFacts
<1>10. ClosesTwice(k)
  BY <1>9, SameTwice DEF Bounded
<1>4. conn' = [conn EXCEPT ![c] = k]
  BY <1>1, <1>3, <1>8 DEF Typed, ConnectionState, WithSecondary
<1>5. conn' \in [Endpoint -> ConnectionState] /\ conn'[c] = k /\ OnlyConn(c) /\ Bounded'
  BY <1>1, <1>4, <1>9, <1>10, ConnSet
<1>6. result' \in [Endpoint -> [Number -> {"idle", "sent", "ok", "failed"}]]
  BY <1>3 DEF Typed
<1>7. QED
  BY <1>3, <1>5, <1>6, <1>9 DEF Typed

LEMMA FormSecondarySends ==
    ASSUME Typed, Bounded, NEW c \in Endpoint, SecondarySends(c)
    PROVE  /\ Typed' /\ Bounded' /\ OnlyConn(c) /\ UNCHANGED <<main, wire, handled>>
           /\ SameSockets(conn[c], conn'[c])
           /\ conn'[c].incoming = conn[c].incoming /\ conn'[c].pending = conn[c].pending
           /\ conn'[c].sent = conn[c].sent + 1 /\ conn[c].sent + 1 \in Number
           /\ conn[c].secondary.at = "valid"
           /\ \/ /\ conn'[c].secondary = NoSecondary /\ conn'[c].out = conn[c].out
                 /\ result' = [result EXCEPT ![c][conn[c].sent + 1] = "failed"]
              \/ /\ conn'[c].secondary.at = "waiting" /\ conn'[c].secondary.id = conn[c].sent + 1
                 /\ ~conn'[c].secondary.replied
                 /\ result' = [result EXCEPT ![c][conn[c].sent + 1] = "sent"]
                 /\ \/ conn'[c].out = conn[c].out
                    \/ \E m : IsSent(c, m) /\ m.kind = "sync"
<1>1. PICK m : m = NewMessage(c, "sync", FALSE)
  OBVIOUS
<1>2. /\ m \in Message /\ m.kind = "sync" /\ m.id = conn[c].sent + 1 /\ m.id <= MaxSends[c]
      /\ m.id \in Number
  BY <1>1, NewMessageFacts DEF SecondarySends
<1>3. conn[c] \in ConnectionState /\ NoSecondary \in Secondary
  BY DEF Typed, NoSecondary, Secondary
<1>4. UNCHANGED <<main, wire, handled>> /\ conn[c].secondary.at = "valid"
  BY DEF SecondarySends
<1>5. CASE conn[c].didClose > 0
  <2>1. /\ conn' = [conn EXCEPT ![c].secondary = NoSecondary, ![c].sent = m.id]
        /\ result' = [result EXCEPT ![c][m.id] = "failed"]
    BY <1>1, <1>5 DEF SecondarySends
  <2>2. PICK k : k = WithSecondary(conn[c], NoSecondary, m.id)
    OBVIOUS
  <2>3. /\ k \in ConnectionState /\ SameSockets(conn[c], k) /\ k.out = conn[c].out
        /\ k.incoming = conn[c].incoming /\ k.pending = conn[c].pending
        /\ k.secondary = NoSecondary /\ k.sent = m.id
    BY <1>2, <1>3, <2>2, SecondaryFacts
  <2>6. ClosesTwice(k)
    BY <2>3, SameTwice DEF Bounded
  <2>7. conn' = [conn EXCEPT ![c] = k]
    BY <2>1, <2>2 DEF WithSecondary
  <2>8. conn' \in [Endpoint -> ConnectionState] /\ conn'[c] = k /\ OnlyConn(c) /\ Bounded'
    BY <1>2, <2>3, <2>6, <2>7, ConnSet
  <2>4. result' \in [Endpoint -> [Number -> {"idle", "sent", "ok", "failed"}]]
    BY <1>2, <2>1 DEF Typed
  <2>5. QED
    BY <1>2, <1>4, <2>1, <2>3, <2>4, <2>8 DEF Typed
<1>6. CASE ~(conn[c].didClose > 0)
  <2>1. PICK s : s = [NoSecondary EXCEPT !.at = "waiting", !.id = m.id]
    OBVIOUS
  <2>2. s \in Secondary /\ s.at = "waiting" /\ s.id = m.id /\ ~s.replied
    BY <1>2, <2>1 DEF Secondary, NoSecondary
  <2>3. PICK l : l = Sending(conn[c], m)
    OBVIOUS
  <2>4. /\ l \in ConnectionState /\ SameSockets(conn[c], l)
        /\ l.out = conn[c].out \/ l.out = Append(conn[c].out, m)
        /\ l.incoming = conn[c].incoming /\ l.pending = conn[c].pending /\ l.sent = m.id
    BY <1>2, <1>3, <2>3, SendingFacts
  <2>5. PICK k : k = [l EXCEPT !.secondary = s]
    OBVIOUS
  <2>6. /\ k \in ConnectionState /\ SameSockets(conn[c], k)
        /\ k.out = conn[c].out \/ k.out = Append(conn[c].out, m)
        /\ k.incoming = conn[c].incoming /\ k.pending = conn[c].pending
        /\ k.secondary = s /\ k.sent = m.id
    BY <2>2, <2>4, <2>5 DEF ConnectionState, SameSockets
  <2>7. conn' = [conn EXCEPT ![c] = k] /\ result' = [result EXCEPT ![c][m.id] = "sent"]
    BY <1>1, <1>6, <2>1, <2>3, <2>5 DEF SecondarySends
  <2>8. ClosesTwice(k) /\ k.sent <= MaxSends[c]
    BY <1>2, <2>6, SameTwice DEF Bounded
  <2>9. conn' \in [Endpoint -> ConnectionState] /\ conn'[c] = k /\ OnlyConn(c) /\ Bounded'
    BY <1>3, <2>6, <2>7, <2>8, ConnSet
  <2>10. result' \in [Endpoint -> [Number -> {"idle", "sent", "ok", "failed"}]]
    BY <1>2, <2>7 DEF Typed
  <2>11. k.out = Append(conn[c].out, m) => IsSent(c, m)
    BY <1>2, <2>6, <2>9 DEF IsSent
  <2>12. QED
    BY <1>2, <1>4, <2>2, <2>6, <2>7, <2>9, <2>10, <2>11 DEF Typed
<1>7. QED
  BY <1>5, <1>6

\* A connection of a process that is gone.
IsEnded(k, l) ==
    /\ l.out = <<>> /\ l.incoming = <<>> /\ l.pending = <<>> /\ l.wq = "idle"
    /\ l.secondary = NoSecondary /\ l.didClose = k.didClose
    /\ l.sent \in {k.sent, k.sent + 1}

LEMMA FormEnds ==
    ASSUME Typed, Bounded, NEW p \in Proc, NEW failing \in SUBSET Endpoint, Ends(p, failing),
           \A c \in failing : conn[c].sent < MaxSends[c]
    PROVE  /\ Typed' /\ Bounded' /\ OnlyProc(p) /\ UNCHANGED <<wire, handled>>
           /\ IsEnd(main'[p])
           /\ \A c \in Endpoint :
                /\ Owner[c] # p => conn'[c] = conn[c] /\ result'[c] = result[c]
                /\ Owner[c] = p => IsEnded(conn[c], conn'[c])
                /\ Owner[c] = p => \A n \in Number :
                      result'[c][n] = IF \/ result[c][n] = "sent"
                                         \/ conn'[c].sent # conn[c].sent /\ n = conn[c].sent + 1
                                      THEN "failed" ELSE result[c][n]
           /\ result' = [c \in Endpoint |-> [n \in Number |-> result'[c][n]]]
<1>1. PICK t : t = [alive |-> FALSE, messages |-> <<>>, scheduled |-> {},
                    semaphore |-> FALSE, runLoop |-> <<>>, stack |-> <<>>, delayed |-> {}]
  OBVIOUS
<1>2. <<>> \in Seq(Received) /\ <<>> \in Seq(Function) /\ <<>> \in Seq(Frame)
  OBVIOUS
<1>3. t \in ProcState /\ IsEnd(t)
  BY <1>1, <1>2 DEF ProcState, IsEnd
<1>4. main' = [main EXCEPT ![p] = t] /\ UNCHANGED <<wire, handled>>
  BY <1>1 DEF Ends
<1>5. main' \in [Proc -> ProcState] /\ main'[p] = t /\ OnlyProc(p)
  BY <1>3, <1>4, MainSet
<1>6. ASSUME NEW c \in Endpoint, Owner[c] = p
      PROVE  /\ conn'[c] \in ConnectionState /\ IsEnded(conn[c], conn'[c])
             /\ ClosesTwice(conn'[c]) /\ conn'[c].sent <= MaxSends[c]
             /\ conn'[c].sent # conn[c].sent <=> c \in failing
  <2>1. /\ conn[c] \in ConnectionState /\ ClosesTwice(conn[c]) /\ conn[c].sent <= MaxSends[c]
        /\ conn[c].sent \in Number \cup {0}
    BY DEF Typed, Bounded, ConnectionState
  <2>2. PICK n : n = IF c \in failing THEN conn[c].sent + 1 ELSE conn[c].sent
    OBVIOUS
  <2>3. /\ n \in Number \cup {0} /\ n <= MaxSends[c] /\ n \in {conn[c].sent, conn[c].sent + 1}
        /\ n # conn[c].sent <=> c \in failing
    <3>1. CASE c \in failing
      <4>1. /\ conn[c].sent \in Nat /\ conn[c].sent + 1 \in Number /\ conn[c].sent + 1 <= MaxSends[c]
        BY <3>1, NewMessageFacts
      <4>2. QED
        BY <2>2, <3>1, <4>1
    <3>2. CASE c \notin failing
      BY <2>1, <2>2, <3>2
    <3>3. QED
      BY <3>1, <3>2
  <2>10. PICK k, l : k = conn[c] /\ l = conn'[c]
    OBVIOUS
  <2>4. l = [k EXCEPT !.client = FALSE, !.connected = FALSE,
                                      !.tasks = {}, !.wq = "idle", !.out = <<>>,
                                      !.incoming = <<>>, !.pending = <<>>,
                                      !.secondary = NoSecondary, !.sent = n]
    BY <1>6, <2>2, <2>10 DEF Ends
  <2>5. NoSecondary \in Secondary /\ <<>> \in Seq(Message) /\ <<>> \in Seq(PendingSyncReply)
    BY DEF NoSecondary, Secondary
  <2>11. /\ l.out = <<>> /\ l.incoming = <<>> /\ l.pending = <<>> /\ l.wq = "idle"
         /\ l.secondary = NoSecondary /\ l.didClose = k.didClose /\ l.sent = n
         /\ l.connected = FALSE /\ l.tasks = {}
    BY <2>1, <2>4, <2>10 DEF ConnectionState
  <2>12. l \in ConnectionState
    <3>1. k \in ConnectionState /\ n \in Number \cup {0}
      BY <2>1, <2>3, <2>10
    <3>2. QED
      BY <2>4, <2>5, <3>1 DEF ConnectionState
  <2>6. /\ conn'[c] \in ConnectionState /\ IsEnded(conn[c], conn'[c]) /\ conn'[c].sent = n
        /\ conn'[c].connected = FALSE /\ conn'[c].tasks = {} /\ conn'[c].didClose = conn[c].didClose
    BY <2>3, <2>10, <2>11, <2>12 DEF IsEnded
  <2>7. conn[c].didClose \in 0..2
    BY <2>1 DEF ConnectionState
  <2>8. ClosesTwice(conn'[c])
    BY <2>6, <2>7 DEF ClosesTwice
  <2>9. QED
    BY <2>3, <2>6, <2>8
<1>7. ASSUME NEW c \in Endpoint, Owner[c] # p
      PROVE  conn'[c] = conn[c] /\ result'[c] = result[c]
  BY <1>7 DEF Ends
<1>8. \A c \in Endpoint : /\ conn'[c] \in ConnectionState
                          /\ ClosesTwice(conn'[c]) /\ conn'[c].sent <= MaxSends[c]
  BY <1>6, <1>7 DEF Typed, Bounded
<1>9. conn' = [c \in Endpoint |-> conn'[c]]
  BY DEF Ends
<1>10. conn' \in [Endpoint -> ConnectionState] /\ Bounded'
  BY <1>8, <1>9 DEF Bounded, ClosesTwice
<1>11. ASSUME NEW c \in Endpoint, Owner[c] = p, NEW n \in Number
       PROVE  result'[c][n] = IF \/ result[c][n] = "sent"
                                 \/ conn'[c].sent # conn[c].sent /\ n = conn[c].sent + 1
                              THEN "failed" ELSE result[c][n]
  BY <1>6, <1>11 DEF Ends
<1>12. ASSUME NEW c \in Endpoint
       PROVE  result'[c] \in [Number -> {"idle", "sent", "ok", "failed"}]
  <2>1. CASE Owner[c] = p
    <3>1. result'[c] = [n \in Number |-> result'[c][n]]
      BY <2>1 DEF Ends
    <3>2. \A n \in Number : result'[c][n] \in {"idle", "sent", "ok", "failed"}
      BY <1>11, <2>1 DEF Typed
    <3>3. QED
      BY <3>1, <3>2
  <2>2. CASE Owner[c] # p
    BY <1>7, <2>2 DEF Typed
  <2>3. QED
    BY <2>1, <2>2
<1>13. result' = [c \in Endpoint |-> result'[c]]
  BY DEF Ends
<1>14. result' \in [Endpoint -> [Number -> {"idle", "sent", "ok", "failed"}]]
  BY <1>12, <1>13
<1>15. result' = [c \in Endpoint |-> [n \in Number |-> result'[c][n]]]
  BY <1>14
<1>16. Typed'
  BY <1>4, <1>5, <1>10, <1>14 DEF Typed
<1>17. QED
  BY <1>3, <1>4, <1>5, <1>6, <1>7, <1>10, <1>11, <1>15, <1>16

-----------------------------------------------------------------------------
(* The messages a process holds, and how a step moves them.                *)

Request(m) == m.kind # "reply"

FrameItems(fr) ==
    IF fr.f = "dispatchMessages" THEN Elems(fr.todo) \cup Elems(fr.putBack) ELSE {}

\* Those that a dispatchMessages will not dispatch itself.
FrameKeeps(fr) ==
    IF fr.f = "dispatchMessages"
    THEN Elems(fr.putBack) \cup {x \in Elems(fr.todo) : x.c \notin fr.allowed} ELSE {}

OnStack(s, x) == \E fr \in Elems(s) : x \in FrameItems(fr)
KeptOn(s, x) == \E fr \in Elems(s) : x \in FrameKeeps(fr)
AboutToSwap(s, c) ==
    \E fr \in Elems(s) : fr.f = "dispatchMessages" /\ ~fr.swapped /\ c \in fr.allowed

Item(r, x) == x \in Elems(r.messages) \/ OnStack(r.stack, x)
Kept(r, x) == x \in Elems(r.messages) \/ KeptOn(r.stack, x)

\* A frame fits the stack of p.  Only an innermost dispatchMessages has yet to
\* swap, and only an outermost one may put messages back; a sendSyncMessage
\* under another frame is in its dispatchMessages.
FrameFits(p, fr) ==
    /\ fr.f \in {"handler", "sendSync"} => Owner[fr.c] = p
    /\ fr.f = "handler" => Request(fr.msg)
    /\ fr.f = "dispatchMessages" /\ ~fr.swapped => fr.todo = <<>> /\ fr.putBack = <<>>

Settled(s) ==
    \A fr \in Elems(s) : /\ fr.f = "sendSync" => fr.pc = "check"
                         /\ fr.f = "dispatchMessages" => fr.swapped

IsNested(fr) ==
    fr.f = "dispatchMessages" => fr.swapped /\ fr.allowed = Endpoint /\ fr.putBack = <<>>

Nested(s) == \A i \in 1..Len(s) : i # Len(s) => IsNested(s[i])

StackFits(p, s) ==
    /\ \A fr \in Elems(s) : FrameFits(p, fr)
    /\ s # <<>> => Settled(Tail(s))
    /\ Nested(s)

\* All of these about a stack with one more frame.
LEMMA OnPush ==
    ASSUME NEW s \in Seq(Frame), NEW fr \in Frame
    PROVE  /\ \A x : OnStack(Push(fr, s), x) <=> x \in FrameItems(fr) \/ OnStack(s, x)
           /\ \A x : KeptOn(Push(fr, s), x) <=> x \in FrameKeeps(fr) \/ KeptOn(s, x)
           /\ \A c : AboutToSwap(Push(fr, s), c) <=>
                 \/ fr.f = "dispatchMessages" /\ ~fr.swapped /\ c \in fr.allowed
                 \/ AboutToSwap(s, c)
<1>1. Elems(Push(fr, s)) = {fr} \cup Elems(s)
  BY ElemsPush
<1>2. QED
  BY <1>1 DEF OnStack, KeptOn, AboutToSwap

LEMMA OnEmpty ==
    /\ \A x : ~OnStack(<<>>, x) /\ ~KeptOn(<<>>, x)
    /\ \A c : ~AboutToSwap(<<>>, c)
  BY ElemsEmpty DEF OnStack, KeptOn, AboutToSwap

LEMMA SettledPush ==
    ASSUME NEW s \in Seq(Frame), NEW fr \in Frame
    PROVE  Settled(Push(fr, s)) <=>
              /\ fr.f = "sendSync" => fr.pc = "check"
              /\ fr.f = "dispatchMessages" => fr.swapped
              /\ Settled(s)
<1>1. Elems(Push(fr, s)) = {fr} \cup Elems(s)
  BY ElemsPush
<1>2. QED
  BY <1>1 DEF Settled

LEMMA NestedPush ==
    ASSUME NEW s \in Seq(Frame), NEW fr \in Frame
    PROVE  Nested(Push(fr, s)) <=> Nested(s) /\ (s # <<>> => IsNested(fr))
<1>1. PICK t : t = Push(fr, s)
  OBVIOUS
<1>2. /\ Len(s) \in Nat /\ Len(t) = Len(s) + 1 /\ t[1] = fr
      /\ \A i \in 1..Len(s) : t[i + 1] = s[i]
      /\ \A i \in 2..Len(s) + 1 : t[i] = s[i - 1] /\ i - 1 \in 1..Len(s)
      /\ s # <<>> => Len(s) > 0
  BY <1>1 DEF Push
<1>3. ASSUME Nested(t)  PROVE Nested(s) /\ (s # <<>> => IsNested(fr))
  <2>1. ASSUME NEW i \in 1..Len(s), i # Len(s)  PROVE IsNested(s[i])
    <3>1. i + 1 \in 1..Len(t) /\ i + 1 # Len(t) /\ t[i + 1] = s[i]
      BY <1>2, <2>1
    <3>2. QED
      BY <1>3, <3>1 DEF Nested
  <2>2. s # <<>> => 1 \in 1..Len(t) /\ 1 # Len(t)
    BY <1>2
  <2>3. QED
    BY <1>2, <1>3, <2>1, <2>2 DEF Nested
<1>4. ASSUME Nested(s), s # <<>> => IsNested(fr)  PROVE Nested(t)
  <2>1. ASSUME NEW i \in 1..Len(t), i # Len(t)  PROVE IsNested(t[i])
    <3>1. CASE i = 1
      BY <1>2, <1>4, <2>1, <3>1
    <3>2. CASE i # 1
      <4>1. t[i] = s[i - 1] /\ i - 1 \in 1..Len(s) /\ i - 1 # Len(s)
        BY <1>2, <2>1, <3>2
      <4>2. QED
        BY <1>4, <4>1 DEF Nested
    <3>3. QED
      BY <3>1, <3>2
  <2>2. QED
    BY <2>1 DEF Nested
<1>5. QED
  BY <1>1, <1>3, <1>4

LEMMA FitsPush ==
    ASSUME NEW p, NEW s \in Seq(Frame), NEW fr \in Frame
    PROVE  StackFits(p, Push(fr, s)) <=>
              /\ FrameFits(p, fr) /\ \A g \in Elems(s) : FrameFits(p, g)
              /\ Settled(s) /\ Nested(s) /\ (s # <<>> => IsNested(fr))
<1>1. Elems(Push(fr, s)) = {fr} \cup Elems(s)
  BY ElemsPush
<1>2. Tail(Push(fr, s)) = s /\ Push(fr, s) # <<>>
  BY PushTail
<1>3. Nested(Push(fr, s)) <=> Nested(s) /\ (s # <<>> => IsNested(fr))
  BY NestedPush
<1>4. QED
  BY <1>1, <1>2, <1>3 DEF StackFits

LEMMA FitsEmpty == \A p : StackFits(p, <<>>) /\ Settled(<<>>)
  BY ElemsEmpty DEF StackFits, Settled, Nested

\* What is below the innermost frame fits, and is settled.
LEMMA FitsTail ==
    ASSUME NEW p, NEW s \in Seq(Frame), NEW fr \in Frame, StackFits(p, Push(fr, s))
    PROVE  StackFits(p, s) /\ Settled(s) /\ FrameFits(p, fr) /\ (s # <<>> => IsNested(fr))
<1>1. /\ FrameFits(p, fr) /\ \A g \in Elems(s) : FrameFits(p, g)
      /\ Settled(s) /\ Nested(s) /\ (s # <<>> => IsNested(fr))
  BY FitsPush
<1>2. s # <<>> => Settled(Tail(s))
  <2>1. SUFFICES ASSUME s # <<>>  PROVE Settled(Tail(s))
    OBVIOUS
  <2>2. Elems(Tail(s)) \subseteq Elems(s)
    BY <2>1, ElemsTail
  <2>3. QED
    BY <1>1, <2>2 DEF Settled
<1>3. QED
  BY <1>1, <1>2 DEF StackFits

\* A frame is put on a stack that fits and is settled.
LEMMA FitsOn ==
    ASSUME NEW p, NEW s \in Seq(Frame), NEW fr \in Frame, StackFits(p, s), Settled(s),
           FrameFits(p, fr), s # <<>> => IsNested(fr)
    PROVE  StackFits(p, Push(fr, s))
  BY FitsPush DEF StackFits

\* No message appears, and none is kept that was not, or that the
\* dispatchMessages about to swap no longer takes.
Rearranged(r, t) ==
    /\ \A x : Item(t, x) => Item(r, x)
    /\ \A x : Kept(t, x) => Kept(r, x) /\ (AboutToSwap(r.stack, x.c) => AboutToSwap(t.stack, x.c))

LEMMA StackSplit ==
    ASSUME NEW r \in ProcState, r.stack # <<>>
    PROVE  \E fr \in Frame, s \in Seq(Frame) :
              r.stack = Push(fr, s) /\ fr = Head(r.stack) /\ s = Tail(r.stack)
<1>1. r.stack \in Seq(Frame)
  BY DEF ProcState
<1>2. r.stack = Push(Head(r.stack), Tail(r.stack)) /\ Head(r.stack) \in Frame /\ Tail(r.stack) \in Seq(Frame)
  BY <1>1, PushTail
<1>3. QED
  BY <1>2

LEMMA MoveStill ==
    ASSUME NEW r, NEW t, IsStill(r, t)
    PROVE  Rearranged(r, t)
  BY DEF IsStill, Rearranged, Item, Kept

LEMMA MoveCall ==
    ASSUME NEW p, NEW r \in ProcState, NEW t \in ProcState, NEW fr \in Frame, IsCall(r, t, fr),
           StackFits(p, r.stack), Settled(r.stack), FrameFits(p, fr)
    PROVE  Rearranged(r, t) /\ StackFits(p, t.stack)
<1>1. PICK s \in Seq(Frame) : s = r.stack
  BY DEF ProcState
<1>2. t.stack = Push(fr, s) /\ t.messages = r.messages /\ fr.f # "dispatchMessages"
  BY <1>1 DEF IsCall
<1>3. FrameItems(fr) = {} /\ FrameKeeps(fr) = {} /\ IsNested(fr)
  BY <1>2 DEF FrameItems, FrameKeeps, IsNested
<1>4. /\ \A x : OnStack(t.stack, x) <=> OnStack(s, x)
      /\ \A x : KeptOn(t.stack, x) <=> KeptOn(s, x)
      /\ \A c : AboutToSwap(t.stack, c) <=> AboutToSwap(s, c)
  BY <1>2, <1>3, OnPush
<1>5. StackFits(p, Push(fr, s))
  BY <1>1, <1>3, FitsOn
<1>6. QED
  BY <1>1, <1>2, <1>4, <1>5 DEF Rearranged, Item, Kept

LEMMA MoveReturn ==
    ASSUME NEW p, NEW r \in ProcState, NEW t \in ProcState, IsReturn(r, t), StackFits(p, r.stack)
    PROVE  Rearranged(r, t) /\ StackFits(p, t.stack) /\ Settled(t.stack)
<1>1. PICK fr \in Frame, s \in Seq(Frame) : r.stack = Push(fr, s) /\ fr = Head(r.stack) /\ s = Tail(r.stack)
  BY StackSplit DEF IsReturn
<1>s. r.stack = Push(fr, s)
  BY <1>1
<1>2. t.stack = s /\ t.messages = r.messages /\ fr.f # "dispatchMessages"
  BY <1>1 DEF IsReturn
<1>3. /\ \A x : OnStack(r.stack, x) <=> x \in FrameItems(fr) \/ OnStack(s, x)
      /\ \A x : KeptOn(r.stack, x) <=> x \in FrameKeeps(fr) \/ KeptOn(s, x)
      /\ \A c : AboutToSwap(r.stack, c) <=> AboutToSwap(s, c)
  BY <1>s, <1>2, OnPush
<1>4. StackFits(p, s) /\ Settled(s)
  BY <1>s, FitsTail
<1>5. QED
  BY <1>2, <1>3, <1>4 DEF Rearranged, Item, Kept

LEMMA MoveTurn ==
    ASSUME NEW p, NEW r \in ProcState, NEW t \in ProcState, NEW x, IsTurn(r, t, x),
           StackFits(p, r.stack)
    PROVE  Rearranged(r, t) /\ StackFits(p, t.stack)
<1>1. PICK fr \in Frame, s \in Seq(Frame) : r.stack = Push(fr, s) /\ fr = Head(r.stack) /\ s = Tail(r.stack)
  BY StackSplit DEF IsTurn
<1>s. r.stack = Push(fr, s)
  BY <1>1
<1>2. PICK g \in Frame : /\ g.f = "sendSync" /\ g.c = fr.c /\ t.stack = Push(g, s)
                         /\ t.messages = r.messages /\ fr.f = "sendSync"
  BY <1>1 DEF IsTurn
<1>3. /\ FrameItems(g) = {} /\ FrameKeeps(g) = {} /\ IsNested(g)
      /\ FrameItems(fr) = {} /\ FrameKeeps(fr) = {}
  BY <1>2 DEF FrameItems, FrameKeeps, IsNested
<1>4. /\ \A y : OnStack(r.stack, y) <=> OnStack(s, y)
      /\ \A y : KeptOn(r.stack, y) <=> KeptOn(s, y)
      /\ \A c : AboutToSwap(r.stack, c) <=> AboutToSwap(s, c)
  BY <1>s, <1>2, <1>3, OnPush
<1>5. /\ \A y : OnStack(t.stack, y) <=> OnStack(s, y)
      /\ \A y : KeptOn(t.stack, y) <=> KeptOn(s, y)
      /\ \A c : AboutToSwap(t.stack, c) <=> AboutToSwap(s, c)
  BY <1>2, <1>3, OnPush
<1>6. StackFits(p, s) /\ Settled(s) /\ FrameFits(p, fr)
  BY <1>s, FitsTail
<1>7. FrameFits(p, g)
  BY <1>2, <1>6 DEF FrameFits
<1>8. StackFits(p, Push(g, s))
  BY <1>3, <1>6, <1>7, FitsOn
<1>9. QED
  BY <1>2, <1>4, <1>5, <1>8 DEF Rearranged, Item, Kept

\* dispatchMessages swaps: it is alone on the stack.
LEMMA MoveSwap ==
    ASSUME NEW p, NEW r \in ProcState, NEW t \in ProcState, IsSwap(r, t), StackFits(p, r.stack)
    PROVE  Rearranged(r, t) /\ StackFits(p, t.stack)
<1>1. PICK fr \in Frame, s \in Seq(Frame) : r.stack = Push(fr, s) /\ fr = Head(r.stack) /\ s = Tail(r.stack)
  BY StackSplit DEF IsSwap
<1>s. r.stack = Push(fr, s)
  BY <1>1
<1>2. fr.f = "dispatchMessages" /\ ~fr.swapped /\ t.messages = <<>>
  BY <1>1 DEF IsSwap
<1>3. PICK g : GoesOn(fr, g, r.messages, fr.putBack) /\ t.stack = Push(g, s)
  BY <1>1 DEF IsSwap
<1>4. StackFits(p, s) /\ Settled(s) /\ FrameFits(p, fr) /\ (s # <<>> => IsNested(fr))
  BY <1>s, FitsTail
<1>5. s = <<>> /\ fr.todo = <<>> /\ fr.putBack = <<>>
  BY <1>2, <1>4 DEF IsNested, FrameFits
<1>6. /\ g \in Frame /\ g.f = "dispatchMessages" /\ g.allowed = fr.allowed /\ g.swapped
      /\ g.todo = r.messages /\ g.putBack = <<>>
  BY <1>3, <1>5 DEF GoesOn
<1>7. StackFits(p, Push(g, s))
  <2>1. FrameFits(p, g)
    BY <1>6 DEF FrameFits
  <2>2. QED
    BY <1>4, <1>5, <1>6, <2>1, FitsOn
<1>8. /\ FrameItems(g) = Elems(r.messages)
      /\ FrameKeeps(g) = {x \in Elems(r.messages) : x.c \notin fr.allowed}
  BY <1>6, ElemsEmpty DEF FrameItems, FrameKeeps
<1>9. /\ \A x : OnStack(t.stack, x) <=> x \in FrameItems(g)
      /\ \A x : KeptOn(t.stack, x) <=> x \in FrameKeeps(g)
  <2>1. /\ \A x : OnStack(t.stack, x) <=> x \in FrameItems(g) \/ OnStack(s, x)
        /\ \A x : KeptOn(t.stack, x) <=> x \in FrameKeeps(g) \/ KeptOn(s, x)
    BY <1>3, <1>6, OnPush
  <2>2. QED
    BY <1>5, <2>1, OnEmpty
<1>10. \A c : AboutToSwap(r.stack, c) => c \in fr.allowed
  <2>1. \A c : AboutToSwap(r.stack, c) => c \in fr.allowed \/ AboutToSwap(s, c)
    BY <1>s, OnPush
  <2>2. QED
    BY <1>5, <2>1, OnEmpty
<1>11. Elems(t.messages) = {}
  BY <1>2, ElemsEmpty
<1>12. QED
  BY <1>3, <1>7, <1>8, <1>9, <1>10, <1>11 DEF Rearranged, Item, Kept

\* One turn of its loop.
LEMMA MoveNext ==
    ASSUME NEW p, NEW r \in ProcState, NEW t \in ProcState, IsTake(r, t) \/ IsSkip(r, t),
           StackFits(p, r.stack)
    PROVE  Rearranged(r, t) /\ StackFits(p, t.stack) /\ Settled(t.stack)
<1>1. PICK fr \in Frame, s \in Seq(Frame) : r.stack = Push(fr, s) /\ fr = Head(r.stack) /\ s = Tail(r.stack)
  BY StackSplit DEF IsTake, IsSkip, InLoop
<1>s. r.stack = Push(fr, s)
  BY <1>1
<1>2. fr.f = "dispatchMessages" /\ fr.swapped /\ fr.todo # <<>> /\ t.messages = r.messages
  BY <1>1 DEF IsTake, IsSkip, InLoop
<1>3. PICK x : x = Head(fr.todo)
  OBVIOUS
<1>4. PICK g : /\ GoesOn(fr, g, g.todo, g.putBack) /\ t.stack = Push(g, s) /\ g.todo = Tail(fr.todo)
               /\ \/ g.putBack = fr.putBack
                  \/ x.c \notin fr.allowed /\ g.putBack = Append(fr.putBack, x)
  BY <1>1, <1>3 DEF IsTake, IsSkip, GoesOn
<1>5. g \in Frame /\ g.f = "dispatchMessages" /\ g.allowed = fr.allowed /\ g.swapped
  BY <1>4 DEF GoesOn
<1>6. fr.todo \in Seq(Received) /\ fr.putBack \in Seq(Received) /\ fr.allowed \in SUBSET Endpoint
  BY <1>2, FrameKinds
<1>7. /\ Elems(fr.todo) = {x} \cup Elems(g.todo) /\ x \in Received
  BY <1>2, <1>3, <1>4, <1>6, ElemsTail
<1>8. \/ Elems(g.putBack) = Elems(fr.putBack)
      \/ x.c \notin fr.allowed /\ Elems(g.putBack) = Elems(fr.putBack) \cup {x}
  <2>1. Elems(Append(fr.putBack, x)) = Elems(fr.putBack) \cup {x}
    BY <1>6, <1>7, ElemsAppend
  <2>2. QED
    BY <1>4, <2>1
<1>9. FrameItems(g) \subseteq FrameItems(fr) /\ FrameKeeps(g) \subseteq FrameKeeps(fr)
  BY <1>2, <1>5, <1>7, <1>8 DEF FrameItems, FrameKeeps
<1>10. /\ \A y : OnStack(r.stack, y) <=> y \in FrameItems(fr) \/ OnStack(s, y)
       /\ \A y : KeptOn(r.stack, y) <=> y \in FrameKeeps(fr) \/ KeptOn(s, y)
       /\ \A c : AboutToSwap(r.stack, c) <=> AboutToSwap(s, c)
  BY <1>s, <1>2, OnPush
<1>11. /\ \A y : OnStack(t.stack, y) <=> y \in FrameItems(g) \/ OnStack(s, y)
       /\ \A y : KeptOn(t.stack, y) <=> y \in FrameKeeps(g) \/ KeptOn(s, y)
       /\ \A c : AboutToSwap(t.stack, c) <=> AboutToSwap(s, c)
  BY <1>4, <1>5, OnPush
<1>12. StackFits(p, s) /\ Settled(s) /\ FrameFits(p, fr) /\ (s # <<>> => IsNested(fr))
  BY <1>s, FitsTail
<1>13. x.c \in Endpoint
  BY <1>7 DEF Received
<1>14. FrameFits(p, g) /\ (s # <<>> => IsNested(g))
  BY <1>2, <1>4, <1>5, <1>12, <1>13 DEF FrameFits, IsNested
<1>15. StackFits(p, t.stack)
  BY <1>4, <1>5, <1>12, <1>14, FitsOn
<1>16. Settled(t.stack)
  BY <1>4, <1>5, <1>12, SettledPush
<1>17. QED
  BY <1>2, <1>9, <1>10, <1>11, <1>15, <1>16 DEF Rearranged, Item, Kept

LEMMA MovePutBack ==
    ASSUME NEW p, NEW r \in ProcState, NEW t \in ProcState, IsPutBack(r, t), StackFits(p, r.stack)
    PROVE  Rearranged(r, t) /\ StackFits(p, t.stack) /\ Settled(t.stack)
<1>1. PICK fr \in Frame, s \in Seq(Frame) : r.stack = Push(fr, s) /\ fr = Head(r.stack) /\ s = Tail(r.stack)
  BY StackSplit DEF IsPutBack
<1>s. r.stack = Push(fr, s)
  BY <1>1
<1>2. /\ fr.f = "dispatchMessages" /\ fr.swapped /\ t.stack = s
      /\ t.messages = r.messages \o fr.putBack
  BY <1>1 DEF IsPutBack
<1>3. r.messages \in Seq(Received) /\ fr.putBack \in Seq(Received)
  BY <1>2, FrameKinds DEF ProcState
<1>4. Elems(t.messages) = Elems(r.messages) \cup Elems(fr.putBack)
  BY <1>2, <1>3, ElemsConcat
<1>5. Elems(fr.putBack) \subseteq FrameItems(fr) /\ Elems(fr.putBack) \subseteq FrameKeeps(fr)
  BY <1>2 DEF FrameItems, FrameKeeps
<1>6. /\ \A y : OnStack(r.stack, y) <=> y \in FrameItems(fr) \/ OnStack(s, y)
      /\ \A y : KeptOn(r.stack, y) <=> y \in FrameKeeps(fr) \/ KeptOn(s, y)
      /\ \A c : AboutToSwap(r.stack, c) <=> AboutToSwap(s, c)
  BY <1>s, <1>2, OnPush
<1>7. StackFits(p, s) /\ Settled(s)
  BY <1>s, FitsTail
<1>8. QED
  BY <1>2, <1>4, <1>5, <1>6, <1>7 DEF Rearranged, Item, Kept

LEMMA MoveWaitDispatch ==
    ASSUME NEW p, NEW r \in ProcState, NEW t \in ProcState, IsWaitDispatch(r, t),
           StackFits(p, r.stack)
    PROVE  Rearranged(r, t) /\ StackFits(p, t.stack)
<1>1. PICK fr \in Frame, s \in Seq(Frame) : r.stack = Push(fr, s) /\ fr = Head(r.stack) /\ s = Tail(r.stack)
  BY StackSplit DEF IsWaitDispatch
<1>s. r.stack = Push(fr, s)
  BY <1>1
<1>2. PICK g \in Frame, h \in Frame :
          /\ g.f = "sendSync" /\ g.c = fr.c /\ g.pc = "check"
          /\ h.f = "dispatchMessages" /\ h.allowed = Endpoint /\ h.swapped
          /\ h.todo = r.messages /\ h.putBack = <<>>
          /\ t.stack = Push(h, Push(g, s))
  BY <1>1 DEF IsWaitDispatch
<1>3. fr.f = "sendSync" /\ t.messages = <<>>
  BY <1>1 DEF IsWaitDispatch
<1>4. PICK u : u = Push(g, s)
  OBVIOUS
<1>5. u \in Seq(Frame)
  BY <1>4, PushTail
<1>6. /\ FrameItems(g) = {} /\ FrameKeeps(g) = {} /\ IsNested(g)
      /\ FrameItems(fr) = {} /\ FrameKeeps(fr) = {}
  BY <1>2, <1>3 DEF FrameItems, FrameKeeps, IsNested
<1>7. \A x \in Elems(r.messages) : x.c \in Endpoint
  <2>1. r.messages \in Seq(Received)
    BY DEF ProcState
  <2>2. Elems(r.messages) \subseteq Received
    BY <2>1, ElemsOf
  <2>3. QED
    BY <2>2 DEF Received
<1>8. FrameItems(h) = Elems(r.messages) /\ FrameKeeps(h) = {} /\ IsNested(h)
  BY <1>2, <1>7, ElemsEmpty DEF FrameItems, FrameKeeps, IsNested
<1>9. /\ \A x : OnStack(r.stack, x) <=> OnStack(s, x)
      /\ \A x : KeptOn(r.stack, x) <=> KeptOn(s, x)
      /\ \A c : AboutToSwap(r.stack, c) <=> AboutToSwap(s, c)
  BY <1>s, <1>3, <1>6, OnPush
<1>10. /\ \A x : OnStack(u, x) <=> OnStack(s, x)
       /\ \A x : KeptOn(u, x) <=> KeptOn(s, x)
       /\ \A c : AboutToSwap(u, c) <=> AboutToSwap(s, c)
  BY <1>2, <1>4, <1>6, OnPush
<1>11. /\ \A x : OnStack(t.stack, x) <=> x \in Elems(r.messages) \/ OnStack(u, x)
       /\ \A x : KeptOn(t.stack, x) <=> KeptOn(u, x)
       /\ \A c : AboutToSwap(t.stack, c) <=> AboutToSwap(u, c)
  BY <1>2, <1>4, <1>5, <1>8, OnPush
<1>12. StackFits(p, s) /\ Settled(s) /\ FrameFits(p, fr)
  BY <1>s, FitsTail
<1>13. FrameFits(p, g) /\ FrameFits(p, h)
  BY <1>2, <1>3, <1>12 DEF FrameFits
<1>14. StackFits(p, u) /\ Settled(u)
  BY <1>2, <1>4, <1>6, <1>12, <1>13, FitsOn, SettledPush
<1>15. StackFits(p, Push(h, u))
  BY <1>5, <1>8, <1>13, <1>14, FitsOn
<1>16. Elems(t.messages) = {}
  BY <1>3, ElemsEmpty
<1>17. QED
  BY <1>2, <1>4, <1>9, <1>10, <1>11, <1>15, <1>16 DEF Rearranged, Item, Kept

LEMMA RunIs ==
    ASSUME NEW r \in ProcState, NEW t \in ProcState, IsRun(r, t)
    PROVE  /\ r.runLoop \in Seq(Function) /\ Head(r.runLoop) \in Function
           /\ Elems(r.runLoop) = {Head(r.runLoop)} \cup Elems(t.runLoop)
<1>1. r.runLoop \in Seq(Function) /\ r.runLoop # <<>> /\ t.runLoop = Tail(r.runLoop)
  BY DEF IsRun, ProcState
<1>2. QED
  BY <1>1, ElemsTail

LEMMA MoveRunOther ==
    ASSUME NEW p, NEW r \in ProcState, NEW t \in ProcState, IsRunOther(r, t)
    PROVE  Rearranged(r, t) /\ StackFits(p, t.stack) /\ Settled(t.stack)
<1>1. r.stack = <<>> /\ t.stack = <<>> /\ t.messages = r.messages
  BY DEF IsRunOther, IsRun
<1>2. QED
  BY <1>1, FitsEmpty DEF Rearranged, Item, Kept

LEMMA MoveRunAll ==
    ASSUME NEW p, NEW r \in ProcState, NEW t \in ProcState, IsRunAll(r, t)
    PROVE  /\ Rearranged(r, t) /\ StackFits(p, t.stack)
           /\ \A x : Kept(t, x) => x \in Elems(t.messages)
           /\ AboutToSwap(t.stack, Head(r.runLoop).c)
<1>1. r.stack = <<>> /\ t.messages = r.messages
  BY DEF IsRunAll, IsRun
<1>2. PICK g \in Frame : /\ g.f = "dispatchMessages" /\ g.allowed = {Head(r.runLoop).c}
                         /\ ~g.swapped /\ g.todo = <<>> /\ g.putBack = <<>>
                         /\ t.stack = Push(g, <<>>)
  BY <1>1 DEF IsRunAll
<1>3. FrameItems(g) = {} /\ FrameKeeps(g) = {} /\ FrameFits(p, g) /\ <<>> \in Seq(Frame)
  BY <1>2, ElemsEmpty DEF FrameItems, FrameKeeps, FrameFits
<1>4. PICK s \in Seq(Frame) : s = <<>>
  BY <1>3
<1>5. t.stack = Push(g, s)
  BY <1>2, <1>4
<1>6. /\ \A x : OnStack(t.stack, x) <=> OnStack(s, x)
      /\ \A x : KeptOn(t.stack, x) <=> KeptOn(s, x)
      /\ \A c : AboutToSwap(t.stack, c) <=> c = Head(r.runLoop).c \/ AboutToSwap(s, c)
  BY <1>2, <1>3, <1>5, OnPush
<1>7. /\ \A x : ~OnStack(t.stack, x) /\ ~KeptOn(t.stack, x)
      /\ AboutToSwap(t.stack, Head(r.runLoop).c)
      /\ \A c : ~AboutToSwap(r.stack, c)
  BY <1>1, <1>4, <1>6, OnEmpty
<1>8. StackFits(p, s) /\ Settled(s)
  BY <1>4, FitsEmpty
<1>9. StackFits(p, t.stack)
  BY <1>3, <1>4, <1>5, <1>8, FitsOn
<1>10. QED
  BY <1>1, <1>7, <1>9 DEF Rearranged, Item, Kept

LEMMA MoveQueue ==
    ASSUME NEW r \in ProcState, NEW t \in ProcState, NEW x \in Received, IsQueue(r, t, x)
    PROVE  /\ \A y : Item(t, y) => Item(r, y) \/ y = x
           /\ \A y : Kept(t, y) => Kept(r, y) \/ y = x
           /\ t.stack = r.stack
<1>1. t.messages = Append(r.messages, x) /\ t.stack = r.stack /\ r.messages \in Seq(Received)
  BY DEF IsQueue, ProcState
<1>2. Elems(t.messages) = Elems(r.messages) \cup {x}
  BY <1>1, ElemsAppend
<1>3. QED
  BY <1>1, <1>2 DEF Item, Kept

-----------------------------------------------------------------------------
(* Every message kept has a dispatchMessages to come.                      *)

Runs(q, c) == AllOf(c) \in Elems(q)

Served(r) ==
    /\ \A c \in r.scheduled : Runs(r.runLoop, c)
    /\ \A x : Kept(r, x) => Runs(r.runLoop, x.c) \/ AboutToSwap(r.stack, x.c)

LEMMA ServedSame ==
    ASSUME NEW r, NEW t, Served(r), Rearranged(r, t), SameLoop(r, t)
    PROVE  Served(t)
  BY DEF Served, Rearranged, SameLoop

LEMMA ServedRunOther ==
    ASSUME NEW r \in ProcState, NEW t \in ProcState, IsRunOther(r, t), Served(r)
    PROVE  Served(t)
<1>1. /\ Elems(r.runLoop) = {Head(r.runLoop)} \cup Elems(t.runLoop)
      /\ Head(r.runLoop).f # "dispatchMessages" /\ t.scheduled = r.scheduled
  BY RunIs DEF IsRunOther
<1>2. \A c : AllOf(c).f = "dispatchMessages"
  BY DEF AllOf
<1>3. \A c : Runs(r.runLoop, c) => Runs(t.runLoop, c)
  BY <1>1, <1>2 DEF Runs
<1>4. Rearranged(r, t)
  BY MoveRunOther
<1>5. QED
  BY <1>1, <1>3, <1>4 DEF Served, Rearranged

LEMMA ServedRunAll ==
    ASSUME NEW r \in ProcState, NEW t \in ProcState, IsRunAll(r, t), Served(r)
    PROVE  Served(t)
<1>1. PICK d : d = Head(r.runLoop).c
  OBVIOUS
<1>2. /\ Elems(r.runLoop) = {Head(r.runLoop)} \cup Elems(t.runLoop)
      /\ t.scheduled = r.scheduled \ {d} /\ r.stack = <<>>
  BY <1>1, RunIs DEF IsRunAll, IsRun
<1>3. \A c : AllOf(c).c = c
  BY DEF AllOf
<1>4. \A c : Runs(r.runLoop, c) /\ c # d => Runs(t.runLoop, c)
  BY <1>1, <1>2, <1>3 DEF Runs
<1>5. /\ Rearranged(r, t) /\ AboutToSwap(t.stack, d)
  BY <1>1, MoveRunAll
<1>6. \A c : ~AboutToSwap(r.stack, c)
  BY <1>2, OnEmpty
<1>7. QED
  BY <1>2, <1>4, <1>5, <1>6 DEF Served, Rearranged

LEMMA ServedPost ==
    ASSUME NEW r \in ProcState, NEW t \in ProcState, NEW fn \in Function, IsPost(r, t, fn), Served(r)
    PROVE  Served(t) /\ Rearranged(r, t) /\ Elems(t.runLoop) = Elems(r.runLoop) \cup {fn}
<1>1. /\ t.runLoop = Append(r.runLoop, fn) /\ r.runLoop \in Seq(Function)
      /\ t.scheduled = r.scheduled /\ t.messages = r.messages /\ t.stack = r.stack
  BY DEF IsPost, ProcState
<1>2. Elems(t.runLoop) = Elems(r.runLoop) \cup {fn}
  BY <1>1, ElemsAppend
<1>3. QED
  BY <1>1, <1>2 DEF Served, Rearranged, Runs, Item, Kept

LEMMA ServedQueue ==
    ASSUME NEW r \in ProcState, NEW t \in ProcState, NEW x \in Received, IsQueue(r, t, x), Served(r)
    PROVE  /\ Served(t) /\ Elems(t.runLoop) \subseteq Elems(r.runLoop) \cup {AllOf(x.c)}
           /\ Runs(t.runLoop, x.c)
<1>1. /\ t.runLoop = IF x.c \in r.scheduled THEN r.runLoop ELSE Append(r.runLoop, AllOf(x.c))
      /\ t.scheduled = r.scheduled \cup {x.c} /\ r.runLoop \in Seq(Function)
  BY DEF IsQueue, ProcState
<1>2. AllOf(x.c) \in Function
  BY DEF AllOf, Function, Received
<1>3. Elems(Append(r.runLoop, AllOf(x.c))) = Elems(r.runLoop) \cup {AllOf(x.c)}
  BY <1>1, <1>2, ElemsAppend
<1>4. /\ Elems(r.runLoop) \subseteq Elems(t.runLoop)
      /\ Elems(t.runLoop) \subseteq Elems(r.runLoop) \cup {AllOf(x.c)}
  BY <1>1, <1>3
<1>5. Runs(t.runLoop, x.c)
  <2>1. CASE x.c \in r.scheduled
    BY <1>4, <2>1 DEF Served, Runs
  <2>2. CASE x.c \notin r.scheduled
    BY <1>1, <1>3, <2>2 DEF Runs
  <2>3. QED
    BY <2>1, <2>2
<1>6. (\A y : Kept(t, y) => Kept(r, y) \/ y = x) /\ t.stack = r.stack
  BY MoveQueue
<1>7. QED
  BY <1>1, <1>4, <1>5, <1>6 DEF Served, Runs

LEMMA EndFits ==
    ASSUME NEW t, IsEnd(t)
    PROVE  /\ Served(t) /\ \A p : StackFits(p, t.stack)
           /\ \A x : ~Item(t, x) /\ ~Kept(t, x)
           /\ Elems(t.runLoop) = {} /\ t.delayed = {} /\ t.stack = <<>>
<1>1. t.messages = <<>> /\ t.scheduled = {} /\ t.runLoop = <<>> /\ t.stack = <<>> /\ t.delayed = {}
  BY DEF IsEnd
<1>2. QED
  BY <1>1, ElemsEmpty, OnEmpty, FitsEmpty DEF Served, Item, Kept

-----------------------------------------------------------------------------
(* The calls on the stack are the pending replies.                         *)

CallOn(c, fr) == fr.f = "sendSync" /\ fr.c = c
CallIds(c, s) == {fr.id : fr \in {g \in Elems(s) : CallOn(c, g)}}
CallsOrdered(c, s) ==
    \A i, j \in 1..Len(s) : i < j /\ CallOn(c, s[i]) /\ CallOn(c, s[j]) => s[j].id < s[i].id

Ids(q) == {q[i].id : i \in 1..Len(q)}
Increasing(q) == \A i, j \in 1..Len(q) : i < j => q[i].id < q[j].id

\* m_pendingSyncReplies and the calls of c on the stack of its client are the
\* same, the innermost last; n messages have been sent.
PendingFits(c, q, s, n) ==
    /\ Increasing(q) /\ CallsOrdered(c, s) /\ Ids(q) = CallIds(c, s)
    /\ \A i \in Ids(q) : i <= n

LEMMA CallsPush ==
    ASSUME NEW c, NEW s \in Seq(Frame), NEW fr \in Frame
    PROVE  /\ CallIds(c, Push(fr, s)) = CallIds(c, s) \cup (IF CallOn(c, fr) THEN {fr.id} ELSE {})
           /\ CallsOrdered(c, Push(fr, s)) <=>
                 CallsOrdered(c, s) /\ (CallOn(c, fr) => \A n \in CallIds(c, s) : n < fr.id)
<1>1. PICK t : t = Push(fr, s)
  OBVIOUS
<1>2. Elems(t) = {fr} \cup Elems(s)
  BY <1>1, ElemsPush
<1>3. CallIds(c, t) = CallIds(c, s) \cup (IF CallOn(c, fr) THEN {fr.id} ELSE {})
  BY <1>2 DEF CallIds
<1>4. /\ Len(s) \in Nat /\ Len(t) = Len(s) + 1 /\ t[1] = fr
      /\ \A i \in 1..Len(s) : t[i + 1] = s[i]
      /\ \A i \in 2..Len(s) + 1 : t[i] = s[i - 1] /\ i - 1 \in 1..Len(s)
  BY <1>1 DEF Push
<1>5. ASSUME CallsOrdered(c, t)
      PROVE  CallsOrdered(c, s) /\ (CallOn(c, fr) => \A n \in CallIds(c, s) : n < fr.id)
  <2>1. ASSUME NEW i \in 1..Len(s), NEW j \in 1..Len(s), i < j, CallOn(c, s[i]), CallOn(c, s[j])
        PROVE  s[j].id < s[i].id
    <3>1. i + 1 \in 1..Len(t) /\ j + 1 \in 1..Len(t) /\ i + 1 < j + 1 /\ t[i + 1] = s[i] /\ t[j + 1] = s[j]
      BY <1>4, <2>1
    <3>2. QED
      BY <1>5, <2>1, <3>1 DEF CallsOrdered
  <2>2. ASSUME CallOn(c, fr), NEW n \in CallIds(c, s)  PROVE n < fr.id
    <3>1. PICK g \in Elems(s) : CallOn(c, g) /\ n = g.id
      BY <2>2 DEF CallIds
    <3>2. PICK j \in 1..Len(s) : g = s[j]
      BY <3>1 DEF Elems
    <3>3. 1 \in 1..Len(t) /\ j + 1 \in 1..Len(t) /\ 1 < j + 1 /\ t[j + 1] = g /\ t[1] = fr
      BY <1>4, <3>2
    <3>4. t[j + 1].id < t[1].id
      BY <1>5, <2>2, <3>1, <3>3 DEF CallsOrdered
    <3>5. QED
      BY <3>1, <3>3, <3>4
  <2>3. QED
    BY <2>1, <2>2 DEF CallsOrdered
<1>6. ASSUME CallsOrdered(c, s), CallOn(c, fr) => \A n \in CallIds(c, s) : n < fr.id
      PROVE  CallsOrdered(c, t)
  <2>1. ASSUME NEW i \in 1..Len(t), NEW j \in 1..Len(t), i < j, CallOn(c, t[i]), CallOn(c, t[j])
        PROVE  t[j].id < t[i].id
    <3>1. j \in 2..Len(s) + 1 /\ t[j] = s[j - 1] /\ j - 1 \in 1..Len(s)
      BY <1>4, <2>1
    <3>2. CASE i = 1
      <4>1. t[j] \in Elems(s)
        BY <3>1 DEF Elems
      <4>2. t[j].id \in CallIds(c, s)
        BY <2>1, <4>1 DEF CallIds
      <4>3. QED
        BY <1>4, <1>6, <2>1, <3>2, <4>2
    <3>3. CASE i # 1
      <4>1. t[i] = s[i - 1] /\ i - 1 \in 1..Len(s) /\ i - 1 < j - 1
        BY <1>4, <2>1, <3>1, <3>3
      <4>2. QED
        BY <1>6, <2>1, <3>1, <4>1 DEF CallsOrdered
    <3>4. QED
      BY <3>2, <3>3
  <2>2. QED
    BY <2>1 DEF CallsOrdered
<1>7. QED
  BY <1>1, <1>3, <1>5, <1>6

LEMMA CallsPushOn ==
    ASSUME NEW c, NEW s \in Seq(Frame), NEW fr \in Frame, CallOn(c, fr)
    PROVE  /\ CallIds(c, Push(fr, s)) = CallIds(c, s) \cup {fr.id}
           /\ CallsOrdered(c, Push(fr, s)) <=>
                 CallsOrdered(c, s) /\ \A n \in CallIds(c, s) : n < fr.id
<1>1. /\ CallIds(c, Push(fr, s)) = CallIds(c, s) \cup (IF CallOn(c, fr) THEN {fr.id} ELSE {})
      /\ CallsOrdered(c, Push(fr, s)) <=>
            CallsOrdered(c, s) /\ (CallOn(c, fr) => \A n \in CallIds(c, s) : n < fr.id)
  BY CallsPush
<1>2. QED
  BY <1>1

LEMMA CallsPushOther ==
    ASSUME NEW c, NEW s \in Seq(Frame), NEW fr \in Frame, ~CallOn(c, fr)
    PROVE  /\ CallIds(c, Push(fr, s)) = CallIds(c, s)
           /\ CallsOrdered(c, Push(fr, s)) <=> CallsOrdered(c, s)
<1>1. /\ CallIds(c, Push(fr, s)) = CallIds(c, s) \cup (IF CallOn(c, fr) THEN {fr.id} ELSE {})
      /\ CallsOrdered(c, Push(fr, s)) <=>
            CallsOrdered(c, s) /\ (CallOn(c, fr) => \A n \in CallIds(c, s) : n < fr.id)
  BY CallsPush
<1>2. QED
  BY <1>1

\* The calls on two stacks are the same.
SameCalls(s, t) ==
    \A c : CallIds(c, t) = CallIds(c, s) /\ (CallsOrdered(c, s) => CallsOrdered(c, t))

LEMMA NoCall ==
    ASSUME NEW s \in Seq(Frame), NEW fr \in Frame, fr.f # "sendSync"
    PROVE  SameCalls(s, Push(fr, s)) /\ SameCalls(Push(fr, s), s)
<1>1. ASSUME NEW c  PROVE /\ CallIds(c, Push(fr, s)) = CallIds(c, s)
                          /\ CallsOrdered(c, Push(fr, s)) <=> CallsOrdered(c, s)
  <2>1. ~CallOn(c, fr)
    BY DEF CallOn
  <2>2. QED
    BY <2>1, CallsPushOther
<1>2. QED
  BY <1>1 DEF SameCalls

LEMMA SameTop ==
    ASSUME NEW s \in Seq(Frame), NEW fr \in Frame, NEW g \in Frame, fr.f = g.f,
           fr.f = "sendSync" => g.c = fr.c /\ g.id = fr.id
    PROVE  SameCalls(Push(fr, s), Push(g, s))
<1>1. ASSUME NEW c  PROVE /\ CallIds(c, Push(g, s)) = CallIds(c, Push(fr, s))
                          /\ CallsOrdered(c, Push(fr, s)) => CallsOrdered(c, Push(g, s))
  <2>1. (CallOn(c, fr) <=> CallOn(c, g)) /\ (CallOn(c, fr) => g.id = fr.id)
    BY DEF CallOn
  <2>2. /\ CallIds(c, Push(fr, s)) = CallIds(c, s) \cup (IF CallOn(c, fr) THEN {fr.id} ELSE {})
        /\ CallsOrdered(c, Push(fr, s)) <=>
                 CallsOrdered(c, s) /\ (CallOn(c, fr) => \A n \in CallIds(c, s) : n < fr.id)
    BY CallsPush
  <2>3. /\ CallIds(c, Push(g, s)) = CallIds(c, s) \cup (IF CallOn(c, g) THEN {g.id} ELSE {})
        /\ CallsOrdered(c, Push(g, s)) <=>
                 CallsOrdered(c, s) /\ (CallOn(c, g) => \A n \in CallIds(c, s) : n < g.id)
    BY CallsPush
  <2>4. QED
    BY <2>1, <2>2, <2>3
<1>2. QED
  BY <1>1 DEF SameCalls

LEMMA SameCallsTwice ==
    ASSUME NEW s, NEW t, NEW u, SameCalls(s, t), SameCalls(t, u)
    PROVE  SameCalls(s, u)
  BY DEF SameCalls

LEMMA CallsKept ==
    ASSUME NEW r \in ProcState, NEW t \in ProcState,
           \/ t.stack = r.stack
           \/ \E fr \in Frame : fr.f = "handler" /\ IsCall(r, t, fr)
           \/ IsReturn(r, t) /\ Head(r.stack).f = "handler"
           \/ \E x \in {"dispatch", "check", "wait"} : IsTurn(r, t, x)
           \/ IsSwap(r, t) \/ IsTake(r, t) \/ IsSkip(r, t) \/ IsPutBack(r, t)
           \/ IsWaitDispatch(r, t) \/ IsRunAll(r, t)
    PROVE  SameCalls(r.stack, t.stack)
<1>1. CASE t.stack = r.stack
  BY <1>1 DEF SameCalls
<1>2. ASSUME NEW fr \in Frame, fr.f = "handler" \/ fr.f = "dispatchMessages", t.stack = Push(fr, r.stack)
      PROVE  SameCalls(r.stack, t.stack)
  <2>1. r.stack \in Seq(Frame) /\ fr.f # "sendSync"
    BY <1>2 DEF ProcState
  <2>2. QED
    BY <1>2, <2>1, NoCall
<1>3. CASE \E fr \in Frame : fr.f = "handler" /\ IsCall(r, t, fr)
  BY <1>2, <1>3 DEF IsCall
<1>4. CASE IsRunAll(r, t)
  BY <1>2, <1>4 DEF IsRunAll
<1>5. ASSUME r.stack # <<>>, Head(r.stack).f \in {"handler", "dispatchMessages"}, t.stack = Tail(r.stack)
      PROVE  SameCalls(r.stack, t.stack)
  <2>1. PICK fr \in Frame, s \in Seq(Frame) : r.stack = Push(fr, s) /\ fr = Head(r.stack) /\ s = Tail(r.stack)
    BY <1>5, StackSplit
  <2>2. fr.f # "sendSync" /\ t.stack = s /\ r.stack = Push(fr, s)
    BY <1>5, <2>1
  <2>3. SameCalls(Push(fr, s), s)
    BY <2>2, NoCall
  <2>4. QED
    BY <2>2, <2>3
<1>6. CASE IsReturn(r, t) /\ Head(r.stack).f = "handler"
  BY <1>5, <1>6 DEF IsReturn
<1>7. CASE IsPutBack(r, t)
  BY <1>5, <1>7 DEF IsPutBack
<1>8. ASSUME NEW g \in Frame, r.stack # <<>>, Head(r.stack).f = g.f,
             g.f = "sendSync" => g.c = Head(r.stack).c /\ g.id = Head(r.stack).id
      PROVE  SameCalls(r.stack, Push(g, Tail(r.stack)))
  <2>1. PICK fr \in Frame, s \in Seq(Frame) : r.stack = Push(fr, s) /\ fr = Head(r.stack) /\ s = Tail(r.stack)
    BY <1>8, StackSplit
  <2>2. /\ fr.f = g.f /\ (fr.f = "sendSync" => g.c = fr.c /\ g.id = fr.id)
        /\ Push(g, Tail(r.stack)) = Push(g, s) /\ r.stack = Push(fr, s)
    BY <1>8, <2>1
  <2>3. SameCalls(Push(fr, s), Push(g, s))
    BY <2>2, SameTop
  <2>4. QED
    BY <2>2, <2>3
<1>9. CASE \E x \in {"dispatch", "check", "wait"} : IsTurn(r, t, x)
  BY <1>8, <1>9 DEF IsTurn
<1>10. CASE IsSwap(r, t) \/ IsTake(r, t) \/ IsSkip(r, t)
  <2>1. PICK g : /\ g \in Frame /\ g.f = "dispatchMessages" /\ t.stack = Push(g, Tail(r.stack))
                 /\ r.stack # <<>> /\ Head(r.stack).f = "dispatchMessages"
    BY <1>10 DEF IsSwap, IsTake, IsSkip, InLoop, GoesOn
  <2>2. QED
    BY <1>8, <2>1
<1>11. CASE IsWaitDispatch(r, t)
  <2>1. PICK g \in Frame, h \in Frame :
          /\ g.f = "sendSync" /\ g.c = Head(r.stack).c /\ g.id = Head(r.stack).id
          /\ h.f = "dispatchMessages" /\ t.stack = Push(h, Push(g, Tail(r.stack)))
          /\ r.stack # <<>> /\ Head(r.stack).f = "sendSync"
    BY <1>11 DEF IsWaitDispatch
  <2>2. SameCalls(r.stack, Push(g, Tail(r.stack)))
    BY <1>8, <2>1
  <2>3. PICK u : u = Push(g, Tail(r.stack))
    OBVIOUS
  <2>4. r.stack \in Seq(Frame)
    BY DEF ProcState
  <2>5. u \in Seq(Frame)
    BY <2>1, <2>3, <2>4, RetopFacts
  <2>6. SameCalls(u, Push(h, u))
    BY <2>1, <2>5, NoCall
  <2>7. QED
    BY <2>1, <2>2, <2>3, <2>6, SameCallsTwice
<1>12. QED
  BY <1>1, <1>3, <1>4, <1>6, <1>7, <1>9, <1>10, <1>11

LEMMA PendingSame ==
    ASSUME NEW c, NEW q, NEW s, NEW t, NEW n, PendingFits(c, q, s, n), SameCalls(s, t)
    PROVE  PendingFits(c, q, t, n)
  BY DEF PendingFits, SameCalls

LEMMA IdsAre ==
    ASSUME NEW q \in Seq(PendingSyncReply)
    PROVE  /\ Ids(q) \subseteq Number /\ Len(q) \in Nat
           /\ \A i \in 1..Len(q) : q[i].id \in Ids(q) /\ q[i] \in PendingSyncReply /\ q[i].id \in Number
<1>1. Len(q) \in Nat /\ \A i \in 1..Len(q) : q[i] \in PendingSyncReply
  OBVIOUS
<1>2. \A i \in 1..Len(q) : q[i].id \in Number
  BY <1>1 DEF PendingSyncReply
<1>3. QED
  BY <1>1, <1>2 DEF Ids

\* sendSyncMessage pushes a reply and a frame.
LEMMA PendingPush ==
    ASSUME NEW c, NEW q \in Seq(PendingSyncReply), NEW s \in Seq(Frame), NEW fr \in Frame,
           NEW n \in Nat, PendingFits(c, q, s, n), CallOn(c, fr), fr.id = n + 1, n + 1 \in Number,
           NEW b \in BOOLEAN
    PROVE  PendingFits(c, Append(q, [id |-> n + 1, didReceiveReply |-> b]), Push(fr, s), n + 1)
<1>1. PICK e : e = [id |-> n + 1, didReceiveReply |-> b]
  OBVIOUS
<1>2. e \in PendingSyncReply /\ e.id = n + 1
  BY <1>1 DEF PendingSyncReply
<1>3. PICK u : u = Append(q, e)
  OBVIOUS
<1>4. /\ Len(q) \in Nat /\ Len(u) = Len(q) + 1 /\ u[Len(q) + 1] = e
      /\ \A i \in 1..Len(q) : u[i] = q[i]
  BY <1>2, <1>3, AppendFacts
<1>5. Number \subseteq Nat
  BY Numbers
<1>6. \A i \in 1..Len(q) : q[i].id \in Nat /\ q[i].id <= n
  BY <1>5, IdsAre DEF PendingFits
<1>7. Increasing(u)
  <2>1. ASSUME NEW i \in 1..Len(u), NEW j \in 1..Len(u), i < j  PROVE u[i].id < u[j].id
    <3>1. i \in 1..Len(q) /\ u[i] = q[i]
      BY <1>4, <2>1
    <3>2. CASE j = Len(q) + 1
      BY <1>2, <1>4, <1>6, <3>1, <3>2
    <3>3. CASE j # Len(q) + 1
      <4>1. j \in 1..Len(q) /\ u[j] = q[j]
        BY <1>4, <2>1, <3>3
      <4>2. QED
        BY <2>1, <3>1, <4>1 DEF PendingFits, Increasing
    <3>4. QED
      BY <3>2, <3>3
  <2>2. QED
    BY <2>1 DEF Increasing
<1>8. Ids(u) = Ids(q) \cup {n + 1}
  <2>1. ASSUME NEW x \in Ids(u)  PROVE x \in Ids(q) \cup {n + 1}
    <3>1. PICK i \in 1..Len(u) : x = u[i].id
      BY <2>1 DEF Ids
    <3>2. i = Len(q) + 1 \/ i \in 1..Len(q)
      BY <1>4, <3>1
    <3>3. QED
      BY <1>2, <1>4, <3>1, <3>2 DEF Ids
  <2>2. ASSUME NEW x \in Ids(q)  PROVE x \in Ids(u)
    <3>1. PICK i \in 1..Len(q) : x = q[i].id
      BY <2>2 DEF Ids
    <3>2. i \in 1..Len(u) /\ u[i] = q[i]
      BY <1>4, <3>1
    <3>3. QED
      BY <3>1, <3>2 DEF Ids
  <2>3. n + 1 \in Ids(u)
    <3>1. Len(q) + 1 \in 1..Len(u)
      BY <1>4
    <3>2. QED
      BY <1>2, <1>4, <3>1 DEF Ids
  <2>4. QED
    BY <2>1, <2>2, <2>3
<1>9. \A i \in Ids(q) : i \in Nat /\ i <= n
  BY <1>5, IdsAre DEF PendingFits
<1>10. CallIds(c, Push(fr, s)) = CallIds(c, s) \cup {n + 1}
  BY CallsPush
<1>11. \A i \in CallIds(c, s) : i < fr.id
  BY <1>9 DEF PendingFits
<1>12. CallsOrdered(c, Push(fr, s))
  BY <1>11, CallsPush DEF PendingFits
<1>13. \A i \in Ids(u) : i <= n + 1
  BY <1>8, <1>9
<1>14. QED
  BY <1>1, <1>3, <1>7, <1>8, <1>10, <1>12, <1>13 DEF PendingFits

\* The innermost call is the last pending reply.
LEMMA PendingTop ==
    ASSUME NEW c, NEW q \in Seq(PendingSyncReply), NEW s \in Seq(Frame), NEW fr \in Frame,
           NEW n, PendingFits(c, q, Push(fr, s), n), CallOn(c, fr)
    PROVE  q # <<>> /\ q[Len(q)].id = fr.id
<1>a. /\ CallIds(c, Push(fr, s)) = CallIds(c, s) \cup {fr.id}
      /\ CallsOrdered(c, Push(fr, s)) <=>
            CallsOrdered(c, s) /\ \A i \in CallIds(c, s) : i < fr.id
  BY CallsPushOn
<1>b. fr.id \in Number
  BY FrameKinds DEF CallOn
<1>1. fr.id \in Ids(q) /\ fr.id \in Number /\ \A i \in CallIds(c, s) : i < fr.id
  BY <1>a, <1>b DEF PendingFits
<1>2. PICK i \in 1..Len(q) : q[i].id = fr.id
  BY <1>1 DEF Ids
<1>3. Len(q) \in 1..Len(q) /\ Len(q) \in Nat /\ q # <<>>
  BY <1>2, IdsAre
<1>4. PICK m : m = q[Len(q)].id
  OBVIOUS
<1>5. m \in CallIds(c, s) \cup {fr.id}
  <2>1. m \in Ids(q)
    BY <1>3, <1>4, IdsAre
  <2>2. QED
    BY <1>a, <2>1 DEF PendingFits
<1>6. m \in Number /\ Number \subseteq Nat
  BY <1>3, <1>4, IdsAre, Numbers
<1>7. i # Len(q) => q[i].id < m
  BY <1>3, <1>4 DEF PendingFits, Increasing
<1>8. \A x, y \in Number : ~(x < y /\ y < x)
  BY <1>6
<1>9. m = fr.id
  <2>1. CASE i = Len(q)
    BY <1>2, <1>4, <2>1
  <2>2. CASE i # Len(q)
    <3>1. fr.id < m
      BY <1>2, <1>7, <2>2
    <3>2. m \notin CallIds(c, s)
      BY <1>1, <1>6, <1>8, <3>1
    <3>3. QED
      BY <1>5, <3>2
  <2>3. QED
    BY <2>1, <2>2
<1>10. QED
  BY <1>3, <1>4, <1>9

\* Both are popped.
LEMMA PendingPop ==
    ASSUME NEW c, NEW q \in Seq(PendingSyncReply), NEW s \in Seq(Frame), NEW fr \in Frame,
           NEW n, PendingFits(c, q, Push(fr, s), n), CallOn(c, fr)
    PROVE  PendingFits(c, SubSeq(q, 1, Len(q) - 1), s, n)
<1>1. q # <<>> /\ q[Len(q)].id = fr.id
  BY PendingTop
<1>2. PICK u : u = SubSeq(q, 1, Len(q) - 1)
  OBVIOUS
<1>3. Len(q) \in Nat \ {0} /\ Len(u) = Len(q) - 1 /\ \A i \in 1..Len(q) - 1 : u[i] = q[i]
  BY <1>1, <1>2, FrontFacts
<1>4. Increasing(u)
  BY <1>3 DEF PendingFits, Increasing
<1>5. /\ CallsOrdered(c, s) /\ Ids(q) = CallIds(c, s) \cup {fr.id}
      /\ \A i \in CallIds(c, s) : i < fr.id
  BY CallsPushOn DEF PendingFits
<1>6. fr.id \in Number /\ Number \subseteq Nat /\ ~(fr.id < fr.id)
  <2>1. fr.id \in Number
    BY FrameKinds DEF CallOn
  <2>2. Number \subseteq Nat
    BY Numbers
  <2>3. fr.id \in Nat
    BY <2>1, <2>2
  <2>4. QED
    BY <2>1, <2>2, <2>3
<1>7. ASSUME NEW x \in Ids(u)  PROVE x \in CallIds(c, s)
  <2>1. PICK i \in 1..Len(q) - 1 : x = q[i].id
    BY <1>3, <1>7 DEF Ids
  <2>2. i \in 1..Len(q) /\ i < Len(q) /\ Len(q) \in 1..Len(q)
    BY <1>3, <2>1
  <2>3. q[i].id < fr.id
    BY <1>1, <2>2 DEF PendingFits, Increasing
  <2>4. x \in Ids(q)
    BY <2>1, <2>2 DEF Ids
  <2>5. x # fr.id
    BY <1>6, <2>1, <2>3
  <2>6. QED
    BY <1>5, <2>4, <2>5
<1>8. ASSUME NEW x \in CallIds(c, s)  PROVE x \in Ids(u)
  <2>1. x \in Ids(q) /\ x < fr.id
    BY <1>5
  <2>2. PICK i \in 1..Len(q) : x = q[i].id
    BY <2>1 DEF Ids
  <2>3. i # Len(q)
    BY <1>1, <1>6, <2>1, <2>2, Zenon
  <2>4. i \in 1..Len(u) /\ u[i] = q[i]
    BY <1>3, <2>2, <2>3
  <2>5. QED
    BY <2>2, <2>4 DEF Ids
<1>9. Ids(u) = CallIds(c, s)
  BY <1>7, <1>8
<1>10. \A i \in Ids(u) : i <= n
  BY <1>5, <1>9 DEF PendingFits
<1>11. QED
  BY <1>2, <1>4, <1>5, <1>9, <1>10 DEF PendingFits

\* A reply leaves their order as it is.
LEMMA PendingReplied ==
    ASSUME NEW c, NEW q \in Seq(PendingSyncReply), NEW s, NEW n, NEW m \in Number,
           PendingFits(c, q, s, n)
    PROVE  PendingFits(c, Replied(q, m), s, n)
<1>1. PICK u : u = Replied(q, m)
  OBVIOUS
<1>2. Len(u) = Len(q) /\ \A i \in 1..Len(q) : u[i].id = q[i].id
  BY <1>1, RepliedFacts
<1>3. Increasing(u)
  BY <1>2 DEF PendingFits, Increasing
<1>4. Ids(u) = Ids(q)
  BY <1>2 DEF Ids
<1>5. QED
  BY <1>1, <1>3, <1>4 DEF PendingFits

\* A call on another connection.
LEMMA PendingOther ==
    ASSUME NEW c, NEW q, NEW s \in Seq(Frame), NEW fr \in Frame, NEW n, ~CallOn(c, fr)
    PROVE  PendingFits(c, q, s, n) <=> PendingFits(c, q, Push(fr, s), n)
  BY CallsPushOther DEF PendingFits

LEMMA PendingEmpty ==
    ASSUME NEW c, NEW n
    PROVE  PendingFits(c, <<>>, <<>>, n)
  BY ElemsEmpty DEF PendingFits, Increasing, CallsOrdered, Ids, CallIds

-----------------------------------------------------------------------------
(* The first invariant: who holds which message, and for whom.             *)

IsOurs(p, x) == x \in Received /\ Owner[x.c] = p /\ x.msg.marked /\ Request(x.msg)

\* A process: its marked messages, run loop and kept replies are those of its
\* own connections, and every message it keeps is served.
ProcFits(p, r) ==
    /\ StackFits(p, r.stack)
    /\ \A x : Item(r, x) => IsOurs(p, x)
    /\ \A fn \in Elems(r.runLoop) : Owner[fn.c] = p
    /\ \A d \in r.delayed : Owner[d[1]] = p
    /\ Served(r)

\* A connection k, with the stack s of its client.
Plain(q) == \A m \in Elems(q) : Request(m) /\ ~m.marked
WaitingFits(k) ==
    k.secondary.at = "waiting" => k.secondary.id \in Number /\ k.secondary.id <= k.sent
ConnFits(c, k, s) ==
    /\ Plain(k.incoming)
    /\ PendingFits(c, k.pending, s, k.sent)
    /\ WaitingFits(k)

Held ==
    /\ Typed /\ Bounded
    /\ \A p \in Proc : ProcFits(p, main[p])
    /\ \A c \in Endpoint : ConnFits(c, conn[c], main[Owner[c]].stack)

\* The types at hand in a step.
LEMMA TypedFacts ==
    ASSUME Typed
    PROVE  /\ \A c \in Endpoint :
                /\ conn[c] \in ConnectionState /\ conn[c].sent \in Nat
                /\ conn[c].out \in Seq(Message) /\ conn[c].incoming \in Seq(Message)
                /\ conn[c].pending \in Seq(PendingSyncReply) /\ conn[c].secondary \in Secondary
                /\ wire[c] \in Seq(Message)
           /\ \A p \in Proc :
                /\ main[p] \in ProcState /\ main[p].stack \in Seq(Frame)
                /\ main[p].messages \in Seq(Received) /\ main[p].runLoop \in Seq(Function)
<1>1. Number \cup {0} \subseteq Nat
  BY Numbers
<1>2. ASSUME NEW c \in Endpoint
      PROVE  /\ conn[c] \in ConnectionState /\ conn[c].sent \in Nat
             /\ conn[c].out \in Seq(Message) /\ conn[c].incoming \in Seq(Message)
             /\ conn[c].pending \in Seq(PendingSyncReply) /\ conn[c].secondary \in Secondary
             /\ wire[c] \in Seq(Message)
  <2>1. conn[c] \in ConnectionState /\ wire[c] \in Seq(Message)
    BY DEF Typed
  <2>2. /\ conn[c].sent \in Number \cup {0} /\ conn[c].out \in Seq(Message)
        /\ conn[c].incoming \in Seq(Message)
        /\ conn[c].pending \in Seq(PendingSyncReply) /\ conn[c].secondary \in Secondary
    BY <2>1 DEF ConnectionState
  <2>3. conn[c].sent \in Nat
    BY <1>1, <2>2, Zenon
  <2>4. QED
    BY <2>1, <2>2, <2>3
<1>3. ASSUME NEW p \in Proc
      PROVE  /\ main[p] \in ProcState /\ main[p].stack \in Seq(Frame)
             /\ main[p].messages \in Seq(Received) /\ main[p].runLoop \in Seq(Function)
  <2>1. main[p] \in ProcState
    BY DEF Typed
  <2>2. QED
    BY <2>1 DEF ProcState
<1>4. QED
  BY <1>2, <1>3

\* The step changes one process and leaves the rest fitting.
LEMMA HeldStep ==
    ASSUME Held, Typed', Bounded', NEW p \in Proc, OnlyProc(p), ProcFits(p, main'[p]),
           \A c \in Endpoint : ConnFits(c, conn'[c], main'[Owner[c]].stack)
    PROVE  Held'
<1>1. \A q \in Proc : ProcFits(q, main'[q])
  BY DEF Held, OnlyProc
<1>2. QED
  BY <1>1 DEF Held, ProcFits, ConnFits, Plain, WaitingFits, StackFits, Item, Served, PendingFits, IsOurs,
    OnStack, Kept, KeptOn, AboutToSwap, Runs, CallIds, CallsOrdered

\* What may happen to a connection on the way.
ConnKept(k, l) ==
    /\ (Plain(k.incoming) => Plain(l.incoming)) /\ l.pending = k.pending /\ k.sent <= l.sent
    /\ l.secondary.at = "waiting" =>
          \/ k.secondary.at = "waiting" /\ l.secondary.id = k.secondary.id
          \/ l.secondary.id \in Number /\ l.secondary.id <= l.sent

LEMMA PendingLater ==
    ASSUME NEW c, NEW q \in Seq(PendingSyncReply), NEW s, NEW n \in Nat, NEW m \in Nat, n <= m,
           PendingFits(c, q, s, n)
    PROVE  PendingFits(c, q, s, m)
<1>1. \A i \in Ids(q) : i \in Nat
  BY IdsAre, Numbers
<1>2. \A i \in Ids(q) : i <= m
  BY <1>1 DEF PendingFits
<1>3. QED
  BY <1>2 DEF PendingFits

LEMMA KeptFits ==
    ASSUME NEW c, NEW k \in ConnectionState, NEW l \in ConnectionState, NEW s, NEW t,
           ConnFits(c, k, s), ConnKept(k, l), SameCalls(s, t)
    PROVE  ConnFits(c, l, t)
<1>1. /\ k.sent \in Number \cup {0} /\ l.sent \in Number \cup {0}
      /\ k.pending \in Seq(PendingSyncReply) /\ k.secondary.id \in Number \cup {0}
  BY DEF ConnectionState, Secondary
<1>2. \A x : x \in Number \cup {0} => x \in Nat
  BY Numbers
<1>3. k.sent \in Nat /\ l.sent \in Nat /\ k.secondary.id \in Nat
  BY <1>1, <1>2, Zenon
<1>4. PendingFits(c, k.pending, t, k.sent)
  BY PendingSame DEF ConnFits
<1>5. PendingFits(c, k.pending, t, l.sent)
  BY <1>1, <1>3, <1>4, PendingLater DEF ConnKept
<1>6. WaitingFits(l)
  BY <1>3 DEF ConnKept, ConnFits, WaitingFits
<1>7. QED
  BY <1>5, <1>6 DEF ConnKept, ConnFits

LEMMA SameCallsSame == \A s : SameCalls(s, s)
  BY DEF SameCalls

LEMMA ConnSame ==
    ASSUME NEW k \in ConnectionState
    PROVE  ConnKept(k, k)
<1>1. k.sent \in Number \cup {0}
  BY DEF ConnectionState
<1>2. \A x : x \in Number \cup {0} => x \in Nat
  BY Numbers
<1>3. k.sent \in Nat
  BY <1>1, <1>2, Zenon
<1>4. QED
  BY <1>3 DEF ConnKept

\* Most steps: one process, whose calls stay, and one connection.
LEMMA HeldKept ==
    ASSUME Held, Typed', Bounded', NEW p \in Proc, OnlyProc(p), ProcFits(p, main'[p]),
           SameCalls(main[p].stack, main'[p].stack),
           NEW c \in Endpoint, OnlyConn(c), ConnKept(conn[c], conn'[c])
    PROVE  Held'
<1>1. ASSUME NEW d \in Endpoint  PROVE ConnFits(d, conn'[d], main'[Owner[d]].stack)
  <2>1. conn[d] \in ConnectionState /\ conn'[d] \in ConnectionState
    BY DEF Held, Typed
  <2>2. ConnKept(conn[d], conn'[d])
    BY <2>1, ConnSame DEF OnlyConn
  <2>3. Owner[d] \in Proc
    BY Ends2
  <2>4. SameCalls(main[Owner[d]].stack, main'[Owner[d]].stack)
    BY <2>3, SameCallsSame DEF OnlyProc
  <2>5. ConnFits(d, conn[d], main[Owner[d]].stack)
    BY DEF Held
  <2>6. QED
    BY <2>1, <2>2, <2>4, <2>5, KeptFits
<1>2. QED
  BY <1>1, HeldStep

\* A process that only rearranges its messages.
LEMMA RearrangedFits ==
    ASSUME NEW p, NEW r, NEW t, ProcFits(p, r), Rearranged(r, t), StackFits(p, t.stack),
           SameLoop(r, t), \A d \in t.delayed : Owner[d[1]] = p
    PROVE  ProcFits(p, t)
<1>1. Served(t)
  BY ServedSame DEF ProcFits
<1>2. QED
  BY <1>1 DEF ProcFits, Rearranged, SameLoop

\* Steps that leave the processes alone.
LEMMA HeldConn ==
    ASSUME Held, Typed', Bounded', NEW c \in Endpoint, OnlyConn(c), main' = main,
           ConnKept(conn[c], conn'[c])
    PROVE  Held'
<1>1. Owner[c] \in Proc
  BY Ends2
<1>2. OnlyProc(Owner[c]) /\ ProcFits(Owner[c], main'[Owner[c]])
  BY <1>1 DEF Held, OnlyProc
<1>3. SameCalls(main[Owner[c]].stack, main'[Owner[c]].stack)
  BY SameCallsSame
<1>4. QED
  BY <1>1, <1>2, <1>3, HeldKept

\* Steps that leave the connections alone, and rearrange one process.
LEMMA HeldMain ==
    ASSUME Held, Typed', Bounded', NEW p \in Proc, OnlyProc(p), conn' = conn,
           Rearranged(main[p], main'[p]), StackFits(p, main'[p].stack), SameLoop(main[p], main'[p]),
           SameCalls(main[p].stack, main'[p].stack), main'[p].delayed = main[p].delayed
    PROVE  Held'
<1>1. ProcFits(p, main'[p])
  BY RearrangedFits DEF Held, ProcFits
<1>2. ASSUME NEW d \in Endpoint  PROVE ConnFits(d, conn'[d], main'[Owner[d]].stack)
  <2>1. conn[d] \in ConnectionState /\ conn'[d] = conn[d] /\ Owner[d] \in Proc
    BY Ends2 DEF Held, Typed
  <2>2. SameCalls(main[Owner[d]].stack, main'[Owner[d]].stack)
    BY <2>1, SameCallsSame DEF OnlyProc
  <2>3. ConnFits(d, conn[d], main[Owner[d]].stack)
    BY DEF Held
  <2>4. QED
    BY <2>1, <2>2, <2>3, KeptFits, ConnSame
<1>3. QED
  BY <1>1, <1>2, HeldStep

\* A process p of the invariant, before and after the step.
LEMMA HeldFacts ==
    ASSUME Held, Typed', NEW p \in Proc
    PROVE  /\ main[p] \in ProcState /\ main'[p] \in ProcState
           /\ ProcFits(p, main[p]) /\ StackFits(p, main[p].stack)
           /\ Typed /\ Bounded
  BY DEF Held, Typed, ProcFits

LEMMA HeldSwapMessages ==
    ASSUME Held, NEW p \in Proc, SwapMessages(p)
    PROVE  Held'
<1>1. /\ Typed' /\ Bounded' /\ OnlyProc(p) /\ UNCHANGED <<conn, wire, result, handled>>
      /\ IsSwap(main[p], main'[p])
  BY FormSwapMessages DEF Held
<1>2. main[p] \in ProcState /\ main'[p] \in ProcState /\ StackFits(p, main[p].stack)
  BY <1>1, HeldFacts
<1>3. Rearranged(main[p], main'[p]) /\ StackFits(p, main'[p].stack)
  BY <1>1, <1>2, MoveSwap
<1>4. SameCalls(main[p].stack, main'[p].stack)
  BY <1>1, <1>2, CallsKept
<1>5. SameLoop(main[p], main'[p]) /\ main'[p].delayed = main[p].delayed
  BY <1>1 DEF IsSwap
<1>6. QED
  BY <1>1, <1>3, <1>4, <1>5, HeldMain

LEMMA HeldPutBackMessages ==
    ASSUME Held, NEW p \in Proc, PutBackMessages(p)
    PROVE  Held'
<1>1. /\ Typed' /\ Bounded' /\ OnlyProc(p) /\ UNCHANGED <<conn, wire, result, handled>>
      /\ IsPutBack(main[p], main'[p])
  BY FormPutBackMessages DEF Held
<1>2. main[p] \in ProcState /\ main'[p] \in ProcState /\ StackFits(p, main[p].stack)
  BY <1>1, HeldFacts
<1>3. Rearranged(main[p], main'[p]) /\ StackFits(p, main'[p].stack)
  BY <1>1, <1>2, MovePutBack
<1>4. SameCalls(main[p].stack, main'[p].stack)
  BY <1>1, <1>2, CallsKept
<1>5. SameLoop(main[p], main'[p]) /\ main'[p].delayed = main[p].delayed
  BY <1>1 DEF IsPutBack
<1>6. QED
  BY <1>1, <1>3, <1>4, <1>5, HeldMain

LEMMA HeldWaitDispatches ==
    ASSUME Held, NEW p \in Proc, WaitDispatches(p)
    PROVE  Held'
<1>1. /\ Typed' /\ Bounded' /\ OnlyProc(p) /\ UNCHANGED <<conn, wire, result, handled>>
      /\ IsWaitDispatch(main[p], main'[p])
  BY FormWaitDispatches DEF Held
<1>2. main[p] \in ProcState /\ main'[p] \in ProcState /\ StackFits(p, main[p].stack)
  BY <1>1, HeldFacts
<1>3. Rearranged(main[p], main'[p]) /\ StackFits(p, main'[p].stack)
  BY <1>1, <1>2, MoveWaitDispatch
<1>4. SameCalls(main[p].stack, main'[p].stack)
  BY <1>1, <1>2, CallsKept
<1>5. SameLoop(main[p], main'[p]) /\ main'[p].delayed = main[p].delayed
  BY <1>1 DEF IsWaitDispatch
<1>6. QED
  BY <1>1, <1>3, <1>4, <1>5, HeldMain

LEMMA HeldTurn ==
    ASSUME Held, NEW p \in Proc, NEW x \in {"dispatch", "check", "wait"}, Typed', Bounded', OnlyProc(p), conn' = conn,
           IsTurn(main[p], main'[p], x)
    PROVE  Held'
<1>2. main[p] \in ProcState /\ main'[p] \in ProcState /\ StackFits(p, main[p].stack)
  BY HeldFacts
<1>3. Rearranged(main[p], main'[p]) /\ StackFits(p, main'[p].stack)
  BY <1>2, MoveTurn
<1>4. SameCalls(main[p].stack, main'[p].stack)
  BY <1>2, CallsKept
<1>5. SameLoop(main[p], main'[p]) /\ main'[p].delayed = main[p].delayed
  BY DEF IsTurn
<1>6. QED
  BY <1>3, <1>4, <1>5, HeldMain

LEMMA HeldWaitWakes ==
    ASSUME Held, NEW p \in Proc, WaitWakes(p)
    PROVE  Held'
<1>1. /\ Typed' /\ Bounded' /\ OnlyProc(p) /\ UNCHANGED <<conn, wire, result, handled>>
      /\ IsTurn(main[p], main'[p], "dispatch")
  BY FormWaitWakes DEF Held
<1>2. QED
  BY <1>1, HeldTurn

\* The process is gone.
LEMMA HeldEnds ==
    ASSUME Held, NEW p \in Proc, NEW failing \in SUBSET Endpoint, Ends(p, failing),
           \A c \in failing : conn[c].sent < MaxSends[c]
    PROVE  Held'
<1>1. /\ Typed' /\ Bounded' /\ OnlyProc(p) /\ IsEnd(main'[p])
      /\ \A c \in Endpoint : /\ Owner[c] # p => conn'[c] = conn[c]
                             /\ Owner[c] = p => IsEnded(conn[c], conn'[c])
  BY FormEnds DEF Held
<1>2. ProcFits(p, main'[p]) /\ main'[p].stack = <<>>
  BY <1>1, EndFits DEF ProcFits
<1>3. ASSUME NEW c \in Endpoint  PROVE ConnFits(c, conn'[c], main'[Owner[c]].stack)
  <2>1. CASE Owner[c] # p
    BY <1>1, <2>1, Ends2 DEF Held, OnlyProc
  <2>2. CASE Owner[c] = p
    <3>1. conn'[c].incoming = <<>> /\ conn'[c].pending = <<>> /\ conn'[c].secondary.at = "out"
      BY <1>1, <2>2 DEF IsEnded, NoSecondary
    <3>2. PendingFits(c, <<>>, <<>>, conn'[c].sent)
      BY PendingEmpty
    <3>3. Plain(<<>>)
      BY ElemsEmpty DEF Plain
    <3>4. QED
      BY <1>2, <2>2, <3>1, <3>2, <3>3 DEF ConnFits, WaitingFits
  <2>3. QED
    BY <2>1, <2>2
<1>4. QED
  BY <1>1, <1>2, <1>3, HeldStep

LEMMA HeldCrash ==
    ASSUME Held, NEW p \in Proc, Crash(p)
    PROVE  Held'
  BY HeldEnds DEF Crash

\* The client's code runs on a settled stack.
LEMMA ClientSettled ==
    ASSUME Held, NEW p \in Proc, ClientRuns(p)
    PROVE  Settled(main[p].stack)
<1>1. main[p] \in ProcState /\ main[p].stack \in Seq(Frame) /\ StackFits(p, main[p].stack)
  BY TypedFacts DEF Held, ProcFits
<1>2. CASE main[p].stack = <<>>
  BY <1>2, FitsEmpty
<1>3. CASE main[p].stack # <<>>
  <2>1. PICK fr \in Frame, s \in Seq(Frame) :
          main[p].stack = Push(fr, s) /\ fr = Head(main[p].stack) /\ s = Tail(main[p].stack)
    BY <1>1, <1>3, StackSplit
  <2>2. fr.f = "handler" /\ main[p].stack = Push(fr, s)
    BY <1>3, <2>1 DEF ClientRuns, Top
  <2>a. StackFits(p, Push(fr, s))
    BY <1>1, <2>2
  <2>3. Settled(s)
    BY <2>a, FitsTail
  <2>4. Settled(Push(fr, s))
    BY <2>2, <2>3, SettledPush
  <2>5. QED
    BY <2>2, <2>4
<1>4. QED
  BY <1>2, <1>3

\* The stack of a client that is in sendSyncMessage.
LEMMA InSendSync ==
    ASSUME Held, NEW p \in Proc, In(p, "sendSync")
    PROVE  \E fr \in Frame, s \in Seq(Frame) :
              /\ fr = Head(main[p].stack) /\ s = Tail(main[p].stack) /\ main[p].stack = Push(fr, s)
              /\ fr.f = "sendSync" /\ fr.c \in Endpoint /\ Owner[fr.c] = p /\ fr.id \in Number
              /\ StackFits(p, s) /\ Settled(s)
              /\ LET q == conn[fr.c].pending
                 IN  q \in Seq(PendingSyncReply) /\ q # <<>> /\ q[Len(q)].id = fr.id
<1>1. /\ main[p] \in ProcState /\ main[p].stack # <<>> /\ Head(main[p].stack).f = "sendSync"
      /\ StackFits(p, main[p].stack)
  BY InFacts DEF Held, ProcFits
<1>2. PICK fr \in Frame, s \in Seq(Frame) :
        main[p].stack = Push(fr, s) /\ fr = Head(main[p].stack) /\ s = Tail(main[p].stack)
  BY <1>1, StackSplit
<1>s. main[p].stack = Push(fr, s) /\ fr.f = "sendSync"
  BY <1>1, <1>2
<1>3. fr.c \in Endpoint /\ fr.id \in Number
  BY <1>s, FrameKinds
<1>4. StackFits(p, s) /\ Settled(s) /\ FrameFits(p, fr)
  BY <1>1, <1>s, FitsTail
<1>5. Owner[fr.c] = p
  BY <1>s, <1>4 DEF FrameFits
<1>6. PICK q : q = conn[fr.c].pending
  OBVIOUS
<1>7. q \in Seq(PendingSyncReply)
  BY <1>3, <1>6, TypedFacts DEF Held
<1>8. PendingFits(fr.c, q, Push(fr, s), conn[fr.c].sent)
  BY <1>s, <1>3, <1>5, <1>6 DEF Held, ConnFits
<1>9. q # <<>> /\ q[Len(q)].id = fr.id
  BY <1>s, <1>7, <1>8, PendingTop DEF CallOn
<1>10. QED
  BY <1>2, <1>s, <1>3, <1>4, <1>5, <1>6, <1>7, <1>9

LEMMA HeldSendSyncReturns ==
    ASSUME Held, NEW p \in Proc, NEW ok \in BOOLEAN, In(p, "sendSync"), SendSyncReturns(p, ok)
    PROVE  Held'
<1>1. PICK fr \in Frame, s \in Seq(Frame) :
        /\ fr = Head(main[p].stack) /\ s = Tail(main[p].stack) /\ main[p].stack = Push(fr, s)
        /\ fr.f = "sendSync" /\ fr.c \in Endpoint /\ Owner[fr.c] = p /\ fr.id \in Number
        /\ StackFits(p, s) /\ Settled(s)
        /\ LET q == conn[fr.c].pending
           IN  q \in Seq(PendingSyncReply) /\ q # <<>> /\ q[Len(q)].id = fr.id
  BY InSendSync
<1>2. PICK c : c = fr.c
  OBVIOUS
<1>3. Typed /\ Bounded /\ c \in Endpoint /\ Owner[c] = p /\ conn[Head(main[p].stack).c].pending # <<>>
  BY <1>1, <1>2 DEF Held
<1>4. CASE Ends(p, {})
  BY <1>4, HeldEnds
<1>5. CASE ~Ends(p, {})
  <2>1. /\ Typed' /\ Bounded' /\ OnlyProc(p) /\ OnlyConn(c)
        /\ IsReturn(main[p], main'[p]) /\ main'[p].delayed = main[p].delayed
        /\ conn'[c].incoming = conn[c].incoming /\ conn'[c].secondary = conn[c].secondary
        /\ conn'[c].sent = conn[c].sent
        /\ conn'[c].pending = SubSeq(conn[c].pending, 1, Len(conn[c].pending) - 1)
    BY <1>1, <1>2, <1>3, <1>5, FormSendSyncReturns
  <2>2. main[p] \in ProcState /\ main'[p] \in ProcState /\ ProcFits(p, main[p]) /\ StackFits(p, main[p].stack)
    BY <2>1, HeldFacts
  <2>3. Rearranged(main[p], main'[p]) /\ StackFits(p, main'[p].stack)
    BY <2>1, <2>2, MoveReturn
  <2>4. SameLoop(main[p], main'[p]) /\ main'[p].stack = s /\ \A d \in main'[p].delayed : Owner[d[1]] = p
    BY <1>1, <2>1, <2>2 DEF IsReturn, ProcFits
  <2>5. ProcFits(p, main'[p])
    BY <2>2, <2>3, <2>4, RearrangedFits
  <2>6. ASSUME NEW d \in Endpoint  PROVE ConnFits(d, conn'[d], main'[Owner[d]].stack)
    <3>1. ConnFits(d, conn[d], main[Owner[d]].stack) /\ Owner[d] \in Proc
      BY Ends2 DEF Held
    <3>2. CASE d = c
      <4>1. PendingFits(c, conn[c].pending, Push(fr, s), conn[c].sent)
        BY <1>1, <1>3, <3>1, <3>2 DEF ConnFits
      <4>2. CallOn(c, fr) /\ conn[c].pending \in Seq(PendingSyncReply)
        BY <1>1, <1>2 DEF CallOn
      <4>3. PendingFits(c, SubSeq(conn[c].pending, 1, Len(conn[c].pending) - 1), s, conn[c].sent)
        BY <4>1, <4>2, PendingPop
      <4>4. QED
        BY <1>3, <2>1, <2>4, <3>1, <3>2, <4>3 DEF ConnFits, WaitingFits
    <3>3. CASE d # c /\ Owner[d] = p
      <4>1. PendingFits(d, conn[d].pending, Push(fr, s), conn[d].sent)
        BY <1>1, <3>1, <3>3 DEF ConnFits
      <4>2. ~CallOn(d, fr)
        BY <1>2, <3>3 DEF CallOn
      <4>3. PendingFits(d, conn[d].pending, s, conn[d].sent)
        BY <4>1, <4>2, PendingOther
      <4>4. conn'[d] = conn[d]
        BY <2>1, <3>3 DEF OnlyConn
      <4>5. QED
        BY <2>4, <3>1, <3>3, <4>3, <4>4 DEF ConnFits
    <3>4. CASE Owner[d] # p
      BY <1>3, <2>1, <3>1, <3>4 DEF OnlyConn, OnlyProc
    <3>5. QED
      BY <3>2, <3>3, <3>4
  <2>7. QED
    BY <2>1, <2>5, <2>6, HeldStep
<1>6. QED
  BY <1>4, <1>5

LEMMA HeldWaitChecks ==
    ASSUME Held, NEW p \in Proc, WaitChecks(p)
    PROVE  Held'
<1>1. PICK ok : ok = conn[Head(main[p].stack).c].pending[Len(conn[Head(main[p].stack).c].pending)].didReceiveReply
  OBVIOUS
<1>2. \/ /\ Typed' /\ Bounded' /\ OnlyProc(p) /\ conn' = conn /\ IsTurn(main[p], main'[p], "wait")
      \/ SendSyncReturns(p, ok)
  BY <1>1, FormWaitChecks DEF Held
<1>3. In(p, "sendSync")
  BY DEF WaitChecks
<1>4. ok \in BOOLEAN
  <2>1. PICK fr \in Frame, s \in Seq(Frame) :
          /\ fr = Head(main[p].stack)
          /\ LET q == conn[fr.c].pending
             IN  q \in Seq(PendingSyncReply) /\ q # <<>> /\ q[Len(q)].id = fr.id
    BY <1>3, InSendSync
  <2>2. PICK q : q = conn[fr.c].pending
    OBVIOUS
  <2>3. q \in Seq(PendingSyncReply) /\ q # <<>> /\ ok = q[Len(q)].didReceiveReply
    BY <1>1, <2>1, <2>2
  <2>4. q[Len(q)] \in PendingSyncReply
    BY <2>3
  <2>5. QED
    BY <2>3, <2>4 DEF PendingSyncReply
<1>5. QED
  BY <1>2, <1>3, <1>4, HeldTurn, HeldSendSyncReturns

LEMMA HeldWaitTimesOut ==
    ASSUME Held, NEW p \in Proc, WaitTimesOut(p)
    PROVE  Held'
  BY HeldSendSyncReturns DEF WaitTimesOut

\* A handler is entered in a process that is then t.
LEMMA EnterFits ==
    ASSUME NEW p \in Proc, NEW u \in ProcState, NEW t \in ProcState, ProcFits(p, u), Settled(u.stack),
           NEW c, NEW m, IsEntered(u, t, c, m), Owner[c] = p, Request(m)
    PROVE  ProcFits(p, t) /\ SameCalls(u.stack, t.stack)
<1>1. PICK fr \in Frame : fr.f = "handler" /\ fr.c = c /\ fr.msg = m /\ IsCall(u, t, fr)
  BY DEF IsEntered
<1>2. FrameFits(p, fr)
  BY <1>1 DEF FrameFits
<1>3. Rearranged(u, t) /\ StackFits(p, t.stack)
  BY <1>1, <1>2, MoveCall DEF ProcFits
<1>4. SameLoop(u, t) /\ t.delayed = u.delayed
  BY <1>1 DEF IsCall, IsEntered
<1>5. ProcFits(p, t)
  BY <1>3, <1>4, RearrangedFits DEF ProcFits
<1>6. QED
  BY <1>1, <1>5, CallsKept

\* The message that dispatchMessages turns to is one it holds.
LEMMA NextIsItem ==
    ASSUME NEW r \in ProcState, InLoop(r)
    PROVE  Item(r, Head(Head(r.stack).todo)) /\ Head(Head(r.stack).todo) \in Received
<1>1. /\ r.stack \in Seq(Frame) /\ r.stack # <<>> /\ Head(r.stack).f = "dispatchMessages"
      /\ Head(r.stack).todo # <<>>
  BY DEF InLoop, ProcState
<1>2. PICK fr : fr = Head(r.stack)
  OBVIOUS
<1>3. fr \in Frame /\ fr \in Elems(r.stack)
  BY <1>1, <1>2, ElemsTail
<1>4. fr.todo \in Seq(Received) /\ fr.todo # <<>> /\ fr.f = "dispatchMessages"
  BY <1>1, <1>2, <1>3, FrameKinds
<1>5. Head(fr.todo) \in Elems(fr.todo) /\ Head(fr.todo) \in Received
  BY <1>4, ElemsTail
<1>6. Head(fr.todo) \in FrameItems(fr)
  BY <1>4, <1>5 DEF FrameItems
<1>7. QED
  BY <1>2, <1>3, <1>5, <1>6 DEF Item, OnStack

LEMMA TakeFits ==
    ASSUME NEW p \in Proc, NEW r \in ProcState, NEW u \in ProcState, ProcFits(p, r),
           IsTake(r, u) \/ IsSkip(r, u)
    PROVE  ProcFits(p, u) /\ Settled(u.stack) /\ SameCalls(r.stack, u.stack)
<1>1. Rearranged(r, u) /\ StackFits(p, u.stack) /\ Settled(u.stack)
  BY MoveNext DEF ProcFits
<1>2. SameLoop(r, u) /\ u.delayed = r.delayed
  BY DEF IsTake, IsSkip
<1>3. ProcFits(p, u)
  BY <1>1, <1>2, RearrangedFits DEF ProcFits
<1>4. SameCalls(r.stack, u.stack)
  BY CallsKept
<1>5. QED
  BY <1>1, <1>3, <1>4

\* Steps of one process that leave the connections alone.
LEMMA HeldProc ==
    ASSUME Held, Typed', Bounded', NEW p \in Proc, OnlyProc(p), conn' = conn, ProcFits(p, main'[p]),
           SameCalls(main[p].stack, main'[p].stack)
    PROVE  Held'
<1>1. ASSUME NEW d \in Endpoint  PROVE ConnFits(d, conn'[d], main'[Owner[d]].stack)
  <2>1. conn[d] \in ConnectionState /\ conn'[d] = conn[d] /\ Owner[d] \in Proc
    BY Ends2 DEF Held, Typed
  <2>2. SameCalls(main[Owner[d]].stack, main'[Owner[d]].stack)
    BY <2>1, SameCallsSame DEF OnlyProc
  <2>3. ConnFits(d, conn[d], main[Owner[d]].stack)
    BY DEF Held
  <2>4. QED
    BY <2>1, <2>2, <2>3, KeptFits, ConnSame
<1>2. QED
  BY <1>1, HeldStep

LEMMA HeldDispatchNext ==
    ASSUME Held, NEW p \in Proc, DispatchNext(p)
    PROVE  Held'
<1>1. PICK r, t : r = main[p] /\ t = main'[p]
  OBVIOUS
<1>2. /\ Typed' /\ Bounded' /\ OnlyProc(p) /\ conn' = conn /\ InLoop(r)
      /\ \/ IsSkip(r, t)
         \/ \E u \in ProcState :
              /\ IsTake(r, u)
              /\ \/ t = u
                 \/ \E x \in Received : x = Head(Head(r.stack).todo) /\ IsEntered(u, t, x.c, x.msg)
  BY <1>1, FormDispatchNext DEF Held
<1>3. r \in ProcState /\ t \in ProcState /\ ProcFits(p, r)
  BY <1>1, <1>2, HeldFacts
<1>4. ProcFits(p, t) /\ SameCalls(r.stack, t.stack)
  <2>1. CASE IsSkip(r, t)
    BY <1>3, <2>1, TakeFits
  <2>2. ASSUME NEW u \in ProcState, IsTake(r, u), t = u
        PROVE  ProcFits(p, t) /\ SameCalls(r.stack, t.stack)
    BY <1>3, <2>2, TakeFits
  <2>3. ASSUME NEW u \in ProcState, IsTake(r, u), NEW x \in Received,
               x = Head(Head(r.stack).todo), IsEntered(u, t, x.c, x.msg)
        PROVE  ProcFits(p, t) /\ SameCalls(r.stack, t.stack)
    <3>1. ProcFits(p, u) /\ Settled(u.stack) /\ SameCalls(r.stack, u.stack)
      BY <1>3, <2>3, TakeFits
    <3>2. Item(r, x)
      BY <1>2, <1>3, <2>3, NextIsItem
    <3>3. Owner[x.c] = p /\ Request(x.msg)
      BY <1>3, <3>2 DEF ProcFits, IsOurs
    <3>4. ProcFits(p, t) /\ SameCalls(u.stack, t.stack)
      BY <1>3, <2>3, <3>1, <3>3, EnterFits
    <3>5. QED
      BY <3>1, <3>4, SameCallsTwice
  <2>4. QED
    BY <1>2, <2>1, <2>2, <2>3
<1>5. QED
  BY <1>1, <1>2, <1>4, HeldProc

\* A reply is sent, or kept for later.
LEMMA RepliedKept ==
    ASSUME Typed, NEW c \in Endpoint, NEW n, IsReplied(c, n)
    PROVE  ConnKept(conn[c], conn'[c])
<1>1. conn[c].sent \in Nat
  BY TypedFacts
<1>2. QED
  BY <1>1 DEF IsReplied, ConnKept

LEMMA HeldHandlerReturns ==
    ASSUME Held, NEW p \in Proc, NEW keep \in BOOLEAN, HandlerReturns(p, keep)
    PROVE  Held'
<1>1. PICK r, t : r = main[p] /\ t = main'[p]
  OBVIOUS
<1>2. PICK fr : fr = Head(r.stack)
  OBVIOUS
<1>3. /\ Typed' /\ Bounded' /\ OnlyProc(p) /\ IsReturn(r, t) /\ fr.f = "handler"
      /\ \/ IsReplied(fr.c, fr.msg.id) /\ t.delayed = r.delayed
         \/ /\ conn' = conn
            /\ t.delayed = r.delayed \/ t.delayed = r.delayed \cup {<<fr.c, fr.msg.id>>}
  BY <1>1, <1>2, FormHandlerReturns DEF Held
<1>4. r \in ProcState /\ t \in ProcState /\ ProcFits(p, r) /\ StackFits(p, r.stack)
  BY <1>1, <1>3, HeldFacts
<1>5. Rearranged(r, t) /\ StackFits(p, t.stack)
  BY <1>3, <1>4, MoveReturn
<1>6. SameLoop(r, t) /\ r.stack # <<>> /\ r.stack \in Seq(Frame)
  BY <1>3, <1>4 DEF IsReturn, ProcState
<1>7. fr \in Frame /\ fr \in Elems(r.stack)
  BY <1>2, <1>6, ElemsTail
<1>8. Owner[fr.c] = p /\ fr.c \in Endpoint
  BY <1>3, <1>4, <1>7, FrameKinds DEF StackFits, FrameFits
<1>9. \A d \in t.delayed : Owner[d[1]] = p
  BY <1>3, <1>4, <1>8 DEF ProcFits
<1>10. ProcFits(p, t)
  BY <1>4, <1>5, <1>6, <1>9, RearrangedFits
<1>11. SameCalls(r.stack, t.stack)
  BY <1>2, <1>3, <1>4, CallsKept
<1>12. CASE conn' = conn
  BY <1>1, <1>3, <1>10, <1>11, <1>12, HeldProc
<1>13. CASE IsReplied(fr.c, fr.msg.id)
  <2>1. OnlyConn(fr.c) /\ ConnKept(conn[fr.c], conn'[fr.c])
    BY <1>8, <1>13, RepliedKept DEF IsReplied, Held
  <2>2. QED
    BY <1>1, <1>3, <1>8, <1>10, <1>11, <2>1, HeldKept
<1>14. QED
  BY <1>3, <1>12, <1>13

LEMMA StillFits ==
    ASSUME NEW p \in Proc, NEW r, NEW t, ProcFits(p, r), IsStill(r, t), \A d \in t.delayed : Owner[d[1]] = p
    PROVE  ProcFits(p, t) /\ SameCalls(r.stack, t.stack)
<1>1. Rearranged(r, t) /\ t.stack = r.stack /\ SameLoop(r, t)
  BY MoveStill DEF IsStill
<1>2. QED
  BY <1>1, RearrangedFits, SameCallsSame DEF ProcFits

LEMMA HeldSendDelayedReply ==
    ASSUME Held, NEW p \in Proc, SendDelayedReply(p)
    PROVE  Held'
<1>1. /\ Typed' /\ Bounded' /\ OnlyProc(p) /\ IsStill(main[p], main'[p])
      /\ \E c \in Endpoint, n \in Number :
            main'[p].delayed = main[p].delayed \ {<<c, n>>} /\ IsReplied(c, n)
  BY FormSendDelayedReply DEF Held
<1>2. PICK c \in Endpoint, n \in Number :
        main'[p].delayed = main[p].delayed \ {<<c, n>>} /\ IsReplied(c, n)
  BY <1>1
<1>3. ProcFits(p, main[p])
  BY DEF Held
<1>4. \A d \in main'[p].delayed : Owner[d[1]] = p
  BY <1>2, <1>3 DEF ProcFits
<1>5. ProcFits(p, main'[p]) /\ SameCalls(main[p].stack, main'[p].stack)
  BY <1>1, <1>3, <1>4, StillFits
<1>6. OnlyConn(c) /\ ConnKept(conn[c], conn'[c])
  BY <1>2, RepliedKept DEF IsReplied, Held
<1>7. QED
  BY <1>1, <1>5, <1>6, HeldKept

\* The run loop takes a function.
LEMMA RunFits ==
    ASSUME NEW p \in Proc, NEW r \in ProcState, NEW u \in ProcState, ProcFits(p, r),
           IsRunOther(r, u) \/ IsRunAll(r, u)
    PROVE  /\ ProcFits(p, u) /\ SameCalls(r.stack, u.stack) /\ Owner[Head(r.runLoop).c] = p
           /\ IsRunOther(r, u) => Settled(u.stack)
<1>1. IsRun(r, u)
  BY DEF IsRunOther, IsRunAll
<1>2. Elems(r.runLoop) = {Head(r.runLoop)} \cup Elems(u.runLoop) /\ u.delayed = r.delayed
  BY <1>1, RunIs DEF IsRun
<1>3. Rearranged(r, u) /\ StackFits(p, u.stack) /\ (IsRunOther(r, u) => Settled(u.stack))
  BY MoveRunOther, MoveRunAll
<1>4. Served(u)
  BY ServedRunOther, ServedRunAll DEF ProcFits
<1>5. ProcFits(p, u) /\ Owner[Head(r.runLoop).c] = p
  BY <1>2, <1>3, <1>4 DEF ProcFits, Rearranged
<1>6. SameCalls(r.stack, u.stack)
  BY CallsKept DEF IsRunOther
<1>7. QED
  BY <1>3, <1>5, <1>6

LEMMA PlainTail ==
    ASSUME NEW q \in Seq(Message), q # <<>>, Plain(q)
    PROVE  Plain(Tail(q)) /\ Request(Head(q)) /\ ~Head(q).marked
  BY ElemsTail DEF Plain

LEMMA HeldRunFunction ==
    ASSUME Held, NEW p \in Proc, RunFunction(p)
    PROVE  Held'
<1>1. PICK r, t : r = main[p] /\ t = main'[p]
  OBVIOUS
<1>2. /\ Typed' /\ Bounded' /\ OnlyProc(p)
      /\ \E fn \in Function :
           /\ fn = Head(r.runLoop) /\ OnlyConn(fn.c)
           /\ conn'[fn.c].pending = conn[fn.c].pending
           /\ conn'[fn.c].secondary = conn[fn.c].secondary /\ conn'[fn.c].sent = conn[fn.c].sent
           /\ \/ /\ conn[fn.c].incoming # <<>> /\ conn'[fn.c].incoming = Tail(conn[fn.c].incoming)
                 /\ \E u \in ProcState :
                      /\ IsRunOther(r, u)
                      /\ t = u \/ IsEntered(u, t, fn.c, Head(conn[fn.c].incoming))
              \/ /\ IsRunAll(r, t) \/ IsRunOther(r, t)
                 /\ conn'[fn.c].incoming = conn[fn.c].incoming
  BY <1>1, FormRunFunction DEF Held
<1>3. r \in ProcState /\ t \in ProcState /\ ProcFits(p, r)
  BY <1>1, <1>2, HeldFacts
<1>4. PICK fn \in Function :
        /\ fn = Head(r.runLoop) /\ OnlyConn(fn.c)
        /\ conn'[fn.c].pending = conn[fn.c].pending
        /\ conn'[fn.c].secondary = conn[fn.c].secondary /\ conn'[fn.c].sent = conn[fn.c].sent
        /\ \/ /\ conn[fn.c].incoming # <<>> /\ conn'[fn.c].incoming = Tail(conn[fn.c].incoming)
              /\ \E u \in ProcState :
                   /\ IsRunOther(r, u)
                   /\ t = u \/ IsEntered(u, t, fn.c, Head(conn[fn.c].incoming))
           \/ /\ IsRunAll(r, t) \/ IsRunOther(r, t)
              /\ conn'[fn.c].incoming = conn[fn.c].incoming
  BY <1>2
<1>5. PICK c : c = fn.c
  OBVIOUS
<1>6. /\ c \in Endpoint /\ conn[c].incoming \in Seq(Message) /\ Plain(conn[c].incoming)
      /\ conn[c].sent \in Nat
  BY <1>5, TypedFacts DEF Function, Held, ConnFits
<1>7. Plain(conn'[c].incoming)
  BY <1>4, <1>5, <1>6, PlainTail
<1>a. /\ conn'[c].pending = conn[c].pending /\ conn'[c].secondary = conn[c].secondary
      /\ conn'[c].sent = conn[c].sent
  BY <1>4, <1>5
<1>8. ConnKept(conn[c], conn'[c])
  BY <1>6, <1>7, <1>a DEF ConnKept
<1>9. ProcFits(p, t) /\ SameCalls(r.stack, t.stack)
  <2>1. CASE IsRunAll(r, t) \/ IsRunOther(r, t)
    BY <1>3, <2>1, RunFits
  <2>2. ASSUME NEW u \in ProcState, IsRunOther(r, u), conn[c].incoming # <<>>,
               t = u \/ IsEntered(u, t, c, Head(conn[c].incoming))
        PROVE  ProcFits(p, t) /\ SameCalls(r.stack, t.stack)
    <3>1. ProcFits(p, u) /\ SameCalls(r.stack, u.stack) /\ Owner[c] = p /\ Settled(u.stack)
      BY <1>3, <1>4, <1>5, <2>2, RunFits
    <3>2. CASE t = u
      BY <3>1, <3>2
    <3>3. CASE IsEntered(u, t, c, Head(conn[c].incoming))
      <4>1. Request(Head(conn[c].incoming))
        BY <1>6, <2>2, PlainTail
      <4>2. ProcFits(p, t) /\ SameCalls(u.stack, t.stack)
        BY <1>3, <3>1, <3>3, <4>1, EnterFits
      <4>3. QED
        BY <3>1, <4>2, SameCallsTwice
    <3>4. QED
      BY <2>2, <3>2, <3>3
  <2>3. QED
    BY <1>4, <1>5, <2>1, <2>2
<1>10. QED
  BY <1>1, <1>2, <1>4, <1>5, <1>6, <1>8, <1>9, HeldKept

LEMMA HeldSendSync ==
    ASSUME Held, NEW c \in Endpoint, SendSync(c)
    PROVE  Held'
<1>1. PICK p : p = Owner[c]
  OBVIOUS
<1>2. PICK n : n = conn[c].sent
  OBVIOUS
<1>3. /\ Typed' /\ Bounded' /\ OnlyConn(c) /\ OnlyProc(p)
      /\ \E m : IsSent(c, m)
      /\ conn'[c].secondary = conn[c].secondary
      /\ conn'[c].pending = Append(conn[c].pending, [id |-> n + 1, didReceiveReply |-> FALSE])
      /\ \E fr \in Frame :
            /\ fr.f = "sendSync" /\ fr.c = c /\ fr.id = n + 1 /\ IsCall(main[p], main'[p], fr)
      /\ main'[p].delayed = main[p].delayed
      /\ n + 1 \in Number
  BY <1>1, <1>2, FormSendSync DEF Held
<1>4. PICK fr \in Frame : fr.f = "sendSync" /\ fr.c = c /\ fr.id = n + 1 /\ IsCall(main[p], main'[p], fr)
  BY <1>3
<1>5. conn'[c].sent = n + 1 /\ conn'[c].incoming = conn[c].incoming
  BY <1>2, <1>3 DEF IsSent
<1>6. p \in Proc /\ n \in Nat
  BY <1>1, <1>2, Ends2, TypedFacts DEF Held
<1>7. main[p] \in ProcState /\ main'[p] \in ProcState /\ ProcFits(p, main[p]) /\ StackFits(p, main[p].stack)
  BY <1>3, <1>6, HeldFacts
<1>8. Settled(main[p].stack)
  BY <1>1, <1>6, ClientSettled DEF SendSync
<1>9. FrameFits(p, fr)
  BY <1>1, <1>4 DEF FrameFits
<1>10. Rearranged(main[p], main'[p]) /\ StackFits(p, main'[p].stack)
  BY <1>4, <1>7, <1>8, <1>9, MoveCall
<1>11. SameLoop(main[p], main'[p]) /\ main'[p].stack = Push(fr, main[p].stack)
  BY <1>4 DEF IsCall
<1>a. \A d \in main'[p].delayed : Owner[d[1]] = p
  BY <1>3, <1>7 DEF ProcFits
<1>12. ProcFits(p, main'[p])
  BY <1>7, <1>10, <1>11, <1>a, RearrangedFits
<1>13. PICK s \in Seq(Frame) : s = main[p].stack
  BY <1>6, TypedFacts DEF Held
<1>14. ASSUME NEW d \in Endpoint  PROVE ConnFits(d, conn'[d], main'[Owner[d]].stack)
  <2>1. ConnFits(d, conn[d], main[Owner[d]].stack) /\ Owner[d] \in Proc
    BY Ends2 DEF Held
  <2>2. CASE d = c
    <3>1. PICK q \in Seq(PendingSyncReply) : q = conn[c].pending
      BY TypedFacts DEF Held
    <3>2. PendingFits(c, q, s, n) /\ CallOn(c, fr)
      BY <1>1, <1>2, <1>4, <1>13, <2>1, <2>2, <3>1 DEF ConnFits, CallOn
    <3>3. PendingFits(c, Append(q, [id |-> n + 1, didReceiveReply |-> FALSE]), Push(fr, s), n + 1)
      BY <1>3, <1>4, <1>6, <3>2, PendingPush
    <3>4. WaitingFits(conn'[c])
      <4>1. conn[c].secondary.id \in Number \cup {0}
        BY TypedFacts DEF Held, Secondary
      <4>2. \A x : x \in Number \cup {0} => x \in Nat
        BY Numbers
      <4>3. conn[c].secondary.id \in Nat
        BY <4>1, <4>2, Zenon
      <4>4. QED
        BY <1>2, <1>3, <1>5, <1>6, <2>1, <2>2, <4>3 DEF ConnFits, WaitingFits
    <3>5. Plain(conn'[c].incoming)
      BY <1>5, <2>1, <2>2 DEF ConnFits
    <3>6. PendingFits(c, conn'[c].pending, main'[Owner[c]].stack, conn'[c].sent)
      BY <1>1, <1>3, <1>5, <1>11, <1>13, <3>1, <3>3
    <3>7. QED
      BY <2>2, <3>4, <3>5, <3>6 DEF ConnFits
  <2>3. CASE d # c /\ Owner[d] = p
    <3>1. PendingFits(d, conn[d].pending, s, conn[d].sent) /\ ~CallOn(d, fr)
      BY <1>4, <1>13, <2>1, <2>3 DEF ConnFits, CallOn
    <3>2. PendingFits(d, conn[d].pending, Push(fr, s), conn[d].sent)
      BY <3>1, PendingOther
    <3>3. conn'[d] = conn[d]
      BY <1>3, <2>3 DEF OnlyConn
    <3>4. QED
      BY <1>11, <1>13, <2>1, <2>3, <3>2, <3>3 DEF ConnFits
  <2>4. CASE Owner[d] # p
    BY <1>1, <1>3, <2>1, <2>4 DEF OnlyConn, OnlyProc
  <2>5. QED
    BY <2>2, <2>3, <2>4
<1>15. QED
  BY <1>3, <1>6, <1>12, <1>14, HeldStep

\* A connection whose queues and secondary thread stay.
LEMMA QueuesKept ==
    ASSUME Typed, NEW c \in Endpoint, NEW l, l.incoming = conn[c].incoming,
           l.pending = conn[c].pending, l.secondary = conn[c].secondary,
           l.sent = conn[c].sent \/ l.sent = conn[c].sent + 1
    PROVE  ConnKept(conn[c], l)
<1>1. conn[c].sent \in Nat
  BY TypedFacts
<1>2. QED
  BY <1>1 DEF ConnKept

\* Steps of a client or a secondary thread, and of the work queue on its own.
LEMMA HeldSendAsync ==
    ASSUME Held, NEW c \in Endpoint, NEW flag \in SendFlags, SendAsync(c, flag)
    PROVE  Held'
<1>1. /\ Typed' /\ Bounded' /\ OnlyConn(c) /\ main' = main
      /\ \E m : IsSent(c, m)
      /\ conn'[c].pending = conn[c].pending /\ conn'[c].secondary = conn[c].secondary
  BY FormSendAsync DEF Held
<1>2. conn'[c].incoming = conn[c].incoming /\ conn'[c].sent = conn[c].sent + 1
  BY <1>1 DEF IsSent
<1>3. ConnKept(conn[c], conn'[c])
  BY <1>1, <1>2, QueuesKept DEF Held
<1>4. QED
  BY <1>1, <1>3, HeldConn

LEMMA HeldSendSyncFails ==
    ASSUME Held, NEW c \in Endpoint, SendSyncFails(c)
    PROVE  Held'
<1>1. CASE c \in ExitOnFailure
  <2>1. Ends(Owner[c], {c}) /\ Owner[c] \in Proc /\ \A d \in {c} : conn[d].sent < MaxSends[d]
    BY <1>1, Ends2 DEF SendSyncFails
  <2>2. {c} \in SUBSET Endpoint
    OBVIOUS
  <2>3. QED
    BY <2>1, <2>2, HeldEnds
<1>2. CASE c \notin ExitOnFailure
  <2>1. /\ Typed' /\ Bounded' /\ OnlyConn(c) /\ main' = main
        /\ conn'[c].incoming = conn[c].incoming /\ conn'[c].pending = conn[c].pending
        /\ conn'[c].secondary = conn[c].secondary /\ conn'[c].sent = conn[c].sent + 1
    BY <1>2, FormSendSyncFails DEF Held
  <2>2. ConnKept(conn[c], conn'[c])
    BY <2>1, QueuesKept DEF Held
  <2>3. QED
    BY <2>1, <2>2, HeldConn
<1>3. QED
  BY <1>1, <1>2

LEMMA HeldAlone ==
    ASSUME Held, NEW c \in Endpoint,
           Invalidate(c) \/ SendOutgoing(c) \/ PlatformInvalidate(c) \/ (ReadyRead(c) /\ conn[c].connected)
    PROVE  Held'
<1>1. /\ Typed' /\ Bounded' /\ OnlyConn(c) /\ main' = main
      /\ conn'[c].incoming = conn[c].incoming /\ conn'[c].pending = conn[c].pending
      /\ conn'[c].secondary = conn[c].secondary /\ conn'[c].sent = conn[c].sent
  BY FormInvalidate, FormSendOutgoing, FormTasks DEF Held, SameQueues
<1>2. ConnKept(conn[c], conn'[c])
  BY <1>1, QueuesKept DEF Held
<1>3. QED
  BY <1>1, <1>2, HeldConn

LEMMA HeldSecondary ==
    ASSUME Held, NEW c \in Endpoint, SecondaryChecks(c) \/ SecondarySends(c) \/ SecondaryReturns(c)
    PROVE  Held'
<1>1. Typed /\ Bounded /\ WaitingFits(conn[c]) /\ conn[c].sent \in Nat
  BY TypedFacts DEF Held, ConnFits
<1>2. CASE SecondaryChecks(c)
  <2>1. /\ Typed' /\ Bounded' /\ OnlyConn(c) /\ main' = main
        /\ conn'[c].incoming = conn[c].incoming /\ conn'[c].pending = conn[c].pending
        /\ conn'[c].sent = conn[c].sent /\ conn'[c].secondary.at = "valid"
    BY <1>1, <1>2, FormSecondaryChecks
  <2>2. ConnKept(conn[c], conn'[c])
    BY <1>1, <2>1 DEF ConnKept
  <2>3. QED
    BY <2>1, <2>2, HeldConn
<1>3. CASE SecondarySends(c)
  <2>1. /\ Typed' /\ Bounded' /\ OnlyConn(c) /\ main' = main
        /\ conn'[c].incoming = conn[c].incoming /\ conn'[c].pending = conn[c].pending
        /\ conn'[c].sent = conn[c].sent + 1 /\ conn[c].sent + 1 \in Number
        /\ \/ conn'[c].secondary = NoSecondary
           \/ conn'[c].secondary.id = conn[c].sent + 1
    BY <1>1, <1>3, FormSecondarySends
  <2>2. conn'[c].secondary.at = "waiting" => conn'[c].secondary.id = conn[c].sent + 1
    BY <2>1 DEF NoSecondary
  <2>3. ConnKept(conn[c], conn'[c])
    BY <1>1, <2>1, <2>2 DEF ConnKept
  <2>4. QED
    BY <2>1, <2>3, HeldConn
<1>4. CASE SecondaryReturns(c)
  <2>1. conn[c].secondary.id \in Number
    BY <1>1, <1>4 DEF WaitingFits, SecondaryReturns
  <2>2. /\ Typed' /\ Bounded' /\ OnlyConn(c) /\ main' = main
        /\ conn'[c].incoming = conn[c].incoming /\ conn'[c].pending = conn[c].pending
        /\ conn'[c].sent = conn[c].sent /\ conn'[c].secondary = NoSecondary
    BY <1>1, <1>4, <2>1, FormSecondaryReturns
  <2>3. ConnKept(conn[c], conn'[c])
    BY <1>1, <2>2 DEF ConnKept, NoSecondary
  <2>4. QED
    BY <2>2, <2>3, HeldConn
<1>5. QED
  BY <1>2, <1>3, <1>4

\* The work queue wakes the client, or posts a close to it.
LEMMA HeldSignals ==
    ASSUME Held, NEW c \in Endpoint, NEW p, p = Owner[c], Typed', Bounded', OnlyConn(c), OnlyProc(p),
           ConnKept(conn[c], conn'[c]), IsStill(main[p], main'[p]), main'[p].delayed = main[p].delayed
    PROVE  Held'
<1>1. p \in Proc
  BY Ends2
<1>2. ProcFits(p, main[p])
  BY <1>1 DEF Held
<1>3. ProcFits(p, main'[p]) /\ SameCalls(main[p].stack, main'[p].stack)
  BY <1>1, <1>2, StillFits DEF ProcFits
<1>4. QED
  BY <1>1, <1>3, HeldKept

LEMMA HeldWakeUpClient ==
    ASSUME Held, NEW c \in Endpoint, WakeUpClient(c)
    PROVE  Held'
<1>1. /\ Typed' /\ Bounded' /\ OnlyConn(c) /\ OnlyProc(Owner[c]) /\ SameQueues(conn[c], conn'[c])
      /\ IsStill(main[Owner[c]], main'[Owner[c]]) /\ main'[Owner[c]].delayed = main[Owner[c]].delayed
  BY FormWakeUpClient DEF Held
<1>2. ConnKept(conn[c], conn'[c])
  BY <1>1, QueuesKept DEF Held, SameQueues
<1>3. QED
  BY <1>1, <1>2, HeldSignals

LEMMA HeldDidClose ==
    ASSUME Held, NEW c \in Endpoint, HangUp(c) \/ (ReadyRead(c) /\ ~conn[c].connected)
    PROVE  Held'
<1>1. \E done \in SUBSET {"readyRead"} :
         /\ DidClose(c, done) /\ conn[c].wq = "idle"
         /\ \/ conn[c].connected /\ done = {}
            \/ "readyRead" \in conn[c].tasks /\ done = {"readyRead"} /\ ~conn[c].connected
  BY DEF HangUp, ReadyRead
<1>2. /\ Typed' /\ Bounded' /\ OnlyConn(c) /\ OnlyProc(Owner[c])
      /\ conn'[c].incoming = conn[c].incoming
      /\ conn'[c].pending = conn[c].pending /\ conn'[c].sent = conn[c].sent
      /\ conn'[c].secondary = Signalled(conn[c].secondary)
      /\ IsStill(main[Owner[c]], main'[Owner[c]]) /\ main'[Owner[c]].delayed = main[Owner[c]].delayed
  BY <1>1, FormDidClose DEF Held
<1>3. conn[c].sent \in Nat /\ conn[c].secondary \in Secondary
  BY TypedFacts DEF Held
<1>4. /\ conn'[c].secondary.at = conn[c].secondary.at /\ conn'[c].secondary.id = conn[c].secondary.id
  BY <1>2, <1>3 DEF Signalled, Secondary
<1>5. ConnKept(conn[c], conn'[c])
  BY <1>2, <1>3, <1>4 DEF ConnKept
<1>6. QED
  BY <1>2, <1>5, HeldSignals

\* A function is posted to the client's run loop.
LEMMA PostFits ==
    ASSUME NEW p \in Proc, NEW r \in ProcState, NEW t \in ProcState, ProcFits(p, r),
           NEW fn \in Function, IsPost(r, t, fn), Owner[fn.c] = p
    PROVE  ProcFits(p, t) /\ SameCalls(r.stack, t.stack)
<1>1. Served(t) /\ Rearranged(r, t) /\ Elems(t.runLoop) = Elems(r.runLoop) \cup {fn}
  BY ServedPost DEF ProcFits
<1>2. t.stack = r.stack /\ t.delayed = r.delayed
  BY DEF IsPost
<1>3. QED
  BY <1>1, <1>2, SameCallsSame DEF ProcFits, Rearranged

LEMMA HeldPostDidClose ==
    ASSUME Held, NEW c \in Endpoint, PostDidClose(c)
    PROVE  Held'
<1>1. PICK p : p = Owner[c]
  OBVIOUS
<1>2. /\ Typed' /\ Bounded' /\ OnlyConn(c) /\ OnlyProc(p) /\ SameQueues(conn[c], conn'[c])
      /\ \E fn \in Function : fn.c = c /\ IsPost(main[p], main'[p], fn)
  BY <1>1, FormPostDidClose DEF Held
<1>3. ConnKept(conn[c], conn'[c]) /\ p \in Proc
  BY <1>1, <1>2, QueuesKept, Ends2 DEF Held, SameQueues
<1>4. main[p] \in ProcState /\ main'[p] \in ProcState /\ ProcFits(p, main[p])
  BY <1>2, <1>3, HeldFacts
<1>5. ProcFits(p, main'[p]) /\ SameCalls(main[p].stack, main'[p].stack)
  BY <1>1, <1>2, <1>3, <1>4, PostFits
<1>6. QED
  BY <1>2, <1>3, <1>5, HeldKept

LEMMA QueueFits ==
    ASSUME NEW p \in Proc, NEW r \in ProcState, NEW t \in ProcState, ProcFits(p, r),
           NEW x \in Received, IsQueue(r, t, x), IsOurs(p, x)
    PROVE  ProcFits(p, t) /\ SameCalls(r.stack, t.stack)
<1>1. /\ Served(t) /\ Elems(t.runLoop) \subseteq Elems(r.runLoop) \cup {AllOf(x.c)}
  BY ServedQueue DEF ProcFits
<1>2. (\A y : Item(t, y) => Item(r, y) \/ y = x) /\ t.stack = r.stack
  BY MoveQueue
<1>3. t.delayed = r.delayed
  BY DEF IsQueue
<1>4. Owner[AllOf(x.c).c] = p
  BY DEF AllOf, IsOurs
<1>5. \A fn \in Elems(t.runLoop) : Owner[fn.c] = p
  BY <1>1, <1>4 DEF ProcFits
<1>6. \A y : Item(t, y) => IsOurs(p, y)
  BY <1>2 DEF ProcFits
<1>7. QED
  BY <1>1, <1>2, <1>3, <1>5, <1>6, SameCallsSame DEF ProcFits

LEMMA HeldReceive ==
    ASSUME Held, NEW c \in Endpoint, Receive(c)
    PROVE  Held'
<1>1. PICK p : p = Owner[c]
  OBVIOUS
<1>2. /\ Typed' /\ Bounded' /\ OnlyConn(c) /\ OnlyProc(p)
      /\ \E m \in Message :
           \/ m.kind = "reply" /\ ProcessIncomingSyncReply(c, m.id)
           \/ m.kind # "reply" /\ m.marked /\ QueueMarked(c, m)
           \/ m.kind # "reply" /\ ~m.marked /\ EnqueueIncoming(c, m)
  BY <1>1, FormReceive DEF Held
<1>3. PICK m \in Message :
        \/ m.kind = "reply" /\ ProcessIncomingSyncReply(c, m.id)
        \/ m.kind # "reply" /\ m.marked /\ QueueMarked(c, m)
        \/ m.kind # "reply" /\ ~m.marked /\ EnqueueIncoming(c, m)
  BY <1>2
<1>4. p \in Proc /\ Typed /\ Bounded /\ m.id \in Number
  BY <1>1, Ends2 DEF Held, Message
<1>5. main[p] \in ProcState /\ main'[p] \in ProcState /\ ProcFits(p, main[p])
  BY <1>2, <1>4, HeldFacts
<1>6. CASE ProcessIncomingSyncReply(c, m.id)
  <2>1. /\ IsAnswered(c, m.id) /\ IsStill(main[p], main'[p]) /\ main'[p].delayed = main[p].delayed
    BY <1>1, <1>4, <1>6, FormAnswer
  <2>2. ProcFits(p, main'[p]) /\ main'[p].stack = main[p].stack
    BY <1>4, <1>5, <2>1, StillFits DEF ProcFits, IsStill
  <2>3. ASSUME NEW d \in Endpoint  PROVE ConnFits(d, conn'[d], main'[Owner[d]].stack)
    <3>1. ConnFits(d, conn[d], main[Owner[d]].stack) /\ Owner[d] \in Proc
      BY Ends2 DEF Held
    <3>2. main'[Owner[d]].stack = main[Owner[d]].stack
      BY <1>2, <2>2, <3>1 DEF OnlyProc
    <3>3. CASE d # c
      BY <1>2, <3>1, <3>2, <3>3 DEF OnlyConn
    <3>4. CASE d = c
      <4>1. /\ conn'[c].pending = Replied(conn[c].pending, m.id) /\ conn'[c].sent = conn[c].sent
            /\ conn'[c].incoming = conn[c].incoming
        BY <2>1 DEF IsAnswered
      <4>2. conn[c].pending \in Seq(PendingSyncReply) /\ conn[c].secondary \in Secondary
        BY <1>4, TypedFacts
      <4>3. PendingFits(c, Replied(conn[c].pending, m.id), main[Owner[c]].stack, conn[c].sent)
        BY <1>4, <3>1, <3>4, <4>2, PendingReplied DEF ConnFits
      <4>4. conn'[c].secondary.at = conn[c].secondary.at /\ conn'[c].secondary.id = conn[c].secondary.id
        BY <2>1, <4>2 DEF IsAnswered, Secondary
      <4>5. WaitingFits(conn'[c])
        BY <3>1, <3>4, <4>1, <4>4 DEF ConnFits, WaitingFits
      <4>6. PendingFits(c, conn'[c].pending, main'[Owner[c]].stack, conn'[c].sent)
        BY <3>2, <3>4, <4>1, <4>3
      <4>7. QED
        BY <3>1, <3>4, <4>1, <4>5, <4>6 DEF ConnFits
    <3>5. QED
      BY <3>3, <3>4
  <2>4. QED
    BY <1>2, <1>4, <2>2, <2>3, HeldStep
<1>7. CASE m.kind # "reply" /\ m.marked /\ QueueMarked(c, m)
  <2>1. /\ SameQueues(conn[c], conn'[c])
        /\ \E x \in Received : x = [c |-> c, msg |-> m] /\ IsQueue(main[p], main'[p], x)
    BY <1>1, <1>4, <1>7, FormQueueMarked
  <2>2. PICK x \in Received : x = [c |-> c, msg |-> m] /\ IsQueue(main[p], main'[p], x)
    BY <2>1
  <2>3. IsOurs(p, x)
    BY <1>1, <1>7, <2>2 DEF IsOurs, Request
  <2>4. ProcFits(p, main'[p]) /\ SameCalls(main[p].stack, main'[p].stack)
    BY <1>4, <1>5, <2>2, <2>3, QueueFits
  <2>5. ConnKept(conn[c], conn'[c])
    BY <1>4, <2>1, QueuesKept DEF SameQueues
  <2>6. QED
    BY <1>2, <1>4, <2>4, <2>5, HeldKept
<1>8. CASE m.kind # "reply" /\ ~m.marked /\ EnqueueIncoming(c, m)
  <2>1. /\ conn'[c].incoming = Append(conn[c].incoming, m) /\ conn'[c].pending = conn[c].pending
        /\ conn'[c].secondary = conn[c].secondary /\ conn'[c].sent = conn[c].sent
        /\ IsPost(main[p], main'[p], OneOf(c))
    BY <1>1, <1>4, <1>8, FormEnqueueIncoming
  <2>2. conn[c].incoming \in Seq(Message) /\ conn[c].sent \in Nat
    BY <1>4, TypedFacts
  <2>3. Elems(conn'[c].incoming) = Elems(conn[c].incoming) \cup {m}
    BY <2>1, <2>2, ElemsAppend
  <2>4. ConnKept(conn[c], conn'[c])
    BY <1>8, <2>1, <2>2, <2>3 DEF ConnKept, Plain, Request
  <2>5. OneOf(c) \in Function /\ OneOf(c).c = c
    BY DEF OneOf, Function
  <2>6. ProcFits(p, main'[p]) /\ SameCalls(main[p].stack, main'[p].stack)
    BY <1>1, <1>4, <1>5, <2>1, <2>5, PostFits
  <2>7. QED
    BY <1>2, <1>4, <2>4, <2>6, HeldKept
<1>9. QED
  BY <1>3, <1>6, <1>7, <1>8

LEMMA HeldInit == Init => Held
<1>1. SUFFICES ASSUME Init  PROVE Held
  OBVIOUS
<1>2. Typed
  <2>1. NoSecondary \in Secondary
    BY DEF NoSecondary, Secondary
  <2>2. conn \in [Endpoint -> ConnectionState]
    BY <1>1, <2>1 DEF Init, ConnectionState
  <2>3. main \in [Proc -> ProcState]
    BY <1>1 DEF Init, ProcState
  <2>4. QED
    BY <1>1, <2>2, <2>3 DEF Init, Typed
<1>3. Bounded
  BY <1>1, ConnectionAssumption DEF Init, Bounded, ClosesTwice
<1>4. ASSUME NEW p \in Proc  PROVE ProcFits(p, main[p])
  <2>1. /\ main[p].messages = <<>> /\ main[p].scheduled = {} /\ main[p].runLoop = <<>>
        /\ main[p].stack = <<>> /\ main[p].delayed = {}
    BY <1>1 DEF Init
  <2>2. \A x : ~Item(main[p], x) /\ ~Kept(main[p], x)
    BY <2>1, ElemsEmpty, OnEmpty DEF Item, Kept
  <2>3. QED
    BY <2>1, <2>2, ElemsEmpty, FitsEmpty DEF ProcFits, Served
<1>5. ASSUME NEW c \in Endpoint  PROVE ConnFits(c, conn[c], main[Owner[c]].stack)
  <2>1. /\ conn[c].incoming = <<>> /\ conn[c].pending = <<>> /\ conn[c].secondary = NoSecondary
        /\ main[Owner[c]].stack = <<>>
    BY <1>1, Ends2 DEF Init
  <2>2. Plain(<<>>)
    BY ElemsEmpty DEF Plain
  <2>3. WaitingFits(conn[c])
    BY <2>1 DEF WaitingFits, NoSecondary
  <2>4. PendingFits(c, <<>>, <<>>, conn[c].sent)
    BY PendingEmpty
  <2>5. QED
    BY <2>1, <2>2, <2>3, <2>4 DEF ConnFits
<1>6. QED
  BY <1>2, <1>3, <1>4, <1>5 DEF Held

LEMMA HeldNext == Held /\ [Next]_vars => Held'
<1>1. SUFFICES ASSUME Held, [Next]_vars  PROVE Held'
  OBVIOUS
<1>2. CASE UNCHANGED vars
  <2>1. conn' = conn /\ main' = main /\ wire' = wire /\ result' = result /\ handled' = handled
    BY <1>2 DEF vars
  <2>2. Typed' /\ Bounded'
    BY <1>1, <2>1 DEF Held, Typed, Bounded
  <2>3. (\A p \in Proc : ProcFits(p, main'[p])) /\ \A c \in Endpoint : ConnFits(c, conn'[c], main'[Owner[c]].stack)
    BY <1>1, <2>1 DEF Held
  <2>4. CASE Proc = {}
    <3>1. Endpoint = {}
      BY <2>4, Ends2
    <3>2. QED
      BY <2>2, <2>4, <3>1 DEF Held
  <2>5. CASE Proc # {}
    <3>1. PICK p : p \in Proc
      BY <2>5
    <3>2. OnlyProc(p)
      BY <2>1 DEF OnlyProc
    <3>3. QED
      BY <1>1, <2>2, <2>3, <3>1, <3>2, HeldStep
  <2>6. QED
    BY <2>4, <2>5
<1>3. ASSUME NEW p \in Proc, MainThread(p) \/ SendDelayedReply(p) \/ WaitTimesOut(p) \/ Crash(p)
      PROVE  Held'
  BY <1>1, <1>3, HeldHandlerReturns, HeldSwapMessages, HeldDispatchNext, HeldPutBackMessages,
     HeldWaitDispatches, HeldWaitChecks, HeldWaitWakes, HeldRunFunction, HeldSendDelayedReply,
     HeldWaitTimesOut, HeldCrash DEF MainThread
<1>4. ASSUME NEW c \in Endpoint,
             ClientCalls(c) \/ WorkQueue(c) \/ SecondaryChecks(c) \/ SecondarySends(c) \/ SecondaryReturns(c)
      PROVE  Held'
  <2>1. CASE ClientCalls(c)
    BY <1>1, <2>1, HeldSendAsync, HeldSendSync, HeldSendSyncFails, HeldAlone DEF ClientCalls
  <2>2. CASE ReadyRead(c)
    BY <1>1, <2>2, HeldAlone, HeldDidClose
  <2>3. CASE WorkQueue(c) /\ ~ReadyRead(c)
    BY <1>1, <2>3, HeldAlone, HeldReceive, HeldWakeUpClient, HeldPostDidClose, HeldDidClose DEF WorkQueue
  <2>4. QED
    BY <1>1, <1>4, <2>1, <2>2, <2>3, HeldSecondary
<1>5. QED
  BY <1>1, <1>2, <1>3, <1>4 DEF Next, Rest

\* In every reachable state the messages a process holds belong to its own
\* connections, every message it keeps has a dispatchMessages to come, and the
\* calls on its stack are the pending replies of its connections, in order.
THEOREM HeldHolds == Spec => []Held
<1>1. QED
  BY HeldInit, HeldNext, PTL DEF Spec

\* The messages NothingStranded speaks of are kept.
LEMMA StrandedKept ==
    ASSUME Held, NEW p \in Proc, NEW c,
           \/ \E i \in DOMAIN main[p].messages : main[p].messages[i].c = c
           \/ \E i \in DOMAIN main[p].stack :
                 /\ main[p].stack[i].f = "dispatchMessages"
                 /\ \E j \in DOMAIN main[p].stack[i].putBack : main[p].stack[i].putBack[j].c = c
    PROVE  \E x : Kept(main[p], x) /\ x.c = c
<1>1. main[p].stack \in Seq(Frame) /\ main[p].messages \in Seq(Received)
  BY TypedFacts DEF Held
<1>2. CASE \E i \in DOMAIN main[p].messages : main[p].messages[i].c = c
  <2>1. PICK i \in DOMAIN main[p].messages : main[p].messages[i].c = c
    BY <1>2
  <2>2. main[p].messages[i] \in Elems(main[p].messages)
    BY <1>1, <2>1, ElemsOf
  <2>3. QED
    BY <2>1, <2>2 DEF Kept
<1>3. ASSUME NEW i \in DOMAIN main[p].stack, main[p].stack[i].f = "dispatchMessages",
             NEW j \in DOMAIN main[p].stack[i].putBack, main[p].stack[i].putBack[j].c = c
      PROVE  \E x : Kept(main[p], x) /\ x.c = c
  <2>1. PICK fr : fr = main[p].stack[i]
    OBVIOUS
  <2>2. fr \in Elems(main[p].stack) /\ fr \in Frame
    BY <1>1, <2>1, ElemsOf
  <2>3. fr.putBack \in Seq(Received) /\ fr.f = "dispatchMessages"
    BY <1>3, <2>1, <2>2, FrameKinds
  <2>4. fr.putBack[j] \in Elems(fr.putBack)
    BY <1>3, <2>1, <2>3, ElemsOf
  <2>5. fr.putBack[j] \in FrameKeeps(fr)
    BY <2>3, <2>4 DEF FrameKeeps
  <2>6. Kept(main[p], fr.putBack[j])
    BY <2>2, <2>5 DEF Kept, KeptOn
  <2>7. QED
    BY <1>3, <2>1, <2>6
<1>4. QED
  BY <1>2, <1>3

LEMMA HeldStranded == Held => NothingStranded
<1>a. SUFFICES ASSUME Held, NEW p \in Proc,
             NEW c \in {main[p].messages[i].c : i \in DOMAIN main[p].messages}
                 \cup UNION {{main[p].stack[i].putBack[j].c : j \in DOMAIN main[p].stack[i].putBack} :
                     i \in {i \in DOMAIN main[p].stack : main[p].stack[i].f = "dispatchMessages"}}
      PROVE  \/ \E i \in DOMAIN main[p].runLoop :
                  main[p].runLoop[i] = [f |-> "dispatchMessages", c |-> c]
             \/ \E i \in DOMAIN main[p].stack :
                  /\ main[p].stack[i].f = "dispatchMessages"
                  /\ ~main[p].stack[i].swapped /\ c \in main[p].stack[i].allowed
  BY Zenon DEF NothingStranded
<1>1. /\ Held
      /\ \/ \E i \in DOMAIN main[p].messages : main[p].messages[i].c = c
         \/ \E i \in DOMAIN main[p].stack :
               /\ main[p].stack[i].f = "dispatchMessages"
               /\ \E j \in DOMAIN main[p].stack[i].putBack : main[p].stack[i].putBack[j].c = c
  BY <1>a
<1>2. main[p].stack \in Seq(Frame) /\ main[p].runLoop \in Seq(Function)
  BY <1>1, TypedFacts DEF Held
<1>3. PICK x : Kept(main[p], x) /\ x.c = c
  BY <1>1, StrandedKept
<1>4. Runs(main[p].runLoop, c) \/ AboutToSwap(main[p].stack, c)
  BY <1>1, <1>3 DEF Held, ProcFits, Served
<1>5. CASE Runs(main[p].runLoop, c)
  <2>1. PICK q \in Seq(Function) : q = main[p].runLoop
    BY <1>2
  <2>2. DOMAIN q = 1..Len(q) /\ \E i \in 1..Len(q) : q[i] = AllOf(c)
    BY <1>5, <2>1, ElemsOf DEF Runs
  <2>3. QED
    BY <2>1, <2>2 DEF AllOf
<1>6. CASE AboutToSwap(main[p].stack, c)
  <2>1. PICK fr \in Elems(main[p].stack) : fr.f = "dispatchMessages" /\ ~fr.swapped /\ c \in fr.allowed
    BY <1>6 DEF AboutToSwap
  <2>2. PICK i \in 1..Len(main[p].stack) : main[p].stack[i] = fr
    BY <1>2, ElemsOf
  <2>3. i \in DOMAIN main[p].stack
    BY <1>2, ElemsOf
  <2>4. QED
    BY <2>1, <2>2, <2>3
<1>7. QED
  BY <1>4, <1>5, <1>6

\* No marked message is stranded, for any number of processes, connections and
\* messages: what SyncMessageState holds, or a dispatchMessages will put back
\* in it, is on a connection whose dispatchMessages the run loop has still to
\* run or is about to start.
THEOREM NoMessageStranded == Spec => []NothingStranded
<1>1. QED
  BY HeldHolds, HeldStranded, PTL

-----------------------------------------------------------------------------
(* The second invariant: no wake-up is lost.                               *)

Asleep(r) == r.alive /\ r.stack # <<>> /\ Head(r.stack).f = "sendSync" /\ Head(r.stack).pc = "wait"
AtDispatch(r) == r.stack # <<>> /\ Head(r.stack).f = "sendSync" /\ Head(r.stack).pc = "dispatch"
Calling(s) == \E fr \in Elems(s) : fr.f = "sendSync"
Alerted(p) == main[p].semaphore \/ \E c \in Own(p) : conn[c].wq = "wake"

\* A client with a call on its stack and a message queued is alerted or about
\* to dispatch; one that sleeps has neither its reply nor a close.
Awake(p) ==
    /\ main[p].messages # <<>> /\ Calling(main[p].stack) => Alerted(p) \/ AtDispatch(main[p])
    /\ Asleep(main[p]) /\ ~main[p].semaphore =>
          LET k == conn[Head(main[p].stack).c]
          IN  ~k.pending[Len(k.pending)].didReceiveReply /\ k.didClose = 0

AllAwake == \A p \in Proc : Awake(p)

LEMMA CallingSame ==
    ASSUME NEW s, NEW t, SameCalls(s, t)
    PROVE  Calling(t) => Calling(s)
<1>1. ASSUME NEW u  PROVE Calling(u) <=> \E c : CallIds(c, u) # {}
  <2>1. ASSUME NEW fr \in Elems(u), fr.f = "sendSync"  PROVE \E c : CallIds(c, u) # {}
    <3>1. fr.id \in CallIds(fr.c, u)
      BY <2>1 DEF CallIds, CallOn
    <3>2. QED
      BY <3>1
  <2>2. ASSUME NEW c, CallIds(c, u) # {}  PROVE Calling(u)
    BY <2>2 DEF CallIds, CallOn, Calling
  <2>3. QED
    BY <2>1, <2>2 DEF Calling
<1>2. QED
  BY <1>1 DEF SameCalls

LEMMA SettledAwake ==
    ASSUME NEW r, r.stack \in Seq(Frame), Settled(r.stack)
    PROVE  ~Asleep(r) /\ ~AtDispatch(r)
<1>1. CASE r.stack # <<>>
  <2>1. Head(r.stack) \in Elems(r.stack)
    BY <1>1, ElemsTail
  <2>2. QED
    BY <2>1 DEF Asleep, AtDispatch, Settled
<1>2. QED
  BY <1>1 DEF Asleep, AtDispatch

\* The frame on top of a stack.
LEMMA TopIs ==
    ASSUME NEW r, NEW fr \in Frame, NEW s \in Seq(Frame), r.stack = Push(fr, s)
    PROVE  /\ Head(r.stack) = fr /\ r.stack # <<>>
           /\ fr.f # "sendSync" => ~Asleep(r) /\ ~AtDispatch(r)
           /\ fr.f = "sendSync" /\ fr.pc = "dispatch" => AtDispatch(r) /\ ~Asleep(r)
<1>1. Head(Push(fr, s)) = fr /\ Push(fr, s) # <<>>
  BY PushFacts
<1>2. Head(r.stack) = fr /\ r.stack # <<>>
  BY <1>1
<1>3. QED
  BY <1>2 DEF Asleep, AtDispatch

\* Only p and its connections change.
LEMMA AwakeStep ==
    ASSUME Held, AllAwake, NEW p \in Proc, OnlyProc(p), \A d \in Endpoint : Owner[d] # p => conn'[d] = conn[d],
           Awake(p)'
    PROVE  AllAwake'
<1>1. ASSUME NEW q \in Proc, q # p  PROVE Awake(q)'
  <2>1. main'[q] = main[q] /\ Awake(q)
    BY <1>1 DEF OnlyProc, AllAwake
  <2>2. \A c \in Own(q) : conn'[c] = conn[c]
    BY <1>1 DEF Own
  <2>3. Alerted(q) => Alerted(q)'
    BY <2>1, <2>2 DEF Alerted, Own
  <2>4. ASSUME Asleep(main[q])  PROVE conn'[Head(main[q].stack).c] = conn[Head(main[q].stack).c]
    <3>1. In(q, "sendSync")
      BY <2>4 DEF Asleep, In, Top
    <3>2. Head(main[q].stack).c \in Endpoint /\ Owner[Head(main[q].stack).c] = q
      BY <3>1, InSendSync
    <3>3. QED
      BY <1>1, <3>2
  <2>5. QED
    BY <2>1, <2>3, <2>4 DEF Awake
<1>2. QED
  BY <1>1 DEF AllAwake

\* What sendSyncMessage waits for on a connection is as it was.
SleepsOn(k, l) ==
    k.pending # <<>> =>
        /\ l.didClose = k.didClose
        /\ l.pending[Len(l.pending)].didReceiveReply = k.pending[Len(k.pending)].didReceiveReply

\* The work queue's steps: the stack stays.
LEMMA AwakeSame ==
    ASSUME Held, NEW p \in Proc, Awake(p), main'[p].stack = main[p].stack, main'[p].alive = main[p].alive,
           main'[p].messages = main[p].messages \/ Alerted(p)',
           main[p].semaphore => main'[p].semaphore,
           \A d \in Own(p) : conn[d].wq = "wake" => Alerted(p)',
           main'[p].semaphore \/ \A d \in Own(p) : SleepsOn(conn[d], conn'[d])
    PROVE  Awake(p)'
<1>1. Alerted(p) => Alerted(p)'
  BY DEF Alerted
<1>2. AtDispatch(main'[p]) <=> AtDispatch(main[p])
  BY DEF AtDispatch
<1>3. main'[p].messages # <<>> /\ Calling(main'[p].stack) => Alerted(p)' \/ AtDispatch(main'[p])
  BY <1>1, <1>2 DEF Awake
<1>4. ASSUME Asleep(main'[p]), ~main'[p].semaphore
      PROVE  LET k == conn'[Head(main'[p].stack).c]
             IN  ~k.pending[Len(k.pending)].didReceiveReply /\ k.didClose = 0
  <2>1. Asleep(main[p]) /\ ~main[p].semaphore
    BY <1>4 DEF Asleep
  <2>2. In(p, "sendSync")
    BY <2>1 DEF Asleep, In, Top
  <2>3. PICK c : c = Head(main[p].stack).c
    OBVIOUS
  <2>4. c \in Own(p) /\ conn[c].pending # <<>>
    BY <2>2, <2>3, InSendSync DEF Own
  <2>5. SleepsOn(conn[c], conn'[c])
    BY <1>4, <2>4
  <2>6. ~conn[c].pending[Len(conn[c].pending)].didReceiveReply /\ conn[c].didClose = 0
    BY <2>1, <2>3 DEF Awake
  <2>7. QED
    BY <2>3, <2>4, <2>5, <2>6 DEF SleepsOn
<1>5. QED
  BY <1>3, <1>4 DEF Awake

\* The main thread's: the connections stay.
LEMMA AwakeMain ==
    ASSUME NEW p \in Proc, Awake(p), main'[p].semaphore = main[p].semaphore,
           \A d \in Own(p) : conn'[d].wq = conn[d].wq,
           \/ main'[p].messages = <<>> \/ ~Calling(main'[p].stack) \/ AtDispatch(main'[p])
           \/ /\ ~AtDispatch(main[p]) /\ main'[p].messages = main[p].messages
              /\ Calling(main[p].stack),
           ~Asleep(main'[p])
    PROVE  Awake(p)'
<1>1. Alerted(p) => Alerted(p)'
  BY DEF Alerted, Own
<1>2. QED
  BY <1>1 DEF Awake

\* The connections of p stay, and so do the others.
LEMMA AwakeProc ==
    ASSUME Held, AllAwake, NEW p \in Proc, OnlyProc(p), conn' = conn, main'[p].semaphore = main[p].semaphore,
           \/ main'[p].messages = <<>> \/ ~Calling(main'[p].stack) \/ AtDispatch(main'[p])
           \/ /\ ~AtDispatch(main[p]) /\ main'[p].messages = main[p].messages
              /\ SameCalls(main[p].stack, main'[p].stack),
           ~Asleep(main'[p])
    PROVE  AllAwake'
<1>1. Awake(p)
  BY DEF AllAwake
<1>2. Calling(main'[p].stack) /\ SameCalls(main[p].stack, main'[p].stack) => Calling(main[p].stack)
  BY CallingSame
<1>3. Awake(p)'
  BY <1>1, <1>2, AwakeMain
<1>4. QED
  BY <1>3, AwakeStep

LEMMA AwakeSwapMessages ==
    ASSUME Held, AllAwake, NEW p \in Proc, SwapMessages(p)
    PROVE  AllAwake'
<1>1. /\ Typed' /\ OnlyProc(p) /\ conn' = conn /\ IsSwap(main[p], main'[p])
  BY FormSwapMessages DEF Held
<1>2. main[p].stack \in Seq(Frame) /\ main[p].stack # <<>>
  BY <1>1, TypedFacts DEF Held, IsSwap
<1>3. PICK g \in Frame : g.f = "dispatchMessages" /\ main'[p].stack = Push(g, Tail(main[p].stack))
  BY <1>1 DEF IsSwap, GoesOn
<1>4. Tail(main[p].stack) \in Seq(Frame)
  BY <1>2, ElemsTail
<1>5. ~Asleep(main'[p])
  BY <1>3, <1>4, TopIs
<1>6. main'[p].messages = <<>> /\ main'[p].semaphore = main[p].semaphore
  BY <1>1 DEF IsSwap
<1>7. QED
  BY <1>1, <1>5, <1>6, AwakeProc

LEMMA AwakeWaitDispatches ==
    ASSUME Held, AllAwake, NEW p \in Proc, WaitDispatches(p)
    PROVE  AllAwake'
<1>1. /\ Typed' /\ OnlyProc(p) /\ conn' = conn /\ IsWaitDispatch(main[p], main'[p])
  BY FormWaitDispatches DEF Held
<1>2. main[p].stack \in Seq(Frame) /\ main[p].stack # <<>>
  BY <1>1, TypedFacts DEF Held, IsWaitDispatch
<1>3. PICK g \in Frame, h \in Frame :
        h.f = "dispatchMessages" /\ main'[p].stack = Push(h, Push(g, Tail(main[p].stack)))
  BY <1>1 DEF IsWaitDispatch
<1>4. Push(g, Tail(main[p].stack)) \in Seq(Frame)
  BY <1>2, RetopFacts
<1>5. ~Asleep(main'[p])
  BY <1>3, <1>4, TopIs
<1>6. main'[p].messages = <<>> /\ main'[p].semaphore = main[p].semaphore
  BY <1>1 DEF IsWaitDispatch
<1>7. QED
  BY <1>1, <1>5, <1>6, AwakeProc

LEMMA AwakePutBackMessages ==
    ASSUME Held, AllAwake, NEW p \in Proc, PutBackMessages(p)
    PROVE  AllAwake'
<1>1. /\ Typed' /\ OnlyProc(p) /\ conn' = conn /\ IsPutBack(main[p], main'[p])
  BY FormPutBackMessages DEF Held
<1>2. main[p] \in ProcState /\ main'[p] \in ProcState /\ StackFits(p, main[p].stack) /\ main[p].stack # <<>>
  BY <1>1, HeldFacts DEF IsPutBack
<1>3. Settled(main'[p].stack)
  BY <1>1, <1>2, MovePutBack
<1>4. main'[p].stack \in Seq(Frame)
  BY <1>2 DEF ProcState
<1>5. ~Asleep(main'[p])
  BY <1>3, <1>4, SettledAwake
<1>6. PICK fr \in Frame, s \in Seq(Frame) :
        main[p].stack = Push(fr, s) /\ fr = Head(main[p].stack) /\ s = Tail(main[p].stack)
  BY <1>2, StackSplit
<1>s. /\ main[p].stack = Push(fr, s) /\ main'[p].stack = s /\ fr.f = "dispatchMessages"
      /\ main'[p].messages = main[p].messages \o fr.putBack /\ main'[p].semaphore = main[p].semaphore
  BY <1>1, <1>6 DEF IsPutBack
<1>7. StackFits(p, Push(fr, s)) /\ ~AtDispatch(main[p])
  BY <1>2, <1>s, TopIs
<1>8. s # <<>> => IsNested(fr)
  BY <1>7, FitsTail
<1>9. CASE s = <<>>
  <2>1. ~Calling(main'[p].stack)
    BY <1>s, <1>9, ElemsEmpty DEF Calling
  <2>2. QED
    BY <1>1, <1>5, <1>s, <2>1, AwakeProc
<1>10. CASE s # <<>>
  <2>1. fr.putBack = <<>> /\ main[p].messages \in Seq(Received)
    BY <1>2, <1>s, <1>8, <1>10 DEF IsNested, ProcState
  <2>2. main'[p].messages = main[p].messages
    BY <1>s, <2>1
  <2>3. SameCalls(main[p].stack, main'[p].stack)
    BY <1>1, <1>2, CallsKept
  <2>4. QED
    BY <1>1, <1>5, <1>s, <1>7, <2>2, <2>3, AwakeProc
<1>11. QED
  BY <1>9, <1>10

LEMMA AwakeDispatchNext ==
    ASSUME Held, AllAwake, NEW p \in Proc, DispatchNext(p)
    PROVE  AllAwake'
<1>1. PICK r, t : r = main[p] /\ t = main'[p]
  OBVIOUS
<1>2. /\ Typed' /\ OnlyProc(p) /\ conn' = conn /\ InLoop(r)
      /\ \/ IsSkip(r, t)
         \/ \E u \in ProcState : IsTake(r, u) /\ (t = u \/ \E c, m : IsEntered(u, t, c, m))
  BY <1>1, FormDispatchNext DEF Held
<1>3. r \in ProcState /\ t \in ProcState /\ ProcFits(p, r)
  BY <1>1, <1>2, HeldFacts
<1>4. ~AtDispatch(r)
  BY <1>2 DEF InLoop, AtDispatch
<1>5. ASSUME NEW u \in ProcState, IsTake(r, u) \/ IsSkip(r, u)
      PROVE  /\ ~Asleep(u) /\ u.messages = r.messages /\ u.semaphore = r.semaphore
             /\ SameCalls(r.stack, u.stack)
  <2>1. Settled(u.stack) /\ SameCalls(r.stack, u.stack) /\ u.stack \in Seq(Frame)
    BY <1>3, <1>5, TakeFits DEF ProcState
  <2>2. ~Asleep(u)
    BY <2>1, SettledAwake
  <2>3. QED
    BY <1>5, <2>1, <2>2 DEF IsTake, IsSkip
<1>6. ASSUME NEW u \in ProcState, NEW c, NEW m, IsEntered(u, t, c, m)
      PROVE  /\ ~Asleep(t) /\ t.messages = u.messages /\ t.semaphore = u.semaphore
             /\ SameCalls(u.stack, t.stack)
  <2>1. PICK fr \in Frame : fr.f = "handler" /\ IsCall(u, t, fr)
    BY <1>6 DEF IsEntered
  <2>2. t.stack = Push(fr, u.stack) /\ t.messages = u.messages /\ u.stack \in Seq(Frame)
    BY <2>1 DEF IsCall, ProcState
  <2>3. ~Asleep(t)
    BY <2>1, <2>2, TopIs
  <2>4. SameCalls(u.stack, t.stack)
    BY <1>3, <2>1, CallsKept
  <2>5. QED
    BY <1>6, <2>2, <2>3, <2>4 DEF IsEntered
<1>7. /\ ~Asleep(t) /\ t.messages = r.messages /\ t.semaphore = r.semaphore
      /\ SameCalls(r.stack, t.stack)
  BY <1>2, <1>3, <1>5, <1>6, SameCallsTwice
<1>8. QED
  BY <1>1, <1>2, <1>4, <1>7, AwakeProc

LEMMA AwakeWaitWakes ==
    ASSUME Held, AllAwake, NEW p \in Proc, WaitWakes(p)
    PROVE  AllAwake'
<1>1. /\ Typed' /\ OnlyProc(p) /\ conn' = conn /\ IsTurn(main[p], main'[p], "dispatch")
  BY FormWaitWakes DEF Held
<1>2. main[p].stack \in Seq(Frame) /\ main[p].stack # <<>>
  BY <1>1, TypedFacts DEF Held, IsTurn
<1>3. PICK g \in Frame : /\ g.f = "sendSync" /\ g.pc = "dispatch"
                         /\ main'[p].stack = Push(g, Tail(main[p].stack))
  BY <1>1 DEF IsTurn
<1>4. Tail(main[p].stack) \in Seq(Frame)
  BY <1>2, ElemsTail
<1>5. ~Asleep(main'[p]) /\ AtDispatch(main'[p])
  BY <1>3, <1>4, TopIs
<1>6. Awake(p)'
  BY <1>5 DEF Awake
<1>7. QED
  BY <1>1, <1>6, AwakeStep

LEMMA AwakeEnds ==
    ASSUME Held, AllAwake, NEW p \in Proc, NEW failing \in SUBSET Endpoint, Ends(p, failing),
           \A c \in failing : conn[c].sent < MaxSends[c]
    PROVE  AllAwake'
<1>1. /\ OnlyProc(p) /\ IsEnd(main'[p]) /\ \A c \in Endpoint : Owner[c] # p => conn'[c] = conn[c]
  BY FormEnds DEF Held
<1>2. Awake(p)'
  BY <1>1 DEF IsEnd, Awake, Asleep
<1>3. QED
  BY <1>1, <1>2, AwakeStep

\* One connection of p changes.
LEMMA OthersStay ==
    ASSUME NEW c, OnlyConn(c)
    PROVE  \A d \in Endpoint : Owner[d] # Owner[c] => conn'[d] = conn[d]
  BY DEF OnlyConn

LEMMA AwakeSendSyncReturns ==
    ASSUME Held, AllAwake, NEW p \in Proc, NEW ok \in BOOLEAN, In(p, "sendSync"), SendSyncReturns(p, ok),
           Head(main[p].stack).pc # "dispatch"
    PROVE  AllAwake'
<1>1. PICK fr \in Frame, s \in Seq(Frame) :
        /\ fr = Head(main[p].stack) /\ s = Tail(main[p].stack) /\ main[p].stack = Push(fr, s)
        /\ fr.f = "sendSync" /\ fr.c \in Endpoint /\ Owner[fr.c] = p
        /\ StackFits(p, s) /\ Settled(s)
        /\ LET q == conn[fr.c].pending
           IN  q \in Seq(PendingSyncReply) /\ q # <<>> /\ q[Len(q)].id = fr.id
  BY InSendSync
<1>2. PICK c : c = fr.c
  OBVIOUS
<1>3. Typed /\ Bounded /\ c \in Endpoint /\ Owner[c] = p /\ conn[Head(main[p].stack).c].pending # <<>>
  BY <1>1, <1>2 DEF Held
<1>4. CASE Ends(p, {})
  BY <1>4, AwakeEnds
<1>5. CASE ~Ends(p, {})
  <2>1. /\ OnlyProc(p) /\ OnlyConn(c) /\ IsReturn(main[p], main'[p])
        /\ main'[p].semaphore = main[p].semaphore /\ conn'[c].wq = conn[c].wq
    BY <1>1, <1>2, <1>3, <1>5, FormSendSyncReturns DEF SameSockets
  <2>2. main'[p].stack = s /\ main'[p].messages = main[p].messages
    BY <1>1, <2>1 DEF IsReturn
  <2>3. ~Asleep(main'[p])
    BY <1>1, <2>2, SettledAwake
  <2>4. Elems(Push(fr, s)) = {fr} \cup Elems(s)
    BY ElemsPush
  <2>5. Calling(main'[p].stack) => Calling(main[p].stack)
    BY <1>1, <2>2, <2>4 DEF Calling
  <2>6. ~AtDispatch(main[p])
    BY DEF AtDispatch
  <2>7. \A d \in Own(p) : conn'[d].wq = conn[d].wq
    BY <2>1 DEF OnlyConn, Own
  <2>8. Awake(p)'
    BY <2>1, <2>2, <2>3, <2>5, <2>6, <2>7, AwakeMain DEF AllAwake
  <2>9. QED
    BY <1>3, <2>1, <2>8, OthersStay, AwakeStep
<1>6. QED
  BY <1>4, <1>5

LEMMA AwakeWaitChecks ==
    ASSUME Held, AllAwake, NEW p \in Proc, WaitChecks(p)
    PROVE  AllAwake'
<1>1. PICK ok : ok = conn[Head(main[p].stack).c].pending[Len(conn[Head(main[p].stack).c].pending)].didReceiveReply
  OBVIOUS
<1>2. /\ Head(main[p].stack).pc = "check"
      /\ \/ /\ Typed' /\ OnlyProc(p) /\ conn' = conn /\ IsTurn(main[p], main'[p], "wait") /\ HasToWait(p)
            /\ main'[p].semaphore = main[p].semaphore
         \/ SendSyncReturns(p, ok)
  BY <1>1, FormWaitChecks DEF Held
<1>3. In(p, "sendSync")
  BY DEF WaitChecks
<1>4. PICK fr \in Frame, s \in Seq(Frame) :
        /\ fr = Head(main[p].stack) /\ s = Tail(main[p].stack) /\ main[p].stack = Push(fr, s)
        /\ fr.f = "sendSync"
        /\ LET q == conn[fr.c].pending
           IN  q \in Seq(PendingSyncReply) /\ q # <<>> /\ q[Len(q)].id = fr.id
  BY <1>3, InSendSync
<1>5. CASE SendSyncReturns(p, ok)
  <2>1. PICK q : q = conn[fr.c].pending
    OBVIOUS
  <2>2. q \in Seq(PendingSyncReply) /\ q # <<>> /\ ok = q[Len(q)].didReceiveReply
    BY <1>1, <1>4, <2>1
  <2>3. q[Len(q)] \in PendingSyncReply
    BY <2>2
  <2>4. ok \in BOOLEAN
    BY <2>2, <2>3 DEF PendingSyncReply
  <2>5. QED
    BY <1>2, <1>3, <1>5, <2>4, AwakeSendSyncReturns
<1>6. CASE /\ Typed' /\ OnlyProc(p) /\ conn' = conn /\ IsTurn(main[p], main'[p], "wait") /\ HasToWait(p)
           /\ main'[p].semaphore = main[p].semaphore
  <2>1. PICK g \in Frame : g.f = "sendSync" /\ g.c = fr.c /\ main'[p].stack = Push(g, s)
    BY <1>4, <1>6 DEF IsTurn
  <2>2. Head(main'[p].stack).c = fr.c
    BY <2>1, TopIs
  <2>3. LET k == conn'[Head(main'[p].stack).c]
        IN  ~k.pending[Len(k.pending)].didReceiveReply /\ k.didClose = 0
    BY <1>4, <1>6, <2>2 DEF HasToWait
  <2>4. main[p] \in ProcState /\ main'[p] \in ProcState
    BY <1>6, HeldFacts
  <2>5. SameCalls(main[p].stack, main'[p].stack) /\ main'[p].messages = main[p].messages
    BY <1>6, <2>4, CallsKept DEF IsTurn
  <2>6. Calling(main'[p].stack) => Calling(main[p].stack)
    BY <2>5, CallingSame
  <2>7. ~AtDispatch(main[p])
    BY <1>2 DEF AtDispatch
  <2>8. Alerted(p) => Alerted(p)'
    BY <1>6 DEF Alerted, Own
  <2>9. Awake(p)
    BY DEF AllAwake
  <2>10. Awake(p)'
    BY <2>3, <2>5, <2>6, <2>7, <2>8, <2>9 DEF Awake
  <2>11. QED
    BY <1>6, <2>10, AwakeStep
<1>7. QED
  BY <1>2, <1>5, <1>6

LEMMA AwakeWaitTimesOut ==
    ASSUME Held, AllAwake, NEW p \in Proc, WaitTimesOut(p)
    PROVE  AllAwake'
<1>1. In(p, "sendSync") /\ Head(main[p].stack).pc # "dispatch" /\ SendSyncReturns(p, FALSE)
  BY DEF WaitTimesOut, Top
<1>2. QED
  BY <1>1, AwakeSendSyncReturns

LEMMA AwakeHandlerReturns ==
    ASSUME Held, AllAwake, NEW p \in Proc, NEW keep \in BOOLEAN, HandlerReturns(p, keep)
    PROVE  AllAwake'
<1>1. PICK r, t : r = main[p] /\ t = main'[p]
  OBVIOUS
<1>2. PICK fr : fr = Head(r.stack)
  OBVIOUS
<1>3. /\ Typed' /\ OnlyProc(p) /\ IsReturn(r, t) /\ fr.f = "handler" /\ t.semaphore = r.semaphore
      /\ IsReplied(fr.c, fr.msg.id) \/ conn' = conn
  BY <1>1, <1>2, FormHandlerReturns DEF Held
<1>4. r \in ProcState /\ t \in ProcState /\ StackFits(p, r.stack)
  BY <1>1, <1>3, HeldFacts
<1>5. Settled(t.stack) /\ t.stack \in Seq(Frame)
  BY <1>3, <1>4, MoveReturn DEF ProcState
<1>6. ~Asleep(t)
  BY <1>5, SettledAwake
<1>7. t.messages = r.messages /\ r.stack # <<>> /\ r.stack \in Seq(Frame) /\ ~AtDispatch(r)
  BY <1>2, <1>3, <1>4 DEF IsReturn, ProcState, AtDispatch
<1>8. SameCalls(r.stack, t.stack)
  BY <1>2, <1>3, <1>4, CallsKept
<1>9. Calling(t.stack) => Calling(r.stack)
  BY <1>8, CallingSame
<1>10. fr \in Frame /\ fr \in Elems(r.stack)
  BY <1>2, <1>7, ElemsTail
<1>11. Owner[fr.c] = p /\ fr.c \in Endpoint
  BY <1>3, <1>4, <1>10, FrameKinds DEF StackFits, FrameFits
<1>12. (\A d \in Endpoint : Owner[d] # p => conn'[d] = conn[d]) /\ \A d \in Own(p) : conn'[d].wq = conn[d].wq
  BY <1>3, <1>11 DEF IsReplied, OnlyConn, Own, SameSockets
<1>13. Awake(p)
  BY DEF AllAwake
<1>14. Awake(p)'
  BY <1>1, <1>3, <1>6, <1>7, <1>9, <1>12, <1>13, AwakeMain
<1>15. QED
  BY <1>3, <1>12, <1>14, AwakeStep

LEMMA AwakeRunFunction ==
    ASSUME Held, AllAwake, NEW p \in Proc, RunFunction(p)
    PROVE  AllAwake'
<1>1. PICK r, t : r = main[p] /\ t = main'[p]
  OBVIOUS
<1>2. /\ Typed' /\ OnlyProc(p)
      /\ \E fn \in Function :
           /\ fn = Head(r.runLoop) /\ OnlyConn(fn.c) /\ conn'[fn.c].wq = conn[fn.c].wq
           /\ \/ \E u \in ProcState :
                   IsRunOther(r, u) /\ (t = u \/ \E m : IsEntered(u, t, fn.c, m))
              \/ IsRunAll(r, t) \/ IsRunOther(r, t)
  BY <1>1, FormRunFunction DEF Held
<1>3. r \in ProcState /\ t \in ProcState /\ ProcFits(p, r)
  BY <1>1, <1>2, HeldFacts
<1>4. PICK fn \in Function :
        /\ fn = Head(r.runLoop) /\ OnlyConn(fn.c) /\ conn'[fn.c].wq = conn[fn.c].wq
        /\ \/ \E u \in ProcState :
                IsRunOther(r, u) /\ (t = u \/ \E m : IsEntered(u, t, fn.c, m))
           \/ IsRunAll(r, t) \/ IsRunOther(r, t)
  BY <1>2
<1>5. /\ ~Asleep(t) /\ ~Calling(t.stack) /\ t.semaphore = r.semaphore /\ Owner[fn.c] = p
  <2>1. ASSUME NEW u \in ProcState, IsRunOther(r, u)
        PROVE  u.stack = <<>> /\ u.semaphore = r.semaphore /\ Owner[fn.c] = p
    BY <1>3, <1>4, <2>1, RunFits DEF IsRunOther, IsRun
  <2>2. ASSUME NEW g \in Frame, g.f # "sendSync", t.stack = Push(g, <<>>)
        PROVE  ~Asleep(t) /\ ~Calling(t.stack)
    <3>a. <<>> \in Seq(Frame)
      BY EmptyIn
    <3>1. PICK s \in Seq(Frame) : s = <<>>
      BY <3>a, Zenon
    <3>2. t.stack = Push(g, s) /\ Elems(s) = {}
      BY <2>2, <3>1, ElemsEmpty
    <3>3. Elems(Push(g, s)) = {g} \cup Elems(s)
      BY ElemsPush
    <3>4. QED
      BY <2>2, <3>2, <3>3, TopIs DEF Calling
  <2>3. CASE IsRunAll(r, t)
    <3>1. Owner[fn.c] = p /\ t.semaphore = r.semaphore
      BY <1>3, <1>4, <2>3, RunFits DEF IsRunAll, IsRun
    <3>2. \E g \in Frame : g.f = "dispatchMessages" /\ t.stack = Push(g, <<>>)
      BY <2>3 DEF IsRunAll, IsRun
    <3>3. QED
      BY <2>2, <3>1, <3>2
  <2>4. ASSUME NEW u \in ProcState, IsRunOther(r, u), t = u
        PROVE  /\ ~Asleep(t) /\ ~Calling(t.stack) /\ t.semaphore = r.semaphore /\ Owner[fn.c] = p
    BY <2>1, <2>4, ElemsEmpty DEF Asleep, Calling
  <2>5. ASSUME NEW u \in ProcState, IsRunOther(r, u), NEW m, IsEntered(u, t, fn.c, m)
        PROVE  /\ ~Asleep(t) /\ ~Calling(t.stack) /\ t.semaphore = r.semaphore /\ Owner[fn.c] = p
    <3>1. u.stack = <<>> /\ u.semaphore = r.semaphore /\ Owner[fn.c] = p
      BY <2>1, <2>5
    <3>2. \E g \in Frame : g.f = "handler" /\ t.stack = Push(g, <<>>)
      BY <2>5, <3>1 DEF IsEntered, IsCall
    <3>3. t.semaphore = r.semaphore
      BY <2>5, <3>1 DEF IsEntered
    <3>4. QED
      BY <2>2, <3>1, <3>2, <3>3
  <2>6. QED
    BY <1>3, <1>4, <2>3, <2>4, <2>5
<1>6. (\A d \in Endpoint : Owner[d] # p => conn'[d] = conn[d]) /\ \A d \in Own(p) : conn'[d].wq = conn[d].wq
  BY <1>4, <1>5 DEF OnlyConn, Own
<1>7. Awake(p)
  BY DEF AllAwake
<1>8. Awake(p)'
  BY <1>1, <1>5, <1>6, <1>7, AwakeMain
<1>9. QED
  BY <1>2, <1>6, <1>8, AwakeStep

LEMMA AwakeSendSync ==
    ASSUME Held, AllAwake, NEW c \in Endpoint, SendSync(c)
    PROVE  AllAwake'
<1>1. PICK p : p = Owner[c]
  OBVIOUS
<1>2. /\ OnlyConn(c) /\ OnlyProc(p)
      /\ \E fr \in Frame : fr.f = "sendSync" /\ fr.pc = "dispatch" /\ IsCall(main[p], main'[p], fr)
  BY <1>1, FormSendSync DEF Held
<1>3. PICK fr \in Frame : fr.f = "sendSync" /\ fr.pc = "dispatch" /\ IsCall(main[p], main'[p], fr)
  BY <1>2
<1>4. p \in Proc /\ main[p].stack \in Seq(Frame)
  BY <1>1, Ends2, TypedFacts DEF Held
<1>5. main'[p].stack = Push(fr, main[p].stack)
  BY <1>3 DEF IsCall
<1>6. AtDispatch(main'[p]) /\ ~Asleep(main'[p])
  BY <1>3, <1>4, <1>5, TopIs
<1>7. Awake(p)'
  BY <1>6 DEF Awake
<1>8. QED
  BY <1>1, <1>2, <1>4, <1>7, OthersStay, AwakeStep

\* A step of connection c that leaves the stack of its client.
LEMMA AwakeConn ==
    ASSUME Held, AllAwake, NEW c \in Endpoint, NEW p, p = Owner[c], OnlyConn(c), OnlyProc(p),
           main'[p].stack = main[p].stack, main'[p].alive = main[p].alive,
           main'[p].messages = main[p].messages \/ conn'[c].wq = "wake",
           main[p].semaphore => main'[p].semaphore,
           conn[c].wq = "wake" => conn'[c].wq = "wake" \/ main'[p].semaphore,
           main'[p].semaphore \/ SleepsOn(conn[c], conn'[c])
    PROVE  AllAwake'
<1>1. p \in Proc /\ c \in Own(p) /\ Awake(p)
  BY Ends2 DEF Own, AllAwake
<1>2. \A d \in Own(p) : d # c => conn'[d] = conn[d]
  BY DEF OnlyConn, Own
<1>3. conn'[c].wq = "wake" \/ main'[p].semaphore => Alerted(p)'
  BY <1>1 DEF Alerted, Own
<1>4. \A d \in Own(p) : conn[d].wq = "wake" => Alerted(p)'
  BY <1>2, <1>3 DEF Alerted, Own
<1>5. \A k : SleepsOn(k, k)
  BY DEF SleepsOn
<1>6. main'[p].semaphore \/ \A d \in Own(p) : SleepsOn(conn[d], conn'[d])
  BY <1>2, <1>5
<1>7. Awake(p)'
  BY <1>1, <1>3, <1>4, <1>6, AwakeSame
<1>8. QED
  BY <1>1, <1>7, OthersStay, AwakeStep

\* It leaves the processes alone.
LEMMA AwakeAlone ==
    ASSUME Held, AllAwake, NEW c \in Endpoint, OnlyConn(c), main' = main, conn'[c].wq = conn[c].wq,
           conn'[c].didClose = conn[c].didClose, conn'[c].pending = conn[c].pending
    PROVE  AllAwake'
<1>1. OnlyProc(Owner[c]) /\ SleepsOn(conn[c], conn'[c])
  BY DEF OnlyProc, SleepsOn
<1>2. QED
  BY <1>1, AwakeConn

LEMMA AwakeOutward ==
    ASSUME Held, AllAwake, NEW c \in Endpoint,
           \/ \E flag \in SendFlags : SendAsync(c, flag)
           \/ SendSyncFails(c) /\ c \notin ExitOnFailure
           \/ Invalidate(c) \/ SendOutgoing(c) \/ PlatformInvalidate(c)
           \/ ReadyRead(c) /\ conn[c].connected
           \/ SecondaryChecks(c) \/ SecondarySends(c) \/ SecondaryReturns(c)
    PROVE  AllAwake'
<1>1. Typed /\ Bounded /\ WaitingFits(conn[c])
  BY DEF Held, ConnFits
<1>2. SecondaryReturns(c) => conn[c].secondary.id \in Number
  BY <1>1 DEF WaitingFits, SecondaryReturns
<1>3. /\ OnlyConn(c) /\ main' = main /\ conn'[c].wq = conn[c].wq
      /\ conn'[c].didClose = conn[c].didClose /\ conn'[c].pending = conn[c].pending
  <2>1. CASE \/ \E flag \in SendFlags : SendAsync(c, flag)
             \/ SendSyncFails(c) /\ c \notin ExitOnFailure
    BY <1>1, <2>1, FormSendAsync, FormSendSyncFails DEF SameSockets
  <2>2. CASE Invalidate(c) \/ PlatformInvalidate(c) \/ (ReadyRead(c) /\ conn[c].connected)
    BY <1>1, <2>2, FormInvalidate, FormTasks DEF SameQueues
  <2>3. CASE SendOutgoing(c) \/ SecondaryChecks(c)
    BY <1>1, <2>3, FormSendOutgoing, FormSecondaryChecks DEF SameSockets
  <2>4. CASE SecondarySends(c)
    BY <1>1, <2>4, FormSecondarySends DEF SameSockets
  <2>5. CASE SecondaryReturns(c)
    BY <1>1, <1>2, <2>5, FormSecondaryReturns DEF SameSockets
  <2>6. QED
    BY <2>1, <2>2, <2>3, <2>4, <2>5
<1>4. QED
  BY <1>3, AwakeAlone

LEMMA AwakeSendSyncFails ==
    ASSUME Held, AllAwake, NEW c \in Endpoint, SendSyncFails(c)
    PROVE  AllAwake'
<1>1. CASE c \in ExitOnFailure
  <2>1. Ends(Owner[c], {c}) /\ Owner[c] \in Proc /\ \A d \in {c} : conn[d].sent < MaxSends[d]
    BY <1>1, Ends2 DEF SendSyncFails
  <2>2. {c} \in SUBSET Endpoint
    OBVIOUS
  <2>3. QED
    BY <2>1, <2>2, AwakeEnds
<1>2. QED
  BY <1>1, AwakeOutward

LEMMA AwakeSendDelayedReply ==
    ASSUME Held, AllAwake, NEW p \in Proc, SendDelayedReply(p)
    PROVE  AllAwake'
<1>1. /\ OnlyProc(p) /\ IsStill(main[p], main'[p]) /\ main'[p].semaphore = main[p].semaphore
      /\ \E c \in Endpoint, n \in Number : <<c, n>> \in main[p].delayed /\ IsReplied(c, n)
  BY FormSendDelayedReply DEF Held
<1>2. PICK c \in Endpoint, n \in Number : <<c, n>> \in main[p].delayed /\ IsReplied(c, n)
  BY <1>1
<1>3. ProcFits(p, main[p]) /\ <<c, n>>[1] = c
  BY DEF Held
<1>4. Owner[c] = p
  BY <1>2, <1>3 DEF ProcFits
<1>5. OnlyConn(c) /\ conn'[c].wq = conn[c].wq /\ SleepsOn(conn[c], conn'[c])
  BY <1>2 DEF IsReplied, SameSockets, SleepsOn
<1>6. /\ main'[p].stack = main[p].stack /\ main'[p].alive = main[p].alive
      /\ main'[p].messages = main[p].messages
  BY <1>1 DEF IsStill, SameLoop
<1>7. QED
  BY <1>1, <1>4, <1>5, <1>6, AwakeConn

LEMMA AwakeWakeUpClient ==
    ASSUME Held, AllAwake, NEW c \in Endpoint, WakeUpClient(c)
    PROVE  AllAwake'
<1>1. PICK p : p = Owner[c]
  OBVIOUS
<1>2. /\ OnlyConn(c) /\ OnlyProc(p) /\ IsStill(main[p], main'[p]) /\ main'[p].semaphore
  BY <1>1, FormWakeUpClient DEF Held
<1>3. /\ main'[p].stack = main[p].stack /\ main'[p].alive = main[p].alive
      /\ main'[p].messages = main[p].messages
  BY <1>2 DEF IsStill, SameLoop
<1>4. QED
  BY <1>1, <1>2, <1>3, AwakeConn

LEMMA AwakePostDidClose ==
    ASSUME Held, AllAwake, NEW c \in Endpoint, PostDidClose(c)
    PROVE  AllAwake'
<1>1. PICK p : p = Owner[c]
  OBVIOUS
<1>2. /\ OnlyConn(c) /\ OnlyProc(p) /\ SameQueues(conn[c], conn'[c])
      /\ conn'[c].didClose = conn[c].didClose /\ conn[c].wq = "post"
      /\ \E fn \in Function : IsPost(main[p], main'[p], fn)
  BY <1>1, FormPostDidClose DEF Held
<1>3. /\ main'[p].stack = main[p].stack /\ main'[p].alive = main[p].alive
      /\ main'[p].messages = main[p].messages /\ main'[p].semaphore = main[p].semaphore
  BY <1>2 DEF IsPost
<1>4. SleepsOn(conn[c], conn'[c])
  BY <1>2 DEF SameQueues, SleepsOn
<1>5. QED
  BY <1>1, <1>2, <1>3, <1>4, AwakeConn

LEMMA AwakeDidClose ==
    ASSUME Held, AllAwake, NEW c \in Endpoint, HangUp(c) \/ (ReadyRead(c) /\ ~conn[c].connected)
    PROVE  AllAwake'
<1>1. PICK p : p = Owner[c]
  OBVIOUS
<1>2. \E done \in SUBSET {"readyRead"} :
         /\ DidClose(c, done) /\ conn[c].wq = "idle"
         /\ \/ conn[c].connected /\ done = {}
            \/ "readyRead" \in conn[c].tasks /\ done = {"readyRead"} /\ ~conn[c].connected
  BY DEF HangUp, ReadyRead
<1>3. /\ OnlyConn(c) /\ OnlyProc(p) /\ conn[c].wq = "idle"
      /\ IsStill(main[p], main'[p])
      /\ conn[c].pending # <<>> \/ main[p].semaphore => main'[p].semaphore
  BY <1>1, <1>2, FormDidClose DEF Held
<1>4. /\ main'[p].stack = main[p].stack /\ main'[p].alive = main[p].alive
      /\ main'[p].messages = main[p].messages
  BY <1>3 DEF IsStill, SameLoop
<1>5. main'[p].semaphore \/ SleepsOn(conn[c], conn'[c])
  BY <1>3 DEF SleepsOn
<1>6. QED
  BY <1>1, <1>3, <1>4, <1>5, AwakeConn

LEMMA AwakeReceive ==
    ASSUME Held, AllAwake, NEW c \in Endpoint, Receive(c)
    PROVE  AllAwake'
<1>1. PICK p : p = Owner[c]
  OBVIOUS
<1>2. /\ OnlyConn(c) /\ OnlyProc(p)
      /\ \E m \in Message :
           ProcessIncomingSyncReply(c, m.id) \/ QueueMarked(c, m) \/ EnqueueIncoming(c, m)
  BY <1>1, FormReceive DEF Held
<1>3. PICK m \in Message :
        ProcessIncomingSyncReply(c, m.id) \/ QueueMarked(c, m) \/ EnqueueIncoming(c, m)
  BY <1>2
<1>4. Typed /\ Bounded /\ m.id \in Number /\ conn[c].pending \in Seq(PendingSyncReply) /\ conn[c].wq = "idle"
  BY TypedFacts DEF Held, Message, Receive
<1>5. CASE ProcessIncomingSyncReply(c, m.id)
  <2>1. /\ IsAnswered(c, m.id) /\ IsStill(main[p], main'[p])
        /\ main[p].semaphore \/ AnswersTop(conn[c].pending, m.id) => main'[p].semaphore
    BY <1>1, <1>4, <1>5, FormAnswer
  <2>2. /\ main'[p].stack = main[p].stack /\ main'[p].alive = main[p].alive
        /\ main'[p].messages = main[p].messages
    BY <2>1 DEF IsStill, SameLoop
  <2>3. ASSUME ~main'[p].semaphore, conn[c].pending # <<>>
        PROVE  /\ conn'[c].didClose = conn[c].didClose
               /\ conn'[c].pending[Len(conn'[c].pending)].didReceiveReply =
                    conn[c].pending[Len(conn[c].pending)].didReceiveReply
    <3>1. PICK q : q = conn[c].pending
      OBVIOUS
    <3>2. PICK u : u = Replied(q, m.id)
      OBVIOUS
    <3>3. q \in Seq(PendingSyncReply) /\ q # <<>> /\ ~AnswersTop(q, m.id)
      BY <1>4, <2>1, <2>3, <3>1
    <3>4. Len(q) \in 1..Len(q) /\ q[Len(q)].id # m.id
      BY <3>3 DEF AnswersTop
    <3>5. /\ u \in Seq(PendingSyncReply) /\ Len(u) = Len(q)
          /\ u[Len(q)].didReceiveReply <=> q[Len(q)].didReceiveReply
      BY <1>4, <3>2, <3>3, <3>4, RepliedFacts
    <3>6. u[Len(q)] \in PendingSyncReply /\ q[Len(q)] \in PendingSyncReply
      BY <3>3, <3>4, <3>5
    <3>7. u[Len(q)].didReceiveReply = q[Len(q)].didReceiveReply
      BY <3>5, <3>6 DEF PendingSyncReply
    <3>8. QED
      BY <2>1, <3>1, <3>2, <3>5, <3>7 DEF IsAnswered, SameSockets
  <2>4. main'[p].semaphore \/ SleepsOn(conn[c], conn'[c])
    BY <2>3 DEF SleepsOn
  <2>5. QED
    BY <1>1, <1>2, <1>4, <2>1, <2>2, <2>4, AwakeConn
<1>6. CASE QueueMarked(c, m)
  <2>1. /\ SameQueues(conn[c], conn'[c]) /\ conn'[c].didClose = conn[c].didClose /\ conn'[c].wq = "wake"
        /\ \E x \in Received : IsQueue(main[p], main'[p], x)
    BY <1>1, <1>4, <1>6, FormQueueMarked
  <2>2. /\ main'[p].stack = main[p].stack /\ main'[p].alive = main[p].alive
        /\ main'[p].semaphore = main[p].semaphore
    BY <2>1 DEF IsQueue
  <2>3. SleepsOn(conn[c], conn'[c])
    BY <2>1 DEF SameQueues, SleepsOn
  <2>4. QED
    BY <1>1, <1>2, <2>1, <2>2, <2>3, AwakeConn
<1>7. CASE EnqueueIncoming(c, m)
  <2>1. /\ SameSockets(conn[c], conn'[c]) /\ conn'[c].pending = conn[c].pending
        /\ IsPost(main[p], main'[p], OneOf(c))
    BY <1>1, <1>4, <1>7, FormEnqueueIncoming
  <2>2. /\ main'[p].stack = main[p].stack /\ main'[p].alive = main[p].alive
        /\ main'[p].messages = main[p].messages /\ main'[p].semaphore = main[p].semaphore
    BY <2>1 DEF IsPost
  <2>3. SleepsOn(conn[c], conn'[c])
    BY <2>1 DEF SameSockets, SleepsOn
  <2>4. QED
    BY <1>1, <1>2, <1>4, <2>2, <2>3, AwakeConn
<1>8. QED
  BY <1>3, <1>5, <1>6, <1>7

LEMMA AwakeInit == Init => AllAwake
<1>1. SUFFICES ASSUME Init, NEW p \in Proc  PROVE Awake(p)
  BY DEF AllAwake
<1>2. main[p].messages = <<>> /\ main[p].stack = <<>>
  BY <1>1 DEF Init
<1>3. QED
  BY <1>2 DEF Awake, Asleep

LEMMA AwakeNext == Held /\ AllAwake /\ [Next]_vars => AllAwake'
<1>1. SUFFICES ASSUME Held, AllAwake, [Next]_vars  PROVE AllAwake'
  OBVIOUS
<1>2. CASE UNCHANGED vars
  BY <1>1, <1>2 DEF vars, AllAwake, Awake, Alerted, Own
<1>3. ASSUME NEW p \in Proc, MainThread(p) \/ SendDelayedReply(p) \/ WaitTimesOut(p) \/ Crash(p)
      PROVE  AllAwake'
  <2>1. Crash(p) => AllAwake'
    BY <1>1, AwakeEnds DEF Crash
  <2>2. QED
    BY <1>1, <1>3, <2>1, AwakeHandlerReturns, AwakeSwapMessages, AwakeDispatchNext, AwakePutBackMessages,
       AwakeWaitDispatches, AwakeWaitChecks, AwakeWaitWakes, AwakeRunFunction, AwakeSendDelayedReply,
       AwakeWaitTimesOut DEF MainThread
<1>4. ASSUME NEW c \in Endpoint,
             ClientCalls(c) \/ WorkQueue(c) \/ SecondaryChecks(c) \/ SecondarySends(c) \/ SecondaryReturns(c)
      PROVE  AllAwake'
  <2>1. CASE ClientCalls(c)
    BY <1>1, <2>1, AwakeOutward, AwakeSendSync, AwakeSendSyncFails DEF ClientCalls
  <2>2. CASE ReadyRead(c)
    BY <1>1, <2>2, AwakeOutward, AwakeDidClose
  <2>3. CASE WorkQueue(c) /\ ~ReadyRead(c)
    BY <1>1, <2>3, AwakeOutward, AwakeReceive, AwakeWakeUpClient, AwakePostDidClose, AwakeDidClose DEF WorkQueue
  <2>4. QED
    BY <1>1, <1>4, <2>1, <2>2, <2>3, AwakeOutward
<1>5. QED
  BY <1>1, <1>2, <1>3, <1>4 DEF Next, Rest

LEMMA AwakeWakes == Held /\ AllAwake => NoLostWakeup
<1>1. SUFFICES ASSUME Held, AllAwake, NEW p \in Proc, In(p, "sendSync"), Top(p).pc = "wait", ~main[p].semaphore
      PROVE  LET k == conn[Top(p).c]
             IN  /\ ~k.pending[Len(k.pending)].didReceiveReply
                 /\ k.didClose = 0
                 /\ main[p].messages # <<>> => \E c \in Own(p) : conn[c].wq = "wake"
  BY DEF NoLostWakeup
<1>2. Asleep(main[p]) /\ ~AtDispatch(main[p]) /\ Awake(p)
  BY <1>1 DEF In, Top, Asleep, AtDispatch, AllAwake
<1>3. main[p].stack \in Seq(Frame) /\ main[p].stack # <<>> /\ Head(main[p].stack).f = "sendSync"
  BY <1>1, InFacts DEF Held
<1>4. Calling(main[p].stack)
  BY <1>3, ElemsTail DEF Calling
<1>5. main[p].messages # <<>> => \E c \in Own(p) : conn[c].wq = "wake"
  BY <1>1, <1>2, <1>4 DEF Awake, Alerted
<1>6. QED
  BY <1>1, <1>2, <1>5 DEF Awake, Top

\* No wake-up of waitForSyncReply is lost, for any number of processes and
\* connections and any depth of calls inside handlers: a client asleep on a
\* semaphore that is not set has no reply to its innermost call, no close of
\* that call's connection, and no marked message but one whose work queue is
\* about to signal.
THEOREM NoWakeupLost == Spec => []NoLostWakeup
<1>1. QED
  BY HeldHolds, AwakeInit, AwakeNext, AwakeWakes, PTL DEF Spec
=============================================================================
