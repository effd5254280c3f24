-------------------------- MODULE ProcessPoolProofs -------------------------
(***************************************************************************)
(* Pages, proxies, the pool and the children agree, for any number of      *)
(* pages and processes, either process model and every request; what the   *)
(* code asserts holds without the requests that terminate processes, and   *)
(* every message finds its target.                                         *)
(***************************************************************************)
EXTENDS ProcessPool, FiniteSetTheorems, SequenceTheorems, WellFoundedInduction, TLAPS

-----------------------------------------------------------------------------
(* The inductive invariant                                                 *)

\* A process by itself: the termination counter counts the child's pages, and
\* the child asks to terminate only without pages; only a proxy whose launch is
\* done has a connection, and then nothing is stashed; an aborted launch has lost
\* its client.
Fit(r) ==
    /\ r \in ProcessState
    /\ IsFiniteSet(r.pages) /\ IsFiniteSet(r.held)
    /\ r.counter = Cardinality(r.held)
    /\ r.timer \/ r.asks => r.held = {}
    /\ r.launch = "none" => r = NoProcess
    /\ r.connected => r.launch = "done" /\ r.pending = <<>>
    /\ r.launch \in {"queued", "spawned"} /\ ~r.launcher => ~r.client

ProcessesFit == proc \in [Process -> ProcessState] /\ \A q \in Process : Fit(proc[q])

\* Processes are numbered as they are made.
MadeInOrder ==
    \E k \in 0..MaxProcesses : \A q \in Process : Made(proc, q) <=> q <= k

\* A page that has been made points at a process that has.
PagesFit ==
    \A p \in Page :
        /\ page[p].made => page[p].process \in Process /\ Made(proc, page[p].process)
        /\ ~page[p].made => ~page[p].valid /\ ~page[p].closed

ListedAreMade == \A q \in Range(processes) : Made(proc, q)

ListInv ==
    /\ PoolInv /\ ProcessesFit /\ MadeInOrder /\ PagesFit /\ ListedAreMade
    /\ IsInjective(processes)

\* A launch that nobody has aborted still has its client.
LaunchHasClient == \A q \in Process : Launching(proc[q]) => proc[q].client

\* didClose tells a page of a process that is gone.
CrashingAreDetached ==
    \A p \in crashing : ~page[p].closed => Terminated(proc[page[p].process])

\* What is on its way to the child, in the order of its arrival.
Queue(r) == r.wire \o r.pending

\* The messages u are in order for a child that holds the pages h: the first
\* one initializes it unless it is initialized, a page is created before
\* anything is asked of it, and nothing is asked of it after it was closed.
Orderly(h, initialized, u) ==
    /\ \A k \in 1..Len(u) : (u[k].kind = "init") <=> (k = 1 /\ ~initialized)
    /\ \A k \in 1..Len(u) : u[k].kind \in {"load", "close"} =>
          /\ u[k].page \in h \/ \E j \in 1..(k - 1) : u[j] = Msg("create", u[k].page)
          /\ \A j \in 1..(k - 1) : u[j] # Msg("close", u[k].page)

\* The child holds p, or will.
Hears(h, u, p) == p \in h \/ \E k \in 1..Len(u) : u[k] = Msg("create", p)

\* Who is closed stays so.
Over(u, pg) == \A k \in 1..Len(u) : u[k].kind = "close" => pg[u[k].page].closed

\* What a child hears is in order, a page is closed for good, and the child of
\* a live process hears of each of the process's pages.
MessagesFit(r, pg) ==
    /\ Orderly(r.held, r.initialized, Queue(r)) /\ Over(Queue(r), pg)
    /\ r.launch # "none" /\ ~r.initialized => Queue(r) # <<>>
    /\ ~Terminated(r) => \A p \in r.pages : Hears(r.held, Queue(r), p)

MessageInv == \A q \in Process : MessagesFit(proc[q], page)

-----------------------------------------------------------------------------
(* The pool's list of processes                                            *)

\* A set of numbers has a least one.
LEMMA Least ==
    ASSUME NEW T, T \subseteq Nat, T # {}
    PROVE  \E x \in T : \A y \in T : x <= y
<1>1. \E x \in T : \A y \in T : ~(<<y, x>> \in OpToRel(<, Nat))
    BY NatLessThanWellFounded, WFMin, Zenon
<1>2. PICK x \in T : \A y \in T : ~(<<y, x>> \in OpToRel(<, Nat))
    BY <1>1
<1>3. \A y \in T : x \in Nat /\ y \in Nat /\ ~(y < x)
    BY <1>2 DEF OpToRel
<1>4. \A y \in T : x <= y
    BY <1>3
<1> QED
    BY <1>2, <1>4

\* What disconnectProcess leaves of m_processes.
LEMMA Removed ==
    ASSUME NEW S, NEW ps \in Seq(S), NEW q
    PROVE  /\ DisconnectProcess(ps, q) \in Seq(S)
           /\ \A x \in Range(DisconnectProcess(ps, q)) : x \in Range(ps)
           /\ \A x \in Range(ps) : x # q => x \in Range(DisconnectProcess(ps, q))
           /\ ps # <<>> /\ q # Last(ps) => DisconnectProcess(ps, q) # <<>>
           /\ IsInjective(ps) => /\ IsInjective(DisconnectProcess(ps, q))
                                 /\ q \notin Range(DisconnectProcess(ps, q))
<1>1. CASE \A i \in 1..Len(ps) : ps[i] # q
    <2>1. DisconnectProcess(ps, q) = ps
        BY <1>1 DEF DisconnectProcess, RemoveFirst
    <2> QED
        BY <1>1, <2>1, LenProperties DEF Range
<1>2. CASE \E i \in 1..Len(ps) : ps[i] = q
    <2> DEFINE I == {i \in 1..Len(ps) : ps[i] = q}
               d == DisconnectProcess(ps, q)
    <2>1. Len(ps) \in Nat /\ ps \in [1..Len(ps) -> S] /\ DOMAIN ps = 1..Len(ps)
        BY LenProperties
    <2>2. \E x \in I : \A y \in I : x =< y
        <3>1. I \subseteq Nat /\ I # {}
            BY <1>2, <2>1
        <3> QED
            BY <3>1, Least
    <2>3. PICK k : k = Min(I)
        OBVIOUS
    <2>4. k \in I
        BY <2>2, <2>3 DEF Min
    <2>5. d = SubSeq(ps, 1, k - 1) \o SubSeq(ps, k + 1, Len(ps))
        BY <1>2, <2>3 DEF DisconnectProcess, RemoveFirst, SelectInSeq, RemoveAt
    <2>6. /\ SubSeq(ps, 1, k - 1) \in Seq(S) /\ Len(SubSeq(ps, 1, k - 1)) = k - 1
          /\ \A i \in 1..(k - 1) : SubSeq(ps, 1, k - 1)[i] = ps[i]
        <3>1. \A i \in 1..(k - 1) : ps[i] \in S
            BY <2>1, <2>4
        <3>2. k - 1 \in Int /\ 1 \in Int /\ k \in 1..Len(ps)
            BY <2>1, <2>4
        <3>3. /\ SubSeq(ps, 1, k - 1) \in Seq(S)
              /\ Len(SubSeq(ps, 1, k - 1)) = IF 1 <= k - 1 THEN k - 1 - 1 + 1 ELSE 0
              /\ \A i \in 1..(k - 1 - 1 + 1) : SubSeq(ps, 1, k - 1)[i] = ps[1 + i - 1]
            BY <3>1, <3>2, SubSeqProperties
        <3> QED
            BY <3>2, <3>3, <2>1
    <2>7. /\ SubSeq(ps, k + 1, Len(ps)) \in Seq(S) /\ Len(SubSeq(ps, k + 1, Len(ps))) = Len(ps) - k
          /\ \A i \in 1..(Len(ps) - k) : SubSeq(ps, k + 1, Len(ps))[i] = ps[k + i]
        <3>1. \A i \in (k + 1)..Len(ps) : ps[i] \in S
            BY <2>1, <2>4
        <3>2. k + 1 \in Int /\ Len(ps) \in Int /\ k \in 1..Len(ps)
            BY <2>1, <2>4
        <3>3. /\ SubSeq(ps, k + 1, Len(ps)) \in Seq(S)
              /\ Len(SubSeq(ps, k + 1, Len(ps))) = IF k + 1 <= Len(ps) THEN Len(ps) - (k + 1) + 1 ELSE 0
              /\ \A i \in 1..(Len(ps) - (k + 1) + 1) : SubSeq(ps, k + 1, Len(ps))[i] = ps[k + 1 + i - 1]
            BY <3>1, <3>2, SubSeqProperties
        <3>4. /\ Len(ps) - (k + 1) + 1 = Len(ps) - k
              /\ (IF k + 1 <= Len(ps) THEN Len(ps) - (k + 1) + 1 ELSE 0) = Len(ps) - k
              /\ \A i \in 1..(Len(ps) - k) : k + 1 + i - 1 = k + i
            BY <3>2
        <3> QED
            BY <3>3, <3>4, Zenon
    <2>8. /\ d \in Seq(S) /\ Len(d) = Len(ps) - 1
          /\ \A i \in 1..(Len(ps) - 1) : d[i] = IF i < k THEN ps[i] ELSE ps[i + 1]
        <3>1. PICK a, b : a = SubSeq(ps, 1, k - 1) /\ b = SubSeq(ps, k + 1, Len(ps))
            OBVIOUS
        <3>2. /\ a \o b \in Seq(S) /\ Len(a \o b) = Len(a) + Len(b)
              /\ \A i \in 1..(Len(a) + Len(b)) : (a \o b)[i] = IF i <= Len(a) THEN a[i] ELSE b[i - Len(a)]
            <4>1. a \in Seq(S) /\ b \in Seq(S)
                BY <2>6, <2>7, <3>1, Zenon
            <4> QED
                BY <4>1, ConcatProperties
        <3>3. Len(a) = k - 1 /\ Len(b) = Len(ps) - k /\ d = a \o b /\ k \in 1..Len(ps)
            BY <2>4, <2>5, <2>6, <2>7, <3>1
        <3>4. (\A i \in 1..(k - 1) : a[i] = ps[i]) /\ \A i \in 1..(Len(ps) - k) : b[i] = ps[k + i]
            BY <2>6, <2>7, <3>1
        <3> HIDE DEF d
        <3>5. d \in Seq(S) /\ Len(d) = Len(ps) - 1
            <4>1. (k - 1) + (Len(ps) - k) = Len(ps) - 1
                BY <3>3, <2>1
            <4> QED
                BY <4>1, <3>2, <3>3, Zenon
        <3>6. ASSUME NEW i \in 1..(Len(ps) - 1)
              PROVE  d[i] = IF i < k THEN ps[i] ELSE ps[i + 1]
            <4>1. CASE i < k
                BY <4>1, <3>2, <3>3, <3>4, <2>1
            <4>2. CASE ~(i < k)
                <5>1. i - (k - 1) \in 1..(Len(ps) - k) /\ k + (i - (k - 1)) = i + 1 /\ ~(i <= k - 1)
                    BY <4>2, <3>3, <2>1
                <5>2. d[i] = b[i - (k - 1)]
                    BY <5>1, <3>2, <3>3, <2>1
                <5> QED
                    BY <4>2, <5>1, <5>2, <3>4
            <4> QED
                BY <4>1, <4>2
        <3> QED
            BY <3>5, <3>6
    <2>9. DOMAIN d = 1..(Len(ps) - 1)
        BY <2>8, LenProperties
    <2> HIDE DEF d
    <2>10. \A x \in Range(d) : x \in Range(ps)
        BY <2>1, <2>4, <2>8, <2>9 DEF Range
    <2>11. \A x \in Range(ps) : x # q => x \in Range(d)
        <3> SUFFICES ASSUME NEW i \in 1..Len(ps), ps[i] # q
                     PROVE  \E j \in 1..(Len(ps) - 1) : d[j] = ps[i]
            BY <2>1, <2>9 DEF Range
        <3>1. i # k
            BY <2>4
        <3>2. CASE i < k
            BY <3>2, <2>1, <2>4, <2>8
        <3>3. CASE i > k
            <4>1. i - 1 \in 1..(Len(ps) - 1) /\ ~(i - 1 < k) /\ (i - 1) + 1 = i
                BY <3>3, <2>1, <2>4
            <4> QED
                BY <4>1, <2>8
        <3> QED
            BY <3>1, <3>2, <3>3, <2>1, <2>4
    <2>12. ps # <<>> /\ q # Last(ps) => d # <<>>
        <3> SUFFICES ASSUME q # Last(ps), d = <<>>
                     PROVE  FALSE
            OBVIOUS
        <3>1. Len(ps) = 1
            <4>1. Len(d) = 0
                BY EmptySeq
            <4> QED
                <5>1. Len(ps) - 1 = 0
                    BY <4>1, <2>8, Zenon
                <5> QED
                    BY <5>1, <2>1
        <3>2. k = Len(ps)
            BY <3>1, <2>4
        <3> QED
            BY <3>2, <2>4 DEF Last
    <2> DEFINE old(i) == IF i < k THEN i ELSE i + 1
    <2>15. \A i \in 1..(Len(ps) - 1) : old(i) \in 1..Len(ps) /\ old(i) # k /\ d[i] = ps[old(i)]
        BY <2>1, <2>4, <2>8
    <2>16. \A i, j \in 1..(Len(ps) - 1) : old(i) = old(j) => i = j
        BY <2>1, <2>4
    <2>17. DOMAIN ps = 1..Len(ps)
        BY <2>1
    <2> HIDE DEF old
    <2>13. IsInjective(ps) => IsInjective(d)
        <3> SUFFICES ASSUME IsInjective(ps), NEW i \in 1..(Len(ps) - 1), NEW j \in 1..(Len(ps) - 1),
                            d[i] = d[j]
                     PROVE  i = j
            BY <2>9, Zenon DEF IsInjective
        <3>1. ps[old(i)] = ps[old(j)] /\ old(i) \in DOMAIN ps /\ old(j) \in DOMAIN ps
            BY <2>15, <2>17
        <3>2. old(i) = old(j)
            BY <3>1, Zenon DEF IsInjective
        <3> QED
            BY <2>16, <3>2
    <2>14. IsInjective(ps) => q \notin Range(d)
        <3> SUFFICES ASSUME IsInjective(ps), NEW i \in 1..(Len(ps) - 1), d[i] = q
                     PROVE  FALSE
            BY <2>9, Zenon DEF Range
        <3>1. ps[old(i)] = ps[k] /\ old(i) \in DOMAIN ps /\ k \in DOMAIN ps /\ old(i) # k
            BY <2>4, <2>15, <2>17
        <3> QED
            BY <3>1, Zenon DEF IsInjective
    <2> QED
        BY <2>8, <2>10, <2>11, <2>12, <2>13, <2>14 DEF d
<1> QED
    BY <1>1, <1>2

\* createNewWebProcess makes a process that is new.
LEMMA NewIsNew ==
    ASSUME NEW pr, CanMake(pr)
    PROVE  /\ NewProcess(pr) \in Process /\ ~Made(pr, NewProcess(pr))
           /\ \A r \in 1..(NewProcess(pr) - 1) : Made(pr, r)
<1> DEFINE T == {q \in Process : ~Made(pr, q)}
<1>1. PICK q \in T : \A y \in T : q <= y
    <2>1. T \subseteq Nat /\ T # {}
        BY ProcessPoolAssumption DEF CanMake, Process
    <2> QED
        BY <2>1, Least
<1>2. \A r \in 1..(q - 1) : Made(pr, r)
    BY <1>1, ProcessPoolAssumption DEF Process
<1>3. \E x \in Process : ~Made(pr, x) /\ \A r \in 1..(x - 1) : Made(pr, r)
    BY <1>1, <1>2
<1> QED
    BY <1>3 DEF NewProcess

\* The process with the fewest pages is one of the pool's.
LEMMA FewestIsListed ==
    ASSUME NEW pr, NEW ps \in Seq(Process), ps # <<>>,
           \A q \in Process : IsFiniteSet(pr[q].pages)
    PROVE  FewestPages(pr, ps) \in Range(ps)
<1> DEFINE n(i) == Cardinality(pr[ps[i]].pages)
           C == {n(i) : i \in DOMAIN ps}
<1>1. DOMAIN ps = 1..Len(ps) /\ Len(ps) \in Nat \ {0} /\ \A i \in DOMAIN ps : ps[i] \in Process
    BY LenProperties, EmptySeq
<1>2. \A i \in DOMAIN ps : n(i) \in Nat
    BY <1>1, FS_CardinalityType
<1>3. C \subseteq Nat /\ C # {}
    BY <1>1, <1>2
<1>4. PICK m \in C : \A y \in C : m <= y
    BY <1>3, Least
<1> DEFINE I == {i \in DOMAIN ps : n(i) = m}
<1>5. I \subseteq Nat /\ I # {}
    BY <1>1, <1>4
<1>6. PICK k \in I : \A y \in I : k <= y
    BY <1>5, Least
<1>7. \A j \in DOMAIN ps : n(k) < n(j) \/ (n(k) = n(j) /\ k <= j)
    <2> TAKE j \in DOMAIN ps
    <2>1. m <= n(j) /\ m \in Nat /\ n(j) \in Nat /\ n(k) = m
        BY <1>2, <1>3, <1>4, <1>6
    <2>2. n(j) = m => k <= j
        BY <1>6
    <2> HIDE DEF n
    <2> QED
        BY <2>1, <2>2
<1>8. PICK i : i = CHOOSE x \in DOMAIN ps : \A j \in DOMAIN ps : n(x) < n(j) \/ (n(x) = n(j) /\ x <= j)
    OBVIOUS
<1>9. i \in DOMAIN ps
    BY <1>6, <1>7, <1>8
<1>10. FewestPages(pr, ps) = ps[i]
    BY <1>8 DEF FewestPages
<1> QED
    BY <1>9, <1>10 DEF Range

\* A page is given a process of the pool or a new one.
LEMMA Given ==
    ASSUME NEW pr, NEW ps \in Seq(Process),
           \A q \in Process : IsFiniteSet(pr[q].pages),
           NeedsNew(ps) => CanMake(pr)
    PROVE  \/ AnyProcess(pr, ps) \in Range(ps)
           \/ AnyProcess(pr, ps) = NewProcess(pr) /\ CanMake(pr)
<1>1. CASE NeedsNew(ps)
    BY <1>1 DEF NeedsNew, AnyProcess, EnsureSharedWebProcess, RespectingProcessCountLimit
<1>2. CASE ~NeedsNew(ps)
    <2>1. ps # <<>>
        BY <1>2, ProcessPoolAssumption, EmptySeq DEF NeedsNew
    <2>2. 1 \in DOMAIN ps
        BY <2>1, LenProperties, EmptySeq
    <2> QED
        BY <1>2, <2>1, <2>2, FewestIsListed
        DEF NeedsNew, AnyProcess, EnsureSharedWebProcess, RespectingProcessCountLimit, Range
<1> QED
    BY <1>1, <1>2

-----------------------------------------------------------------------------
(* A process by itself                                                     *)

\* The proxy's life is where it was.
SameProxy(r, s) ==
    /\ s.launch = r.launch /\ s.launcher = r.launcher
    /\ s.client = r.client /\ s.connected = r.connected

\* The child knows and will hear what it did.
SameChild(r, s) ==
    /\ s.held = r.held /\ s.initialized = r.initialized /\ Queue(s) = Queue(r)

\* The child will hear what it did, and holds no page less.
Knows(r, s) ==
    /\ r.held \subseteq s.held /\ s.initialized = r.initialized /\ Queue(s) = Queue(r)

LEMMA QueueType ==
    ASSUME NEW r \in ProcessState
    PROVE  /\ r.wire \in Seq(Message) /\ r.pending \in Seq(Message)
           /\ Queue(r) \in Seq(Message)
BY ConcatProperties DEF ProcessState, Queue

LEMMA ThreeParts ==
    \A a, b, c \in Seq(Message) : (a \o b) \o c = a \o (b \o c)
BY ConcatAssociative

\* What sendMessage does to a process: unless it is gone, the messages are
\* behind all others.
LEMMA SentFit ==
    ASSUME NEW r, Fit(r), NEW msgs \in Seq(Message)
    PROVE  /\ Fit(Sent(r, msgs)) /\ SameProxy(r, Sent(r, msgs))
           /\ Sent(r, msgs).pages = r.pages /\ Sent(r, msgs).held = r.held
           /\ Sent(r, msgs).initialized = r.initialized
           /\ Terminated(r) => Sent(r, msgs) = r
           /\ ~Terminated(r) => Queue(Sent(r, msgs)) = Queue(r) \o msgs
<1>1. r \in ProcessState /\ r.wire \in Seq(Message) /\ r.pending \in Seq(Message)
    BY QueueType DEF Fit
<1>2. CASE Launching(r)
    <2>1. Sent(r, msgs) = [r EXCEPT !.pending = @ \o msgs]
        BY <1>2 DEF Sent, Running
    <2>2. r.pending \o msgs \in Seq(Message)
        BY <1>1, ConcatProperties
    <2>3. r.wire \o (r.pending \o msgs) = (r.wire \o r.pending) \o msgs
        <3>1. (r.wire \o r.pending) \o msgs = r.wire \o (r.pending \o msgs)
            BY <1>1, ThreeParts, Zenon
        <3> QED
            BY <3>1, Zenon
    <2>4. ~Terminated(r) /\ r.launch # "none" /\ ~r.connected
        BY <1>2 DEF Fit, Launching, Terminated
    <2>5. Sent(r, msgs) \in ProcessState
        BY <2>1, <2>2, <1>1 DEF ProcessState
    <2> QED
        BY <2>1, <2>3, <2>4, <2>5, <1>1 DEF Fit, SameProxy, Queue, ProcessState
<1>3. CASE Running(r)
    <2>1. Sent(r, msgs) = [r EXCEPT !.wire = @ \o msgs]
        BY <1>3 DEF Sent, Running
    <2>2. r.wire \o msgs \in Seq(Message)
        BY <1>1, ConcatProperties
    <2>3. r.pending = <<>> /\ ~Terminated(r) /\ r.launch # "none"
        BY <1>3 DEF Fit, Running, Terminated
    <2>4. (r.wire \o msgs) \o <<>> = r.wire \o msgs /\ r.wire \o <<>> = r.wire
        BY <1>1, <2>2, ConcatEmptySeq
    <2>5. Sent(r, msgs) \in ProcessState
        BY <2>1, <2>2, <1>1 DEF ProcessState
    <2>6. /\ SameProxy(r, Sent(r, msgs)) /\ Sent(r, msgs).pages = r.pages
          /\ Sent(r, msgs).held = r.held /\ Sent(r, msgs).initialized = r.initialized
          /\ Sent(r, msgs).counter = r.counter /\ Sent(r, msgs).pending = r.pending
          /\ Sent(r, msgs).wire = r.wire \o msgs
          /\ Sent(r, msgs).timer = r.timer /\ Sent(r, msgs).asks = r.asks
        BY <2>1, <1>1 DEF SameProxy, ProcessState
    <2>7. Fit(Sent(r, msgs))
        BY <2>3, <2>5, <2>6 DEF Fit, SameProxy
    <2>8. Queue(Sent(r, msgs)) = Queue(r) \o msgs
        BY <2>3, <2>4, <2>6 DEF Queue
    <2> QED
        BY <2>3, <2>6, <2>7, <2>8
<1>4. CASE ~Launching(r) /\ ~Running(r)
    BY <1>4 DEF Sent, Running, Terminated, SameProxy
<1> QED
    BY <1>2, <1>3, <1>4

\* The constructor of a process proxy.
LEMMA ConnectedFit ==
    LET s == Connected(NoProcess)
    IN  /\ Fit(s) /\ s.launch = "queued" /\ Launching(s) /\ s.client
        /\ s.pages = {} /\ s.held = {} /\ ~s.initialized
        /\ Queue(s) = <<Msg("init", None)>>
<1> DEFINE m == <<Msg("init", None)>>
           t == [NoProcess EXCEPT !.launcher = TRUE, !.client = TRUE, !.launch = "queued"]
<1>1. Launching(t)
    BY DEF Launching, NoProcess
<1>2. Connected(NoProcess) = [t EXCEPT !.pending = @ \o m]
    BY <1>1 DEF Connected, Sent, Running
<1>3. Msg("init", None) \in Message
    BY DEF Msg, Message
<1>4. m \in Seq(Message) /\ <<>> \o m = m /\ <<>> \in Seq(Message)
    BY <1>3, ConcatEmptySeq
<1>5. NoProcess \in ProcessState
    BY <1>4 DEF NoProcess, ProcessState
<1>6. /\ t \in ProcessState /\ t.launch = "queued" /\ t.launcher /\ t.client
      /\ ~t.connected /\ t.pages = {} /\ t.held = {} /\ t.counter = 0 /\ ~t.initialized
      /\ t.wire = <<>> /\ t.pending = <<>>
    BY <1>5 DEF NoProcess, ProcessState
<1>7. PICK s : s = Connected(NoProcess)
    OBVIOUS
<1>8. /\ s.launch = "queued" /\ s.launcher /\ s.client /\ ~s.connected /\ s.pages = {}
      /\ s.held = {} /\ s.counter = 0 /\ ~s.initialized /\ s.wire = <<>> /\ s.pending = m
    <2> HIDE DEF m, t
    <2> QED
        BY <1>2, <1>4, <1>6, <1>7 DEF ProcessState
<1>9. Fit(s)
    <2> HIDE DEF m, t
    <2>1. s \in ProcessState
        <3>1. t.pending \o m = m
            BY <1>4, <1>6
        <3>2. s = [t EXCEPT !.pending = m]
            BY <1>2, <1>7, <3>1
        <3> QED
            BY <1>4, <1>6, <3>2 DEF ProcessState
    <2> QED
        BY <1>8, <2>1, FS_EmptySet DEF Fit
<1> QED
    BY <1>4, <1>7, <1>8, <1>9 DEF Launching, Queue

LEMMA CreatedFit ==
    ASSUME NEW r, Fit(r)
    PROVE  /\ Fit(CreatedProcess(r)) /\ CreatedProcess(r).launch # "none"
           /\ CreatedProcess(r).pages = r.pages
           /\ r.launch # "none" => CreatedProcess(r) = r
           /\ r.launch = "none" => r = NoProcess /\ CreatedProcess(r) = Connected(NoProcess)
<1>1. CASE r.launch = "none"
    <2>1. r = NoProcess
        BY <1>1 DEF Fit
    <2>2. CreatedProcess(r) = Connected(NoProcess) /\ r.pages = {}
        BY <1>1, <2>1 DEF CreatedProcess, NoProcess
    <2> QED
        BY <1>1, <2>1, <2>2, ConnectedFit
<1>2. CASE r.launch # "none"
    BY <1>2 DEF CreatedProcess
<1> QED
    BY <1>1, <1>2

LEMMA PageAdded ==
    ASSUME NEW r, Fit(r), r.launch # "none", NEW p \in Page
    PROVE  LET s == WithPage(r, p)
           IN  /\ Fit(s) /\ SameProxy(r, s) /\ SameChild(r, s)
               /\ s.pages = r.pages \cup {p}
BY FS_AddElement DEF Fit, ProcessState, SameProxy, SameChild, Queue, WithPage

LEMMA PageRemoved ==
    ASSUME NEW r, Fit(r), r.launch # "none", NEW p \in Page
    PROVE  /\ Fit(WithoutPage(r, p)) /\ SameProxy(r, WithoutPage(r, p))
           /\ SameChild(r, WithoutPage(r, p)) /\ WithoutPage(r, p).pages = r.pages \ {p}
BY FS_RemoveElement DEF Fit, ProcessState, SameProxy, SameChild, Queue, WithoutPage

\* disconnect: a process that is not launching is gone.
LEMMA DisconnectedFit ==
    ASSUME NEW r, Fit(r), r.launch # "none"
    PROVE  /\ Fit(Disconnected(r)) /\ SameChild(r, Disconnected(r))
           /\ Disconnected(r).launch = r.launch /\ Disconnected(r).pages = r.pages
           /\ ~Launching(r) => Terminated(Disconnected(r))
<1>1. CASE r.connected
    <2>1. PICK s : s = [r EXCEPT !.connected = FALSE, !.socket = "closed"]
        OBVIOUS
    <2>2. /\ s \in ProcessState /\ s.connected = FALSE /\ s.pages = r.pages /\ s.held = r.held
          /\ s.counter = r.counter /\ s.launch = r.launch /\ s.launcher = r.launcher
          /\ s.client = r.client /\ s.wire = r.wire /\ s.pending = r.pending
          /\ s.initialized = r.initialized /\ s.timer = r.timer /\ s.asks = r.asks
        BY <2>1 DEF Fit, ProcessState
    <2>3. Fit(s) /\ SameChild(r, s) /\ (~Launching(r) => Terminated(s))
        BY <1>1, <2>2 DEF Fit, SameChild, Queue, Launching, Terminated
    <2> QED
        BY <1>1, <2>1, <2>2, <2>3 DEF Disconnected, ClearedConnection
<1>2. CASE ~r.connected
    BY <1>2 DEF Fit, SameChild, Queue, Disconnected, ClearedConnection, Launching, Terminated
<1> QED
    BY <1>1, <1>2

LEMMA AbortedFit ==
    ASSUME NEW r, Fit(r), r.launch # "none"
    PROVE  /\ Fit(AbortedLaunch(r)) /\ SameChild(r, AbortedLaunch(r))
           /\ AbortedLaunch(r).launch = r.launch /\ AbortedLaunch(r).pages = r.pages
           /\ ~Launching(AbortedLaunch(r))
<1>1. CASE Launching(r)
    <2>1. PICK s : s = [r EXCEPT !.client = FALSE, !.launcher = FALSE]
        OBVIOUS
    <2>2. /\ s \in ProcessState /\ s.connected = r.connected /\ s.pages = r.pages
          /\ s.held = r.held /\ s.counter = r.counter /\ s.launch = r.launch
          /\ s.launcher = FALSE /\ s.client = FALSE /\ s.wire = r.wire
          /\ s.pending = r.pending /\ s.initialized = r.initialized
          /\ s.timer = r.timer /\ s.asks = r.asks
        BY <2>1 DEF Fit, ProcessState
    <2>3. Fit(s) /\ SameChild(r, s) /\ ~Launching(s)
        BY <2>2 DEF Fit, SameChild, Queue, Launching
    <2> QED
        BY <1>1, <2>1, <2>2, <2>3 DEF AbortedLaunch
<1>2. CASE ~Launching(r)
    BY <1>2 DEF SameChild, AbortedLaunch
<1> QED
    BY <1>1, <1>2

\* removeWebPage: the process is left alone or gone.
LEMMA RemovedWebPageFit ==
    ASSUME NEW r, Fit(r), r.launch # "none", NEW p \in Page
    PROVE  /\ Fit(RemovedWebPage(r, p)) /\ SameChild(r, RemovedWebPage(r, p))
           /\ RemovedWebPage(r, p).launch = r.launch
           /\ RemovedWebPage(r, p).pages = r.pages \ {p}
           /\ IF Leaves(WithoutPage(r, p))
              THEN Terminated(RemovedWebPage(r, p)) /\ r.pages \subseteq {p} /\ ~Terminated(r)
              ELSE SameProxy(r, RemovedWebPage(r, p))
<1> DEFINE s == WithoutPage(r, p)
<1>1. Fit(s) /\ SameProxy(r, s) /\ SameChild(r, s) /\ s.pages = r.pages \ {p}
    BY PageRemoved
<1>2. s.launch # "none"
    BY <1>1 DEF SameProxy
<1>3. CASE Leaves(s)
    <2>1. PICK a : a = AbortedLaunch(s)
        OBVIOUS
    <2>2. /\ Fit(a) /\ SameChild(s, a) /\ a.launch = s.launch /\ a.pages = s.pages
          /\ ~Launching(a)
        BY <1>1, <1>2, <2>1, AbortedFit
    <2>3. /\ Fit(Disconnected(a)) /\ SameChild(a, Disconnected(a))
          /\ Disconnected(a).launch = a.launch /\ Disconnected(a).pages = a.pages
          /\ Terminated(Disconnected(a))
        BY <1>2, <2>2, DisconnectedFit
    <2>4. RemovedWebPage(r, p) = Disconnected(a)
        BY <1>3, <2>1 DEF RemovedWebPage
    <2>5. s.pages = {} /\ ~Terminated(s)
        BY <1>3 DEF Leaves, CanTerminate
    <2>6. ~Terminated(r)
        BY <1>1, <2>5 DEF SameProxy, Terminated, Launching
    <2> HIDE DEF s
    <2> QED
        BY <1>1, <1>3, <2>2, <2>3, <2>4, <2>5, <2>6 DEF SameChild, SameProxy, s
<1>4. CASE ~Leaves(s)
    BY <1>1, <1>4 DEF RemovedWebPage, SameProxy
<1> QED
    BY <1>3, <1>4

LEMMA KilledFit ==
    ASSUME NEW r, Fit(r)
    PROVE  /\ Fit(Killed(r)) /\ SameChild(r, Killed(r))
           /\ Killed(r).launch = r.launch /\ Killed(r).launcher = r.launcher
           /\ Killed(r).connected = r.connected /\ Killed(r).pages = r.pages
           /\ ~Launching(r) => Killed(r).client = r.client
           /\ Killed(r).client => r.client
<1>1. CASE ~r.launcher
    BY <1>1 DEF Killed, SameChild
<1>2. CASE r.launcher
    <2>1. r.launch # "none" /\ r \in ProcessState
        BY <1>2 DEF Fit, NoProcess
    <2> QED
        BY <1>2, <2>1 DEF Fit, ProcessState, SameChild, Queue, Killed, Launching
<1> QED
    BY <1>1, <1>2

\* didFinishLaunching: the stashed messages are sent.
LEMMA FinishedFit ==
    ASSUME NEW r, Fit(r), r.launch = "spawned"
    PROVE  /\ Fit(FinishedLaunching(r)) /\ SameChild(r, FinishedLaunching(r))
           /\ FinishedLaunching(r).launch = "done"
           /\ FinishedLaunching(r).pages = r.pages /\ FinishedLaunching(r).client = r.client
           /\ Terminated(r) => Terminated(FinishedLaunching(r))
           /\ Launching(r) /\ r.client => ~Terminated(FinishedLaunching(r))
<1>1. r \in ProcessState /\ r.wire \in Seq(Message) /\ r.pending \in Seq(Message)
      /\ Queue(r) \in Seq(Message) /\ ~r.connected
    BY QueueType DEF Fit
<1>2. Queue(r) \o <<>> = Queue(r) /\ <<>> \in Seq(Message)
    BY <1>1, ConcatEmptySeq
<1>3. CASE r.client
    <2>1. FinishedLaunching(r) =
            [r EXCEPT !.launch = "done", !.connected = TRUE, !.wire = Queue(r), !.pending = <<>>]
        BY <1>1, <1>3 DEF FinishedLaunching, Queue, ProcessState
    <2>2. FinishedLaunching(r) \in ProcessState
        BY <1>1, <1>2, <2>1 DEF ProcessState
    <2>3. Queue(FinishedLaunching(r)) = Queue(r)
        <3>1. FinishedLaunching(r).wire = Queue(r) /\ FinishedLaunching(r).pending = <<>>
            BY <1>1, <2>1 DEF ProcessState
        <3> QED
            BY <1>2, <3>1 DEF Queue
    <2>4. PICK s : s = FinishedLaunching(r)
        OBVIOUS
    <2>5. /\ s.launch = "done" /\ s.connected = TRUE /\ s.pending = <<>> /\ s.pages = r.pages
          /\ s.held = r.held /\ s.counter = r.counter /\ s.initialized = r.initialized
          /\ s.timer = r.timer /\ s.asks = r.asks /\ s.client = r.client
        BY <1>1, <2>1, <2>4 DEF ProcessState
    <2>6. Fit(s)
        BY <2>2, <2>4, <2>5 DEF Fit
    <2>7. SameChild(r, s) /\ ~Terminated(s)
        BY <2>3, <2>4, <2>5 DEF SameChild, Terminated, Launching
    <2>8. r.launcher
        BY <1>3 DEF Fit
    <2>9. ~Terminated(r)
        BY <2>8 DEF Terminated, Launching
    <2> QED
        BY <2>4, <2>5, <2>6, <2>7, <2>9
<1>4. CASE ~r.client
    <2>1. FinishedLaunching(r) = [r EXCEPT !.launch = "done"]
        BY <1>4 DEF FinishedLaunching
    <2> QED
        BY <1>1, <1>4, <2>1 DEF Fit, SameChild, Launching, Terminated, ProcessState, Queue
<1> QED
    BY <1>3, <1>4

\* The child creates a page, or has it already.
LEMMA HeldFit ==
    ASSUME NEW r, Fit(r), r.launch # "none", ~r.asks, NEW p \in Page
    PROVE  LET s == HeldPage(r, p)
           IN  /\ Fit(s) /\ SameProxy(r, s) /\ s.pages = r.pages
               /\ s.wire = r.wire /\ s.pending = r.pending
               /\ s.held = r.held \cup {p} /\ s.initialized = r.initialized
<1>1. r \in ProcessState
    BY DEF Fit
<1>2. CASE p \in r.held
    <2>1. HeldPage(r, p) = r /\ r.held \cup {p} = r.held
        BY <1>2 DEF HeldPage
    <2> QED
        BY <2>1 DEF SameProxy
<1>3. CASE p \notin r.held
    <2>1. PICK s : s = [r EXCEPT !.held = @ \cup {p}, !.counter = @ + 1, !.timer = FALSE]
        OBVIOUS
    <2>2. HeldPage(r, p) = s
        BY <1>3, <2>1 DEF HeldPage
    <2>3. IsFiniteSet(r.held \cup {p}) /\ Cardinality(r.held \cup {p}) = r.counter + 1
        BY <1>3, FS_AddElement DEF Fit
    <2>4. r.held \cup {p} \in SUBSET Page /\ r.counter + 1 \in Nat
        BY <1>1 DEF ProcessState
    <2>5. s \in ProcessState
        BY <1>1, <2>1, <2>4 DEF ProcessState
    <2>6. /\ s.held = r.held \cup {p} /\ s.counter = r.counter + 1 /\ s.pages = r.pages
          /\ s.wire = r.wire /\ s.pending = r.pending /\ SameProxy(r, s)
          /\ s.initialized = r.initialized /\ s.timer = FALSE /\ s.asks = r.asks
        BY <1>1, <2>1 DEF ProcessState, SameProxy
    <2>7. Fit(s)
        BY <2>3, <2>5, <2>6 DEF Fit, SameProxy
    <2> QED
        BY <2>2, <2>6, <2>7
<1> QED
    BY <1>2, <1>3

\* The child handles the first message.
LEMMA HandledFit ==
    ASSUME NEW r, Fit(r), r.launch # "none", r.wire # <<>>, ~r.asks
    PROVE  LET s == Handled(Taken(r), Head(r.wire))
           IN  /\ Fit(s) /\ SameProxy(r, s) /\ s.pages = r.pages
               /\ Queue(s) = Tail(Queue(r)) /\ Head(r.wire) = Queue(r)[1]
               /\ Queue(r) # <<>>
<1> DEFINE m == Head(r.wire)
           t == Taken(r)
           s == Handled(t, m)
<1>1. r \in ProcessState /\ r.wire \in Seq(Message) /\ r.pending \in Seq(Message)
    BY QueueType DEF Fit
<1>2. Tail(r.wire) \in Seq(Message) /\ m \in Message
    BY <1>1, HeadTailProperties
<1>3. /\ Tail(r.wire) \o r.pending = Tail(r.wire \o r.pending)
      /\ m = (r.wire \o r.pending)[1] /\ r.wire \o r.pending # <<>>
    <2>1. \A a, b \in Seq(Message) : a # <<>> =>
              Tail(a) \o b = Tail(a \o b) /\ Head(a) = (a \o b)[1] /\ a \o b # <<>>
        OBVIOUS
    <2> QED
        BY <1>1, <2>1
<1>4. Fit(t) /\ SameProxy(r, t) /\ t.pages = r.pages /\ t.held = r.held /\ t.counter = r.counter
    BY <1>1, <1>2 DEF Fit, SameProxy, ProcessState, Taken
<1>5. Queue(t) = Tail(Queue(r)) /\ m = Queue(r)[1] /\ Queue(r) # <<>>
    BY <1>1, <1>3 DEF Queue, ProcessState, Taken
<1>6. ASSUME Fit(s), SameProxy(t, s), s.pages = t.pages, s.wire = t.wire, s.pending = t.pending
      PROVE  /\ Fit(s) /\ SameProxy(r, s) /\ s.pages = r.pages
             /\ Queue(s) = Tail(Queue(r)) /\ m = Queue(r)[1] /\ Queue(r) # <<>>
    <2> HIDE DEF s, t
    <2> QED
        BY <1>4, <1>5, <1>6 DEF SameProxy, Queue
<1> SUFFICES Fit(s) /\ SameProxy(t, s) /\ s.pages = t.pages /\ s.wire = t.wire /\ s.pending = t.pending
    BY <1>6
<1>7. t.launch # "none" /\ t \in ProcessState /\ ~t.asks
    BY <1>1, <1>4 DEF SameProxy, Fit, Taken, ProcessState
<1>8. CASE m.kind = "init"
    <2>1. s = [t EXCEPT !.initialized = TRUE]
        BY <1>8 DEF Handled
    <2> HIDE DEF t, s
    <2> QED
        BY <2>1, <1>4, <1>7 DEF Fit, SameProxy, ProcessState
<1>9. CASE m.kind = "create"
    <2>1. s = HeldPage(t, m.page)
        BY <1>9 DEF Handled
    <2>2. m.page \in Page
        BY <1>2, <1>9 DEF Message
    <2> HIDE DEF t, s, m
    <2> QED
        BY <2>1, <2>2, <1>4, <1>7, HeldFit
<1>10. CASE m.kind = "close" /\ m.page \in t.held
    <2>1. PICK u : u = [t EXCEPT !.held = @ \ {m.page}, !.counter = @ - 1]
        OBVIOUS
    <2>2. s = IF u.counter # 0 THEN u
              ELSE IF Shared THEN [u EXCEPT !.timer = TRUE] ELSE [u EXCEPT !.asks = TRUE]
        BY <1>10, <2>1 DEF Handled, ReleasedPage
    <2>3. /\ IsFiniteSet(t.held \ {m.page}) /\ Cardinality(t.held \ {m.page}) = t.counter - 1
          /\ t.counter - 1 \in Nat
        <3> HIDE DEF t, s, m
        <3>1. IsFiniteSet(t.held) /\ t.counter = Cardinality(t.held)
            BY <1>4 DEF Fit
        <3>2. IsFiniteSet(t.held \ {m.page}) /\ Cardinality(t.held \ {m.page}) = Cardinality(t.held) - 1
            BY <1>10, <3>1, FS_RemoveElement
        <3>3. Cardinality(t.held \ {m.page}) \in Nat
            BY <3>2, FS_CardinalityType
        <3> QED
            BY <3>1, <3>2, <3>3
    <2> HIDE DEF t, s, m
    <2>4. Fit(u) /\ SameProxy(t, u) /\ u.pages = t.pages /\ u.wire = t.wire /\ u.pending = t.pending
        BY <2>1, <2>3, <1>4, <1>7 DEF Fit, SameProxy, ProcessState
    <2>5. u.launch # "none" /\ u \in ProcessState
        BY <2>4, <1>7 DEF SameProxy, Fit
    <2>6. u.counter = 0 => u.held = {}
        <3>1. IsFiniteSet(u.held) /\ u.counter = Cardinality(u.held)
            BY <2>4 DEF Fit
        <3> QED
            BY <3>1, FS_EmptySet
    <2>7. CASE u.counter # 0
        BY <2>2, <2>4, <2>7
    <2>8. CASE u.counter = 0
        <3>1. s = [u EXCEPT !.timer = TRUE] \/ s = [u EXCEPT !.asks = TRUE]
            BY <2>2, <2>8
        <3>2. /\ s \in ProcessState /\ SameProxy(u, s) /\ s.pages = u.pages
              /\ s.wire = u.wire /\ s.pending = u.pending /\ s.held = u.held
              /\ s.counter = u.counter
            BY <2>5, <3>1 DEF ProcessState, SameProxy
        <3>3. Fit(s)
            BY <2>4, <2>5, <2>6, <2>8, <3>2 DEF Fit, SameProxy
        <3> QED
            BY <2>4, <3>2, <3>3 DEF SameProxy
    <2> QED
        BY <2>7, <2>8
<1>11. CASE ~(m.kind = "init") /\ ~(m.kind = "create")
            /\ ~(m.kind = "close" /\ m.page \in t.held)
    <2>1. s = t
        BY <1>11 DEF Handled
    <2> QED
        BY <2>1, <1>4 DEF SameProxy
<1> QED
    BY <1>8, <1>9, <1>10, <1>11

\* createWebPage or reattachToWebProcess at the process's end.
LEMMA AttachedFit ==
    ASSUME NEW r, Fit(r), NEW p \in Page, NEW msgs \in Seq(Message)
    PROVE  LET c == CreatedProcess(r)
               s == Sent(WithPage(c, p), msgs)
           IN  /\ Fit(s) /\ SameProxy(c, s) /\ s.launch # "none"
               /\ s.pages = r.pages \cup {p}
               /\ s.held = c.held /\ s.initialized = c.initialized
               /\ Terminated(c) => Queue(s) = Queue(c)
               /\ ~Terminated(c) => Queue(s) = Queue(c) \o msgs
               /\ r.launch # "none" => c = r
               /\ r.launch = "none" => Launching(s) /\ s.client
<1>1. PICK c : c = CreatedProcess(r)
    OBVIOUS
<1>2. /\ Fit(c) /\ c.launch # "none" /\ c.pages = r.pages /\ (r.launch # "none" => c = r)
      /\ r.launch = "none" => Launching(c) /\ c.client
    BY <1>1, CreatedFit, ConnectedFit
<1>3. PICK a : a = WithPage(c, p)
    OBVIOUS
<1>4. Fit(a) /\ SameProxy(c, a) /\ SameChild(c, a) /\ a.pages = c.pages \cup {p}
    BY <1>2, <1>3, PageAdded
<1>5. PICK s : s = Sent(a, msgs)
    OBVIOUS
<1>6. /\ Fit(s) /\ SameProxy(a, s) /\ s.pages = a.pages /\ s.held = a.held
      /\ s.initialized = a.initialized
      /\ Terminated(a) => s = a
    BY <1>4, <1>5, SentFit
<1>7. ~Terminated(a) => Queue(s) = Queue(a) \o msgs
    BY <1>4, <1>5, SentFit
<1>8. SameProxy(c, s)
    BY <1>4, <1>6 DEF SameProxy
<1>9. (Terminated(a) <=> Terminated(c)) /\ (Launching(s) <=> Launching(c))
    BY <1>4, <1>8 DEF SameProxy, Terminated, Launching
<1> QED
    BY <1>1, <1>2, <1>3, <1>4, <1>5, <1>6, <1>7, <1>8, <1>9 DEF SameChild, SameProxy

-----------------------------------------------------------------------------
(* The shapes a step of the pool can have                                  *)

\* A process goes on: it is not made or revived, and ends only if its launch
\* has lost its client, which it does not get back.
Life(r, s) ==
    /\ Fit(s) /\ (s.launch = "none" <=> r.launch = "none")
    /\ Terminated(r) => Terminated(s)
    /\ Terminated(s) /\ ~Terminated(r) => Launching(r) /\ ~r.client
    /\ Launching(s) => Launching(r) /\ (s.client = r.client \/ "termination" \in Requests)
    /\ s.client => r.client

LEMMA SameIsLife ==
    ASSUME NEW r, NEW s, Fit(s), SameProxy(r, s)
    PROVE  Life(r, s)
BY DEF Life, SameProxy, Terminated, Launching

\* Nothing happens to the lists.
Quiet ==
    /\ proc' \in [Process -> ProcessState] /\ page' \in [Page -> PageState]
    /\ \A x \in Process : Life(proc[x], proc'[x]) /\ proc'[x].pages = proc[x].pages
    /\ \A p \in Page :
          /\ page'[p].made = page[p].made /\ page'[p].valid = page[p].valid
          /\ page'[p].closed = page[p].closed /\ page'[p].process = page[p].process
    /\ enabled' \in BOOLEAN /\ loads' \in 0..MaxLoads
    /\ UNCHANGED <<processes, warm, crashing, orphans>>

\* The pool loses process q, whose pages are told, will be told, or are
\* orphans.
Disconnects(q) ==
    /\ q \in Process /\ Made(proc, q) /\ ~Terminated(proc[q])
    /\ proc' \in [Process -> ProcessState] /\ page' \in [Page -> PageState]
    /\ \A x \in Process : x # q => proc'[x] = proc[x]
    /\ Fit(proc'[q]) /\ Made(proc', q) /\ Terminated(proc'[q])
    /\ proc'[q].pages = proc[q].pages /\ SameChild(proc[q], proc'[q])
    /\ processes' = DisconnectProcess(processes, q) /\ warm' = StillWarm(warm, processes, q)
    /\ \A p \in Page :
          \/ page'[p] = page[p]
          \/ p \in proc[q].pages /\ page'[p] = Exited(page[p])
    /\ crashing \subseteq crashing' /\ crashing' \subseteq Page
    /\ orphans \subseteq orphans' /\ orphans' \subseteq Page
    /\ \A p \in proc[q].pages : p \in crashing' \/ p \in orphans' \/ page'[p] = Exited(page[p])
    /\ \/ "terminate" \in Requests
       \/ \A p \in crashing' : p \in proc[q].pages /\ page'[p] = page[p]
    /\ UNCHANGED <<enabled, loads>>

\* Page p hears that its process is gone.
Told(p) ==
    /\ p \in Page /\ page' = [page EXCEPT ![p] = Exited(@)]
    /\ crashing' = crashing \/ crashing' = crashing \ {p}
    /\ "terminate" \in Requests \/ (p \in crashing /\ crashing' = crashing \ {p})
    /\ UNCHANGED <<proc, processes, warm, enabled, loads, orphans>>

\* Page p lets go of process q, which may be its end.
LetsGo(p, q, pr, ps, w) ==
    /\ pr \in [Process -> ProcessState]
    /\ \A x \in Process : x # q => pr[x] = proc[x]
    /\ Fit(pr[q]) /\ Made(pr, q) /\ pr[q].pages = proc[q].pages \ {p}
    /\ \/ Life(proc[q], pr[q]) /\ ps = processes /\ w = warm
       \/ /\ Terminated(pr[q]) /\ ~Terminated(proc[q]) /\ proc[q].pages \subseteq {p}
          /\ ps = DisconnectProcess(processes, q) /\ w = StillWarm(warm, processes, q)

Leaving(p) ==
    /\ p \in Page /\ page[p].made /\ ~page[p].closed
    /\ LetsGo(p, page[p].process, proc', processes', warm')
    /\ page' = [page EXCEPT ![p].closed = TRUE]
    /\ UNCHANGED <<enabled, crashing, loads, orphans>>

\* Page p, which has no process, gets q; the process it had may end.
Attaches(p, q) ==
    /\ p \in Page /\ q \in Process /\ ~page[p].valid /\ ~page[p].closed
    /\ proc' \in [Process -> ProcessState] /\ page' \in [Page -> PageState]
    /\ \A x \in Process :
          /\ Fit(proc'[x]) /\ (Made(proc', x) <=> Made(proc, x) \/ x = q)
          /\ proc'[x].pages = (proc[x].pages \ {p}) \cup IF x = q THEN {p} ELSE {}
          /\ Made(proc, x) =>
                \/ /\ Life(proc[x], proc'[x])
                   /\ x \in Range(processes') <=> x \in Range(processes)
                \/ /\ Terminated(proc'[x]) /\ ~Terminated(proc[x])
                   /\ x # q /\ proc[x].pages \subseteq {p} /\ x \notin Range(processes')
          /\ ~Made(proc, x) /\ x = q => Launching(proc'[x]) /\ proc'[x].client
    /\ Made(proc, q) \/ (q \in Range(processes') /\ \A r \in 1..(q - 1) : Made(proc, r))
    /\ q \in Range(processes') \/ p \in orphans'
    /\ \A x \in Page : x # p => page'[x] = page[x]
    /\ page'[p].made /\ page'[p].valid /\ ~page'[p].closed /\ page'[p].process = q
    /\ processes' \in Seq(Process) /\ IsInjective(processes')
    /\ \A x \in Range(processes') : x \in Range(processes) \/ x = q
    /\ orphans \subseteq orphans' /\ orphans' \subseteq Page
    /\ warm' \in BOOLEAN /\ (warm' => processes' # <<>>)
    /\ loads' \in 0..MaxLoads
    /\ UNCHANGED <<enabled, crashing>>

\* The children of all processes but q are told nothing, and that of q, which
\* may be new, is sent ms, unless it is gone; the page a child opens by itself it
\* holds at once.
Speaks(q, ms) ==
    LET c == CreatedProcess(proc[q])
    IN  /\ c.held \subseteq proc'[q].held /\ proc'[q].initialized = c.initialized
        /\ \/ ~Terminated(c) /\ Queue(proc'[q]) = Queue(c) \o ms
           \/ Terminated(proc'[q]) /\ Queue(proc'[q]) = Queue(c)

Utters(q, ms) ==
    /\ q \in Process /\ Speaks(q, ms)
    /\ \A x \in Process : x # q => Knows(proc[x], proc'[x])

\* The pool gets process q, which has no page.
Warms(q) ==
    /\ q \in Process /\ ~Made(proc, q) /\ \A r \in 1..(q - 1) : Made(proc, r)
    /\ proc' = [proc EXCEPT ![q] = Connected(NoProcess)]
    /\ processes' = Append(processes, q) /\ warm' \in BOOLEAN
    /\ UNCHANGED <<page, enabled, crashing, loads, orphans>>

-----------------------------------------------------------------------------
(* Every shape keeps the lists                                             *)

LEMMA QuietList ==
    ASSUME ListInv, Quiet
    PROVE  ListInv'
<1>1. \A x \in Process : Fit(proc'[x]) /\ (Made(proc', x) <=> Made(proc, x))
    BY DEF Quiet, Life, Made
<1>2. TypeOK'
    BY DEF ListInv, PoolInv, TypeOK, Quiet
<1>3. PageMapsAgree'
    BY DEF ListInv, PoolInv, PageMapsAgree, Quiet
<1>4. WarmHasProcess' /\ IsInjective(processes)'
    BY DEF ListInv, PoolInv, WarmHasProcess, Quiet
<1>5. ProcessesFit'
    BY <1>1 DEF ProcessesFit, Quiet
<1>6. MadeInOrder'
    BY <1>1 DEF ListInv, MadeInOrder
<1>7. PagesFit'
    BY <1>1 DEF ListInv, PagesFit, Quiet
<1>8. ListedAreMade'
    <2>1. \A x \in Range(processes) : x \in Process
        BY LenProperties DEF ListInv, PoolInv, TypeOK, Range
    <2> QED
        BY <1>1, <2>1 DEF ListInv, ListedAreMade, Quiet
<1> QED
    BY <1>2, <1>3, <1>4, <1>5, <1>6, <1>7, <1>8 DEF ListInv, PoolInv

\* Exited changes none of the fields that tie a page to its process.
LEMMA ExitedFields ==
    ASSUME NEW r \in PageState
    PROVE  /\ Exited(r) \in PageState
           /\ Exited(r).made = r.made /\ Exited(r).closed = r.closed
           /\ Exited(r).process = r.process /\ (Exited(r).valid => r.valid)
           /\ Exited(r).valid => r.closed
BY DEF Exited, PageState

LEMMA ListedAreProcesses ==
    ASSUME TypeOK
    PROVE  \A x \in Range(processes) : x \in Process
BY LenProperties DEF TypeOK, Range

\* What is left of the list when q is gone.
LEMMA Unlisted ==
    ASSUME ListInv, NEW q \in Process, NEW ps, NEW w,
           ps = DisconnectProcess(processes, q), w = StillWarm(warm, processes, q)
    PROVE  /\ ps \in Seq(Process) /\ IsInjective(ps) /\ q \notin Range(ps)
           /\ \A x \in Process : x # q => (x \in Range(ps) <=> x \in Range(processes))
           /\ \A x \in Range(ps) : x \in Range(processes)
           /\ w \in BOOLEAN /\ (w => ps # <<>>)
<1>1. processes \in Seq(Process) /\ warm \in BOOLEAN /\ IsInjective(processes)
    BY DEF ListInv, PoolInv, TypeOK
<1>2. warm => processes # <<>>
    BY DEF ListInv, PoolInv, WarmHasProcess
<1>3. w <=> warm /\ q # Last(processes)
    BY DEF StillWarm
<1>4. w \in BOOLEAN
    BY <1>1 DEF StillWarm
<1> QED
    BY <1>1, <1>2, <1>3, <1>4, Removed

LEMMA DisconnectsList ==
    ASSUME ListInv, NEW q, Disconnects(q)
    PROVE  ListInv'
<1>1. q \in Process /\ processes' = DisconnectProcess(processes, q) /\ warm' = StillWarm(warm, processes, q)
    BY DEF Disconnects
<1>2. /\ processes' \in Seq(Process) /\ IsInjective(processes')
      /\ \A x \in Range(processes') : x \in Range(processes)
      /\ warm' \in BOOLEAN /\ (warm' => processes' # <<>>)
    BY <1>1, Unlisted
<1>3. \A x \in Process : /\ Fit(proc'[x]) /\ (Made(proc', x) <=> Made(proc, x))
                         /\ proc'[x].pages = proc[x].pages
    BY DEF ListInv, ProcessesFit, Disconnects, Made
<1>4. TypeOK'
    BY <1>2 DEF ListInv, PoolInv, TypeOK, Disconnects
<1>5. \A p \in Page : /\ page'[p].made = page[p].made /\ page'[p].closed = page[p].closed
                      /\ page'[p].process = page[p].process /\ (page'[p].valid => page[p].valid)
    BY ExitedFields DEF ListInv, PoolInv, TypeOK, Disconnects
<1>6. PageMapsAgree'
    BY <1>3, <1>5 DEF ListInv, PoolInv, PageMapsAgree
<1>7. ProcessesFit'
    BY <1>3 DEF ProcessesFit, Disconnects
<1>8. MadeInOrder'
    BY <1>3 DEF ListInv, MadeInOrder
<1>9. PagesFit'
    BY <1>3, <1>5 DEF ListInv, PagesFit
<1>10. ListedAreMade'
    <2>1. \A x \in Range(processes) : x \in Process
        BY ListedAreProcesses DEF ListInv, PoolInv
    <2> QED
        BY <1>2, <1>3, <2>1 DEF ListInv, ListedAreMade
<1> QED
    BY <1>2, <1>4, <1>6, <1>7, <1>8, <1>9, <1>10 DEF ListInv, PoolInv, WarmHasProcess

LEMMA ToldList ==
    ASSUME ListInv, NEW p, Told(p)
    PROVE  ListInv'
<1>1. \A x \in Page : /\ page'[x] \in PageState
                      /\ page'[x].made = page[x].made /\ page'[x].closed = page[x].closed
                      /\ page'[x].process = page[x].process /\ (page'[x].valid => page[x].valid)
    BY ExitedFields DEF ListInv, PoolInv, TypeOK, Told
<1>2. TypeOK'
    <2>1. page' \in [Page -> PageState]
        BY ExitedFields DEF ListInv, PoolInv, TypeOK, Told
    <2> QED
        BY <2>1 DEF ListInv, PoolInv, TypeOK, Told
<1>3. PageMapsAgree'
    BY <1>1 DEF ListInv, PoolInv, PageMapsAgree, Told
<1>4. PagesFit'
    BY <1>1 DEF ListInv, PagesFit, Told, Made
<1>5. WarmHasProcess' /\ ProcessesFit' /\ MadeInOrder' /\ ListedAreMade' /\ IsInjective(processes)'
    BY DEF ListInv, PoolInv, WarmHasProcess, ProcessesFit, MadeInOrder, ListedAreMade, Told, Made
<1> QED
    BY <1>2, <1>3, <1>4, <1>5 DEF ListInv, PoolInv

LEMMA LeavingList ==
    ASSUME ListInv, NEW p, Leaving(p)
    PROVE  ListInv'
<1>1. PICK q : q = page[p].process
    OBVIOUS
<1>2. p \in Page /\ q \in Process /\ Made(proc, q) /\ LetsGo(p, q, proc', processes', warm')
    BY <1>1 DEF Leaving, ListInv, PagesFit
<1>3. \A x \in Process : /\ Fit(proc'[x]) /\ (Made(proc', x) <=> Made(proc, x))
                         /\ proc'[x].pages = proc[x].pages \ IF x = q THEN {p} ELSE {}
    BY <1>2 DEF LetsGo, ListInv, ProcessesFit, Made
<1>4. /\ processes' \in Seq(Process) /\ IsInjective(processes')
      /\ \A x \in Range(processes') : x \in Range(processes)
      /\ warm' \in BOOLEAN /\ (warm' => processes' # <<>>)
    <2>1. CASE processes' = processes /\ warm' = warm
        BY <2>1 DEF ListInv, PoolInv, TypeOK, WarmHasProcess
    <2>2. CASE processes' = DisconnectProcess(processes, q) /\ warm' = StillWarm(warm, processes, q)
        BY <1>2, <2>2, Unlisted
    <2> QED
        BY <1>2, <2>1, <2>2 DEF LetsGo
<1>5. \A x \in Page : /\ page'[x].made = page[x].made /\ page'[x].valid = page[x].valid
                      /\ page'[x].closed <=> page[x].closed \/ x = p
                      /\ page'[x].process = page[x].process
    BY DEF Leaving, ListInv, PoolInv, TypeOK, PageState
<1>6. TypeOK'
    <2>1. page' \in [Page -> PageState]
        BY DEF Leaving, ListInv, PoolInv, TypeOK, PageState
    <2> QED
        BY <1>2, <1>4, <2>1 DEF Leaving, LetsGo, ListInv, PoolInv, TypeOK
<1>7. PageMapsAgree'
    <2>1. \A x \in Process, y \in Page :
              y \in proc'[x].pages <=> y \in proc[x].pages /\ ~(x = q /\ y = p)
        BY <1>3
    <2> QED
        BY <1>1, <1>5, <2>1 DEF ListInv, PoolInv, PageMapsAgree
<1>8. ProcessesFit'
    BY <1>2, <1>3 DEF ProcessesFit, LetsGo
<1>9. MadeInOrder'
    BY <1>3 DEF ListInv, MadeInOrder
<1>10. PagesFit'
    BY <1>3, <1>5 DEF ListInv, PagesFit, Leaving
<1>11. ListedAreMade'
    <2>1. \A x \in Range(processes) : x \in Process
        BY ListedAreProcesses DEF ListInv, PoolInv
    <2> QED
        BY <1>3, <1>4, <2>1 DEF ListInv, ListedAreMade
<1> QED
    BY <1>4, <1>6, <1>7, <1>8, <1>9, <1>10, <1>11 DEF ListInv, PoolInv, WarmHasProcess

\* The processes made are still the first ones.
LEMMA OneMore ==
    ASSUME ListInv, NEW q \in Process,
           Made(proc, q) \/ \A r \in 1..(q - 1) : Made(proc, r),
           \A x \in Process : Made(proc', x) <=> Made(proc, x) \/ x = q
    PROVE  MadeInOrder'
<1>1. PICK k \in 0..MaxProcesses : \A x \in Process : Made(proc, x) <=> x <= k
    BY DEF ListInv, MadeInOrder
<1>2. CASE Made(proc, q)
    BY <1>1, <1>2 DEF MadeInOrder
<1>3. CASE ~Made(proc, q)
    <2>1. q = k + 1
        <3>1. q > k
            BY <1>1, <1>3, ProcessPoolAssumption DEF Process
        <3>2. q > k + 1 => k + 1 \in 1..(q - 1) /\ k + 1 \in Process /\ ~(k + 1 <= k)
            BY <1>1, <3>1, ProcessPoolAssumption DEF Process
        <3> QED
            BY <1>1, <1>3, <3>1, <3>2, ProcessPoolAssumption DEF Process
    <2>2. q \in 0..MaxProcesses /\ \A x \in Process : Made(proc', x) <=> x <= q
        BY <1>1, <2>1, ProcessPoolAssumption DEF Process
    <2> QED
        BY <2>2 DEF MadeInOrder
<1> QED
    BY <1>2, <1>3

LEMMA AttachesList ==
    ASSUME ListInv, NEW p, NEW q, Attaches(p, q)
    PROVE  ListInv'
<1>1. TypeOK'
    BY DEF Attaches, ListInv, PoolInv, TypeOK
<1>2. PageMapsAgree'
    BY DEF Attaches, ListInv, PoolInv, PageMapsAgree
<1>3. ProcessesFit'
    BY DEF Attaches, ProcessesFit
<1>4. MadeInOrder'
    BY OneMore DEF Attaches
<1>5. PagesFit'
    BY DEF Attaches, ListInv, PagesFit
<1>6. ListedAreMade'
    <2>1. \A x \in Range(processes) : x \in Process
        BY ListedAreProcesses DEF ListInv, PoolInv
    <2> QED
        BY <2>1 DEF Attaches, ListInv, ListedAreMade
<1> QED
    BY <1>1, <1>2, <1>3, <1>4, <1>5, <1>6 DEF Attaches, ListInv, PoolInv, WarmHasProcess

\* A new process at the end of the list.
LEMMA Appended ==
    ASSUME NEW ps \in Seq(Process), IsInjective(ps), NEW q \in Process, q \notin Range(ps)
    PROVE  /\ Append(ps, q) \in Seq(Process) /\ IsInjective(Append(ps, q))
           /\ \A x : x \in Range(Append(ps, q)) <=> x \in Range(ps) \/ x = q
           /\ Append(ps, q) # <<>>
<1>1. /\ Append(ps, q) \in Seq(Process) /\ Len(Append(ps, q)) = Len(ps) + 1
      /\ \A i \in 1..Len(ps) : Append(ps, q)[i] = ps[i]
      /\ Append(ps, q)[Len(ps) + 1] = q /\ Append(ps, q) # <<>>
    BY AppendProperties
<1>2. /\ DOMAIN ps = 1..Len(ps) /\ Len(ps) \in Nat
      /\ DOMAIN Append(ps, q) = 1..(Len(ps) + 1)
    BY <1>1, LenProperties
<1>3. PICK a : a = Append(ps, q)
    OBVIOUS
<1>4. \A i \in 1..(Len(ps) + 1) : i \in 1..Len(ps) \/ i = Len(ps) + 1
    BY <1>2
<1>5. \A x : x \in Range(a) <=> x \in Range(ps) \/ x = q
    <2>1. \A i \in 1..Len(ps) : i \in 1..(Len(ps) + 1)
        BY <1>2
    <2>2. Len(ps) + 1 \in 1..(Len(ps) + 1)
        BY <1>2
    <2> QED
        BY <1>1, <1>2, <1>3, <1>4, <2>1, <2>2 DEF Range
<1>6. IsInjective(a)
    BY <1>1, <1>2, <1>3, <1>4 DEF IsInjective, Range
<1> QED
    BY <1>1, <1>3, <1>5, <1>6

LEMMA WarmsList ==
    ASSUME ListInv, NEW q, Warms(q)
    PROVE  ListInv'
<1> DEFINE s == Connected(NoProcess)
<1>1. /\ q \in Process /\ q \notin Range(processes) /\ processes \in Seq(Process)
      /\ IsInjective(processes) /\ proc[q] = NoProcess /\ proc \in [Process -> ProcessState]
    BY DEF Warms, ListInv, PoolInv, TypeOK, ListedAreMade, ProcessesFit, Fit, Made
<1>2. /\ processes' \in Seq(Process) /\ IsInjective(processes') /\ processes' # <<>>
      /\ \A x \in Range(processes') : x \in Range(processes) \/ x = q
    BY <1>1, Appended DEF Warms
<1>3. Fit(s) /\ s \in ProcessState /\ s.launch = "queued" /\ s.pages = {} /\ proc[q].pages = {}
    BY <1>1, ConnectedFit DEF Fit, NoProcess
<1> HIDE DEF s
<1>4. proc' = [proc EXCEPT ![q] = s]
    BY DEF Warms, s
<1>5. \A x \in Process : /\ Fit(proc'[x]) /\ (Made(proc', x) <=> Made(proc, x) \/ x = q)
                         /\ proc'[x].pages = proc[x].pages
    BY <1>1, <1>3, <1>4 DEF ListInv, ProcessesFit, Made
<1>6. TypeOK'
    BY <1>1, <1>2, <1>3, <1>4 DEF Warms, ListInv, PoolInv, TypeOK
<1>7. PageMapsAgree'
    BY <1>5 DEF Warms, ListInv, PoolInv, PageMapsAgree
<1>8. ProcessesFit'
    BY <1>1, <1>3, <1>4, <1>5 DEF ProcessesFit
<1>9. MadeInOrder'
    BY <1>1, <1>5, OneMore DEF Warms
<1>10. PagesFit'
    BY <1>5 DEF Warms, ListInv, PagesFit
<1>11. ListedAreMade'
    <2>1. \A x \in Range(processes) : x \in Process
        BY ListedAreProcesses DEF ListInv, PoolInv
    <2> QED
        BY <1>1, <1>2, <1>5, <2>1 DEF ListInv, ListedAreMade
<1> QED
    BY <1>2, <1>6, <1>7, <1>8, <1>9, <1>10, <1>11 DEF ListInv, PoolInv, WarmHasProcess

-----------------------------------------------------------------------------
(* The shape of every action                                               *)

\* The facts about one process and one page that the steps start from.
LEMMA OneOf ==
    ASSUME ListInv
    PROVE  /\ proc \in [Process -> ProcessState] /\ page \in [Page -> PageState]
           /\ \A x \in Process : Fit(proc[x]) /\ proc[x] \in ProcessState
           /\ \A x \in Process : Life(proc[x], proc[x])
           /\ enabled \in BOOLEAN /\ loads \in 0..MaxLoads
           /\ \A p \in Page : page[p].made =>
                 page[p].process \in Process /\ proc[page[p].process].launch # "none"
<1>1. \A x \in Process : Fit(proc[x])
    BY DEF ListInv, ProcessesFit
<1>2. \A x \in Process : Life(proc[x], proc[x])
    BY <1>1, SameIsLife DEF SameProxy
<1> QED
    BY <1>1, <1>2 DEF ListInv, PoolInv, TypeOK, PagesFit, Made

LEMMA QuietOne ==
    ASSUME ListInv, NEW q \in Process, NEW s, proc' = [proc EXCEPT ![q] = s],
           Life(proc[q], s), s.pages = proc[q].pages,
           UNCHANGED <<page, processes, warm, enabled, crashing, loads, orphans>>
    PROVE  Quiet
<1>1. s \in ProcessState
    BY DEF Life, Fit
<1> QED
    BY <1>1, OneOf DEF Quiet

\* A step of the child only.
LEMMA QuietChild ==
    ASSUME ListInv, NEW q \in Process, NEW s, proc' = [proc EXCEPT ![q] = s],
           Fit(s), SameProxy(proc[q], s), s.pages = proc[q].pages,
           UNCHANGED <<page, processes, warm, enabled, crashing, loads, orphans>>
    PROVE  Quiet
BY SameIsLife, QuietOne

LEMMA LaunchProcessShape ==
    ASSUME ListInv, NEW q \in Process, LaunchProcess(q)
    PROVE  Quiet /\ \A x \in Process : SameChild(proc[x], proc'[x])
<1> DEFINE s == [proc[q] EXCEPT !.launch = "spawned", !.child = "up", !.socket = "open"]
<1>1. Fit(proc[q]) /\ proc[q] \in ProcessState /\ proc[q].launch = "queued"
      /\ proc \in [Process -> ProcessState]
    BY OneOf DEF LaunchProcess
<1>2. Life(proc[q], s) /\ s.pages = proc[q].pages /\ SameChild(proc[q], s)
    BY <1>1 DEF Fit, Life, ProcessState, Launching, Terminated, SameChild, Queue
<1>3. proc' = [proc EXCEPT ![q] = s]
    BY DEF LaunchProcess
<1> HIDE DEF s
<1>4. \A x \in Process : SameChild(proc[x], proc'[x])
    BY <1>1, <1>2, <1>3 DEF SameChild
<1> QED
    BY <1>2, <1>3, <1>4, QuietOne DEF LaunchProcess

LEMMA DidFinishLaunchingShape ==
    ASSUME ListInv, NEW q \in Process, DidFinishLaunching(q)
    PROVE  Quiet /\ \A x \in Process : SameChild(proc[x], proc'[x])
<1> DEFINE s == FinishedLaunching(proc[q])
<1>1. Fit(proc[q]) /\ proc[q].launch = "spawned" /\ proc \in [Process -> ProcessState]
    BY OneOf DEF DidFinishLaunching
<1>2. /\ Fit(s) /\ SameChild(proc[q], s) /\ s.launch = "done" /\ s.pages = proc[q].pages
      /\ s.client = proc[q].client
    BY <1>1, FinishedFit
<1>3. Life(proc[q], s)
    <2>1. /\ Terminated(proc[q]) => Terminated(s)
          /\ Launching(proc[q]) /\ proc[q].client => ~Terminated(s)
        BY <1>1, FinishedFit
    <2>2. ~Terminated(proc[q]) => Launching(proc[q])
        BY <1>1 DEF Fit, Terminated
    <2> HIDE DEF s
    <2> QED
        BY <1>1, <1>2, <2>1, <2>2 DEF Life, Launching
<1>4. proc' = [proc EXCEPT ![q] = s]
    BY DEF DidFinishLaunching
<1> HIDE DEF s
<1>5. \A x \in Process : SameChild(proc[x], proc'[x])
    BY <1>1, <1>2, <1>4 DEF SameChild
<1> QED
    BY <1>2, <1>3, <1>4, <1>5, QuietOne DEF DidFinishLaunching

\* ChildDidClose, ChildCrashes, TerminationTimerFired and a refusal of
\* shouldTerminate.
LEMMA ChildStepShape ==
    ASSUME ListInv, NEW q \in Process,
           NEW c \in {"none", "up", "gone"}, NEW a \in BOOLEAN, NEW t \in BOOLEAN,
           proc[q].child = "up", a \/ t => proc[q].asks \/ proc[q].timer,
           proc' = [proc EXCEPT ![q] = [@ EXCEPT !.child = c, !.asks = a, !.timer = t]],
           UNCHANGED <<page, processes, warm, enabled, crashing, loads, orphans>>
    PROVE  Quiet /\ \A x \in Process : SameChild(proc[x], proc'[x])
<1>0. PICK s : s = [proc[q] EXCEPT !.child = c, !.asks = a, !.timer = t]
    OBVIOUS
<1>1. Fit(proc[q]) /\ proc[q].launch # "none" /\ proc \in [Process -> ProcessState]
    BY OneOf DEF Fit, NoProcess
<1>2. Fit(s) /\ SameProxy(proc[q], s) /\ SameChild(proc[q], s) /\ s.pages = proc[q].pages
    <2>1. PICK r : r = proc[q]
        OBVIOUS
    <2>2. Fit(r) /\ r.launch # "none" /\ s = [r EXCEPT !.child = c, !.asks = a, !.timer = t]
        BY <1>0, <1>1, <2>1
    <2>4. /\ s \in ProcessState /\ SameProxy(r, s) /\ SameChild(r, s) /\ s.pages = r.pages
          /\ s.held = r.held /\ s.counter = r.counter /\ s.asks = a /\ s.timer = t
          /\ s.pending = r.pending
        BY <2>2 DEF Fit, SameProxy, SameChild, Queue, ProcessState
    <2>5. s.timer \/ s.asks => s.held = {}
        BY <2>1, <2>2, <2>4 DEF Fit
    <2>3. Fit(s) /\ SameProxy(r, s) /\ SameChild(r, s) /\ s.pages = r.pages
        BY <2>2, <2>4, <2>5 DEF Fit, SameProxy
    <2> QED
        BY <2>1, <2>3
<1>3. proc' = [proc EXCEPT ![q] = s]
    BY <1>0
<1>4. \A x \in Process : SameChild(proc[x], proc'[x])
    BY <1>1, <1>2, <1>3 DEF SameChild
<1> QED
    BY <1>2, <1>3, <1>4, QuietChild

LEMMA ChildActionsShape ==
    ASSUME ListInv, NEW q \in Process,
           \/ ChildDidClose(q) \/ ChildCrashes(q) \/ TerminationTimerFired(q)
           \/ ShouldTerminate(q) /\ ~CanTerminate(proc[q])
    PROVE  Quiet /\ \A x \in Process : SameChild(proc[x], proc'[x])
<1>1. proc[q] \in ProcessState /\ proc[q].asks \in BOOLEAN /\ proc[q].timer \in BOOLEAN
    BY OneOf DEF ProcessState
<1>2. CASE ChildDidClose(q)
    <2>1. proc' = [proc EXCEPT ![q] = [@ EXCEPT !.child = "gone", !.asks = FALSE, !.timer = proc[q].timer]]
        BY <1>1, <1>2 DEF ChildDidClose, ProcessState
    <2> QED
        BY <1>1, <1>2, <2>1, ChildStepShape DEF ChildDidClose
<1>3. CASE ChildCrashes(q)
    <2>1. proc' = [proc EXCEPT ![q] = [@ EXCEPT !.child = "gone", !.asks = proc[q].asks, !.timer = proc[q].timer]]
        BY <1>1, <1>3 DEF ChildCrashes, ProcessState
    <2> QED
        BY <1>1, <1>3, <2>1, ChildStepShape DEF ChildCrashes
<1>4. CASE TerminationTimerFired(q)
    <2>1. proc[q].child = "up"
        BY <1>4 DEF TerminationTimerFired, Busy
    <2>2. proc' = [proc EXCEPT ![q] = [@ EXCEPT !.child = "up", !.asks = TRUE, !.timer = FALSE]]
        BY <1>1, <1>4, <2>1 DEF TerminationTimerFired, ProcessState
    <2> QED
        BY <1>4, <2>1, <2>2, ChildStepShape DEF TerminationTimerFired
<1>5. CASE ShouldTerminate(q) /\ ~CanTerminate(proc[q])
    <2>1. proc' = [proc EXCEPT ![q] = [@ EXCEPT !.child = "up", !.asks = FALSE, !.timer = proc[q].timer]]
        <3>1. proc' = [proc EXCEPT ![q].asks = FALSE] /\ proc[q].child = "up"
            BY <1>5 DEF ShouldTerminate
        <3> QED
            BY <1>1, <3>1 DEF ProcessState
    <2> QED
        BY <1>1, <1>5, <2>1, ChildStepShape DEF ShouldTerminate
<1> QED
    BY <1>2, <1>3, <1>4, <1>5

LEMMA TerminationShape ==
    ASSUME ListInv, DisableProcessTermination \/ EnableProcessTermination
    PROVE  Quiet /\ \A x \in Process : SameChild(proc[x], proc'[x])
<1>1. CASE DisableProcessTermination
    BY <1>1, OneOf DEF DisableProcessTermination, Quiet, SameChild
<1>2. CASE EnableProcessTermination
    <2>1. ASSUME NEW x \in Process
          PROVE  /\ proc'[x] \in ProcessState /\ Life(proc[x], proc'[x])
                 /\ proc'[x].pages = proc[x].pages /\ SameChild(proc[x], proc'[x])
        <3>1. Fit(proc[x]) /\ "termination" \in Requests
            BY <1>2, OneOf DEF EnableProcessTermination
        <3>2. CASE proc'[x] = proc[x]
            BY <3>2, OneOf DEF SameChild
        <3>3. CASE proc'[x] = Killed(proc[x])
            <4>1. PICK s : s = Killed(proc[x])
                OBVIOUS
            <4>2. /\ Fit(s) /\ SameChild(proc[x], s) /\ s.launch = proc[x].launch
                  /\ s.launcher = proc[x].launcher /\ s.connected = proc[x].connected
                  /\ s.pages = proc[x].pages /\ (s.client => proc[x].client)
                BY <3>1, <4>1, KilledFit
            <4>3. Life(proc[x], s)
                BY <3>1, <4>2 DEF Life, Terminated, Launching
            <4> QED
                BY <3>3, <4>1, <4>2, <4>3 DEF Fit
        <3> QED
            BY <1>2, <3>2, <3>3 DEF EnableProcessTermination
    <2>2. proc' \in [Process -> ProcessState]
        BY <1>2, <2>1 DEF EnableProcessTermination
    <2> QED
        BY <1>2, <2>1, <2>2, OneOf DEF EnableProcessTermination, Quiet
<1> QED
    BY <1>1, <1>2

LEMMA LoadRequestShape ==
    ASSUME ListInv, NEW p \in Page, LoadRequest(p)
    PROVE  Quiet /\ Utters(page[p].process, <<Msg("load", p)>>)
<1>1. PICK q : q = page[p].process
    OBVIOUS
<1>2. PICK m : m = <<Msg("load", p)>>
    OBVIOUS
<1>3. m \in Seq(Message)
    BY <1>2 DEF Msg, Message
<1>4. PICK s : s = Sent(proc[q], m)
    OBVIOUS
<1>5. q \in Process /\ Fit(proc[q]) /\ proc[q].launch # "none"
    BY <1>1, OneOf DEF LoadRequest
<1>6. /\ Fit(s) /\ SameProxy(proc[q], s) /\ s.pages = proc[q].pages
      /\ s.held = proc[q].held /\ s.initialized = proc[q].initialized
      /\ Terminated(proc[q]) => Queue(s) = Queue(proc[q])
      /\ ~Terminated(proc[q]) => Queue(s) = Queue(proc[q]) \o m
    BY <1>3, <1>4, <1>5, SentFit
<1>7. Life(proc[q], s) /\ s \in ProcessState
    BY <1>6, SameIsLife DEF Fit
<1>8. proc' = [proc EXCEPT ![q] = s]
    BY <1>1, <1>2, <1>4 DEF LoadRequest
<1>9. /\ page' \in [Page -> PageState]
      /\ \A x \in Page :
          /\ page'[x].made = page[x].made /\ page'[x].valid = page[x].valid
          /\ page'[x].closed = page[x].closed /\ page'[x].process = page[x].process
    BY OneOf DEF LoadRequest, PageState
<1>10. loads' \in 0..MaxLoads
    BY OneOf, ProcessPoolAssumption DEF LoadRequest
<1>11. Quiet
    BY <1>5, <1>6, <1>7, <1>8, <1>9, <1>10, OneOf DEF LoadRequest, Quiet
<1>12. Utters(q, m)
    <2>1. proc'[q] = s /\ \A x \in Process : x # q => proc'[x] = proc[x]
        BY <1>5, <1>7, <1>8, OneOf
    <2>2. CreatedProcess(proc[q]) = proc[q]
        BY <1>5, CreatedFit
    <2>3. Terminated(proc[q]) => Terminated(s)
        BY <1>7 DEF Life
    <2> QED
        BY <1>5, <1>6, <2>1, <2>2, <2>3 DEF Utters, Speaks, Knows
<1> QED
    BY <1>1, <1>2, <1>11, <1>12

LEMMA ReceiveShape ==
    ASSUME ListInv, NEW q \in Process, Receive(q)
    PROVE  Quiet
<1>1. PICK m : m = Head(proc[q].wire)
    OBVIOUS
<1>2. PICK s : s = Handled(Taken(proc[q]), m)
    OBVIOUS
<1>3. Fit(proc[q]) /\ proc[q].launch # "none" /\ proc[q].wire # <<>>
    BY OneOf DEF Receive, Busy, Fit, NoProcess
<1>4. Fit(s) /\ SameProxy(proc[q], s) /\ s.pages = proc[q].pages
    BY <1>1, <1>2, <1>3, HandledFit DEF Receive, Busy
<1>5. Life(proc[q], s) /\ s \in ProcessState
    BY <1>4, SameIsLife DEF Fit
<1>6. proc' = [proc EXCEPT ![q] = s]
    BY <1>1, <1>2 DEF Receive
<1>7. \/ page' = page
      \/ m.page \in proc[q].held /\ page' = [page EXCEPT ![m.page].loading = FALSE]
    BY <1>1 DEF Receive
<1>8. /\ page' \in [Page -> PageState]
      /\ \A x \in Page :
          /\ page'[x].made = page[x].made /\ page'[x].valid = page[x].valid
          /\ page'[x].closed = page[x].closed /\ page'[x].process = page[x].process
    <2>1. proc[q].held \subseteq Page
        BY <1>3 DEF Fit, ProcessState
    <2>2. CASE page' = page
        BY <2>2, OneOf
    <2>3. CASE m.page \in proc[q].held /\ page' = [page EXCEPT ![m.page].loading = FALSE]
        <3>1. m.page \in Page /\ page[m.page] \in PageState /\ page \in [Page -> PageState]
            BY <2>1, <2>3, OneOf
        <3> QED
            BY <2>3, <3>1 DEF PageState
    <2> QED
        BY <1>7, <2>2, <2>3
<1> QED
    BY <1>4, <1>5, <1>6, <1>8, OneOf DEF Receive, Quiet

\* The process goes, with its child's state as it was.
LEMMA DisconnectedProcess ==
    ASSUME ListInv, NEW q \in Process, proc[q].connected,
           NEW r, Fit(r), SameChild(proc[q], r), r.launch = proc[q].launch, r.pages = proc[q].pages,
           proc' = [proc EXCEPT ![q] = Disconnected(r)]
    PROVE  /\ Made(proc, q) /\ ~Terminated(proc[q])
           /\ proc' \in [Process -> ProcessState]
           /\ \A x \in Process : x # q => proc'[x] = proc[x]
           /\ Fit(proc'[q]) /\ Made(proc', q) /\ Terminated(proc'[q])
           /\ proc'[q].pages = proc[q].pages /\ SameChild(proc[q], proc'[q])
<1>1. Fit(proc[q]) /\ proc \in [Process -> ProcessState]
    BY OneOf
<1>2. proc[q].launch = "done" /\ ~Terminated(proc[q])
    BY <1>1 DEF Fit, Terminated
<1>3. ~Launching(r) /\ r.launch # "none"
    BY <1>2 DEF Launching
<1>4. PICK s : s = Disconnected(r)
    OBVIOUS
<1>5. Fit(s) /\ SameChild(r, s) /\ s.launch = r.launch /\ s.pages = r.pages /\ Terminated(s)
    BY <1>3, <1>4, DisconnectedFit
<1>6. proc' = [proc EXCEPT ![q] = s] /\ s \in ProcessState
    BY <1>4, <1>5 DEF Fit
<1> QED
    BY <1>1, <1>2, <1>5, <1>6 DEF Made, SameChild

LEMMA CloseProcessShape ==
    ASSUME ListInv, AtRest, NEW q \in Process, proc[q].connected,
           NEW r, Fit(r), SameChild(proc[q], r), r.launch = proc[q].launch, r.pages = proc[q].pages,
           CloseProcess(q, r)
    PROVE  Disconnects(q)
<1>1. /\ proc' = [proc EXCEPT ![q] = Disconnected(r)]
      /\ processes' = DisconnectProcess(processes, q) /\ warm' = StillWarm(warm, processes, q)
      /\ UNCHANGED <<enabled, loads, orphans>>
    BY DEF CloseProcess
<1>2. /\ Made(proc, q) /\ ~Terminated(proc[q])
      /\ proc' \in [Process -> ProcessState]
      /\ \A x \in Process : x # q => proc'[x] = proc[x]
      /\ Fit(proc'[q]) /\ Made(proc', q) /\ Terminated(proc'[q])
      /\ proc'[q].pages = proc[q].pages /\ SameChild(proc[q], proc'[q])
    BY <1>1, DisconnectedProcess
<1>3. proc[q].pages \subseteq Page /\ page \in [Page -> PageState] /\ orphans \subseteq Page
    BY OneOf DEF ProcessState, ListInv, PoolInv, TypeOK
<1>4. CASE r.pages = {} /\ UNCHANGED <<page, crashing>>
    BY <1>1, <1>2, <1>3, <1>4 DEF Disconnects, AtRest
<1>5. CASE \E p \in r.pages : page' = [page EXCEPT ![p] = Exited(@)] /\ crashing' = Untold(r.pages, p)
    <2>1. PICK p \in r.pages : page' = [page EXCEPT ![p] = Exited(@)] /\ crashing' = r.pages \ {p}
        BY <1>5 DEF Untold
    <2>2. p \in Page /\ Exited(page[p]) \in PageState
        BY <1>3, ExitedFields
    <2>3. page' \in [Page -> PageState]
        BY <1>3, <2>1, <2>2
    <2>4. page'[p] = Exited(page[p]) /\ \A x \in Page : x # p => page'[x] = page[x]
        BY <1>3, <2>1, <2>2
    <2> QED
        BY <1>1, <1>2, <1>3, <2>1, <2>2, <2>3, <2>4 DEF Disconnects, AtRest
<1> QED
    BY <1>4, <1>5 DEF CloseProcess

LEMMA DidCloseShape ==
    ASSUME ListInv, NEW q \in Process, DidClose(q) \/ DidReceiveInvalidMessage(q)
    PROVE  Disconnects(q)
<1>1. AtRest /\ proc[q].connected /\ Fit(proc[q])
    BY OneOf DEF DidClose, DidReceiveInvalidMessage
<1>2. CASE DidClose(q)
    BY <1>1, <1>2, CloseProcessShape DEF DidClose, SameChild
<1>3. CASE DidReceiveInvalidMessage(q)
    <2>1. PICK r : r = Killed(proc[q])
        OBVIOUS
    <2>2. Fit(r) /\ SameChild(proc[q], r) /\ r.launch = proc[q].launch /\ r.pages = proc[q].pages
        BY <1>1, <2>1, KilledFit
    <2>3. CloseProcess(q, r)
        BY <1>3, <2>1 DEF DidReceiveInvalidMessage
    <2> QED
        BY <1>1, <2>2, <2>3, CloseProcessShape
<1> QED
    BY <1>2, <1>3

LEMMA ShouldTerminateShape ==
    ASSUME ListInv, NEW q \in Process, ShouldTerminate(q), CanTerminate(proc[q])
    PROVE  Disconnects(q)
<1>1. /\ AtRest /\ proc[q].connected /\ proc[q].pages = {}
      /\ proc' = [proc EXCEPT ![q] = Disconnected(proc[q])]
      /\ processes' = DisconnectProcess(processes, q) /\ warm' = StillWarm(warm, processes, q)
      /\ UNCHANGED <<page, enabled, crashing, loads, orphans>>
    BY DEF ShouldTerminate, CanTerminate
<1>2. Fit(proc[q]) /\ SameChild(proc[q], proc[q])
    BY OneOf DEF SameChild
<1>3. /\ Made(proc, q) /\ ~Terminated(proc[q])
      /\ proc' \in [Process -> ProcessState]
      /\ \A x \in Process : x # q => proc'[x] = proc[x]
      /\ Fit(proc'[q]) /\ Made(proc', q) /\ Terminated(proc'[q])
      /\ proc'[q].pages = proc[q].pages /\ SameChild(proc[q], proc'[q])
    BY <1>1, <1>2, DisconnectedProcess
<1>4. page \in [Page -> PageState] /\ orphans \subseteq Page
    BY DEF ListInv, PoolInv, TypeOK
<1> QED
    BY <1>1, <1>3, <1>4 DEF Disconnects, AtRest

LEMMA TerminateProcessShape ==
    ASSUME ListInv, NEW p \in Page, TerminateProcess(p)
    PROVE  Disconnects(page[p].process) \/ Told(p)
<1>1. PICK q : q = page[p].process
    OBVIOUS
<1>2. /\ q \in Process /\ Fit(proc[q]) /\ page \in [Page -> PageState] /\ proc[q].pages \subseteq Page
      /\ crashing \subseteq Page /\ orphans \subseteq Page
      /\ "terminate" \in Requests /\ page[p].made /\ ~Launching(proc[q])
      /\ page' = [page EXCEPT ![p] = Exited(@)] /\ UNCHANGED <<enabled, crashing, loads>>
    BY <1>1, OneOf DEF TerminateProcess, ProcessState, ListInv, PoolInv, TypeOK
<1>3. CASE Running(proc[q])
    <2>1. /\ proc' = [proc EXCEPT ![q] = Disconnected(Killed(proc[q]))]
          /\ processes' = DisconnectProcess(processes, q) /\ warm' = StillWarm(warm, processes, q)
          /\ orphans' = orphans \cup (proc[q].pages \ {p})
        BY <1>1, <1>3 DEF TerminateProcess
    <2>2. PICK r : r = Killed(proc[q])
        OBVIOUS
    <2>3. /\ Fit(r) /\ SameChild(proc[q], r) /\ r.launch = proc[q].launch
          /\ r.pages = proc[q].pages
        BY <1>2, <2>2, KilledFit
    <2>4. proc[q].connected /\ proc' = [proc EXCEPT ![q] = Disconnected(r)]
        BY <1>3, <2>1, <2>2 DEF Running
    <2>5. /\ Made(proc, q) /\ ~Terminated(proc[q])
          /\ proc' \in [Process -> ProcessState]
          /\ \A x \in Process : x # q => proc'[x] = proc[x]
          /\ Fit(proc'[q]) /\ Made(proc', q) /\ Terminated(proc'[q])
          /\ proc'[q].pages = proc[q].pages /\ SameChild(proc[q], proc'[q])
        BY <1>2, <2>3, <2>4, DisconnectedProcess
    <2>6. page' \in [Page -> PageState] /\ page'[p] = Exited(page[p])
          /\ \A x \in Page : x # p => page'[x] = page[x]
        BY <1>2, ExitedFields
    <2>7. p \in proc[q].pages \/ page'[p] = page[p]
        BY <1>1, <1>2, <2>6 DEF ListInv, PoolInv, PageMapsAgree, Exited
    <2> QED
        BY <1>1, <1>2, <2>1, <2>5, <2>6, <2>7 DEF Disconnects
<1>4. CASE ~Running(proc[q])
    BY <1>1, <1>2, <1>4 DEF TerminateProcess, Told
<1> QED
    BY <1>3, <1>4

LEMMA ProcessDidCrashShape ==
    ASSUME ListInv, NEW p \in Page, ProcessDidCrash(p)
    PROVE  Told(p)
BY DEF ProcessDidCrash, Told, Untold

\* removeWebPage, which the page calls when it is closed or moves away.
LEMMA RemoveWebPageShape ==
    ASSUME ListInv, NEW p \in Page, NEW q \in Process, Made(proc, q),
           NEW r, Fit(r), SameProxy(proc[q], r), r.pages = proc[q].pages,
           NEW pr, pr = [proc EXCEPT ![q] = RemovedWebPage(r, p)],
           NEW ps, ps = IF Leaves(WithoutPage(r, p)) THEN DisconnectProcess(processes, q) ELSE processes,
           NEW w, w = IF Leaves(WithoutPage(r, p)) THEN StillWarm(warm, processes, q) ELSE warm
    PROVE  LetsGo(p, q, pr, ps, w) /\ SameChild(r, pr[q])
<1>1. PICK s : s = RemovedWebPage(r, p)
    OBVIOUS
<1>2. r.launch # "none"
    BY DEF SameProxy, Made
<1>3. /\ Fit(s) /\ s.launch = r.launch /\ s.pages = r.pages \ {p} /\ SameChild(r, s)
      /\ IF Leaves(WithoutPage(r, p))
         THEN Terminated(s) /\ r.pages \subseteq {p} /\ ~Terminated(r)
         ELSE SameProxy(r, s)
    BY <1>1, <1>2, RemovedWebPageFit
<1>4. pr = [proc EXCEPT ![q] = s] /\ s \in ProcessState /\ proc \in [Process -> ProcessState]
    BY <1>1, <1>3, OneOf DEF Fit
<1>5. /\ pr \in [Process -> ProcessState] /\ pr[q] = s
      /\ \A x \in Process : x # q => pr[x] = proc[x]
    BY <1>4
<1>6. Made(pr, q)
    BY <1>2, <1>3, <1>5 DEF Made
<1>7. CASE Leaves(WithoutPage(r, p))
    <2>1. ~Terminated(proc[q])
        BY <1>3, <1>7 DEF SameProxy, Terminated, Launching
    <2> QED
        BY <1>3, <1>5, <1>6, <1>7, <2>1 DEF LetsGo
<1>8. CASE ~Leaves(WithoutPage(r, p))
    <2>1. SameProxy(proc[q], s)
        BY <1>3, <1>8 DEF SameProxy
    <2>2. Life(proc[q], s)
        BY <1>3, <2>1, SameIsLife
    <2> QED
        BY <1>3, <1>5, <1>6, <1>8, <2>2 DEF LetsGo
<1> QED
    BY <1>7, <1>8

LEMMA ClosePageShape ==
    ASSUME ListInv, NEW p \in Page, ClosePage(p)
    PROVE  Leaving(p) /\ Utters(page[p].process, <<Msg("close", p)>>)
<1>1. PICK q : q = page[p].process
    OBVIOUS
<1>2. PICK m : m = <<Msg("close", p)>>
    OBVIOUS
<1>3. m \in Seq(Message)
    BY <1>2 DEF Msg, Message
<1>4. PICK r : r = Sent(proc[q], m)
    OBVIOUS
<1>5. q \in Process /\ Fit(proc[q]) /\ Made(proc, q)
    BY <1>1, OneOf DEF ClosePage, Made
<1>6. /\ Fit(r) /\ SameProxy(proc[q], r) /\ r.pages = proc[q].pages
      /\ r.held = proc[q].held /\ r.initialized = proc[q].initialized
      /\ Terminated(proc[q]) => Queue(r) = Queue(proc[q])
      /\ ~Terminated(proc[q]) => Queue(r) = Queue(proc[q]) \o m
    BY <1>3, <1>4, <1>5, SentFit
<1>7. /\ proc' = [proc EXCEPT ![q] = RemovedWebPage(r, p)]
      /\ processes' = IF Leaves(WithoutPage(r, p)) THEN DisconnectProcess(processes, q) ELSE processes
      /\ warm' = IF Leaves(WithoutPage(r, p)) THEN StillWarm(warm, processes, q) ELSE warm
    BY <1>1, <1>2, <1>4 DEF ClosePage
<1>8. LetsGo(p, q, proc', processes', warm') /\ SameChild(r, proc'[q])
    BY <1>5, <1>6, <1>7, RemoveWebPageShape
<1>9. Utters(q, m)
    <2>1. CreatedProcess(proc[q]) = proc[q]
        BY <1>5, CreatedFit DEF Made
    <2>2. Terminated(proc[q]) => Terminated(proc'[q])
        BY <1>8 DEF LetsGo, Life
    <2>3. \A x \in Process : x # q => Knows(proc[x], proc'[x])
        BY <1>8 DEF LetsGo, Knows
    <2> QED
        BY <1>5, <1>6, <1>8, <2>1, <2>2, <2>3 DEF Utters, Speaks, SameChild
<1> QED
    BY <1>1, <1>2, <1>8, <1>9 DEF ClosePage, Leaving

LEMMA LifeSame ==
    ASSUME NEW r, NEW t, NEW s, Life(r, t), SameProxy(t, s), Fit(s)
    PROVE  Life(r, s)
BY DEF Life, SameProxy, Terminated, Launching

\* Processes and list when page p has let go of its process, if it had one.
Detached(p, pr, ps) ==
    /\ pr \in [Process -> ProcessState]
    /\ \A x \in Process :
          /\ Fit(pr[x]) /\ (Made(pr, x) <=> Made(proc, x)) /\ pr[x].pages = proc[x].pages \ {p}
          /\ SameChild(proc[x], pr[x])
          /\ \/ Life(proc[x], pr[x]) /\ (x \in Range(ps) <=> x \in Range(processes))
             \/ /\ Terminated(pr[x]) /\ ~Terminated(proc[x])
                /\ proc[x].pages \subseteq {p} /\ x \notin Range(ps)
    /\ ps \in Seq(Process) /\ IsInjective(ps)
    /\ \A x \in Range(ps) : x \in Range(processes)

\* Nothing but a page that the child has opened by itself.
Grown(r, s) == Fit(s) /\ SameProxy(r, s) /\ s.pages = r.pages /\ Knows(r, s)

LEMMA AttachShape ==
    ASSUME ListInv, NEW p \in Page, ~page[p].valid, ~page[p].closed,
           NEW pr, NEW ps, Detached(p, pr, ps), NEW q \in Process,
           \/ q \in Range(ps)
           \/ ~Made(pr, q) /\ \A r \in 1..(q - 1) : Made(pr, r)
           \/ Made(pr, q) /\ pr = proc /\ ps = processes /\ p \in orphans',
           NEW msgs \in Seq(Message), NEW pn,
           pn = [pr EXCEPT ![q] = Sent(WithPage(CreatedProcess(@), p), msgs)],
           proc' \in [Process -> ProcessState],
           \A x \in Process : Fit(pn[x]) => Grown(pn[x], proc'[x]),
           processes' = AppendedProcess(ps, pr, q),
           page' \in [Page -> PageState],
           \A x \in Page : x # p => page'[x] = page[x],
           page'[p].made /\ page'[p].valid /\ ~page'[p].closed /\ page'[p].process = q,
           orphans \subseteq orphans' /\ orphans' \subseteq Page,
           warm' \in BOOLEAN, warm' => processes' # <<>>,
           loads' \in 0..MaxLoads, UNCHANGED <<enabled, crashing>>
    PROVE  Attaches(p, q) /\ Utters(q, msgs)
<1>1. /\ pr \in [Process -> ProcessState] /\ Fit(pr[q]) /\ ps \in Seq(Process) /\ IsInjective(ps)
      /\ Made(pr, q) <=> Made(proc, q)
    BY DEF Detached
<1>2. PICK r : r = pr[q]
    OBVIOUS
<1>3. PICK s : s = Sent(WithPage(CreatedProcess(r), p), msgs)
    OBVIOUS
<1>4. /\ Fit(s) /\ s.launch # "none" /\ s.pages = r.pages \cup {p}
      /\ r.launch # "none" => SameProxy(r, s)
      /\ r.launch = "none" => Launching(s) /\ s.client
    BY <1>1, <1>2, <1>3, AttachedFit
<1>5. /\ pn[q] = s
      /\ \A x \in Process : x # q => pn[x] = pr[x]
    BY <1>1, <1>2, <1>3
<1>6. ASSUME NEW x \in Process
      PROVE  /\ Fit(proc'[x]) /\ SameProxy(pn[x], proc'[x]) /\ proc'[x].pages = pn[x].pages
             /\ Knows(pn[x], proc'[x])
    <2>1. Fit(pn[x])
        BY <1>4, <1>5 DEF Detached
    <2> QED
        BY <2>1 DEF Grown
<1>7. q \in Range(ps) => Made(proc, q)
    BY DEF Detached, ListInv, ListedAreMade
<1>8. /\ processes' \in Seq(Process) /\ IsInjective(processes')
      /\ \A x : x \in Range(processes') <=> x \in Range(ps) \/ (x = q /\ ~Made(proc, q))
    <2>1. CASE Made(pr, q)
        BY <1>1, <2>1 DEF AppendedProcess
    <2>2. CASE ~Made(pr, q)
        BY <1>1, <1>7, <2>2, Appended DEF AppendedProcess
    <2> QED
        BY <2>1, <2>2
<1>9. ASSUME NEW x \in Process
      PROVE  /\ Fit(proc'[x]) /\ (Made(proc', x) <=> Made(proc, x) \/ x = q)
             /\ proc'[x].pages = (proc[x].pages \ {p}) \cup IF x = q THEN {p} ELSE {}
    <2>0. Fit(proc'[x]) /\ proc'[x].launch = pn[x].launch /\ proc'[x].pages = pn[x].pages
        BY <1>6 DEF SameProxy
    <2>1. CASE x = q
        BY <1>2, <1>4, <1>5, <2>0, <2>1 DEF Detached, Made
    <2>2. CASE x # q
        BY <1>5, <2>0, <2>2 DEF Detached, Made
    <2> QED
        BY <2>1, <2>2
<1>10. ASSUME NEW x \in Process, Made(proc, x)
       PROVE  \/ /\ Life(proc[x], proc'[x])
                 /\ x \in Range(processes') <=> x \in Range(processes)
              \/ /\ Terminated(proc'[x]) /\ ~Terminated(proc[x])
                 /\ x # q /\ proc[x].pages \subseteq {p} /\ x \notin Range(processes')
    <2>1. x \in Range(processes') <=> x \in Range(ps)
        BY <1>8, <1>10
    <2>0. /\ Terminated(pn[x]) => Terminated(proc'[x])
          /\ Life(proc[x], pn[x]) => Life(proc[x], proc'[x])
        <3>1. Fit(proc'[x]) /\ SameProxy(pn[x], proc'[x])
            BY <1>6
        <3> QED
            BY <3>1, LifeSame DEF SameProxy, Terminated, Launching
    <2>2. CASE x # q
        BY <1>5, <2>0, <2>1, <2>2 DEF Detached
    <2>3. CASE x = q
        <3>1. Life(proc[q], r) /\ (q \in Range(ps) <=> q \in Range(processes))
            <4>1. Made(pr, q)
                BY <1>1, <1>10, <2>3
            <4>2. CASE q \in Range(ps)
                BY <1>2, <4>2 DEF Detached
            <4>3. CASE pr = proc /\ ps = processes
                BY <1>2, <4>3, OneOf
            <4> QED
                BY <4>1, <4>2, <4>3
        <3>2. r.launch # "none"
            BY <1>1, <1>2, <1>10, <2>3 DEF Made
        <3>3. Life(proc[q], s)
            BY <1>4, <3>1, <3>2, LifeSame
        <3> QED
            BY <1>5, <2>0, <2>1, <2>3, <3>1, <3>3
    <2> QED
        BY <2>2, <2>3
<1>11. ~Made(proc, q) => Launching(proc'[q]) /\ proc'[q].client
    <2>1. SameProxy(s, proc'[q])
        BY <1>5, <1>6
    <2> QED
        BY <1>1, <1>2, <1>4, <2>1 DEF Made, SameProxy, Launching
<1>12. Made(proc, q) \/ (q \in Range(processes') /\ \A y \in 1..(q - 1) : Made(proc, y))
    <2>1. \A y \in 1..(q - 1) : y \in Process
        BY ProcessPoolAssumption DEF Process
    <2> QED
        BY <1>1, <1>7, <1>8, <2>1 DEF Detached
<1>13. q \in Range(processes') \/ p \in orphans'
    BY <1>1, <1>8
<1>14. \A x \in Range(processes') : x \in Range(processes) \/ x = q
    BY <1>8 DEF Detached
<1>15. Attaches(p, q)
    BY <1>8, <1>9, <1>10, <1>11, <1>12, <1>13, <1>14 DEF Attaches
<1>16. Speaks(q, msgs)
    <2>1. PICK c : c = CreatedProcess(r)
        OBVIOUS
    <2>2. /\ s.held = c.held /\ s.initialized = c.initialized /\ SameProxy(c, s)
          /\ Terminated(c) => Queue(s) = Queue(c)
          /\ ~Terminated(c) => Queue(s) = Queue(c) \o msgs
          /\ r.launch # "none" => c = r
        <3>1. Fit(r)
            BY <1>1, <1>2
        <3>2. LET d == CreatedProcess(r)
                  t == Sent(WithPage(d, p), msgs)
              IN  /\ t.held = d.held /\ t.initialized = d.initialized /\ SameProxy(d, t)
                  /\ Terminated(d) => Queue(t) = Queue(d)
                  /\ ~Terminated(d) => Queue(t) = Queue(d) \o msgs
                  /\ r.launch # "none" => d = r
            BY <3>1, AttachedFit
        <3> QED
            BY <1>3, <2>1, <3>2
    <2>3. (Terminated(s) <=> Terminated(c)) /\ (Terminated(proc'[q]) <=> Terminated(s))
        <3>1. SameProxy(s, proc'[q])
            BY <1>5, <1>6
        <3> QED
            BY <2>2, <3>1 DEF SameProxy, Terminated, Launching
    <2>6. /\ s.held \subseteq proc'[q].held /\ proc'[q].initialized = s.initialized
          /\ Queue(proc'[q]) = Queue(s)
        BY <1>5, <1>6 DEF Knows
    <2>4. CASE ~Made(proc, q)
        <3>1. r = NoProcess /\ proc[q] = NoProcess
            BY <1>1, <1>2, <2>4, OneOf DEF Made, Fit
        <3> QED
            BY <2>1, <2>2, <2>3, <2>6, <3>1 DEF Speaks
    <2>5. CASE Made(proc, q)
        <3>1. CreatedProcess(proc[q]) = proc[q] /\ c = r
            BY <1>1, <1>2, <2>2, <2>5, OneOf, CreatedFit DEF Made
        <3>2. SameChild(proc[q], r)
            BY <1>2 DEF Detached
        <3>3. Terminated(proc[q]) => Terminated(proc'[q])
            BY <1>10, <2>5 DEF Life
        <3>4. Terminated(proc[q]) => Terminated(c)
            BY <2>3, <3>3
        <3> QED
            BY <2>2, <2>3, <2>6, <3>1, <3>2, <3>4 DEF Speaks, SameChild
    <2> QED
        BY <2>4, <2>5
<1>17. \A x \in Process : x # q => Knows(proc[x], proc'[x])
    BY <1>5, <1>6 DEF Detached, SameChild, Knows
<1> QED
    BY <1>15, <1>16, <1>17 DEF Utters

\* The process of a new page is listed, new, or gone and its page an orphan.
LEMMA ProcessForFit ==
    ASSUME ListInv, NEW p \in Page, NEW related \in Page \cup {None}, MakePage(p, related),
           NEW q, q = ProcessFor(related)
    PROVE  /\ q \in Process
           /\ \/ q \in Range(processes)
              \/ ~Made(proc, q) /\ \A r \in 1..(q - 1) : Made(proc, r)
              \/ Made(proc, q) /\ p \in orphans'
<1>1. q = IF Shared THEN EnsureSharedWebProcess(proc, processes)
          ELSE IF warm THEN Last(processes)
          ELSE IF related # None THEN page[related].process
          ELSE RespectingProcessCountLimit(proc, processes)
    BY DEF ProcessFor
<1>2. PICK new : new = ((Shared \/ (~warm /\ related = None)) /\ NeedsNew(processes))
    OBVIOUS
<1>5. /\ related # None => page[related].made
      /\ new => CanMake(proc)
      /\ orphans' = IF related # None /\ ~new /\ q \notin Range(processes)
                    THEN orphans \cup {p} ELSE orphans
    BY <1>2 DEF MakePage, ProcessIsNew
<1>6. processes \in Seq(Process) /\ (warm => processes # <<>>) /\ warm \in BOOLEAN
    BY DEF ListInv, PoolInv, TypeOK, WarmHasProcess
<1>8. \A x \in Process : IsFiniteSet(proc[x].pages)
    BY OneOf DEF Fit
<1>9. \/ q \in Range(processes)
      \/ q = NewProcess(proc) /\ CanMake(proc)
      \/ q \in Process /\ Made(proc, q) /\ p \in orphans'
    <2>1. CASE ~Shared /\ warm
        <3>1. Len(processes) \in DOMAIN processes
            BY <1>6, <2>1, EmptySeq, LenProperties
        <3> QED
            BY <1>1, <2>1, <3>1 DEF Last, Range
    <2>2. CASE ~Shared /\ ~warm /\ related # None
        BY <1>1, <1>2, <1>5, <2>2, OneOf DEF Made
    <2>3. CASE Shared \/ (~warm /\ related = None)
        <3>1. q = AnyProcess(proc, processes) /\ (NeedsNew(processes) => CanMake(proc))
            BY <1>1, <1>2, <1>5, <2>3 DEF AnyProcess
        <3> QED
            BY <1>6, <1>8, <3>1, Given
    <2> QED
        BY <2>1, <2>2, <2>3, <1>6
<1>10. \A x \in Range(processes) : x \in Process
    BY ListedAreProcesses DEF ListInv, PoolInv
<1> QED
    BY <1>9, <1>10, NewIsNew

\* The processes after createWebPage.
LEMMA WithNewPageFit ==
    ASSUME ListInv, NEW p \in Page, NEW related \in Page \cup {None}, MakePage(p, related),
           NEW pn, pn = WithNewPage(p, related)
    PROVE  /\ pn \in [Process -> ProcessState] /\ \A x \in Process : Fit(pn[x])
           /\ \A x \in Process : Made(proc, x) =>
                 pn[x].asks = proc[x].asks /\ pn[x].launch # "none"
<1>1. PICK q, m : q = ProcessFor(related) /\ m = <<Msg("create", p)>>
    OBVIOUS
<1>2. q \in Process /\ m \in Seq(Message)
    BY <1>1, ProcessForFit DEF Msg, Message
<1>3. proc \in [Process -> ProcessState] /\ \A x \in Process : Fit(proc[x])
    BY OneOf
<1>4. PICK r : r = proc[q]
    OBVIOUS
<1>5. PICK s : s = Sent(WithPage(CreatedProcess(r), p), m)
    OBVIOUS
<1>6. Fit(s) /\ s \in ProcessState /\ s.launch # "none"
    BY <1>2, <1>3, <1>4, <1>5, AttachedFit DEF Fit
<1>7. pn = [proc EXCEPT ![q] = s]
    BY <1>1, <1>4, <1>5 DEF WithNewPage
<1>8. /\ pn \in [Process -> ProcessState] /\ pn[q] = s
      /\ \A x \in Process : x # q => pn[x] = proc[x]
    BY <1>2, <1>3, <1>6, <1>7
<1>9. r.launch # "none" => s.asks = r.asks
    <2> SUFFICES ASSUME r.launch # "none"
                 PROVE  s.asks = r.asks
        OBVIOUS
    <2>1. PICK a : a = WithPage(r, p)
        OBVIOUS
    <2>2. r \in ProcessState
        BY <1>2, <1>3, <1>4
    <2>3. a = [r EXCEPT !.pages = @ \cup {p}] /\ s = Sent(a, m)
        BY <1>5, <2>1 DEF CreatedProcess, WithPage
    <2>4. a.asks = r.asks
        BY <2>2, <2>3 DEF ProcessState
    <2>5. \/ s = [a EXCEPT !.pending = @ \o m]
          \/ s = [a EXCEPT !.wire = @ \o m]
          \/ s = a
        BY <2>3 DEF Sent
    <2>6. s.asks = a.asks
        BY <2>2, <2>3, <2>5 DEF ProcessState
    <2> QED
        BY <2>4, <2>6
<1> QED
    BY <1>3, <1>4, <1>6, <1>8, <1>9 DEF Made

LEMMA MakePageShape ==
    ASSUME ListInv, NEW p \in Page, NEW related \in Page \cup {None}, MakePage(p, related),
           NEW pn, pn = WithNewPage(p, related), proc' \in [Process -> ProcessState],
           \A x \in Process : Fit(pn[x]) => Grown(pn[x], proc'[x])
    PROVE  \E q \in Process : Attaches(p, q) /\ Utters(q, <<Msg("create", p)>>)
<1>0. PICK q : q = ProcessFor(related)
    OBVIOUS
<1>2. PICK new : new = ((Shared \/ (~warm /\ related = None)) /\ NeedsNew(processes))
    OBVIOUS
<1>3. PICK m : m = <<Msg("create", p)>>
    OBVIOUS
<1>4. m \in Seq(Message)
    BY <1>3 DEF Msg, Message
<1>5. /\ ~page[p].made /\ (related # None => page[related].made)
      /\ new => CanMake(proc)
      /\ pn = [proc EXCEPT ![q] = Sent(WithPage(CreatedProcess(@), p), m)]
      /\ page' = [page EXCEPT ![p] = [@ EXCEPT !.made = TRUE, !.valid = TRUE, !.process = q]]
      /\ processes' = AppendedProcess(processes, proc, q)
      /\ warm' = IF Shared THEN warm ELSE FALSE
      /\ orphans' = IF related # None /\ ~new /\ q \notin Range(processes)
                    THEN orphans \cup {p} ELSE orphans
      /\ UNCHANGED <<enabled, crashing, loads>>
    BY <1>0, <1>2, <1>3 DEF MakePage, WithNewPage, ProcessIsNew
<1>6. /\ processes \in Seq(Process) /\ warm \in BOOLEAN /\ orphans \subseteq Page
      /\ (warm => processes # <<>>) /\ IsInjective(processes)
    BY DEF ListInv, PoolInv, TypeOK, WarmHasProcess
<1>7. Detached(p, proc, processes)
    <2>1. \A x \in Process : p \notin proc[x].pages
        BY <1>5 DEF ListInv, PoolInv, PageMapsAgree
    <2>2. \A x \in Process : proc[x].pages = proc[x].pages \ {p}
        BY <2>1
    <2> QED
        BY <1>6, <2>2, OneOf DEF Detached, SameChild
<1>10. /\ q \in Process
       /\ \/ q \in Range(processes)
          \/ ~Made(proc, q) /\ \A r \in 1..(q - 1) : Made(proc, r)
          \/ Made(proc, q) /\ p \in orphans'
    BY <1>0, ProcessForFit
<1>11. /\ page' \in [Page -> PageState] /\ \A x \in Page : x # p => page'[x] = page[x]
       /\ page'[p].made /\ page'[p].valid /\ ~page'[p].closed /\ page'[p].process = q
       /\ ~page[p].valid /\ ~page[p].closed
    <2>1. page \in [Page -> PageState] /\ page[p] \in PageState /\ ~page[p].valid /\ ~page[p].closed
        BY <1>5, OneOf DEF ListInv, PagesFit
    <2>2. q \in 0..MaxProcesses
        BY <1>10, ProcessPoolAssumption DEF Process
    <2> QED
        BY <1>5, <2>1, <2>2 DEF PageState
<1>12. orphans \subseteq orphans' /\ orphans' \subseteq Page /\ warm' \in BOOLEAN /\ loads' \in 0..MaxLoads
    BY <1>5, <1>6, OneOf
<1>13. warm' => processes' # <<>>
    <2>1. CASE Made(proc, q)
        BY <1>5, <1>6, <2>1 DEF AppendedProcess
    <2>2. CASE ~Made(proc, q)
        BY <1>5, <1>6, <1>10, <2>2, AppendProperties DEF AppendedProcess
    <2> QED
        BY <2>1, <2>2
<1> QED
    BY <1>3, <1>4, <1>5, <1>7, <1>10, <1>11, <1>12, <1>13, AttachShape

LEMMA CreateWebPageShape ==
    ASSUME ListInv, NEW p \in Page, NEW related \in Page \cup {None}, CreateWebPage(p, related)
    PROVE  \E q \in Process : Attaches(p, q) /\ Utters(q, <<Msg("create", p)>>)
<1>1. MakePage(p, related) /\ proc' = WithNewPage(p, related)
    BY DEF CreateWebPage
<1>2. \A x \in Process : Fit(proc'[x]) => Grown(proc'[x], proc'[x])
    BY DEF Grown, SameProxy, Knows
<1>3. proc' \in [Process -> ProcessState]
    BY <1>1, WithNewPageFit
<1> QED
    BY <1>1, <1>2, <1>3, MakePageShape

\* window.open: the opener's child holds the page that it has asked for.
LEMMA WindowOpenShape ==
    ASSUME ListInv, NEW p \in Page, NEW related \in Page \cup {None}, NEW o \in Process,
           WindowOpen(o, p, related)
    PROVE  \E q \in Process : Attaches(p, q) /\ Utters(q, <<Msg("create", p)>>)
<1>1. PICK pn : pn = WithNewPage(p, related)
    OBVIOUS
<1>2. MakePage(p, related) /\ proc' = [pn EXCEPT ![o] = HeldPage(@, p)] /\ ~Busy(o)
    BY <1>1 DEF WindowOpen
<1>9. Made(proc, o)
    BY <1>2, OneOf DEF Busy, Made, Fit, NoProcess
<1>3. /\ pn \in [Process -> ProcessState] /\ \A x \in Process : Fit(pn[x])
      /\ pn[o].asks = proc[o].asks /\ pn[o].launch # "none"
    BY <1>1, <1>2, <1>9, WithNewPageFit
<1>4. PICK s : s = HeldPage(pn[o], p)
    OBVIOUS
<1>5. /\ Fit(s) /\ SameProxy(pn[o], s) /\ s.pages = pn[o].pages
      /\ s.wire = pn[o].wire /\ s.pending = pn[o].pending
      /\ s.held = pn[o].held \cup {p} /\ s.initialized = pn[o].initialized
    BY <1>2, <1>3, <1>4, HeldFit DEF Busy
<1>6. Grown(pn[o], s)
    BY <1>5 DEF Grown, Knows, Queue
<1>7. /\ proc' \in [Process -> ProcessState] /\ proc'[o] = s
      /\ \A x \in Process : x # o => proc'[x] = pn[x]
    BY <1>2, <1>3, <1>4, <1>5 DEF Fit
<1>8. \A x \in Process : Fit(pn[x]) => Grown(pn[x], proc'[x])
    <2>1. \A x \in Process : Fit(pn[x]) => Grown(pn[x], pn[x])
        BY DEF Grown, SameProxy, Knows
    <2> QED
        BY <1>6, <1>7, <2>1
<1> QED
    BY <1>1, <1>2, <1>7, <1>8, MakePageShape

LEMMA ReattachShape ==
    ASSUME ListInv, NEW p \in Page, Reattach(p)
    PROVE  \E q \in Process :
               Attaches(p, q) /\ Utters(q, <<Msg("create", p), Msg("load", p)>>)
<1>1. PICK old : old = page[p].process
    OBVIOUS
<1>2. PICK leaves : leaves = Leaves(WithoutPage(proc[old], p))
    OBVIOUS
<1>3. PICK pr : pr = [proc EXCEPT ![old] = RemovedWebPage(@, p)]
    OBVIOUS
<1>4. PICK ps : ps = IF leaves THEN DisconnectProcess(processes, old) ELSE processes
    OBVIOUS
<1>5. PICK q : q = AnyProcess(pr, ps)
    OBVIOUS
<1>6. PICK m : m = <<Msg("create", p), Msg("load", p)>>
    OBVIOUS
<1>7. m \in Seq(Message)
    BY <1>6 DEF Msg, Message
<1>8. PICK w : w = IF leaves THEN StillWarm(warm, processes, old) ELSE warm
    OBVIOUS
<1>9. /\ page[p].made /\ ~page[p].valid /\ ~page[p].closed /\ loads < MaxLoads
      /\ NeedsNew(ps) => CanMake(pr)
      /\ proc' = [pr EXCEPT ![q] = Sent(WithPage(CreatedProcess(@), p), m)]
      /\ page' = [page EXCEPT ![p] = [@ EXCEPT !.valid = TRUE, !.process = q, !.loading = TRUE]]
      /\ processes' = AppendedProcess(ps, pr, q)
      /\ warm' = w /\ loads' = loads + 1
      /\ UNCHANGED <<enabled, crashing, orphans>>
    BY <1>1, <1>2, <1>3, <1>4, <1>5, <1>6, <1>8 DEF Reattach
<1>10. old \in Process /\ Made(proc, old) /\ Fit(proc[old])
    BY <1>1, <1>9, OneOf DEF Made
<1>11. LetsGo(p, old, pr, ps, w) /\ SameChild(proc[old], pr[old])
    <2>1. SameProxy(proc[old], proc[old])
        BY DEF SameProxy
    <2> QED
        BY <1>2, <1>3, <1>4, <1>8, <1>10, <2>1, RemoveWebPageShape
<1>12. /\ ps \in Seq(Process) /\ IsInjective(ps) /\ (\A x \in Range(ps) : x \in Range(processes))
       /\ (\A x \in Process : x # old => (x \in Range(ps) <=> x \in Range(processes)))
       /\ w \in BOOLEAN /\ (w => ps # <<>>)
       /\ \/ Life(proc[old], pr[old]) /\ ps = processes
          \/ /\ Terminated(pr[old]) /\ ~Terminated(proc[old]) /\ proc[old].pages \subseteq {p}
             /\ old \notin Range(ps)
    <2>1. CASE Life(proc[old], pr[old]) /\ ps = processes /\ w = warm
        BY <2>1 DEF ListInv, PoolInv, TypeOK, WarmHasProcess
    <2>2. CASE /\ Terminated(pr[old]) /\ ~Terminated(proc[old]) /\ proc[old].pages \subseteq {p}
               /\ ps = DisconnectProcess(processes, old) /\ w = StillWarm(warm, processes, old)
        BY <1>10, <2>2, Unlisted
    <2> QED
        BY <1>11, <2>1, <2>2 DEF LetsGo
<1>13. Detached(p, pr, ps)
    <2>1. ASSUME NEW x \in Process
          PROVE  /\ Fit(pr[x]) /\ (Made(pr, x) <=> Made(proc, x)) /\ pr[x].pages = proc[x].pages \ {p}
                 /\ SameChild(proc[x], pr[x])
                 /\ \/ Life(proc[x], pr[x]) /\ (x \in Range(ps) <=> x \in Range(processes))
                    \/ /\ Terminated(pr[x]) /\ ~Terminated(proc[x])
                       /\ proc[x].pages \subseteq {p} /\ x \notin Range(ps)
        <3>1. CASE x = old
            BY <1>10, <1>11, <1>12, <3>1 DEF LetsGo
        <3>2. CASE x # old
            <4>1. pr[x] = proc[x] /\ Fit(proc[x]) /\ Life(proc[x], proc[x])
                BY <1>11, <3>2, OneOf DEF LetsGo
            <4>2. p \notin proc[x].pages
                BY <1>1, <3>2 DEF ListInv, PoolInv, PageMapsAgree
            <4>3. proc[x].pages \ {p} = proc[x].pages
                BY <4>2
            <4> QED
                BY <1>12, <3>2, <4>1, <4>3 DEF Made, SameChild
        <3> QED
            BY <3>1, <3>2
    <2> QED
        BY <1>11, <1>12, <2>1 DEF Detached, LetsGo
<1>14. \/ q \in Range(ps)
       \/ q = NewProcess(pr) /\ CanMake(pr)
    <2>1. \A x \in Process : IsFiniteSet(pr[x].pages)
        BY <1>13 DEF Detached, Fit
    <2> QED
        BY <1>5, <1>9, <1>12, <2>1, Given
<1>15. /\ q \in Process
       /\ \/ q \in Range(ps)
          \/ ~Made(pr, q) /\ \A r \in 1..(q - 1) : Made(pr, r)
    <2>1. \A x \in Range(ps) : x \in Process
        BY <1>12, ListedAreProcesses DEF ListInv, PoolInv
    <2> QED
        BY <1>14, <2>1, NewIsNew
<1>16. /\ page' \in [Page -> PageState] /\ \A x \in Page : x # p => page'[x] = page[x]
       /\ page'[p].made /\ page'[p].valid /\ ~page'[p].closed /\ page'[p].process = q
    <2>1. page \in [Page -> PageState] /\ page[p] \in PageState
        BY OneOf
    <2>2. q \in 0..MaxProcesses
        BY <1>15, ProcessPoolAssumption DEF Process
    <2> QED
        BY <1>9, <2>1, <2>2 DEF PageState
<1>17. /\ orphans \subseteq orphans' /\ orphans' \subseteq Page /\ warm' \in BOOLEAN
       /\ loads' \in 0..MaxLoads
    BY <1>9, <1>12, OneOf, ProcessPoolAssumption DEF ListInv, PoolInv, TypeOK
<1>18. warm' => processes' # <<>>
    <2>1. CASE Made(pr, q)
        BY <1>9, <1>12, <2>1 DEF AppendedProcess
    <2>2. CASE ~Made(pr, q)
        BY <1>9, <1>12, <1>15, <2>2, AppendProperties DEF AppendedProcess
    <2> QED
        BY <2>1, <2>2
<1>19. /\ proc' \in [Process -> ProcessState]
       /\ \A x \in Process : Fit(proc'[x]) => Grown(proc'[x], proc'[x])
    <2>1. PICK r : r = pr[q]
        OBVIOUS
    <2>2. Fit(r) /\ pr \in [Process -> ProcessState]
        BY <1>13, <1>15, <2>1 DEF Detached
    <2>3. PICK s : s = Sent(WithPage(CreatedProcess(r), p), m)
        OBVIOUS
    <2>4. s \in ProcessState
        BY <1>7, <2>2, <2>3, AttachedFit DEF Fit
    <2>5. proc' = [pr EXCEPT ![q] = s]
        BY <1>9, <2>1, <2>3
    <2> QED
        BY <1>15, <2>2, <2>4, <2>5 DEF Grown, SameProxy, Knows
<1> QED
    BY <1>6, <1>7, <1>9, <1>13, <1>15, <1>16, <1>17, <1>18, <1>19, AttachShape

LEMMA WarmInitialProcessShape ==
    ASSUME ListInv, WarmInitialProcess
    PROVE  \E q \in Process : Warms(q)
<1>1. PICK q : q = NewProcess(proc)
    OBVIOUS
<1>2. q \in Process /\ ~Made(proc, q) /\ \A r \in 1..(q - 1) : Made(proc, r)
    BY <1>1, NewIsNew DEF WarmInitialProcess
<1>3. proc[q] = NoProcess
    BY <1>2, OneOf DEF Fit, Made
<1> QED
    BY <1>1, <1>2, <1>3 DEF WarmInitialProcess, Warms

\* Every step has one of the shapes.
LEMMA Shapes ==
    ASSUME ListInv, [Next]_vars
    PROVE  \/ Quiet
           \/ \E q \in Process : Disconnects(q) \/ Warms(q)
           \/ \E p \in Page : Told(p) \/ Leaving(p) \/ \E q \in Process : Attaches(p, q)
<1>1. ASSUME NEW q \in Process, LaunchProcess(q)
      PROVE  Quiet
    BY <1>1, LaunchProcessShape
<1>2. ASSUME NEW q \in Process, DidFinishLaunching(q)
      PROVE  Quiet
    BY <1>2, DidFinishLaunchingShape
<1>3. ASSUME NEW q \in Process, DidClose(q) \/ DidReceiveInvalidMessage(q)
      PROVE  Disconnects(q)
    BY <1>3, DidCloseShape
<1>4. ASSUME NEW q \in Process, ShouldTerminate(q)
      PROVE  Quiet \/ Disconnects(q)
    BY <1>4, ShouldTerminateShape, ChildActionsShape
<1>5. ASSUME NEW q \in Process, Receive(q)
      PROVE  Quiet
    BY <1>5, ReceiveShape
<1>6. ASSUME NEW q \in Process, ChildDidClose(q) \/ ChildCrashes(q) \/ TerminationTimerFired(q)
      PROVE  Quiet
    BY <1>6, ChildActionsShape
<1>7. ASSUME NEW p \in Page, NEW related \in Page \cup {None}, CreateWebPage(p, related)
      PROVE  \E q \in Process : Attaches(p, q)
    BY <1>7, CreateWebPageShape
<1>16. ASSUME NEW p \in Page, NEW related \in Page \cup {None}, NEW o \in Process,
              WindowOpen(o, p, related)
       PROVE  \E q \in Process : Attaches(p, q)
    BY <1>16, WindowOpenShape
<1>8. ASSUME NEW p \in Page, LoadRequest(p)
      PROVE  Quiet
    BY <1>8, LoadRequestShape
<1>9. ASSUME NEW p \in Page, Reattach(p)
      PROVE  \E q \in Process : Attaches(p, q)
    BY <1>9, ReattachShape
<1>10. ASSUME NEW p \in Page, ClosePage(p)
       PROVE  Leaving(p)
    BY <1>10, ClosePageShape
<1>11. ASSUME NEW p \in Page, TerminateProcess(p)
       PROVE  Told(p) \/ \E q \in Process : Disconnects(q)
    BY <1>11, TerminateProcessShape DEF Disconnects
<1>12. ASSUME NEW p \in Page, ProcessDidCrash(p)
       PROVE  Told(p)
    BY <1>12, ProcessDidCrashShape
<1>13. ASSUME WarmInitialProcess
       PROVE  \E q \in Process : Warms(q)
    BY <1>13, WarmInitialProcessShape
<1>14. ASSUME DisableProcessTermination \/ EnableProcessTermination
       PROVE  Quiet
    BY <1>14, TerminationShape
<1>15. ASSUME UNCHANGED vars
       PROVE  Quiet
    BY <1>15, OneOf DEF vars, Quiet
<1> QED
    BY <1>1, <1>2, <1>3, <1>4, <1>5, <1>6, <1>7, <1>8, <1>9, <1>10, <1>11, <1>12, <1>13,
       <1>14, <1>15, <1>16 DEF Next, Steps

-----------------------------------------------------------------------------
(* Theorems                                                                *)

LEMMA ListInit == Init => ListInv
<1> SUFFICES ASSUME Init
             PROVE  ListInv
    OBVIOUS
<1>1. <<>> \in Seq(Message) /\ <<>> \in Seq(Process)
    BY EmptySeq
<1>2. NoProcess \in ProcessState
    BY <1>1 DEF NoProcess, ProcessState
<1>3. Fit(NoProcess)
    <2>1. /\ NoProcess.pages = {} /\ NoProcess.held = {} /\ NoProcess.counter = 0
          /\ ~NoProcess.connected /\ NoProcess.launch = "none"
        BY DEF NoProcess
    <2> QED
        BY <1>2, <2>1, FS_EmptySet DEF Fit
<1>4. TypeOK
    <2>1. 0 \in 0..MaxProcesses /\ 0 \in 0..MaxLoads
        BY ProcessPoolAssumption
    <2>2. page \in [Page -> PageState]
        BY <2>1 DEF Init, PageState, None
    <2>3. proc \in [Process -> ProcessState]
        BY <1>2 DEF Init
    <2> QED
        BY <1>1, <2>1, <2>2, <2>3 DEF Init, TypeOK
<1>5. PageMapsAgree /\ PagesFit
    BY DEF Init, PageMapsAgree, PagesFit, NoProcess
<1>6. Range(<<>>) = {} /\ IsInjective(<<>>)
    BY EmptySeq DEF Range, IsInjective
<1>7. WarmHasProcess /\ ListedAreMade /\ IsInjective(processes)
    BY <1>6 DEF Init, WarmHasProcess, ListedAreMade
<1>8. ProcessesFit
    BY <1>2, <1>3 DEF Init, ProcessesFit
<1>9. MadeInOrder
    <2>1. 0 \in 0..MaxProcesses /\ \A q \in Process : Made(proc, q) <=> q <= 0
        BY ProcessPoolAssumption DEF Init, Made, NoProcess, Process
    <2> QED
        BY <2>1 DEF MadeInOrder
<1> QED
    BY <1>4, <1>5, <1>7, <1>8, <1>9 DEF ListInv, PoolInv

LEMMA ListStep == ListInv /\ [Next]_vars => ListInv'
BY Shapes, QuietList, DisconnectsList, ToldList, LeavingList, AttachesList, WarmsList

LEMMA ListHolds == Spec => []ListInv
BY ListInit, ListStep, PTL DEF Spec

\* Whatever is created, closed, reattached, terminated or lost in between: the
\* page map of every WebProcessProxy holds exactly the open pages that point
\* at it, and m_haveInitialEmptyProcess is never set over an empty list.
THEOREM PoolStaysSound == Spec => []PoolInv
<1>1. ListInv => PoolInv
    BY DEF ListInv
<1> QED
    BY <1>1, ListHolds, PTL

\* A valid page's process is listed; a listed process is alive, unless its launch
\* has lost its client.
Housed ==
    \A p \in Page \ orphans : page[p].valid /\ ~page[p].closed /\ p \notin crashing
        => page[p].process \in Range(processes)

ListedAreAlive == \A q \in Range(processes) : proc[q].client => ~Terminated(proc[q])

LEMMA HousedStep ==
    ASSUME ListInv, ListInv', Housed, [Next]_vars
    PROVE  Housed'
<1>1. CASE Quiet
    BY <1>1 DEF Quiet, Housed
<1>2. ASSUME NEW q \in Process, Disconnects(q)
      PROVE  Housed'
    <2> SUFFICES ASSUME NEW p \in Page, p \notin orphans', page'[p].valid, ~page'[p].closed, p \notin crashing'
                 PROVE  page'[p].process \in Range(processes')
        BY DEF Housed
    <2>1. page'[p] = page[p] /\ p \notin orphans /\ p \notin crashing /\ p \notin proc[q].pages
        BY <1>2, ExitedFields DEF Disconnects, ListInv, PoolInv, TypeOK
    <2>2. page[p].made /\ page[p].process \in Process
        BY <2>1 DEF ListInv, PagesFit
    <2>3. page[p].process # q
        BY <2>1, <2>2 DEF ListInv, PoolInv, PageMapsAgree
    <2>4. \A x \in Process : x # q => (x \in Range(processes') <=> x \in Range(processes))
        BY <1>2, Unlisted DEF Disconnects
    <2> QED
        BY <2>1, <2>2, <2>3, <2>4 DEF Housed
<1>3. ASSUME NEW q \in Process, Warms(q)
      PROVE  Housed'
    <2>1. q \notin Range(processes)
        BY <1>3 DEF Warms, ListInv, ListedAreMade
    <2>2. \A x : x \in Range(processes) => x \in Range(processes')
        BY <1>3, <2>1, Appended DEF Warms, ListInv, PoolInv, TypeOK
    <2> QED
        BY <1>3, <2>2 DEF Warms, Housed
<1>4. ASSUME NEW p \in Page, Told(p)
      PROVE  Housed'
    <2> SUFFICES ASSUME NEW x \in Page, x \notin orphans, page'[x].valid, ~page'[x].closed, x \notin crashing'
                 PROVE  page'[x].process \in Range(processes)
        BY <1>4 DEF Told, Housed
    <2>1. x # p
        BY <1>4, ExitedFields DEF Told, ListInv, PoolInv, TypeOK
    <2> QED
        BY <1>4, <2>1 DEF Told, Housed, ListInv, PoolInv, TypeOK
<1>5. ASSUME NEW p \in Page, Leaving(p)
      PROVE  Housed'
    <2>1. PICK q : q = page[p].process
        OBVIOUS
    <2>2. q \in Process /\ LetsGo(p, q, proc', processes', warm')
        BY <1>5, <2>1 DEF Leaving, ListInv, PagesFit
    <2> SUFFICES ASSUME NEW x \in Page, x \notin orphans, page'[x].valid, ~page'[x].closed, x \notin crashing
                 PROVE  page'[x].process \in Range(processes')
        BY <1>5 DEF Leaving, Housed
    <2>3. x # p /\ page'[x] = page[x]
        BY <1>5 DEF Leaving, ListInv, PoolInv, TypeOK, PageState
    <2>4. page[x].made /\ page[x].process \in Process /\ page[x].process \in Range(processes)
        BY <2>3 DEF ListInv, PagesFit, Housed
    <2>5. CASE processes' = processes
        BY <2>3, <2>4, <2>5
    <2>6. CASE /\ processes' = DisconnectProcess(processes, q) /\ warm' = StillWarm(warm, processes, q)
               /\ proc[q].pages \subseteq {p}
        <3>1. page[x].process # q
            BY <2>3, <2>4, <2>6 DEF ListInv, PoolInv, PageMapsAgree
        <3>2. \A y \in Process : y # q => (y \in Range(processes') <=> y \in Range(processes))
            BY <2>2, <2>6, Unlisted
        <3> QED
            BY <2>3, <2>4, <3>1, <3>2
    <2> QED
        BY <2>2, <2>5, <2>6 DEF LetsGo
<1>6. ASSUME NEW p \in Page, NEW q \in Process, Attaches(p, q)
      PROVE  Housed'
    <2> SUFFICES ASSUME NEW x \in Page, x \notin orphans', page'[x].valid, ~page'[x].closed, x \notin crashing'
                 PROVE  page'[x].process \in Range(processes')
        BY DEF Housed
    <2>1. CASE x = p
        BY <1>6, <2>1 DEF Attaches
    <2>2. CASE x # p
        <3>1. page'[x] = page[x] /\ x \notin orphans /\ x \notin crashing
            BY <1>6, <2>2 DEF Attaches
        <3>2. PICK y : y = page[x].process
            OBVIOUS
        <3>3. page[x].made /\ y \in Process /\ Made(proc, y) /\ y \in Range(processes)
            BY <3>1, <3>2 DEF ListInv, PagesFit, Housed
        <3>4. x \in proc[y].pages
            BY <3>1, <3>2, <3>3 DEF ListInv, PoolInv, PageMapsAgree
        <3>5. y \in Range(processes')
            BY <1>6, <2>2, <3>3, <3>4 DEF Attaches
        <3> QED
            BY <3>1, <3>2, <3>5
    <2> QED
        BY <2>1, <2>2
<1> QED
    BY <1>1, <1>2, <1>3, <1>4, <1>5, <1>6, Shapes

LEMMA ListedStep ==
    ASSUME ListInv, ListInv', ListedAreAlive, [Next]_vars
    PROVE  ListedAreAlive'
<1>0. \A x \in Range(processes) : x \in Process /\ Made(proc, x)
    BY ListedAreProcesses DEF ListInv, PoolInv, ListedAreMade
<1> SUFFICES ASSUME NEW x \in Range(processes'), proc'[x].client
             PROVE  ~Terminated(proc'[x])
    BY DEF ListedAreAlive
<1>1. CASE Quiet
    BY <1>0, <1>1 DEF Quiet, Life, ListedAreAlive
<1>2. ASSUME NEW q \in Process, Disconnects(q)
      PROVE  ~Terminated(proc'[x])
    <2>1. x \in Range(processes) /\ x # q
        BY <1>2, Unlisted DEF Disconnects
    <2>2. proc'[x] = proc[x]
        BY <1>0, <1>2, <2>1 DEF Disconnects
    <2> QED
        BY <2>1, <2>2 DEF ListedAreAlive
<1>3. ASSUME NEW q \in Process, Warms(q)
      PROVE  ~Terminated(proc'[x])
    <2>1. x \in Range(processes) \/ x = q
        BY <1>3, <1>0, Appended DEF Warms, ListInv, PoolInv, TypeOK
    <2>2. proc \in [Process -> ProcessState]
        BY OneOf
    <2>3. CASE x = q
        <3>1. proc'[x] = Connected(NoProcess)
            BY <1>3, <2>2, <2>3 DEF Warms
        <3> QED
            BY <3>1, ConnectedFit DEF Terminated
    <2>4. CASE x \in Range(processes) /\ x # q
        BY <1>0, <1>3, <2>2, <2>4 DEF Warms, ListedAreAlive
    <2> QED
        BY <2>1, <2>3, <2>4
<1>4. ASSUME NEW p \in Page, Told(p)
      PROVE  ~Terminated(proc'[x])
    BY <1>4 DEF Told, ListedAreAlive
<1>5. ASSUME NEW p \in Page, Leaving(p)
      PROVE  ~Terminated(proc'[x])
    <2>1. PICK q : q = page[p].process
        OBVIOUS
    <2>2. q \in Process /\ LetsGo(p, q, proc', processes', warm')
        BY <1>5, <2>1 DEF Leaving, ListInv, PagesFit
    <2>3. CASE Life(proc[q], proc'[q]) /\ processes' = processes
        BY <1>0, <2>2, <2>3 DEF LetsGo, Life, ListedAreAlive
    <2>4. CASE processes' = DisconnectProcess(processes, q) /\ warm' = StillWarm(warm, processes, q)
        <3>1. x \in Range(processes) /\ x # q
            BY <2>2, <2>4, Unlisted
        <3> QED
            BY <1>0, <2>2, <3>1 DEF LetsGo, ListedAreAlive
    <2> QED
        BY <2>2, <2>3, <2>4 DEF LetsGo
<1>6. ASSUME NEW p \in Page, NEW q \in Process, Attaches(p, q)
      PROVE  ~Terminated(proc'[x])
    <2>1. x \in Range(processes) \/ x = q
        BY <1>6 DEF Attaches
    <2>2. x \in Process
        BY <1>0, <2>1
    <2>3. CASE Made(proc, x)
        <3>1. Life(proc[x], proc'[x]) /\ x \in Range(processes)
            BY <1>6, <2>2, <2>3 DEF Attaches
        <3> QED
            BY <3>1 DEF Life, ListedAreAlive
    <2>4. CASE ~Made(proc, x)
        <3>1. x = q
            BY <1>0, <2>1, <2>4
        <3> QED
            BY <1>6, <2>2, <2>4, <3>1 DEF Attaches, Terminated
    <2> QED
        BY <2>3, <2>4
<1> QED
    BY <1>1, <1>2, <1>3, <1>4, <1>5, <1>6, Shapes

\* A page that is open and valid, and is not about to hear of a crash, has a
\* process that the pool lists and that is launching or running: for any requests
\* and failures in any order, unless terminateProcess of another page or a related
\* page's creation orphaned it or enableProcessTermination came during the launch.
THEOREM ValidPagesHaveProcesses == Spec => []ValidPageHasProcess
<1>1. Init => Housed /\ ListedAreAlive
    <2> SUFFICES ASSUME Init
                 PROVE  Housed /\ ListedAreAlive
        OBVIOUS
    <2>1. processes = <<>> /\ \A p \in Page : ~page[p].valid
        BY DEF Init
    <2>2. Range(processes) = {}
        BY <2>1 DEF Range
    <2> QED
        BY <2>1, <2>2 DEF Housed, ListedAreAlive
<1>2. /\ ListInv /\ ListInv' /\ Housed /\ [Next]_vars => Housed'
      /\ ListInv /\ ListInv' /\ ListedAreAlive /\ [Next]_vars => ListedAreAlive'
    BY HousedStep, ListedStep
<1>3. Housed /\ ListedAreAlive => ValidPageHasProcess
    BY DEF Housed, ListedAreAlive, ValidPageHasProcess
<1> QED
    BY <1>1, <1>2, <1>3, ListHolds, PTL DEF Spec

\* A child counts each page it holds once, although it may be told to create a
\* page that it has opened by itself, and asks to terminate only without pages.
THEOREM TerminationStaysBalanced == Spec => []TerminationBalanced
<1>1. ListInv => TerminationBalanced
    BY DEF ListInv, ProcessesFit, Fit, TerminationBalanced
<1> QED
    BY <1>1, ListHolds, PTL

\* Nobody aborts a launch and leaves it in the list, so the list is that of
\* the processes that are alive.
LEMMA AliveStep ==
    ASSUME "termination" \notin Requests, ListInv, ListInv',
           LaunchHasClient, PoolIsAlive, [Next]_vars
    PROVE  LaunchHasClient' /\ PoolIsAlive'
<1>0. /\ \A x \in Process : x \in Range(processes) <=> Made(proc, x) /\ ~Terminated(proc[x])
      /\ \A x \in Process : Launching(proc[x]) => proc[x].client
      /\ IsInjective(processes)' /\ \A x \in Process : Made(proc, x) <=> proc[x].launch # "none"
      /\ \A x \in Process : Made(proc', x) <=> proc'[x].launch # "none"
    BY DEF LaunchHasClient, PoolIsAlive, ListInv, Made
<1> SUFFICES ASSUME NEW x \in Process
             PROVE  /\ Launching(proc'[x]) => proc'[x].client
                    /\ x \in Range(processes') <=> Made(proc', x) /\ ~Terminated(proc'[x])
    BY <1>0 DEF LaunchHasClient, PoolIsAlive
<1>1. ASSUME Life(proc[x], proc'[x]), x \in Range(processes') <=> x \in Range(processes)
      PROVE  /\ Launching(proc'[x]) => proc'[x].client
             /\ x \in Range(processes') <=> Made(proc', x) /\ ~Terminated(proc'[x])
    BY <1>0, <1>1 DEF Life
<1>2. ASSUME Terminated(proc'[x]), x \notin Range(processes')
      PROVE  /\ Launching(proc'[x]) => proc'[x].client
             /\ x \in Range(processes') <=> Made(proc', x) /\ ~Terminated(proc'[x])
    BY <1>2 DEF Terminated
<1>3. CASE Quiet
    BY <1>1, <1>3 DEF Quiet
<1>4. ASSUME NEW q \in Process, Disconnects(q)
      PROVE  /\ Launching(proc'[x]) => proc'[x].client
             /\ x \in Range(processes') <=> Made(proc', x) /\ ~Terminated(proc'[x])
    <2>1. /\ q \notin Range(processes')
          /\ \A y \in Process : y # q => (y \in Range(processes') <=> y \in Range(processes))
        BY <1>4, Unlisted DEF Disconnects
    <2>2. CASE x = q
        BY <1>2, <1>4, <2>1, <2>2 DEF Disconnects
    <2>3. CASE x # q
        BY <1>1, <1>4, <2>1, <2>3, OneOf DEF Disconnects
    <2> QED
        BY <2>2, <2>3
<1>5. ASSUME NEW q \in Process, Warms(q)
      PROVE  /\ Launching(proc'[x]) => proc'[x].client
             /\ x \in Range(processes') <=> Made(proc', x) /\ ~Terminated(proc'[x])
    <2>1. q \notin Range(processes)
        BY <1>5 DEF Warms, ListInv, ListedAreMade
    <2>2. \A y : y \in Range(processes') <=> y \in Range(processes) \/ y = q
        BY <1>5, <2>1, Appended DEF Warms, ListInv, PoolInv, TypeOK
    <2>3. PICK s : s = Connected(NoProcess)
        OBVIOUS
    <2>4. s.launch = "queued" /\ Launching(s) /\ s.client /\ proc' = [proc EXCEPT ![q] = s]
        BY <1>5, <2>3, ConnectedFit DEF Warms
    <2>5. CASE x = q
        <3>1. proc'[x] = s
            BY <2>4, <2>5, OneOf
        <3> QED
            BY <1>0, <2>2, <2>4, <2>5, <3>1 DEF Terminated
    <2>6. CASE x # q
        <3>1. proc'[x] = proc[x]
            BY <2>4, <2>6, OneOf
        <3> QED
            BY <1>1, <2>2, <2>6, <3>1, OneOf
    <2> QED
        BY <2>5, <2>6
<1>6. ASSUME NEW p \in Page, Told(p)
      PROVE  /\ Launching(proc'[x]) => proc'[x].client
             /\ x \in Range(processes') <=> Made(proc', x) /\ ~Terminated(proc'[x])
    BY <1>1, <1>6, OneOf DEF Told
<1>7. ASSUME NEW p \in Page, Leaving(p)
      PROVE  /\ Launching(proc'[x]) => proc'[x].client
             /\ x \in Range(processes') <=> Made(proc', x) /\ ~Terminated(proc'[x])
    <2>1. PICK q : q = page[p].process
        OBVIOUS
    <2>2. q \in Process /\ LetsGo(p, q, proc', processes', warm')
        BY <1>7, <2>1 DEF Leaving, ListInv, PagesFit
    <2>3. CASE Life(proc[q], proc'[q]) /\ processes' = processes
        <3>1. x # q => proc'[x] = proc[x]
            BY <2>2 DEF LetsGo
        <3> QED
            BY <1>1, <2>3, <3>1, OneOf
    <2>4. CASE /\ Terminated(proc'[q])
               /\ processes' = DisconnectProcess(processes, q) /\ warm' = StillWarm(warm, processes, q)
        <3>1. /\ q \notin Range(processes')
              /\ \A y \in Process : y # q => (y \in Range(processes') <=> y \in Range(processes))
            BY <2>2, <2>4, Unlisted
        <3>2. CASE x = q
            BY <1>2, <2>4, <3>1, <3>2
        <3>3. CASE x # q
            <4>1. proc'[x] = proc[x]
                BY <2>2, <3>3 DEF LetsGo
            <4> QED
                BY <1>1, <3>1, <3>3, <4>1, OneOf
        <3> QED
            BY <3>2, <3>3
    <2> QED
        BY <2>2, <2>3, <2>4 DEF LetsGo
<1>8. ASSUME NEW p \in Page, NEW q \in Process, Attaches(p, q)
      PROVE  /\ Launching(proc'[x]) => proc'[x].client
             /\ x \in Range(processes') <=> Made(proc', x) /\ ~Terminated(proc'[x])
    <2>1. CASE Made(proc, x)
        BY <1>1, <1>2, <1>8, <2>1 DEF Attaches
    <2>2. CASE ~Made(proc, x) /\ x = q
        BY <1>8, <2>2 DEF Attaches, Terminated
    <2>3. CASE ~Made(proc, x) /\ x # q
        <3>1. ~Made(proc', x) /\ x \notin Range(processes')
            BY <1>0, <1>8, <2>3 DEF Attaches
        <3>2. ~Launching(proc'[x])
            BY <1>0, <3>1 DEF Launching
        <3> QED
            BY <3>1, <3>2
    <2> QED
        BY <2>1, <2>2, <2>3
<1> QED
    BY <1>3, <1>4, <1>5, <1>6, <1>7, <1>8, Shapes

LEMMA AliveHolds ==
    ASSUME "termination" \notin Requests
    PROVE  Spec => [](LaunchHasClient /\ PoolIsAlive)
<1>1. Init => LaunchHasClient /\ PoolIsAlive
    <2>1. Range(<<>>) = {} /\ IsInjective(<<>>)
        BY EmptySeq DEF Range, IsInjective
    <2> QED
        BY <2>1 DEF Init, LaunchHasClient, PoolIsAlive, Launching, Made, NoProcess
<1>2. ListInv /\ ListInv' /\ (LaunchHasClient /\ PoolIsAlive) /\ [Next]_vars
      => (LaunchHasClient /\ PoolIsAlive)'
    BY AliveStep
<1> QED
    BY <1>1, <1>2, ListHolds, PTL DEF Spec

\* m_processes holds exactly the processes that are launching or running,
\* each once, as disconnectProcess and ensureSharedWebProcess rely on, unless
\* the application switches termination off and on.
THEOREM ListIsAlive ==
    ASSUME "termination" \notin Requests
    PROVE  Spec => []PoolIsAlive
BY AliveHolds, PTL

\* A process that is gone stays gone.
LEMMA GoneForGood ==
    ASSUME ListInv, [Next]_vars, NEW x \in Process, Made(proc, x), Terminated(proc[x])
    PROVE  Terminated(proc'[x])
<1>1. CASE Quiet
    BY <1>1 DEF Quiet, Life
<1>2. ASSUME NEW q \in Process, Disconnects(q)
      PROVE  Terminated(proc'[x])
    BY <1>2 DEF Disconnects
<1>3. ASSUME NEW q \in Process, Warms(q)
      PROVE  Terminated(proc'[x])
    <2>1. proc'[x] = proc[x]
        BY <1>3, OneOf DEF Warms
    <2> QED
        BY <2>1
<1>4. ASSUME NEW p \in Page, Told(p)
      PROVE  Terminated(proc'[x])
    BY <1>4 DEF Told
<1>5. ASSUME NEW p \in Page, Leaving(p)
      PROVE  Terminated(proc'[x])
    BY <1>5 DEF Leaving, LetsGo, Life
<1>6. ASSUME NEW p \in Page, NEW q \in Process, Attaches(p, q)
      PROVE  Terminated(proc'[x])
    BY <1>6 DEF Attaches, Life
<1> QED
    BY <1>1, <1>2, <1>3, <1>4, <1>5, <1>6, Shapes

\* A page that lost its process, or is about to hear so, is attached to a
\* process that is gone.
DetachedInv == LostPageIsDetached /\ ToldWhileValid /\ CrashingAreDetached

LEMMA DetachedStep ==
    ASSUME "terminate" \notin Requests, ListInv, DetachedInv, [Next]_vars
    PROVE  DetachedInv'
<1>0. /\ page \in [Page -> PageState] /\ crashing \subseteq Page
      /\ \A x \in Page : page[x].valid \/ page[x].closed => page[x].made
      /\ \A x \in Page : page[x].made => page[x].process \in Process /\ Made(proc, page[x].process)
    BY DEF ListInv, PoolInv, TypeOK, PagesFit
<1>1. \A x \in Page : page[x].made /\ Terminated(proc[page[x].process])
                         => Terminated(proc'[page[x].process])
    BY <1>0, GoneForGood
<1>2. /\ \A x \in Page : page[x].made /\ ~page[x].valid /\ ~page[x].closed
                            => Terminated(proc[page[x].process])
      /\ \A x \in crashing : page[x].valid
      /\ \A x \in crashing : ~page[x].closed => Terminated(proc[page[x].process])
    BY DEF DetachedInv, LostPageIsDetached, ToldWhileValid, CrashingAreDetached
<1> SUFFICES /\ \A x \in Page : page'[x].made /\ ~page'[x].valid /\ ~page'[x].closed
                                    => Terminated(proc'[page'[x].process])
             /\ \A x \in crashing' : page'[x].valid
             /\ \A x \in crashing' : ~page'[x].closed => Terminated(proc'[page'[x].process])
    BY DEF DetachedInv, LostPageIsDetached, ToldWhileValid, CrashingAreDetached
<1>3. ASSUME UNCHANGED crashing,
             \A x \in Page : /\ page'[x].made = page[x].made /\ page'[x].valid = page[x].valid
                             /\ page'[x].closed = page[x].closed
                             /\ page'[x].process = page[x].process
      PROVE  /\ \A x \in Page : page'[x].made /\ ~page'[x].valid /\ ~page'[x].closed
                                    => Terminated(proc'[page'[x].process])
             /\ \A x \in crashing' : page'[x].valid
             /\ \A x \in crashing' : ~page'[x].closed => Terminated(proc'[page'[x].process])
    BY <1>0, <1>1, <1>2, <1>3
<1>4. CASE Quiet
    BY <1>3, <1>4 DEF Quiet
<1>5. CASE \E q \in Process : Warms(q)
    BY <1>3, <1>5 DEF Warms
<1>6. ASSUME NEW q \in Process, Disconnects(q)
      PROVE  /\ \A x \in Page : page'[x].made /\ ~page'[x].valid /\ ~page'[x].closed
                                    => Terminated(proc'[page'[x].process])
             /\ \A x \in crashing' : page'[x].valid
             /\ \A x \in crashing' : ~page'[x].closed => Terminated(proc'[page'[x].process])
    <2>1. \A x \in proc[q].pages : x \in Page => page[x].made /\ ~page[x].closed /\ page[x].process = q
        BY DEF ListInv, PoolInv, PageMapsAgree
    <2>2. Terminated(proc'[q]) /\ ~Terminated(proc[q])
        BY <1>6 DEF Disconnects
    <2>3. \A x \in crashing' : x \in Page /\ x \in proc[q].pages /\ page'[x] = page[x]
        BY <1>6 DEF Disconnects
    <2>4. ASSUME NEW x \in Page, page'[x].made, ~page'[x].valid, ~page'[x].closed
          PROVE  Terminated(proc'[page'[x].process])
        <3>1. CASE page'[x] = page[x]
            BY <1>1, <1>2, <2>4, <3>1
        <3>2. CASE x \in proc[q].pages /\ page'[x] = Exited(page[x])
            BY <1>0, <2>1, <2>2, <3>2, ExitedFields
        <3> QED
            BY <1>6, <3>1, <3>2 DEF Disconnects
    <2> QED
        BY <1>2, <2>1, <2>2, <2>3, <2>4
<1>7. ASSUME NEW p \in Page, Told(p)
      PROVE  /\ \A x \in Page : page'[x].made /\ ~page'[x].valid /\ ~page'[x].closed
                                    => Terminated(proc'[page'[x].process])
             /\ \A x \in crashing' : page'[x].valid
             /\ \A x \in crashing' : ~page'[x].closed => Terminated(proc'[page'[x].process])
    <2>1. /\ p \in crashing /\ crashing' = crashing \ {p} /\ proc' = proc
          /\ page'[p] = Exited(page[p]) /\ \A x \in Page : x # p => page'[x] = page[x]
        BY <1>0, <1>7 DEF Told
    <2>2. page'[p].closed = page[p].closed /\ page'[p].process = page[p].process
        BY <1>0, <2>1, ExitedFields
    <2> QED
        BY <1>0, <1>2, <2>1, <2>2
<1>8. ASSUME NEW p \in Page, Leaving(p)
      PROVE  /\ \A x \in Page : page'[x].made /\ ~page'[x].valid /\ ~page'[x].closed
                                    => Terminated(proc'[page'[x].process])
             /\ \A x \in crashing' : page'[x].valid
             /\ \A x \in crashing' : ~page'[x].closed => Terminated(proc'[page'[x].process])
    <2>1. crashing' = crashing
        BY <1>8 DEF Leaving
    <2>2. \A x \in Page : /\ page'[x].made = page[x].made /\ page'[x].valid = page[x].valid
                          /\ page'[x].process = page[x].process
                          /\ ~page'[x].closed => ~page[x].closed
        BY <1>0, <1>8 DEF Leaving, PageState
    <2> QED
        BY <1>0, <1>1, <1>2, <2>1, <2>2
<1>9. ASSUME NEW p \in Page, NEW q \in Process, Attaches(p, q)
      PROVE  /\ \A x \in Page : page'[x].made /\ ~page'[x].valid /\ ~page'[x].closed
                                    => Terminated(proc'[page'[x].process])
             /\ \A x \in crashing' : page'[x].valid
             /\ \A x \in crashing' : ~page'[x].closed => Terminated(proc'[page'[x].process])
    <2>1. /\ crashing' = crashing /\ ~page[p].valid /\ page'[p].valid
          /\ \A x \in Page : x # p => page'[x] = page[x]
        BY <1>9 DEF Attaches
    <2>2. p \notin crashing
        BY <1>2, <2>1
    <2> QED
        BY <1>0, <1>1, <1>2, <2>1, <2>2
<1> QED
    BY <1>4, <1>5, <1>6, <1>7, <1>8, <1>9, Shapes

LEMMA DetachedHolds ==
    ASSUME "terminate" \notin Requests
    PROVE  Spec => []DetachedInv
<1>1. Init => DetachedInv
    BY DEF Init, DetachedInv, LostPageIsDetached, ToldWhileValid, CrashingAreDetached
<1>2. ListInv /\ DetachedInv /\ [Next]_vars => DetachedInv'
    BY DetachedStep
<1> QED
    BY <1>1, <1>2, ListHolds, PTL DEF Spec

\* What disconnectProcess, reattachToWebProcess and processDidCrash assert of
\* the pool, the page's process and the page holds whatever crashes, is closed,
\* reattached or warmed up, as long as nobody asks to terminate a process.
THEOREM AssertionsHold ==
    ASSUME "terminate" \notin Requests, "termination" \notin Requests
    PROVE  Spec => []PoolAssertions
<1>1. (LaunchHasClient /\ PoolIsAlive) /\ DetachedInv => PoolAssertions
    BY DEF DetachedInv, PoolAssertions
<1> QED
    BY <1>1, AliveHolds, DetachedHolds, PTL

-----------------------------------------------------------------------------
(* What the child hears                                                    *)

\* One more message.
LEMMA OneMoreMessage ==
    ASSUME NEW h, NEW initialized, NEW u \in Seq(Message), NEW m \in Message,
           Orderly(h, initialized, u), initialized \/ u # <<>>, m.kind # "init",
           m.kind \in {"load", "close"} =>
               /\ Hears(h, u, m.page)
               /\ \A k \in 1..Len(u) : u[k] # Msg("close", m.page)
    PROVE  /\ u \o <<m>> \in Seq(Message) /\ u \o <<m>> # <<>>
           /\ Orderly(h, initialized, u \o <<m>>)
           /\ \A p : Hears(h, u \o <<m>>, p) <=> Hears(h, u, p) \/ m = Msg("create", p)
           /\ \A k \in 1..Len(u \o <<m>>) : (u \o <<m>>)[k] = m \/ \E j \in 1..Len(u) : (u \o <<m>>)[k] = u[j]
<1>1. PICK v : v = u \o <<m>>
    OBVIOUS
<1>2. /\ v \in Seq(Message) /\ v # <<>> /\ Len(v) = Len(u) + 1 /\ Len(u) \in Nat
      /\ v[Len(u) + 1] = m
      /\ \A k \in 1..Len(u) : v[k] = u[k]
    BY <1>1, AppendProperties, AppendIsConcat, LenProperties
<1>3. \A k \in 1..Len(v) : k \in 1..Len(u) \/ k = Len(u) + 1
    BY <1>2
<1>4. \A k \in 1..Len(u) : \A j \in 1..(k - 1) : j \in 1..Len(u)
    BY <1>2
<1>5. 1..((Len(u) + 1) - 1) = 1..Len(u)
    BY <1>2
<1>6. (Len(u) + 1 = 1) <=> u = <<>>
    BY <1>2, EmptySeq
<1>7. Orderly(h, initialized, v)
    <2>1. \A k \in 1..Len(v) : (v[k].kind = "init") <=> (k = 1 /\ ~initialized)
        BY <1>2, <1>3, <1>6 DEF Orderly
    <2>2. ASSUME NEW k \in 1..Len(v), v[k].kind \in {"load", "close"}
          PROVE  /\ v[k].page \in h \/ \E j \in 1..(k - 1) : v[j] = Msg("create", v[k].page)
                 /\ \A j \in 1..(k - 1) : v[j] # Msg("close", v[k].page)
        <3>1. CASE k \in 1..Len(u)
            BY <1>2, <1>4, <2>2, <3>1 DEF Orderly
        <3>2. CASE k = Len(u) + 1
            <4>1. /\ \A j \in 1..Len(u) : u[j] # Msg("close", m.page)
                  /\ m.page \in h \/ \E j \in 1..Len(u) : u[j] = Msg("create", m.page)
                BY <1>2, <2>2, <3>2 DEF Hears
            <4> QED
                BY <1>2, <1>5, <3>2, <4>1
        <3> QED
            BY <1>3, <3>1, <3>2
    <2> QED
        BY <2>1, <2>2 DEF Orderly
<1>8. Len(u) + 1 \in 1..Len(v) /\ \A k \in 1..Len(u) : k \in 1..Len(v)
    BY <1>2
<1>9. \A p : Hears(h, v, p) <=> Hears(h, u, p) \/ m = Msg("create", p)
    BY <1>2, <1>3, <1>8 DEF Hears
<1>11. \A k \in 1..Len(v) : v[k] = m \/ \E j \in 1..Len(u) : v[k] = u[j]
    BY <1>2, <1>3
<1> QED
    BY <1>1, <1>2, <1>7, <1>9, <1>11

\* What the child holds when it has handled m.
HeldAfter(h, m) ==
    CASE m.kind = "create" -> h \cup {m.page} [] m.kind = "close" -> h \ {m.page} [] OTHER -> h

\* One message less: a child that holds h takes m from u, then holds g and will
\* hear v.
Shorter(h, initialized, u, m, v, g) ==
    /\ initialized = (m.kind # "init")
    /\ m.kind \in {"load", "close"} => m.page \in h
    /\ Orderly(g, TRUE, v)
    /\ \A p : Hears(g, v, p) => Hears(h, u, p)
    /\ \A p : Hears(h, u, p) /\ m # Msg("close", p) => Hears(g, v, p)
    /\ \A k \in 1..Len(v) : \E j \in 1..Len(u) : v[k] = u[j]

LEMMA OneMessageLess ==
    ASSUME NEW h, NEW initialized \in BOOLEAN, NEW u \in Seq(Message), u # <<>>,
           Orderly(h, initialized, u)
    PROVE  Shorter(h, initialized, u, u[1], Tail(u), HeldAfter(h, u[1]))
<1>1. PICK m, v, g : m = u[1] /\ v = Tail(u) /\ g = HeldAfter(h, m)
    OBVIOUS
<1>2. /\ v \in Seq(Message) /\ Len(v) = Len(u) - 1 /\ Len(u) \in Nat \ {0}
      /\ \A k \in 1..Len(v) : v[k] = u[k + 1]
    BY <1>1, HeadTailProperties, LenProperties, EmptySeq
<1>3. 1 \in 1..Len(u) /\ \A k \in 1..Len(v) : k + 1 \in 1..Len(u) /\ k + 1 # 1
    BY <1>2
<1>4. \A k \in 1..Len(u) : k = 1 \/ (k - 1 \in 1..Len(v) /\ (k - 1) + 1 = k)
    BY <1>2
<1>5. m \in Message /\ \A k \in 1..Len(u) : u[k] \in Message
    BY <1>1, <1>3, LenProperties
<1>6. initialized = (m.kind # "init")
    BY <1>1, <1>3 DEF Orderly
<1>7. m.kind \in {"load", "close"} => m.page \in h
    <2>1. \A j \in 1..(1 - 1) : FALSE
        OBVIOUS
    <2> QED
        BY <1>1, <1>3, <2>1 DEF Orderly
<1>8. \A p : p \in g <=> (p \in h /\ ~(m.kind = "close" /\ m.page = p)) \/ (m.kind = "create" /\ m.page = p)
    BY <1>1 DEF HeldAfter
<1>9. \A p : (m = Msg("create", p) <=> m.kind = "create" /\ m.page = p)
             /\ (m = Msg("close", p) <=> m.kind = "close" /\ m.page = p)
    BY <1>5 DEF Msg, Message
<1>10. Orderly(g, TRUE, v)
    <2>1. \A k \in 1..Len(v) : v[k].kind # "init"
        BY <1>2, <1>3 DEF Orderly
    <2>2. ASSUME NEW k \in 1..Len(v), v[k].kind \in {"load", "close"}
          PROVE  /\ v[k].page \in g \/ \E j \in 1..(k - 1) : v[j] = Msg("create", v[k].page)
                 /\ \A j \in 1..(k - 1) : v[j] # Msg("close", v[k].page)
        <3>1. PICK p : p = v[k].page
            OBVIOUS
        <3>2. /\ p \in h \/ \E j \in 1..((k + 1) - 1) : u[j] = Msg("create", p)
              /\ \A j \in 1..((k + 1) - 1) : u[j] # Msg("close", p)
            BY <1>2, <1>3, <2>2, <3>1 DEF Orderly
        <3>3. /\ 1 \in 1..((k + 1) - 1)
              /\ \A j \in 1..(k - 1) : j + 1 \in 1..((k + 1) - 1) /\ j \in 1..Len(v)
              /\ \A j \in 1..((k + 1) - 1) : j = 1 \/ (j - 1 \in 1..(k - 1) /\ (j - 1) + 1 = j)
            BY <1>2
        <3>4. m # Msg("close", p) /\ \A j \in 1..(k - 1) : v[j] # Msg("close", p)
            BY <1>1, <1>2, <3>2, <3>3
        <3>5. p \in g \/ \E j \in 1..(k - 1) : v[j] = Msg("create", p)
            <4>1. CASE p \in h
                BY <1>8, <1>9, <3>4, <4>1
            <4>2. ASSUME NEW j \in 1..((k + 1) - 1), u[j] = Msg("create", p)
                  PROVE  p \in g \/ \E i \in 1..(k - 1) : v[i] = Msg("create", p)
                <5>1. CASE j = 1
                    BY <1>1, <1>8, <1>9, <4>2, <5>1
                <5>2. CASE j - 1 \in 1..(k - 1) /\ (j - 1) + 1 = j
                    <6>1. PICK i : i = j - 1
                        OBVIOUS
                    <6>2. i \in 1..(k - 1) /\ i + 1 = j /\ i \in 1..Len(v)
                        BY <3>3, <5>2, <6>1
                    <6>3. v[i] = u[j]
                        BY <1>2, <6>2
                    <6> QED
                        BY <4>2, <6>2, <6>3
                <5> QED
                    BY <3>3, <5>1, <5>2
            <4> QED
                BY <3>2, <4>1, <4>2
        <3> QED
            BY <3>1, <3>4, <3>5
    <2> QED
        BY <2>1, <2>2 DEF Orderly
<1>11. \A k \in 1..Len(v) : \E j \in 1..Len(u) : v[k] = u[j]
    BY <1>2, <1>3
<1>12. \A p : Hears(g, v, p) => Hears(h, u, p)
    BY <1>1, <1>3, <1>8, <1>9, <1>11 DEF Hears
<1>13. ASSUME NEW p, Hears(h, u, p), m # Msg("close", p)
       PROVE  Hears(g, v, p)
    <2>1. CASE p \in h
        BY <1>8, <1>9, <1>13, <2>1 DEF Hears
    <2>2. ASSUME NEW k \in 1..Len(u), u[k] = Msg("create", p)
          PROVE  Hears(g, v, p)
        <3>1. CASE k = 1
            BY <1>1, <1>8, <1>9, <2>2, <3>1 DEF Hears
        <3>2. CASE k - 1 \in 1..Len(v) /\ (k - 1) + 1 = k
            BY <1>2, <2>2, <3>2 DEF Hears
        <3> QED
            BY <1>4, <3>1, <3>2
    <2> QED
        BY <1>13, <2>1, <2>2 DEF Hears
<1> QED
    BY <1>1, <1>6, <1>7, <1>10, <1>11, <1>12, <1>13 DEF Shorter

\* What the child is after the message.
LEMMA HandledHeld ==
    ASSUME NEW r \in ProcessState, NEW m
    PROVE  LET s == Handled(Taken(r), m)
           IN  /\ s.held = HeldAfter(r.held, m)
               /\ s.initialized = IF m.kind = "init" THEN TRUE ELSE r.initialized
<1>1. PICK t : t = Taken(r)
    OBVIOUS
<1>2. /\ t.held = r.held /\ t.initialized = r.initialized
      /\ DOMAIN t = DOMAIN r /\ t = [r EXCEPT !.wire = Tail(r.wire)]
    BY <1>1 DEF Taken, ProcessState
<1>3. PICK s : s = Handled(t, m)
    OBVIOUS
<1>4. CASE m.kind = "init"
    <2>1. s = [t EXCEPT !.initialized = TRUE]
        BY <1>3, <1>4 DEF Handled
    <2>2. s.held = r.held /\ s.initialized = TRUE
        BY <1>2, <2>1 DEF ProcessState
    <2> QED
        BY <1>1, <1>3, <1>4, <2>2 DEF HeldAfter
<1>5. CASE m.kind = "create"
    <2>1. s = HeldPage(t, m.page)
        BY <1>3, <1>5 DEF Handled
    <2>2. s.held = r.held \cup {m.page} /\ s.initialized = r.initialized
        <3>1. CASE m.page \in t.held
            BY <1>2, <2>1, <3>1 DEF HeldPage
        <3>2. CASE m.page \notin t.held
            <4>1. s = [t EXCEPT !.held = @ \cup {m.page}, !.counter = @ + 1, !.timer = FALSE]
                BY <2>1, <3>2 DEF HeldPage
            <4> QED
                BY <1>2, <4>1 DEF ProcessState
        <3> QED
            BY <3>1, <3>2
    <2> QED
        BY <1>1, <1>3, <1>5, <2>2 DEF HeldAfter
<1>6. CASE m.kind = "close" /\ m.page \in t.held
    <2>1. PICK u : u = [t EXCEPT !.held = @ \ {m.page}, !.counter = @ - 1]
        OBVIOUS
    <2>2. s = IF u.counter # 0 THEN u
              ELSE IF Shared THEN [u EXCEPT !.timer = TRUE] ELSE [u EXCEPT !.asks = TRUE]
        BY <1>3, <1>6, <2>1 DEF Handled, ReleasedPage
    <2>3. u.held = r.held \ {m.page} /\ u.initialized = r.initialized
        BY <1>2, <2>1 DEF ProcessState
    <2>4. s.held = u.held /\ s.initialized = u.initialized
        BY <1>2, <2>1, <2>2 DEF ProcessState
    <2> QED
        BY <1>1, <1>3, <1>6, <2>3, <2>4 DEF HeldAfter
<1>7. CASE /\ ~(m.kind = "init") /\ ~(m.kind = "create")
           /\ ~(m.kind = "close" /\ m.page \in t.held)
    <2>1. s = t
        BY <1>3, <1>7 DEF Handled
    <2>2. HeldAfter(r.held, m) = r.held
        BY <1>2, <1>7 DEF HeldAfter
    <2> QED
        BY <1>1, <1>2, <1>3, <1>7, <2>1, <2>2
<1> QED
    BY <1>4, <1>5, <1>6, <1>7

\* A page stays made and stays closed.
LEMMA ClosedForGood ==
    ASSUME ListInv, [Next]_vars
    PROVE  \A x \in Page : /\ page[x].closed => page'[x].closed
                           /\ page[x].made => page'[x].made
<1>0. page \in [Page -> PageState]
    BY OneOf
<1>1. CASE Quiet
    BY <1>1 DEF Quiet
<1>2. ASSUME NEW q \in Process, Disconnects(q)
      PROVE  \A x \in Page : /\ page[x].closed => page'[x].closed
                             /\ page[x].made => page'[x].made
    BY <1>0, <1>2, ExitedFields DEF Disconnects
<1>3. ASSUME NEW q \in Process, Warms(q)
      PROVE  page' = page
    BY <1>3 DEF Warms
<1>4. ASSUME NEW p \in Page, Told(p)
      PROVE  \A x \in Page : /\ page[x].closed => page'[x].closed
                             /\ page[x].made => page'[x].made
    BY <1>0, <1>4, ExitedFields DEF Told
<1>5. ASSUME NEW p \in Page, Leaving(p)
      PROVE  \A x \in Page : /\ page[x].closed => page'[x].closed
                             /\ page[x].made => page'[x].made
    BY <1>0, <1>5 DEF Leaving, PageState
<1>6. ASSUME NEW p \in Page, NEW q \in Process, Attaches(p, q)
      PROVE  \A x \in Page : /\ page[x].closed => page'[x].closed
                             /\ page[x].made => page'[x].made
    BY <1>6 DEF Attaches
<1> QED
    BY <1>1, <1>2, <1>3, <1>4, <1>5, <1>6, Shapes

\* The process a message is sent to, which may be new: it is as much in order
\* as all others.
LEMMA AddresseeFit ==
    ASSUME ListInv, MessageInv, NEW q \in Process, NEW c, c = CreatedProcess(proc[q])
    PROVE  /\ Fit(c) /\ c.pages = proc[q].pages /\ Queue(c) \in Seq(Message)
           /\ MessagesFit(c, page) /\ (c.initialized \/ Queue(c) # <<>>)
           /\ Made(proc, q) => c = proc[q]
<1>1. /\ Fit(proc[q]) /\ MessagesFit(proc[q], page)
      /\ Made(proc, q) <=> proc[q].launch # "none"
    BY OneOf DEF MessageInv, Made
<1>2. /\ Fit(c) /\ c.launch # "none" /\ c.pages = proc[q].pages
      /\ proc[q].launch # "none" => c = proc[q]
      /\ proc[q].launch = "none" => proc[q] = NoProcess /\ c = Connected(NoProcess)
    BY <1>1, CreatedFit
<1>3. Queue(c) \in Seq(Message)
    BY <1>2, QueueType DEF Fit
<1>4. CASE Made(proc, q)
    BY <1>1, <1>2, <1>3, <1>4 DEF MessagesFit
<1>5. CASE ~Made(proc, q)
    <2>1. /\ c.held = {} /\ ~c.initialized /\ Queue(c) = <<Msg("init", None)>> /\ c.pages = {}
        BY <1>1, <1>2, <1>5, ConnectedFit
    <2>2. PICK u : u = Queue(c)
        OBVIOUS
    <2>3. Len(u) = 1 /\ u[1] = Msg("init", None) /\ u # <<>>
        BY <2>1, <2>2
    <2>4. u[1].kind = "init" /\ \A k \in 1..Len(u) : k = 1
        BY <2>3 DEF Msg
    <2>5. \A p : u[1] # Msg("create", p)
        BY <2>3 DEF Msg
    <2>6. Orderly(c.held, c.initialized, u) /\ Over(u, page)
        BY <2>1, <2>4 DEF Orderly, Over
    <2>7. \A p : ~Hears(c.held, u, p)
        BY <2>1, <2>4, <2>5 DEF Hears
    <2> QED
        BY <1>2, <1>3, <1>5, <2>1, <2>2, <2>3, <2>6, <2>7 DEF MessagesFit
<1> QED
    BY <1>4, <1>5

\* A child that holds a page more does not mind.
LEMMA HoldsMore ==
    ASSUME NEW h, NEW g, h \subseteq g, NEW i, NEW u
    PROVE  /\ Orderly(h, i, u) => Orderly(g, i, u)
           /\ \A p : Hears(h, u, p) => Hears(g, u, p)
BY DEF Orderly, Hears

\* A child that is told nothing.
LEMMA MutedFit ==
    ASSUME ListInv, [Next]_vars, MessageInv, NEW x \in Process,
           Knows(proc[x], proc'[x]), Made(proc', x) <=> Made(proc, x),
           proc'[x].pages \subseteq proc[x].pages
    PROVE  MessagesFit(proc'[x], page')
<1>1. Fit(proc[x]) /\ MessagesFit(proc[x], page)
    BY OneOf DEF MessageInv
<1>2. /\ proc[x].held \subseteq proc'[x].held /\ proc'[x].initialized = proc[x].initialized
      /\ Queue(proc'[x]) = Queue(proc[x])
    BY DEF Knows
<1>3. PICK u : u = Queue(proc[x])
    OBVIOUS
<1>4. u \in Seq(Message)
    BY <1>1, <1>3, QueueType DEF Fit
<1>5. Over(u, page')
    <2>1. ASSUME NEW k \in 1..Len(u), u[k].kind = "close"
          PROVE  page'[u[k].page].closed
        <3>1. u[k] \in Message
            BY <1>4, LenProperties
        <3>2. u[k].page \in Page
            BY <2>1, <3>1 DEF Message
        <3>3. page[u[k].page].closed
            BY <1>1, <1>3, <2>1 DEF MessagesFit, Over
        <3> QED
            BY <3>2, <3>3, ClosedForGood
    <2> QED
        BY <2>1 DEF Over
<1>6. ASSUME ~Terminated(proc'[x]), NEW p \in proc'[x].pages
      PROVE  Hears(proc[x].held, u, p)
    <2>1. p \in proc[x].pages
        BY <1>6
    <2>2. Made(proc, x)
        BY <1>1, <2>1 DEF Made, Fit, NoProcess
    <2>3. ~Terminated(proc[x])
        BY <1>6, <2>2, GoneForGood
    <2> QED
        BY <1>1, <1>3, <2>1, <2>3 DEF MessagesFit
<1>7. proc'[x].launch # "none" => proc[x].launch # "none"
    BY DEF Made
<1>8. /\ Orderly(proc'[x].held, proc[x].initialized, u)
      /\ \A p : Hears(proc[x].held, u, p) => Hears(proc'[x].held, u, p)
    BY <1>1, <1>2, <1>3, HoldsMore DEF MessagesFit
<1> QED
    BY <1>1, <1>2, <1>3, <1>5, <1>6, <1>7, <1>8 DEF MessagesFit

\* A step that speaks to one child keeps the messages in order.
LEMMA UtteredFit ==
    ASSUME ListInv, [Next]_vars, MessageInv, NEW q, NEW ms, Utters(q, ms),
           \A x \in Process : x # q => /\ Made(proc', x) <=> Made(proc, x)
                                       /\ proc'[x].pages \subseteq proc[x].pages,
           NEW c, c = CreatedProcess(proc[q]),
           ~Terminated(c) =>
               /\ Orderly(c.held, c.initialized, Queue(c) \o ms) /\ Over(Queue(c) \o ms, page')
               /\ Queue(c) \o ms # <<>> \/ c.initialized
               /\ \A p \in proc'[q].pages : Hears(c.held, Queue(c) \o ms, p)
    PROVE  MessageInv'
<1>1. q \in Process /\ \A x \in Process : x # q => MessagesFit(proc'[x], page')
    BY MutedFit DEF Utters
<1>2. /\ Fit(c) /\ Queue(c) \in Seq(Message) /\ MessagesFit(c, page) /\ (c.initialized \/ Queue(c) # <<>>)
    BY <1>1, AddresseeFit
<1>3. /\ c.held \subseteq proc'[q].held /\ proc'[q].initialized = c.initialized
      /\ \/ ~Terminated(c) /\ Queue(proc'[q]) = Queue(c) \o ms
         \/ Terminated(proc'[q]) /\ Queue(proc'[q]) = Queue(c)
    BY DEF Utters, Speaks
<1>4. MessagesFit(proc'[q], page')
    <2>1. CASE ~Terminated(c) /\ Queue(proc'[q]) = Queue(c) \o ms
        <3>1. PICK u : u = Queue(c) \o ms
            OBVIOUS
        <3>2. /\ Orderly(proc'[q].held, c.initialized, u)
              /\ \A p \in proc'[q].pages : Hears(proc'[q].held, u, p)
            BY <1>3, <2>1, <3>1, HoldsMore
        <3> QED
            BY <1>3, <2>1, <3>1, <3>2 DEF MessagesFit
    <2>2. CASE Terminated(proc'[q]) /\ Queue(proc'[q]) = Queue(c)
        <3>1. Over(Queue(c), page')
            <4>1. PICK u : u = Queue(c)
                OBVIOUS
            <4>2. \A k \in 1..Len(u) : u[k] \in Message
                BY <1>2, <4>1, LenProperties
            <4>3. \A k \in 1..Len(u) : u[k].kind = "close" => u[k].page \in Page
                BY <4>2 DEF Message
            <4> QED
                BY <1>2, <4>1, <4>3, ClosedForGood DEF MessagesFit, Over
        <3>2. Orderly(proc'[q].held, c.initialized, Queue(c))
            BY <1>2, <1>3, HoldsMore DEF MessagesFit
        <3> QED
            BY <1>2, <1>3, <2>2, <3>1, <3>2 DEF MessagesFit
    <2> QED
        BY <1>3, <2>1, <2>2
<1> QED
    BY <1>1, <1>4 DEF MessageInv

\* What a step does to the children: nothing, or one hears something.
Muted ==
    \A x \in Process : /\ SameChild(proc[x], proc'[x]) /\ (Made(proc', x) <=> Made(proc, x))
                       /\ proc'[x].pages \subseteq proc[x].pages

LEMMA SameIsKnown ==
    ASSUME NEW r, NEW t, SameChild(r, t)
    PROVE  Knows(r, t)
BY DEF SameChild, Knows

LEMMA QuietIsMuted ==
    ASSUME Quiet, \A x \in Process : SameChild(proc[x], proc'[x])
    PROVE  Muted
BY DEF Quiet, Life, Made, Muted

LEMMA DisconnectsIsMuted ==
    ASSUME NEW q, Disconnects(q)
    PROVE  Muted
BY DEF Disconnects, Made, Muted, SameChild

LEMMA ToldIsMuted ==
    ASSUME NEW p, Told(p)
    PROVE  Muted
BY DEF Told, Muted, SameChild

\* A new process is sent nothing but its first message.
LEMMA WarmsUtters ==
    ASSUME ListInv, NEW q \in Process, Warms(q)
    PROVE  Utters(q, <<>>)
<1>1. PICK c : c = CreatedProcess(proc[q])
    OBVIOUS
<1>2. /\ Fit(proc[q]) /\ proc[q].launch = "none" /\ proc \in [Process -> ProcessState]
    BY OneOf DEF Warms, Made
<1>3. c = Connected(NoProcess) /\ Fit(c) /\ Launching(c)
    BY <1>1, <1>2, CreatedFit, ConnectedFit
<1>4. proc'[q] = c /\ \A x \in Process : x # q => proc'[x] = proc[x]
    BY <1>2, <1>3 DEF Warms
<1>5. Queue(c) \o <<>> = Queue(c) /\ ~Terminated(c)
    BY <1>3, QueueType, ConcatEmptySeq DEF Fit, Terminated
<1> QED
    BY <1>1, <1>4, <1>5 DEF Utters, Speaks, Knows

\* Every step is muted, lets a child handle a message, or speaks.
LEMMA Talk ==
    ASSUME ListInv, [Next]_vars
    PROVE  \/ Muted
           \/ \E q \in Process : Receive(q)
           \/ \E q \in Process : Warms(q)
           \/ \E p \in Page : LoadRequest(p) \/ ClosePage(p) \/ Reattach(p)
           \/ \E p \in Page, related \in Page \cup {None} :
                 CreateWebPage(p, related) \/ \E q \in Process : WindowOpen(q, p, related)
<1>1. ASSUME NEW q \in Process, LaunchProcess(q)
      PROVE  Muted
    BY <1>1, LaunchProcessShape, QuietIsMuted
<1>2. ASSUME NEW q \in Process, DidFinishLaunching(q)
      PROVE  Muted
    BY <1>2, DidFinishLaunchingShape, QuietIsMuted
<1>3. ASSUME NEW q \in Process, DidClose(q) \/ DidReceiveInvalidMessage(q)
      PROVE  Muted
    BY <1>3, DidCloseShape, DisconnectsIsMuted
<1>4. ASSUME NEW q \in Process, ShouldTerminate(q)
      PROVE  Muted
    BY <1>4, ShouldTerminateShape, ChildActionsShape, QuietIsMuted, DisconnectsIsMuted
<1>5. ASSUME NEW q \in Process, ChildDidClose(q) \/ ChildCrashes(q) \/ TerminationTimerFired(q)
      PROVE  Muted
    BY <1>5, ChildActionsShape, QuietIsMuted
<1>6. ASSUME NEW p \in Page, TerminateProcess(p) \/ ProcessDidCrash(p)
      PROVE  Muted
    BY <1>6, TerminateProcessShape, ProcessDidCrashShape, DisconnectsIsMuted, ToldIsMuted
<1>7. ASSUME DisableProcessTermination \/ EnableProcessTermination
      PROVE  Muted
    BY <1>7, TerminationShape, QuietIsMuted
<1>8. ASSUME UNCHANGED vars
      PROVE  Muted
    BY <1>8 DEF vars, Muted, SameChild
<1>9. ASSUME WarmInitialProcess
      PROVE  \E q \in Process : Warms(q)
    BY <1>9, WarmInitialProcessShape
<1> QED
    BY <1>1, <1>2, <1>3, <1>4, <1>5, <1>6, <1>7, <1>8, <1>9 DEF Next, Steps

\* A page that is open is one of its process's, whose child will not be told
\* that it is closed.
LEMMA OpenPage ==
    ASSUME ListInv, MessageInv, NEW p \in Page, page[p].made, ~page[p].closed,
           NEW q, q = page[p].process
    PROVE  /\ q \in Process /\ Made(proc, q) /\ p \in proc[q].pages
           /\ ~Terminated(proc[q]) => Hears(proc[q].held, Queue(proc[q]), p)
BY DEF ListInv, PoolInv, PageMapsAgree, PagesFit, MessageInv, MessagesFit

LEMMA NotClosed ==
    ASSUME NEW u, NEW pg, Over(u, pg), NEW p, ~pg[p].closed
    PROVE  \A k \in 1..Len(u) : u[k] # Msg("close", p)
BY DEF Over, Msg

\* One more message whose page was not closed before.
LEMMA OverAlso ==
    ASSUME NEW u \in Seq(Message), NEW v \in Seq(Message), NEW m, Over(u, page),
           \A x \in Page : page[x].closed => page'[x].closed,
           m.kind = "close" => page'[m.page].closed,
           \A k \in 1..Len(v) : v[k] = m \/ \E j \in 1..Len(u) : v[k] = u[j]
    PROVE  Over(v, page')
<1>1. \A j \in 1..Len(u) : u[j] \in Message
    BY LenProperties
<1>2. \A j \in 1..Len(u) : u[j].kind = "close" => page'[u[j].page].closed
    BY <1>1 DEF Over, Message
<1> QED
    BY <1>2 DEF Over

\* Asking something of an open page.
LEMMA AskStep ==
    ASSUME ListInv, [Next]_vars, MessageInv, NEW p \in Page, page[p].made, ~page[p].closed,
           NEW m, m = Msg("load", p) \/ (m = Msg("close", p) /\ page'[p].closed),
           Utters(page[p].process, <<m>>),
           \A x \in Process : /\ Made(proc', x) <=> Made(proc, x)
                              /\ proc'[x].pages \subseteq proc[x].pages
    PROVE  MessageInv'
<1>1. PICK q : q = page[p].process
    OBVIOUS
<1>2. q \in Process /\ Made(proc, q) /\ (~Terminated(proc[q]) => Hears(proc[q].held, Queue(proc[q]), p))
    BY <1>1, OpenPage
<1>3. PICK c : c = CreatedProcess(proc[q])
    OBVIOUS
<1>4. /\ c = proc[q] /\ Queue(c) \in Seq(Message) /\ MessagesFit(c, page)
      /\ c.initialized \/ Queue(c) # <<>>
    BY <1>2, <1>3, AddresseeFit
<1>5. m \in Message /\ m.page = p /\ m.kind \in {"load", "close"} /\ (m.kind = "close" => page'[p].closed)
    BY DEF Msg, Message
<1>6. \A k \in 1..Len(Queue(c)) : Queue(c)[k] # Msg("close", p)
    BY <1>4, NotClosed DEF MessagesFit
<1>7. ASSUME ~Terminated(c)
      PROVE  /\ Orderly(c.held, c.initialized, Queue(c) \o <<m>>) /\ Over(Queue(c) \o <<m>>, page')
             /\ Queue(c) \o <<m>> # <<>>
             /\ \A x \in proc'[q].pages : Hears(c.held, Queue(c) \o <<m>>, x)
    <2>1. Orderly(c.held, c.initialized, Queue(c)) /\ Over(Queue(c), page)
        BY <1>4 DEF MessagesFit
    <2>2. m.kind # "init" /\ Hears(c.held, Queue(c), m.page)
        BY <1>2, <1>4, <1>5, <1>7
    <2>3. /\ Queue(c) \o <<m>> \in Seq(Message) /\ Queue(c) \o <<m>> # <<>>
          /\ Orderly(c.held, c.initialized, Queue(c) \o <<m>>)
          /\ \A x : Hears(c.held, Queue(c) \o <<m>>, x) <=> Hears(c.held, Queue(c), x) \/ m = Msg("create", x)
          /\ \A k \in 1..Len(Queue(c) \o <<m>>) :
                (Queue(c) \o <<m>>)[k] = m \/ \E j \in 1..Len(Queue(c)) : (Queue(c) \o <<m>>)[k] = Queue(c)[j]
        BY <1>4, <1>5, <1>6, <2>1, <2>2, OneMoreMessage
    <2>4. Over(Queue(c) \o <<m>>, page')
        <3>1. PICK u, v : u = Queue(c) /\ v = Queue(c) \o <<m>>
            OBVIOUS
        <3>2. /\ u \in Seq(Message) /\ v \in Seq(Message) /\ Over(u, page)
              /\ \A k \in 1..Len(v) : v[k] = m \/ \E j \in 1..Len(u) : v[k] = u[j]
            BY <1>4, <2>1, <2>3, <3>1
        <3>3. /\ \A x \in Page : page[x].closed => page'[x].closed
              /\ m.kind = "close" => page'[m.page].closed
            BY <1>5, ClosedForGood
        <3>4. Over(v, page')
            BY <3>2, <3>3, OverAlso
        <3> QED
            BY <3>1, <3>4
    <2>5. \A x \in proc'[q].pages : Hears(c.held, Queue(c), x)
        BY <1>2, <1>4, <1>7 DEF MessagesFit
    <2> QED
        BY <2>3, <2>4, <2>5
<1> QED
    BY <1>1, <1>2, <1>3, <1>7, UtteredFit

LEMMA OneThenOther ==
    ASSUME NEW S, NEW x \in S, NEW y \in S
    PROVE  <<x>> \o <<y>> = <<x, y>>
<1>1. PICK a, b, c : a = <<x>> /\ b = <<y>> /\ c = <<x, y>>
    OBVIOUS
<1>2. /\ a \in Seq(S) /\ Len(a) = 1 /\ a[1] = x /\ b \in Seq(S) /\ Len(b) = 1 /\ b[1] = y
      /\ c \in Seq(S) /\ Len(c) = 2 /\ c[1] = x /\ c[2] = y
    BY <1>1
<1>3. a \o b \in Seq(S) /\ Len(a \o b) = 2 /\ (a \o b)[1] = x /\ (a \o b)[2] = y
    BY <1>2, ConcatProperties
<1>4. \A i \in 1..2 : i = 1 \/ i = 2
    OBVIOUS
<1>5. a \o b = c
    BY <1>2, <1>3, <1>4, SeqEqual
<1> QED
    BY <1>1, <1>5

\* A page is created, and loaded if it was reattached, behind the messages u.
LEMMA Greeting ==
    ASSUME NEW h, NEW initialized, NEW u \in Seq(Message), Orderly(h, initialized, u),
           initialized \/ u # <<>>, NEW p \in Page,
           \A k \in 1..Len(u) : u[k] # Msg("close", p),
           NEW ms, ms = <<Msg("create", p)>> \/ ms = <<Msg("create", p), Msg("load", p)>>
    PROVE  /\ u \o ms # <<>> /\ Orderly(h, initialized, u \o ms)
           /\ \A x : Hears(h, u \o ms, x) <=> Hears(h, u, x) \/ x = p
           /\ \A k \in 1..Len(u \o ms) :
                 (u \o ms)[k].kind = "close" => \E j \in 1..Len(u) : (u \o ms)[k] = u[j]
<1>1. PICK a, b : a = Msg("create", p) /\ b = Msg("load", p)
    OBVIOUS
<1>2. /\ a \in Message /\ a.kind = "create" /\ a.page = p
      /\ b \in Message /\ b.kind = "load" /\ b.page = p
      /\ \A x : (a = Msg("create", x) <=> x = p) /\ b # Msg("create", x)
      /\ a # Msg("close", p)
    BY <1>1 DEF Msg, Message
<1>3. PICK v : v = u \o <<a>>
    OBVIOUS
<1>4. /\ v \in Seq(Message) /\ v # <<>> /\ Orderly(h, initialized, v)
      /\ \A x : Hears(h, v, x) <=> Hears(h, u, x) \/ a = Msg("create", x)
      /\ \A k \in 1..Len(v) : v[k] = a \/ \E j \in 1..Len(u) : v[k] = u[j]
    BY <1>2, <1>3, OneMoreMessage
<1>5. CASE ms = <<a>>
    BY <1>2, <1>3, <1>4, <1>5
<1>6. CASE ms = <<a, b>>
    <2>1. PICK w : w = v \o <<b>>
        OBVIOUS
    <2>2. u \o ms = w
        <3>1. <<a>> \in Seq(Message) /\ <<b>> \in Seq(Message) /\ <<a>> \o <<b>> = <<a, b>>
            BY <1>2, OneThenOther
        <3>2. (u \o <<a>>) \o <<b>> = u \o (<<a>> \o <<b>>)
            BY <3>1, ConcatAssociative
        <3> QED
            BY <1>3, <1>6, <2>1, <3>1, <3>2
    <2>3. Hears(h, v, p) /\ \A k \in 1..Len(v) : v[k] # Msg("close", p)
        BY <1>2, <1>4
    <2>4. /\ w # <<>> /\ Orderly(h, initialized, w)
          /\ \A x : Hears(h, w, x) <=> Hears(h, v, x) \/ b = Msg("create", x)
          /\ \A k \in 1..Len(w) : w[k] = b \/ \E j \in 1..Len(v) : w[k] = v[j]
        <3>1. /\ v \in Seq(Message) /\ b \in Message /\ Orderly(h, initialized, v) /\ v # <<>>
              /\ b.kind # "init" /\ Hears(h, v, b.page)
              /\ \A k \in 1..Len(v) : v[k] # Msg("close", b.page)
            BY <1>2, <1>4, <2>3
        <3>2. /\ v \o <<b>> # <<>> /\ Orderly(h, initialized, v \o <<b>>)
              /\ \A x : Hears(h, v \o <<b>>, x) <=> Hears(h, v, x) \/ b = Msg("create", x)
              /\ \A k \in 1..Len(v \o <<b>>) :
                    (v \o <<b>>)[k] = b \/ \E j \in 1..Len(v) : (v \o <<b>>)[k] = v[j]
            BY <1>2, <3>1, OneMoreMessage
        <3> QED
            BY <2>1, <3>2, Zenon
    <2> QED
        BY <1>2, <1>4, <2>2, <2>4
<1> QED
    BY <1>1, <1>5, <1>6

\* Attaching a page keeps the messages in order.
LEMMA AttachStep ==
    ASSUME ListInv, [Next]_vars, MessageInv, NEW p \in Page, NEW q \in Process, Attaches(p, q),
           NEW ms, ms = <<Msg("create", p)>> \/ ms = <<Msg("create", p), Msg("load", p)>>,
           Utters(q, ms)
    PROVE  MessageInv'
<1>1. PICK c : c = CreatedProcess(proc[q])
    OBVIOUS
<1>2. /\ c.pages = proc[q].pages /\ Queue(c) \in Seq(Message) /\ MessagesFit(c, page)
      /\ c.initialized \/ Queue(c) # <<>>
    BY <1>1, AddresseeFit
<1>3. PICK u : u = Queue(c)
    OBVIOUS
<1>4. /\ u \in Seq(Message) /\ Orderly(c.held, c.initialized, u) /\ Over(u, page)
      /\ c.initialized \/ u # <<>>
    BY <1>2, <1>3 DEF MessagesFit
<1>5. ~page[p].closed
    BY DEF Attaches
<1>6. /\ u \o ms # <<>> /\ Orderly(c.held, c.initialized, u \o ms)
      /\ \A x : Hears(c.held, u \o ms, x) <=> Hears(c.held, u, x) \/ x = p
      /\ \A k \in 1..Len(u \o ms) :
            (u \o ms)[k].kind = "close" => \E j \in 1..Len(u) : (u \o ms)[k] = u[j]
    BY <1>4, <1>5, NotClosed, Greeting
<1>7. Over(u \o ms, page')
    <2>1. PICK v : v = u \o ms
        OBVIOUS
    <2>2. \A k \in 1..Len(v) : v[k].kind = "close" => \E j \in 1..Len(u) : v[k] = u[j]
        BY <1>6, <2>1
    <2>3. \A j \in 1..Len(u) : u[j] \in Message
        BY <1>4, LenProperties
    <2>4. \A j \in 1..Len(u) : u[j].kind = "close" => page'[u[j].page].closed
        BY <1>4, <2>3, ClosedForGood DEF Over, Message
    <2>5. Over(v, page')
        BY <2>2, <2>4 DEF Over
    <2> QED
        BY <2>1, <2>5
<1>8. ASSUME ~Terminated(c)
      PROVE  \A x \in proc'[q].pages : Hears(c.held, u \o ms, x)
    <2>1. \A x \in c.pages : Hears(c.held, u, x)
        BY <1>2, <1>3, <1>8 DEF MessagesFit
    <2>2. \A x \in proc'[q].pages : x \in c.pages \/ x = p
        BY <1>2 DEF Attaches
    <2> QED
        BY <1>6, <2>1, <2>2
<1>9. \A x \in Process : x # q => /\ Made(proc', x) <=> Made(proc, x)
                                  /\ proc'[x].pages \subseteq proc[x].pages
    BY DEF Attaches
<1> QED
    BY <1>1, <1>3, <1>6, <1>7, <1>8, <1>9, UtteredFit

\* The child of q, which holds h, takes the first message m of u.
Takes(q, h, u, m, g, v) ==
    /\ u = Queue(proc[q]) /\ h = proc[q].held /\ u \in Seq(Message) /\ u # <<>>
    /\ m = u[1] /\ m = Head(proc[q].wire) /\ v = Tail(u) /\ g = HeldAfter(h, m)
    /\ \A x \in Process : x # q => proc'[x] = proc[x]
    /\ Queue(proc'[q]) = v /\ proc'[q].held = g /\ proc'[q].initialized
    /\ proc'[q].pages = proc[q].pages /\ SameProxy(proc[q], proc'[q])
    /\ proc[q].initialized = (m.kind # "init")
    /\ m.kind \in {"load", "close"} => m.page \in h
    /\ Orderly(g, TRUE, v)
    /\ \A p : Hears(g, v, p) => Hears(h, u, p)
    /\ \A p : Hears(h, u, p) /\ m # Msg("close", p) => Hears(g, v, p)
    /\ \A k \in 1..Len(v) : \E j \in 1..Len(u) : v[k] = u[j]

LEMMA ReceiveChild ==
    ASSUME ListInv, MessageInv, NEW q \in Process, Receive(q)
    PROVE  \E h, u, m, g, v : Takes(q, h, u, m, g, v)
<1>0. PICK u, m, h, g : u = Queue(proc[q]) /\ m = u[1] /\ h = proc[q].held /\ g = HeldAfter(h, m)
    OBVIOUS
<1>1. PICK r : r = proc[q]
    OBVIOUS
<1>2. /\ Fit(r) /\ r \in ProcessState /\ r.launch # "none" /\ r.wire # <<>>
      /\ proc \in [Process -> ProcessState]
    BY <1>1, OneOf DEF Receive, Busy, Fit, NoProcess
<1>3. PICK s : s = Handled(Taken(r), Head(r.wire))
    OBVIOUS
<1>4. /\ Fit(s) /\ SameProxy(r, s) /\ s.pages = r.pages
      /\ Queue(s) = Tail(u) /\ Head(r.wire) = m /\ u # <<>>
    BY <1>0, <1>1, <1>2, <1>3, HandledFit DEF Receive, Busy
<1>5. proc' = [proc EXCEPT ![q] = s]
    BY <1>1, <1>3 DEF Receive
<1>6. proc'[q] = s /\ \A x \in Process : x # q => proc'[x] = proc[x]
    BY <1>2, <1>5
<1>7. u \in Seq(Message) /\ Orderly(h, r.initialized, u) /\ r.initialized \in BOOLEAN
    BY <1>0, <1>1, <1>2, QueueType DEF MessageInv, MessagesFit, ProcessState
<1>8. s.held = g /\ s.initialized = IF m.kind = "init" THEN TRUE ELSE r.initialized
    <2>1. /\ Handled(Taken(r), Head(r.wire)).held = HeldAfter(r.held, Head(r.wire))
          /\ Handled(Taken(r), Head(r.wire)).initialized =
                IF Head(r.wire).kind = "init" THEN TRUE ELSE r.initialized
        BY <1>2, HandledHeld
    <2> QED
        BY <1>0, <1>1, <1>3, <1>4, <2>1
<1>9. PICK i : i = r.initialized
    OBVIOUS
<1>10. i \in BOOLEAN /\ Orderly(h, i, u)
    BY <1>7, <1>9
<1>12. PICK v : v = Tail(u)
    OBVIOUS
<1>13. /\ i = (m.kind # "init") /\ (m.kind \in {"load", "close"} => m.page \in h)
       /\ Orderly(g, TRUE, v)
       /\ \A p : Hears(g, v, p) => Hears(h, u, p)
       /\ \A p : Hears(h, u, p) /\ m # Msg("close", p) => Hears(g, v, p)
       /\ \A k \in 1..Len(v) : \E j \in 1..Len(u) : v[k] = u[j]
    <2>1. u \in Seq(Message) /\ u # <<>> /\ i \in BOOLEAN /\ Orderly(h, i, u)
        BY <1>4, <1>7, <1>10
    <2>2. m = u[1] /\ v = Tail(u) /\ g = HeldAfter(h, m)
        BY <1>0, <1>12
    <2> QED
        <3>1. Shorter(h, i, u, u[1], Tail(u), HeldAfter(h, u[1]))
            BY ONLY <2>1, OneMessageLess
        <3> QED
            BY <2>2, <3>1 DEF Shorter
<1>14. Takes(q, h, u, m, g, v)
    BY <1>0, <1>1, <1>4, <1>6, <1>7, <1>8, <1>9, <1>12, <1>13 DEF Takes
<1> QED
    BY <1>14

LEMMA ReceiveStep ==
    ASSUME ListInv, [Next]_vars, MessageInv, NEW q \in Process, Receive(q)
    PROVE  MessageInv'
<1>1. PICK h, u, m, g, v : Takes(q, h, u, m, g, v)
    BY ReceiveChild
<1>2. u = Queue(proc[q]) /\ m = u[1] /\ h = proc[q].held /\ u # <<>>
    BY <1>1 DEF Takes
<1>3. /\ \A x \in Process : x # q => proc'[x] = proc[x]
      /\ Queue(proc'[q]) = v /\ proc'[q].held = g /\ proc'[q].initialized
      /\ proc'[q].pages = proc[q].pages /\ SameProxy(proc[q], proc'[q])
      /\ Orderly(g, TRUE, v)
      /\ \A p : Hears(h, u, p) /\ m # Msg("close", p) => Hears(g, v, p)
      /\ \A k \in 1..Len(v) : \E j \in 1..Len(u) : v[k] = u[j]
    BY <1>1 DEF Takes
<1>4. ASSUME NEW x \in Process, x # q
      PROVE  MessagesFit(proc'[x], page')
    BY <1>3, <1>4, MutedFit DEF Knows, Made
<1>5. /\ Over(u, page) /\ (~Terminated(proc[q]) => \A p \in proc[q].pages : Hears(h, u, p))
      /\ Fit(proc[q])
    BY <1>2, OneOf DEF MessageInv, MessagesFit
<1>6. u \in Seq(Message) /\ \A j \in 1..Len(u) : u[j] \in Message
    BY <1>2, <1>5, QueueType, LenProperties DEF Fit
<1>7. Over(v, page')
    <2>1. \A j \in 1..Len(u) : u[j].kind = "close" => page'[u[j].page].closed
        BY <1>5, <1>6, ClosedForGood DEF Over, Message
    <2> QED
        BY <1>3, <2>1 DEF Over
<1>8. ASSUME ~Terminated(proc'[q]), NEW p \in proc'[q].pages
      PROVE  Hears(g, v, p)
    <2>1. ~Terminated(proc[q]) /\ p \in proc[q].pages
        BY <1>3, <1>8 DEF SameProxy, Terminated, Launching
    <2>2. p \in Page /\ ~page[p].closed
        BY <1>5, <2>1 DEF Fit, ProcessState, ListInv, PoolInv, PageMapsAgree
    <2>3. \A k \in 1..Len(u) : u[k] # Msg("close", p)
        BY <1>5, <2>2, NotClosed
    <2>4. 1 \in 1..Len(u)
        BY <1>2, <1>6, EmptySeq, LenProperties
    <2> QED
        BY <1>2, <1>3, <1>5, <2>1, <2>3, <2>4
<1>9. MessagesFit(proc'[q], page')
    BY <1>3, <1>7, <1>8 DEF MessagesFit
<1> QED
    BY <1>4, <1>9 DEF MessageInv

LEMMA MessageStep ==
    ASSUME ListInv, MessageInv, [Next]_vars
    PROVE  MessageInv'
<1>1. CASE Muted
    BY <1>1, MutedFit, SameIsKnown DEF MessageInv, Muted
<1>2. ASSUME NEW q \in Process, Receive(q)
      PROVE  MessageInv'
    BY <1>2, ReceiveStep
<1>3. ASSUME NEW q \in Process, Warms(q)
      PROVE  MessageInv'
    <2>1. PICK c : c = CreatedProcess(proc[q])
        OBVIOUS
    <2>2. /\ Queue(c) \in Seq(Message) /\ MessagesFit(c, page) /\ (c.initialized \/ Queue(c) # <<>>)
          /\ c.pages = proc[q].pages /\ Fit(proc[q])
        BY <2>1, AddresseeFit, OneOf
    <2>3. Queue(c) \o <<>> = Queue(c)
        BY <2>2, ConcatEmptySeq
    <2>4. page' = page /\ proc'[q].pages = {} /\ \A x \in Process : x # q => proc'[x] = proc[x]
        BY <1>3, OneOf, ConnectedFit DEF Warms
    <2>5. /\ Orderly(c.held, c.initialized, Queue(c) \o <<>>) /\ Over(Queue(c) \o <<>>, page')
          /\ Queue(c) \o <<>> # <<>> \/ c.initialized
          /\ \A p \in proc'[q].pages : Hears(c.held, Queue(c) \o <<>>, p)
        BY <2>2, <2>3, <2>4 DEF MessagesFit
    <2>6. \A x \in Process : x # q => /\ Made(proc', x) <=> Made(proc, x)
                                      /\ proc'[x].pages \subseteq proc[x].pages
        BY <2>4 DEF Made
    <2>7. Utters(q, <<>>)
        BY <1>3, WarmsUtters
    <2> QED
        BY <2>1, <2>5, <2>6, <2>7, UtteredFit
<1>4. ASSUME NEW p \in Page, LoadRequest(p)
      PROVE  MessageInv'
    <2>1. /\ Quiet /\ Utters(page[p].process, <<Msg("load", p)>>)
          /\ page[p].made /\ ~page[p].closed
        BY <1>4, LoadRequestShape DEF LoadRequest
    <2>2. \A x \in Process : /\ Made(proc', x) <=> Made(proc, x)
                             /\ proc'[x].pages \subseteq proc[x].pages
        BY <2>1 DEF Quiet, Life, Made
    <2> QED
        BY <2>1, <2>2, AskStep
<1>5. ASSUME NEW p \in Page, ClosePage(p)
      PROVE  MessageInv'
    <2>1. Leaving(p) /\ Utters(page[p].process, <<Msg("close", p)>>)
        BY <1>5, ClosePageShape
    <2>2. page[p].made /\ ~page[p].closed /\ page'[p].closed
        BY <2>1, OneOf DEF Leaving, PageState
    <2>3. \A x \in Process : /\ Made(proc', x) <=> Made(proc, x)
                             /\ proc'[x].pages \subseteq proc[x].pages
        BY <2>1, OneOf DEF Leaving, LetsGo, Made
    <2> QED
        BY <2>1, <2>2, <2>3, AskStep
<1>6. ASSUME NEW p \in Page, Reattach(p)
      PROVE  MessageInv'
    BY <1>6, ReattachShape, AttachStep
<1>7. ASSUME NEW p \in Page, NEW related \in Page \cup {None}, CreateWebPage(p, related)
      PROVE  MessageInv'
    BY <1>7, CreateWebPageShape, AttachStep
<1>8. ASSUME NEW p \in Page, NEW related \in Page \cup {None}, NEW o \in Process,
             WindowOpen(o, p, related)
      PROVE  MessageInv'
    BY <1>8, WindowOpenShape, AttachStep
<1> QED
    BY <1>1, <1>2, <1>3, <1>4, <1>5, <1>6, <1>7, <1>8, Talk

LEMMA MessagesStart == Init => MessageInv
<1> SUFFICES ASSUME Init
             PROVE  MessageInv
    OBVIOUS
<1>1. <<>> \in Seq(Message) /\ Len(<<>>) = 0
    BY EmptySeq
<1>2. ASSUME NEW q \in Process
      PROVE  /\ proc[q].held = {} /\ proc[q].pages = {} /\ proc[q].launch = "none"
             /\ Queue(proc[q]) = <<>>
    <2>1. proc[q] = NoProcess
        BY DEF Init
    <2>2. /\ proc[q].held = {} /\ proc[q].pages = {} /\ proc[q].launch = "none"
          /\ proc[q].wire = <<>> /\ proc[q].pending = <<>>
        BY <2>1 DEF NoProcess
    <2> QED
        BY <1>1, <2>2, ConcatEmptySeq DEF Queue
<1>3. \A k \in 1..Len(<<>>) : FALSE
    BY <1>1
<1> QED
    BY <1>2, <1>3 DEF MessageInv, MessagesFit, Orderly, Over

LEMMA MessagesHold == Spec => []MessageInv
<1>1. ListInv /\ MessageInv /\ [Next]_vars => MessageInv'
    BY MessageStep
<1> QED
    BY <1>1, MessagesStart, ListHolds, PTL DEF Spec

\* What a child receives finds what it is about: initialization comes first and
\* once, a page is created in an initialized child, and what is loaded or closed
\* is there.  Messages stashed during the launch, reattached pages, pages that
\* window.open has made the child hold before, and crashes do not change that.
THEOREM MessagesFind == Spec => MessagesFindTheirTarget
<1>1. ListInv /\ MessageInv /\ [Next]_vars =>
          [\A q \in Process : Receive(q) =>
              LET m == Head(proc[q].wire)
              IN  CASE m.kind = "init" -> ~proc[q].initialized
                    [] m.kind = "create" -> proc[q].initialized
                    [] OTHER -> m.page \in proc[q].held]_vars
    <2> SUFFICES ASSUME ListInv, MessageInv, NEW q \in Process, Receive(q)
                 PROVE  LET m == Head(proc[q].wire)
                        IN  CASE m.kind = "init" -> ~proc[q].initialized
                              [] m.kind = "create" -> proc[q].initialized
                              [] OTHER -> m.page \in proc[q].held
        OBVIOUS
    <2>1. PICK h, u, m, g, v : Takes(q, h, u, m, g, v)
        BY ReceiveChild
    <2>2. /\ u = Queue(proc[q]) /\ h = proc[q].held /\ m = Head(proc[q].wire)
          /\ u \in Seq(Message) /\ u # <<>> /\ m = u[1]
          /\ proc[q].initialized = (m.kind # "init")
          /\ m.kind \in {"load", "close"} => m.page \in h
        BY <2>1 DEF Takes
    <2>3. m \in Message
        BY <2>2, EmptySeq, LenProperties
    <2>4. m.kind \in {"init", "create", "load", "close"}
        BY <2>3 DEF Message
    <2> QED
        BY <2>2, <2>4
<1> QED
    BY <1>1, ListHolds, MessagesHold, PTL DEF Spec, MessagesFindTheirTarget

=============================================================================
