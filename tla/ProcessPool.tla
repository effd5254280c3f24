----------------------------- MODULE ProcessPool ----------------------------
(***************************************************************************)
(* The web processes of a WebProcessPool and the pages they host, seen     *)
(* from both sides: WebProcessProxy, ChildProcessProxy and ProcessLauncher *)
(* in the UI process, WebProcess and ChildProcess in the child.            *)
(*                                                                         *)
(* The UI process's main thread runs one handler at a time.  The one place *)
(* where it calls out to the application half way is the loop of           *)
(* WebProcessProxy::didClose, which tells the pages one by one of the      *)
(* crash: the application's requests may come between two of them, other   *)
(* handlers may not.  The launcher's work queue, the child processes and   *)
(* the sockets run beside it.  The connection is the one module Connection *)
(* models: messages arrive in order, or not at all once a side is gone.    *)
(***************************************************************************)
EXTENDS Integers, SequencesExt

CONSTANTS
    Page,               \* the pages the application may create
    Shared,             \* m_processModel is the shared one, which in the GTK
                        \* port also means m_usesNetworkProcess is FALSE
    ProcessCountLimit,  \* m_webProcessCountLimit
    Requests,           \* what the environment may do, see Request
    MaxProcesses,       \* bound: web processes ever launched
    MaxLoads            \* bound: loads the application asks for

Process == 1..MaxProcesses
Request == {"crash", "invalid", "warm", "related", "terminate", "termination", "open"}

ASSUME ProcessPoolAssumption ==
    /\ Shared \in BOOLEAN
    /\ ProcessCountLimit \in Nat \ {0}
    /\ MaxProcesses \in Nat \ {0}
    /\ Requests \subseteq Request
    /\ MaxLoads \in Nat

VARIABLES
    proc,       \* per process, the proxy, its launcher and the child
    page,       \* per page, its WebPageProxy
    processes,  \* m_processes
    warm,       \* m_haveInitialEmptyProcess
    enabled,    \* m_processTerminationEnabled
    crashing,   \* pages didClose has yet to call processDidCrash on
    loads,      \* loads the application has asked for
    orphans     \* history: pages a request has left with a dead process

vars == <<proc, page, processes, warm, enabled, crashing, loads, orphans>>

None == 0
Message == [kind : {"init"}, page : {None}] \cup [kind : {"create", "load", "close"}, page : Page]
Msg(kind, p) == [kind |-> kind, page |-> p]

\* launcher: m_processLauncher is set; client: its m_client is; launch: how
\* far the launch is; connected: m_connection is set; socket: the UI process's
\* descriptor; held: m_pageMap of the child; asks: it is inside shouldTerminate.
ProcessState ==
    [launcher : BOOLEAN, client : BOOLEAN, launch : {"none", "queued", "spawned", "done"},
     connected : BOOLEAN, pending : Seq(Message), pages : SUBSET Page,
     socket : {"none", "open", "closed"}, wire : Seq(Message),
     child : {"none", "up", "gone"}, initialized : BOOLEAN, held : SUBSET Page,
     counter : Nat, timer : BOOLEAN, asks : BOOLEAN]

PageState == [made : BOOLEAN, valid : BOOLEAN, closed : BOOLEAN,
              process : 0..MaxProcesses, loading : BOOLEAN]

\* Types of the variables.
TypeOK ==
    /\ proc \in [Process -> ProcessState]
    /\ page \in [Page -> PageState]
    /\ processes \in Seq(Process)
    /\ warm \in BOOLEAN /\ enabled \in BOOLEAN
    /\ crashing \subseteq Page
    /\ loads \in 0..MaxLoads
    /\ orphans \subseteq Page

NoProcess ==
    [launcher |-> FALSE, client |-> FALSE, launch |-> "none", connected |-> FALSE,
     pending |-> <<>>, pages |-> {}, socket |-> "none", wire |-> <<>>, child |-> "none",
     initialized |-> FALSE, held |-> {}, counter |-> 0, timer |-> FALSE, asks |-> FALSE]

Init ==
    /\ proc = [q \in Process |-> NoProcess]
    /\ page = [p \in Page |-> [made |-> FALSE, valid |-> FALSE, closed |-> FALSE,
                               process |-> None, loading |-> FALSE]]
    /\ processes = <<>>
    /\ warm = FALSE /\ enabled = TRUE
    /\ crashing = {}
    /\ loads = 0
    /\ orphans = {}

-----------------------------------------------------------------------------
(* ChildProcessProxy and ProcessLauncher, as functions of a process's state *)

Launching(r) == r.launcher /\ r.launch \in {"queued", "spawned"}
Running(r) == ~Launching(r) /\ r.connected
Terminated(r) == ~Launching(r) /\ ~r.connected

\* Mutated form: what is sent during the launch is stashed in front.
SentInFront(r, msgs) ==
    CASE Launching(r) -> [r EXCEPT !.pending = msgs \o @]
      [] Running(r) -> [r EXCEPT !.wire = @ \o msgs]
      [] OTHER -> r

\* sendMessage, for several messages at once
Sent(r, msgs) ==
    CASE Launching(r) -> [r EXCEPT !.pending = @ \o msgs]
      [] Running(r) -> [r EXCEPT !.wire = @ \o msgs]
      [] OTHER -> r

\* connect, called by the constructor, and the first message of every process
Connected(r) ==
    Sent([r EXCEPT !.launcher = TRUE, !.client = TRUE, !.launch = "queued"],
         <<Msg("init", None)>>)

AbortedLaunch(r) ==
    IF Launching(r) THEN [r EXCEPT !.client = FALSE, !.launcher = FALSE] ELSE r

ClearedConnection(r) ==
    IF r.connected THEN [r EXCEPT !.connected = FALSE, !.socket = "closed"] ELSE r

\* terminate: a launching process only loses its client
Killed(r) ==
    IF ~r.launcher THEN r
    ELSE IF Launching(r) THEN [r EXCEPT !.client = FALSE]
    ELSE [r EXCEPT !.child = "gone"]

\* Mutated form: the stashed messages are not sent.
FinishedLaunchingEmpty(r) == [r EXCEPT !.launch = "done", !.connected = r.client]

FinishedLaunching(r) ==
    LET s == [r EXCEPT !.launch = "done"]
    IN  IF r.client
        THEN [s EXCEPT !.connected = TRUE, !.wire = @ \o r.pending, !.pending = <<>>]
        ELSE s

\* Mutated form: the remaining pages are not looked at.
CanTerminateAlways(r) == enabled

CanTerminate(r) == r.pages = {} /\ enabled

-----------------------------------------------------------------------------
(* WebProcessPool                                                          *)

Made(pr, q) == pr[q].launch # "none"
NewProcess(pr) == CHOOSE q \in Process : ~Made(pr, q) /\ \A r \in 1..(q - 1) : Made(pr, r)
CanMake(pr) == \E q \in Process : ~Made(pr, q)

\* The process a page gets that is not related to another.
FewestPages(pr, ps) ==
    ps[CHOOSE i \in DOMAIN ps : \A j \in DOMAIN ps :
           LET a == Cardinality(pr[ps[i]].pages)
               b == Cardinality(pr[ps[j]].pages)
           IN  a < b \/ (a = b /\ i <= j)]
EnsureSharedWebProcess(pr, ps) == IF ps = <<>> THEN NewProcess(pr) ELSE ps[1]
RespectingProcessCountLimit(pr, ps) ==
    IF Len(ps) < ProcessCountLimit THEN NewProcess(pr) ELSE FewestPages(pr, ps)

NeedsNew(ps) == IF Shared THEN ps = <<>> ELSE Len(ps) < ProcessCountLimit
AnyProcess(pr, ps) ==
    IF Shared THEN EnsureSharedWebProcess(pr, ps) ELSE RespectingProcessCountLimit(pr, ps)

CreatedProcess(r) == IF r.launch = "none" THEN Connected(r) ELSE r
AppendedProcess(ps, pr, q) == IF Made(pr, q) THEN ps ELSE Append(ps, q)

\* disconnect: the connection goes, then the pool forgets the process
Disconnected(r) == ClearedConnection(r)

DisconnectProcess(ps, q) == RemoveFirst(ps, q)

StillWarm(w, ps, q) == w /\ q # Last(ps)

\* createWebPage and addExistingWebPage: m_pageMap gets the page
WithPage(r, p) == [r EXCEPT !.pages = @ \cup {p}]

\* removeWebPage: with a network process the last page takes the process along
Leaves(r) == ~Shared /\ ~Terminated(r) /\ CanTerminate(r)

\* Mutated form: m_pageMap keeps the page.
WithoutPageNot(r, p) == r

WithoutPage(r, p) == [r EXCEPT !.pages = @ \ {p}]
RemovedWebPage(r, p) ==
    LET s == WithoutPage(r, p)
    IN  IF Leaves(s) THEN Disconnected(AbortedLaunch(s)) ELSE s

-----------------------------------------------------------------------------
(* Requests of the application                                             *)

\* The process of a new page, and whether it is a new process.
ProcessFor(related) ==
    IF Shared THEN EnsureSharedWebProcess(proc, processes)
    ELSE IF warm THEN Last(processes)
    ELSE IF related # None THEN page[related].process
    ELSE RespectingProcessCountLimit(proc, processes)
ProcessIsNew(related) == (Shared \/ (~warm /\ related = None)) /\ NeedsNew(processes)

\* createWebPage and initializeWebPage: the proxies of the processes
WithNewPage(p, related) ==
    [proc EXCEPT ![ProcessFor(related)] =
        Sent(WithPage(CreatedProcess(@), p), <<Msg("create", p)>>)]

\* createWebPage and initializeWebPage: the page and the pool
MakePage(p, related) ==
    /\ ~page[p].made
    /\ related # None => "related" \in Requests /\ page[related].made
    /\ ProcessIsNew(related) => CanMake(proc)
    /\ LET q == ProcessFor(related)
       IN  /\ page' = [page EXCEPT ![p] = [@ EXCEPT !.made = TRUE, !.valid = TRUE, !.process = q]]
           /\ processes' = AppendedProcess(processes, proc, q)
           /\ warm' = IF Shared THEN warm ELSE FALSE
           /\ orphans' = IF related # None /\ ~ProcessIsNew(related) /\ q \notin Range(processes)
                         THEN orphans \cup {p} ELSE orphans
    /\ UNCHANGED <<enabled, crashing, loads>>

CreateWebPage(p, related) == MakePage(p, related) /\ proc' = WithNewPage(p, related)

\* warmInitialProcess, also called by sendToOneProcess
WarmInitialProcess ==
    /\ "warm" \in Requests /\ ~warm
    /\ Len(processes) < ProcessCountLimit /\ CanMake(proc)
    /\ LET q == NewProcess(proc)
       IN  /\ proc' = [proc EXCEPT ![q] = Connected(@)]
           /\ processes' = Append(processes, q)
    /\ warm' = TRUE
    /\ UNCHANGED <<page, enabled, crashing, loads, orphans>>

\* loadRequest on a valid page
LoadRequest(p) ==
    /\ page[p].made /\ page[p].valid /\ ~page[p].closed /\ loads < MaxLoads
    /\ proc' = [proc EXCEPT ![page[p].process] = Sent(@, <<Msg("load", p)>>)]
    /\ page' = [page EXCEPT ![p].loading = TRUE]
    /\ loads' = loads + 1
    /\ UNCHANGED <<processes, warm, enabled, crashing, orphans>>

\* loadRequest on a page whose process is gone: reattachToWebProcess, then the load
Reattach(p) ==
    /\ page[p].made /\ ~page[p].valid /\ ~page[p].closed /\ loads < MaxLoads
    /\ LET old == page[p].process
           leaves == Leaves(WithoutPage(proc[old], p))
           pr == [proc EXCEPT ![old] = RemovedWebPage(@, p)]
           ps == IF leaves THEN DisconnectProcess(processes, old) ELSE processes
           q == AnyProcess(pr, ps)
       IN  /\ NeedsNew(ps) => CanMake(pr)
           /\ proc' = [pr EXCEPT ![q] =
                  Sent(WithPage(CreatedProcess(@), p),
                       <<Msg("create", p), Msg("load", p)>>)]
           /\ page' = [page EXCEPT ![p] = [@ EXCEPT !.valid = TRUE, !.process = q, !.loading = TRUE]]
           /\ processes' = AppendedProcess(ps, pr, q)
           /\ warm' = IF leaves THEN StillWarm(warm, processes, old) ELSE warm
    /\ loads' = loads + 1
    /\ UNCHANGED <<enabled, crashing, orphans>>

\* WebPageProxy::close
ClosePage(p) ==
    /\ page[p].made /\ ~page[p].closed
    /\ LET q == page[p].process
           r == Sent(proc[q], <<Msg("close", p)>>)
           leaves == Leaves(WithoutPage(r, p))
       IN  /\ proc' = [proc EXCEPT ![q] = RemovedWebPage(r, p)]
           /\ processes' = IF leaves THEN DisconnectProcess(processes, q) ELSE processes
           /\ warm' = IF leaves THEN StillWarm(warm, processes, q) ELSE warm
    /\ page' = [page EXCEPT ![p].closed = TRUE]
    /\ UNCHANGED <<enabled, crashing, loads, orphans>>

\* resetStateAfterProcessExited
Exited(r) == IF r.valid /\ ~r.closed THEN [r EXCEPT !.valid = FALSE, !.loading = FALSE] ELSE r

\* WebPageProxy::terminateProcess; its assertion that the process is not
\* launching is the caller's duty
TerminateProcess(p) ==
    /\ "terminate" \in Requests
    /\ page[p].made /\ page[p].valid
    /\ LET q == page[p].process
       IN  /\ ~Launching(proc[q])
           /\ IF Running(proc[q])
              THEN /\ proc' = [proc EXCEPT ![q] = Disconnected(Killed(@))]
                   /\ processes' = DisconnectProcess(processes, q)
                   /\ warm' = StillWarm(warm, processes, q)
                   /\ orphans' = orphans \cup (proc[q].pages \ {p})
              ELSE UNCHANGED <<proc, processes, warm, orphans>>
    /\ page' = [page EXCEPT ![p] = Exited(@)]
    /\ UNCHANGED <<enabled, crashing, loads>>

DisableProcessTermination ==
    /\ "termination" \in Requests /\ enabled
    /\ enabled' = FALSE
    /\ UNCHANGED <<proc, page, processes, warm, crashing, loads, orphans>>

EnableProcessTermination ==
    /\ "termination" \in Requests
    /\ enabled' = TRUE
    /\ proc' = [q \in Process |-> IF q \in Range(processes) THEN Killed(proc[q]) ELSE proc[q]]
    /\ UNCHANGED <<page, processes, warm, crashing, loads, orphans>>

-----------------------------------------------------------------------------
(* Handlers of the UI process's main thread and of the launcher's queue    *)

AtRest == crashing = {}

\* launchProcess: the socket pair and the child
LaunchProcess(q) ==
    /\ proc[q].launch = "queued"
    /\ proc' = [proc EXCEPT ![q] = [@ EXCEPT !.launch = "spawned", !.child = "up", !.socket = "open"]]
    /\ UNCHANGED <<page, processes, warm, enabled, crashing, loads, orphans>>

DidFinishLaunching(q) ==
    /\ AtRest /\ proc[q].launch = "spawned"
    /\ proc' = [proc EXCEPT ![q] = FinishedLaunching(@)]
    /\ UNCHANGED <<page, processes, warm, enabled, crashing, loads, orphans>>

\* Mutated form: a page is told twice.
UntoldAll(pages, p) == pages

\* The copied pages didClose has still to tell.
Untold(pages, p) == pages \ {p}

\* didClose: the pages are copied, the process disconnected, the first page told
CloseProcess(q, r) ==
    /\ proc' = [proc EXCEPT ![q] = Disconnected(r)]
    /\ processes' = DisconnectProcess(processes, q)
    /\ warm' = StillWarm(warm, processes, q)
    /\ \/ r.pages = {} /\ UNCHANGED <<page, crashing>>
       \/ \E p \in r.pages : /\ page' = [page EXCEPT ![p] = Exited(@)]
                             /\ crashing' = Untold(r.pages, p)
    /\ UNCHANGED <<enabled, loads, orphans>>

DidClose(q) ==
    /\ AtRest /\ proc[q].connected /\ proc[q].child = "gone"
    /\ CloseProcess(q, proc[q])

DidReceiveInvalidMessage(q) ==
    /\ "invalid" \in Requests /\ AtRest /\ proc[q].connected /\ proc[q].child = "up"
    /\ CloseProcess(q, Killed(proc[q]))

ProcessDidCrash(p) ==
    /\ p \in crashing
    /\ page' = [page EXCEPT ![p] = Exited(@)]
    /\ crashing' = Untold(crashing, p)
    /\ UNCHANGED <<proc, processes, warm, enabled, loads, orphans>>

\* The UI process's side of the synchronous ShouldTerminate message.
ShouldTerminate(q) ==
    /\ AtRest /\ proc[q].connected /\ proc[q].child = "up" /\ proc[q].asks
    /\ IF CanTerminate(proc[q])
       THEN /\ proc' = [proc EXCEPT ![q] = Disconnected(@)]
            /\ processes' = DisconnectProcess(processes, q)
            /\ warm' = StillWarm(warm, processes, q)
       ELSE /\ proc' = [proc EXCEPT ![q].asks = FALSE]
            /\ UNCHANGED <<processes, warm>>
    /\ UNCHANGED <<page, enabled, crashing, loads, orphans>>

-----------------------------------------------------------------------------
(* The child process: WebProcess and ChildProcess                          *)

\* Mutated form: disableTermination for a page that is there already, too.
HeldPageCounted(r, p) == [r EXCEPT !.held = @ \cup {p}, !.counter = @ + 1, !.timer = FALSE]

\* createWebPage: a new page with disableTermination, or reinitializeWebPage
HeldPage(r, p) ==
    IF p \in r.held THEN r
    ELSE [r EXCEPT !.held = @ \cup {p}, !.counter = @ + 1, !.timer = FALSE]

\* removeWebPage with enableTermination: the timeout is zero unless shared
ReleasedPage(r, p) ==
    LET s == [r EXCEPT !.held = @ \ {p}, !.counter = @ - 1]
    IN  IF s.counter # 0 THEN s
        ELSE IF Shared THEN [s EXCEPT !.timer = TRUE]
        ELSE [s EXCEPT !.asks = TRUE]

Handled(r, m) ==
    CASE m.kind = "init" -> [r EXCEPT !.initialized = TRUE]
      [] m.kind = "create" -> HeldPage(r, m.page)
      [] m.kind = "close" /\ m.page \in r.held -> ReleasedPage(r, m.page)
      [] OTHER -> r

Busy(q) == proc[q].child # "up" \/ proc[q].asks

\* The message leaves the socket.
Taken(r) == [r EXCEPT !.wire = Tail(@)]

Receive(q) ==
    /\ ~Busy(q) /\ proc[q].wire # <<>>
    /\ LET m == Head(proc[q].wire)
       IN  /\ proc' = [proc EXCEPT ![q] = Handled(Taken(@), m)]
           /\ page' = IF m.kind = "load" /\ m.page \in proc[q].held /\ page[m.page].process = q
                      THEN [page EXCEPT ![m.page].loading = FALSE] ELSE page
    /\ UNCHANGED <<processes, warm, enabled, crashing, loads, orphans>>

\* window.open in a page of process q: while the child waits in the synchronous
\* CreateNewPage message, the application makes the page, related to the opener,
\* to another page or to none; with the reply the child creates the page itself,
\* before the CreateWebPage message that making the page has sent.  The child does
\* nothing else in between, so that asking and answering are one step.
WindowOpen(q, p, related) ==
    /\ "open" \in Requests /\ AtRest
    /\ proc[q].connected /\ ~Busy(q)
    /\ \E opener \in proc[q].pages : opener \in proc[q].held
    /\ MakePage(p, related)
    /\ proc' = [WithNewPage(p, related) EXCEPT ![q] = HeldPage(@, p)]

TerminationTimerFired(q) ==
    /\ ~Busy(q) /\ proc[q].timer
    /\ proc' = [proc EXCEPT ![q] = [@ EXCEPT !.timer = FALSE, !.asks = TRUE]]
    /\ UNCHANGED <<page, processes, warm, enabled, crashing, loads, orphans>>

\* The socket is closed: shouldTerminate gets no answer and the process
\* terminates, or didClose stops the run loop.
ChildDidClose(q) ==
    /\ proc[q].child = "up" /\ proc[q].socket = "closed"
    /\ proc' = [proc EXCEPT ![q] = [@ EXCEPT !.child = "gone", !.asks = FALSE]]
    /\ UNCHANGED <<page, processes, warm, enabled, crashing, loads, orphans>>

ChildCrashes(q) ==
    /\ "crash" \in Requests /\ proc[q].child = "up"
    /\ proc' = [proc EXCEPT ![q].child = "gone"]
    /\ UNCHANGED <<page, processes, warm, enabled, crashing, loads, orphans>>

-----------------------------------------------------------------------------
Steps(q) ==
    \/ LaunchProcess(q) \/ DidFinishLaunching(q) \/ DidClose(q) \/ ShouldTerminate(q)
    \/ Receive(q) \/ ChildDidClose(q)

Next ==
    \/ \E q \in Process : \/ Steps(q) \/ TerminationTimerFired(q)
                          \/ DidReceiveInvalidMessage(q) \/ ChildCrashes(q)
    \/ \E p \in Page : \/ \E related \in Page \cup {None} :
                             \/ CreateWebPage(p, related)
                             \/ \E q \in Process : WindowOpen(q, p, related)
                       \/ LoadRequest(p) \/ Reattach(p) \/ ClosePage(p)
                       \/ TerminateProcess(p) \/ ProcessDidCrash(p)
    \/ WarmInitialProcess \/ DisableProcessTermination \/ EnableProcessTermination

Spec == Init /\ [][Next]_vars

\* Threads that have something to do go on; the application, a failure and the
\* 60 seconds of the termination timer owe nothing.
FairSpec ==
    /\ Spec
    /\ \A q \in Process :
        /\ WF_vars(LaunchProcess(q)) /\ WF_vars(DidFinishLaunching(q))
        /\ WF_vars(DidClose(q)) /\ WF_vars(ShouldTerminate(q))
        /\ WF_vars(Receive(q)) /\ WF_vars(ChildDidClose(q))
    /\ \A p \in Page : WF_vars(ProcessDidCrash(p))

-----------------------------------------------------------------------------
(* Properties                                                              *)

\* The pool lists exactly the processes that are launching or running, each
\* once: ensureSharedWebProcess and disconnectProcess rely on it (the
\* assertions in reattachToWebProcess and disconnectProcess).
PoolIsAlive ==
    /\ \A q \in Process : q \in Range(processes) <=> Made(proc, q) /\ ~Terminated(proc[q])
    /\ IsInjective(processes)

\* A page that is open and valid, and is not about to hear of a crash, has a
\* process in the pool that is launching or running: no sequence of closes,
\* crashes, relaunches, openings and voluntary exits leaves it sending messages
\* to nobody.  Three requests of the application do, and only they:
\* terminateProcess of another page in the same process, a new page related to
\* one whose process is gone, and enableProcessTermination during the launch,
\* which takes the launcher's client away: nobody hears that the launch ends.
ValidPageHasProcess ==
    \A p \in Page \ orphans : page[p].valid /\ ~page[p].closed /\ p \notin crashing
        => LET q == page[p].process
           IN  /\ q \in Range(processes)
               /\ proc[q].client => ~Terminated(proc[q])

\* What reattachToWebProcess asserts: a page that lost its process is attached
\* to a proxy that is terminated for good.
LostPageIsDetached ==
    \A p \in Page : page[p].made /\ ~page[p].valid /\ ~page[p].closed
                        => Terminated(proc[page[p].process])

\* m_pageMap of a proxy holds exactly the open pages that point at the proxy.
PageMapsAgree ==
    \A q \in Process, p \in Page :
        p \in proc[q].pages <=> page[p].made /\ ~page[p].closed /\ page[p].process = q

\* warmInitialProcess asserts, and createWebPage relies on, some process being
\* listed while m_haveInitialEmptyProcess is set.  It need not be the one that
\* was warmed: the flag outlives that process when a later one is listed.
WarmHasProcess == warm => processes # <<>>

\* What processDidCrash asserts: a page is told of the crash while it still
\* believes in its process.
ToldWhileValid == \A p \in crashing : page[p].valid

\* Pages, proxies and the pool agree about who is where, whatever is created,
\* closed, terminated or lost in between.
PoolInv == TypeOK /\ PageMapsAgree /\ WarmHasProcess

\* The assertions of disconnectProcess, reattachToWebProcess and processDidCrash.
\* Requests to terminate processes break the last two (README).
PoolAssertions == PoolIsAlive /\ LostPageIsDetached /\ ToldWhileValid

\* Messages stashed during the launch are received first and in order: the
\* child is initialized once and before it is told of a page, and holds a page
\* whenever something is asked of the page, although window.open makes it hold
\* pages before it is told of them, or whose process is another one.
MessagesFindTheirTarget ==
    [][\A q \in Process : Receive(q) =>
          LET m == Head(proc[q].wire)
          IN  CASE m.kind = "init" -> ~proc[q].initialized
                [] m.kind = "create" -> proc[q].initialized
                [] OTHER -> m.page \in proc[q].held]_vars

\* disableTermination and enableTermination are balanced although window.open
\* and a relaunch create a page that the child has already: the counter is the
\* number of pages, so that the child asks to terminate, or is about to, only when
\* it has none (what WebProcess::shouldTerminate asserts).
TerminationBalanced ==
    \A q \in Process :
        /\ proc[q].counter = Cardinality(proc[q].held)
        /\ proc[q].timer \/ proc[q].asks => proc[q].held = {}

\* A load ends: the child handles it, or the page is closed or told of a crash.
LoadsEnd == \A p \in Page : page[p].loading ~> (~page[p].loading \/ page[p].closed)
=============================================================================
