----------------------------- MODULE Connection -----------------------------
(***************************************************************************)
(* IPC::Connection: processes joined by socket pairs, each end with a work *)
(* queue that reads and writes the socket and a client run loop that sends *)
(* messages, runs handlers and waits in sendSyncMessage.                   *)
(*                                                                         *)
(* A waiting client still runs the handlers of incoming messages that are  *)
(* marked ShouldDispatchMessageWhenWaitingForSyncReply, and those may send *)
(* and wait in turn: the client's call stack is part of the state.  The    *)
(* SyncMessageState is one per run loop, shared by the run loop's          *)
(* connections.  Message contents are left out: a message is its kind, its *)
(* number on its connection (for a sync message that number stands for     *)
(* m_syncRequestID) and its mark.  Messages for work queue receivers are   *)
(* left out (PageInput has the EventDispatcher's), and so is the close     *)
(* that PluginProcessConnectionManager posts to its own connections.       *)
(* m_waitingForMessage is null (WaitForMessage models it).                 *)
(***************************************************************************)
EXTENDS Naturals, Sequences

CONSTANTS
    Proc,               \* processes (their main threads)
    Endpoint,           \* Connection objects
    Owner,              \* the process whose run loop is a connection's m_clientRunLoop
    Peer,               \* the connection at the other end of the socket pair
    OnlyWhenProcessing, \* connections with m_onlySendMessagesAsDispatchWhen...
    ExitOnFailure,      \* connections with m_shouldExitOnSyncMessageSendFailure
    AsyncSenders,       \* connections on which asynchronous messages are sent too
    SendFlags,          \* whether they ask for DispatchMessageEvenWhenWaiting...
    Delaying,           \* connections whose handlers may keep the reply encoder
    Timed,              \* connections whose sync messages have a timeout
    Secondaries,        \* connections on which another thread sends sync messages
    Opening,            \* connections whose first readyReadHandler has yet to run
    Invalidating,       \* connections whose client may invalidate them
    Crashing,           \* processes that may die
    MaxSends            \* bound: messages sent on each connection, replies apart

ASSUME ConnectionAssumption ==
    /\ Owner \in [Endpoint -> Proc]
    /\ Peer \in [Endpoint -> Endpoint]
    /\ \A c \in Endpoint : Peer[c] # c /\ Peer[Peer[c]] = c
    /\ UNION {OnlyWhenProcessing, ExitOnFailure, AsyncSenders, Delaying,
              Timed, Secondaries, Opening, Invalidating} \subseteq Endpoint
    /\ Crashing \subseteq Proc
    /\ SendFlags \subseteq BOOLEAN
    /\ MaxSends \in [Endpoint -> Nat]

VARIABLES
    conn,       \* the fields of each Connection
    main,       \* of each process: its SyncMessageState, run loop and call stack
    wire,       \* wire[c]: messages c wrote to its socket, not yet read
    result,     \* history: result[c][n], how sendSyncMessage number n on c stands
    handled     \* history: how often the handler of sync message n on c was entered

vars == <<conn, main, wire, result, handled>>

\* The numbers of the messages sent.
Number == UNION {1..MaxSends[c] : c \in Endpoint}

Message == [kind : {"async", "sync", "reply"}, id : Number, marked : BOOLEAN]
Received == [c : Endpoint, msg : Message]
PendingSyncReply == [id : Number, didReceiveReply : BOOLEAN]

\* A thread other than the main one inside sendSyncMessageFromSecondaryThread.
Secondary == [at : {"out", "valid", "waiting"}, id : {0} \cup Number,
              replied : BOOLEAN, isSet : BOOLEAN]
NoSecondary == [at |-> "out", id |-> 0, replied |-> FALSE, isSet |-> FALSE]

\* A Connection: isValid() (m_client is set), m_isConnected, the closures
\* scheduled on the work queue, how often connectionDidClose has run
\* (m_shouldWaitForSyncReplies is didClose = 0), what the work queue has still
\* to do in the message or close it is handling, m_outgoingMessages,
\* m_incomingMessages, m_pendingSyncReplies (top last),
\* m_secondaryThreadPendingSyncReplyMap (one thread), messages sent.
ConnectionState ==
    [client : BOOLEAN, connected : BOOLEAN, didClose : 0..2,
     tasks : SUBSET {"readyRead", "invalidate"},
     wq : {"idle", "wake", "post"}, out : Seq(Message), incoming : Seq(Message),
     pending : Seq(PendingSyncReply), secondary : Secondary, sent : Number \cup {0}]

\* Call-stack frames: a handler; dispatchMessages, before it swaps the queue
\* and while it loops; sendSyncMessage, inside waitForSyncReply.
Frame ==
    [f : {"handler"}, c : Endpoint, msg : Message]
    \cup [f : {"dispatchMessages"}, allowed : SUBSET Endpoint, swapped : BOOLEAN,
          todo : Seq(Received), putBack : Seq(Received)]
    \cup [f : {"sendSync"}, c : Endpoint, id : Number,
          pc : {"dispatch", "check", "wait"}]

Function == [f : {"dispatchOneMessage", "dispatchMessages", "didClose"}, c : Endpoint]

\* A process: its SyncMessageState's messages, work set and semaphore, the
\* functions dispatched to its run loop, its call stack (innermost first) and
\* the requests whose reply a handler has kept for later.
ProcState ==
    [alive : BOOLEAN, messages : Seq(Received), scheduled : SUBSET Endpoint,
     semaphore : BOOLEAN, runLoop : Seq(Function), stack : Seq(Frame),
     delayed : SUBSET (Endpoint \X Number)]

\* Types of the variables.
TypeOK ==
    /\ conn \in [Endpoint -> ConnectionState]
    /\ main \in [Proc -> ProcState]
    /\ wire \in [Endpoint -> Seq(Message)]
    /\ result \in [Endpoint -> [Number -> {"idle", "sent", "ok", "failed"}]]
    /\ handled \in [Endpoint -> [Number -> 0..2]]

\* The connections have been opened: open() scheduled one readyReadHandler.
Init ==
    /\ conn = [c \in Endpoint |->
                 [client |-> TRUE, connected |-> TRUE, didClose |-> 0,
                  tasks |-> IF c \in Opening THEN {"readyRead"} ELSE {}, wq |-> "idle", out |-> <<>>,
                  incoming |-> <<>>, pending |-> <<>>,
                  secondary |-> NoSecondary, sent |-> 0]]
    /\ main = [p \in Proc |->
                 [alive |-> TRUE, messages |-> <<>>, scheduled |-> {},
                  semaphore |-> FALSE, runLoop |-> <<>>, stack |-> <<>>,
                  delayed |-> {}]]
    /\ wire = [c \in Endpoint |-> <<>>]
    /\ result = [c \in Endpoint |-> [n \in Number |-> "idle"]]
    /\ handled = [c \in Endpoint |-> [n \in Number |-> 0]]

-----------------------------------------------------------------------------
(* Helpers.                                                                *)

Own(p) == {c \in Endpoint : Owner[c] = p}
Alive(c) == main[Owner[c]].alive
Top(p) == Head(main[p].stack)
In(p, f) == main[p].alive /\ main[p].stack # <<>> /\ Top(p).f = f

\* The client code of p runs: at the bottom of the run loop or in a handler.
ClientRuns(p) == main[p].alive /\ (main[p].stack # <<>> => Top(p).f = "handler")

\* m_inDispatchMessageMarkedDispatchWhenWaitingForSyncReplyCount is not zero.
InMarkedDispatch(c) ==
    \E i \in DOMAIN main[Owner[c]].stack :
        LET frame == main[Owner[c]].stack[i]
        IN  frame.f = "handler" /\ frame.c = c /\ frame.msg.marked

\* sendMessage's choice for DispatchMessageEvenWhenWaitingForSyncReply.
Marks(c) == c \in OnlyWhenProcessing => InMarkedDispatch(c)

\* A frame is entered, or the innermost one goes on as another.
Push(frame, stack) == <<frame>> \o stack
Retop(frame, stack) == <<frame>> \o Tail(stack)

\* sendMessage: dropped unless isValid(); else queued for the work queue.
Outgoing(k, m) == IF k.client THEN [k EXCEPT !.out = Append(@, m)] ELSE k

\* The same for a new message.
Sending(k, m) == [Outgoing(k, m) EXCEPT !.sent = m.id]

\* sendSyncMessage pushes a pending reply.
Expecting(k, n) == [k EXCEPT !.pending = Append(@, [id |-> n, didReceiveReply |-> FALSE])]

SyncReply(n) == [kind |-> "reply", id |-> n, marked |-> FALSE]
NewMessage(c, kind, marked) ==
    [kind |-> kind, id |-> conn[c].sent + 1, marked |-> marked]

\* The process ends: its memory is gone and the kernel closes its sockets.
\* failing is a call of c that exits before it is outstanding, if any.
Ends(p, failing) ==
    /\ main' = [main EXCEPT ![p] =
                 [alive |-> FALSE, messages |-> <<>>, scheduled |-> {},
                  semaphore |-> FALSE, runLoop |-> <<>>, stack |-> <<>>,
                  delayed |-> {}]]
    /\ conn' = [c \in Endpoint |->
                 IF Owner[c] = p
                 THEN [conn[c] EXCEPT !.client = FALSE, !.connected = FALSE,
                                      !.tasks = {}, !.wq = "idle", !.out = <<>>,
                                      !.incoming = <<>>, !.pending = <<>>,
                                      !.secondary = NoSecondary,
                                      !.sent = IF c \in failing THEN @ + 1 ELSE @]
                 ELSE conn[c]]
    /\ result' = [c \in Endpoint |->
                   IF Owner[c] = p
                   THEN [n \in Number |->
                           IF \/ result[c][n] = "sent"
                              \/ c \in failing /\ n = conn[c].sent + 1
                           THEN "failed" ELSE result[c][n]]
                   ELSE result[c]]
    /\ UNCHANGED <<wire, handled>>

Crash(p) == p \in Crashing /\ main[p].alive /\ Ends(p, {})

-----------------------------------------------------------------------------
(* The client of a connection: messages it sends, and the end of it.       *)

\* send: an asynchronous message, with or without
\* DispatchMessageEvenWhenWaitingForSyncReply.
SendAsync(c, flag) ==
    /\ c \in AsyncSenders
    /\ ClientRuns(Owner[c])
    /\ conn[c].client
    /\ conn[c].sent < MaxSends[c]
    /\ conn' = [conn EXCEPT ![c] = Sending(@, NewMessage(c, "async", flag /\ Marks(c)))]
    /\ UNCHANGED <<main, wire, result, handled>>

\* sendSyncMessage up to waitForSyncReply: push the pending reply, then send.
SendSync(c) ==
    /\ ClientRuns(Owner[c])
    /\ conn[c].sent < MaxSends[c]
    /\ conn[c].client
    /\ conn[c].didClose = 0
    /\ LET m == NewMessage(c, "sync", Marks(c))
       IN  /\ conn' = [conn EXCEPT ![c] = Expecting(Sending(@, m), m.id)]
           /\ main' = [main EXCEPT ![Owner[c]].stack =
                        Push([f |-> "sendSync", c |-> c, id |-> m.id, pc |-> "dispatch"], @)]
           /\ result' = [result EXCEPT ![c][m.id] = "sent"]
    /\ UNCHANGED <<wire, handled>>

\* sendSyncMessage on a connection that is invalid or closed:
\* didFailToSendSyncMessage, which ends the process where it is asked to.
SendSyncFails(c) ==
    /\ ClientRuns(Owner[c])
    /\ conn[c].sent < MaxSends[c]
    /\ ~conn[c].client \/ conn[c].didClose > 0
    /\ IF c \in ExitOnFailure
       THEN Ends(Owner[c], {c})
       ELSE /\ conn' = [conn EXCEPT ![c].sent = @ + 1]
            /\ result' = [result EXCEPT ![c][conn[c].sent + 1] = "failed"]
            /\ UNCHANGED <<main, wire, handled>>

Invalidate(c) ==
    /\ c \in Invalidating
    /\ ClientRuns(Owner[c])
    /\ conn[c].client
    /\ conn' = [conn EXCEPT ![c].client = FALSE, ![c].tasks = @ \cup {"invalidate"}]
    /\ UNCHANGED <<main, wire, result, handled>>

-----------------------------------------------------------------------------
(* The client run loop: handlers, dispatchMessages, waitForSyncReply.      *)

\* dispatchMessage: nothing without a client; else the handler is entered.
\* rest is the stack below it.
Dispatch(p, c, m, rest) ==
    IF conn[c].client
    THEN /\ main' = [main EXCEPT ![p] =
                      [rest EXCEPT !.stack = Push([f |-> "handler", c |-> c, msg |-> m], @)]]
         /\ handled' = IF m.kind = "sync"
                       THEN [handled EXCEPT ![Peer[c]][m.id] = @ + 1] ELSE handled
    ELSE main' = [main EXCEPT ![p] = rest] /\ UNCHANGED handled

\* The handler returns; the reply to a sync message is sent unless the handler
\* kept the reply encoder.
HandlerReturns(p, keep) ==
    /\ In(p, "handler")
    /\ keep => Top(p).c \in Delaying /\ Top(p).msg.kind = "sync"
    /\ main' = [main EXCEPT
                 ![p].stack = Tail(@),
                 ![p].delayed = IF keep THEN @ \cup {<<Top(p).c, Top(p).msg.id>>} ELSE @]
    /\ conn' = IF Top(p).msg.kind = "sync" /\ ~keep
               THEN [conn EXCEPT ![Top(p).c] = Outgoing(@, SyncReply(Top(p).msg.id))]
               ELSE conn
    /\ UNCHANGED <<wire, result, handled>>

\* The reply a handler kept is sent when the client gets round to it.
SendDelayedReply(p) ==
    /\ ClientRuns(p)
    /\ \E d \in main[p].delayed :
          /\ main' = [main EXCEPT ![p].delayed = @ \ {d}]
          /\ conn' = [conn EXCEPT ![d[1]] = Outgoing(@, SyncReply(d[2]))]
    /\ UNCHANGED <<wire, result, handled>>

\* SyncMessageState::dispatchMessages takes all queued messages.
SwapMessages(p) ==
    /\ In(p, "dispatchMessages") /\ ~Top(p).swapped
    /\ main' = [main EXCEPT
                 ![p].stack = Retop([Top(p) EXCEPT !.swapped = TRUE, !.todo = main[p].messages], @),
                 ![p].messages = <<>>]
    /\ UNCHANGED <<conn, wire, result, handled>>

\* One turn of its loop: dispatch the next message, or keep it to put back.
DispatchNext(p) ==
    /\ In(p, "dispatchMessages") /\ Top(p).swapped /\ Top(p).todo # <<>>
    /\ LET next == Head(Top(p).todo)
           ours == next.c \in Top(p).allowed
           frame == [Top(p) EXCEPT !.todo = Tail(@),
                                   !.putBack = IF ours THEN @ ELSE Append(@, next)]
           rest == [main[p] EXCEPT !.stack = Retop(frame, @)]
       IN  IF ours THEN Dispatch(p, next.c, next.msg, rest)
                   ELSE main' = [main EXCEPT ![p] = rest] /\ UNCHANGED handled
    /\ UNCHANGED <<conn, wire, result>>

\* Its end: the messages of other connections go back in the queue.
PutBackMessages(p) ==
    /\ In(p, "dispatchMessages") /\ Top(p).swapped /\ Top(p).todo = <<>>
    /\ main' = [main EXCEPT ![p].stack = Tail(@), ![p].messages = @ \o Top(p).putBack]
    /\ UNCHANGED <<conn, wire, result, handled>>

DispatchMessages(allowed, swapped, todo) ==
    [f |-> "dispatchMessages", allowed |-> allowed, swapped |-> swapped,
     todo |-> todo, putBack |-> <<>>]

\* waitForSyncReply: first, dispatchMessages(nullptr).
WaitDispatches(p) ==
    /\ In(p, "sendSync") /\ Top(p).pc = "dispatch"
    /\ main' = [main EXCEPT
                 ![p].stack = Push(DispatchMessages(Endpoint, TRUE, main[p].messages),
                                   Retop([Top(p) EXCEPT !.pc = "check"], @)),
                 ![p].messages = <<>>]
    /\ UNCHANGED <<conn, wire, result, handled>>

\* sendSyncMessage returns: the pending reply is popped, and a failed call
\* ends the process where it is asked to.
SendSyncReturns(p, ok) ==
    LET c == Top(p).c
    IN  IF ~ok /\ c \in ExitOnFailure
        THEN Ends(p, {})
        ELSE /\ main' = [main EXCEPT ![p].stack = Tail(@)]
             /\ conn' = [conn EXCEPT ![c].pending = SubSeq(@, 1, Len(@) - 1)]
             /\ result' = [result EXCEPT ![c][Top(p).id] = IF ok THEN "ok" ELSE "failed"]
             /\ UNCHANGED <<wire, handled>>

\* Second, the reply on top of the stack, the closed connection, the invalid one.
WaitChecks(p) ==
    /\ In(p, "sendSync") /\ Top(p).pc = "check"
    /\ LET k == conn[Top(p).c]
           got == k.pending[Len(k.pending)].didReceiveReply
       IN  IF got \/ k.didClose > 0 \/ ~k.client
           THEN SendSyncReturns(p, got)
           ELSE /\ main' = [main EXCEPT
                             ![p].stack = Retop([Top(p) EXCEPT !.pc = "wait"], @)]
                /\ UNCHANGED <<conn, wire, result, handled>>

\* Then BinarySemaphore::wait, until it is signalled or the time is up.
WaitWakes(p) ==
    /\ In(p, "sendSync") /\ Top(p).pc = "wait"
    /\ main[p].semaphore
    /\ main' = [main EXCEPT
                 ![p].semaphore = FALSE,
                 ![p].stack = Retop([Top(p) EXCEPT !.pc = "dispatch"], @)]
    /\ UNCHANGED <<conn, wire, result, handled>>

WaitTimesOut(p) ==
    /\ In(p, "sendSync") /\ Top(p).pc = "wait" /\ Top(p).c \in Timed
    /\ ~main[p].semaphore
    /\ SendSyncReturns(p, FALSE)

\* The run loop runs the next function dispatched to it: dispatchOneMessage,
\* dispatchMessageAndResetDidScheduleDispatchMessagesForConnection, or the
\* closure of connectionDidClose, which nulls the client.
RunFunction(p) ==
    /\ main[p].alive /\ main[p].stack = <<>> /\ main[p].runLoop # <<>>
    /\ LET c == Head(main[p].runLoop).c
           f == Head(main[p].runLoop).f
           rest == [main[p] EXCEPT !.runLoop = Tail(@)]
       IN  \/ /\ f = "dispatchOneMessage" /\ conn[c].incoming # <<>>
              /\ conn' = [conn EXCEPT ![c].incoming = Tail(@)]
              /\ Dispatch(p, c, Head(conn[c].incoming), rest)
           \/ /\ f = "dispatchMessages"
              /\ main' = [main EXCEPT ![p] =
                           [rest EXCEPT !.scheduled = @ \ {c},
                                        !.stack = Push(DispatchMessages({c}, FALSE, <<>>), @)]]
              /\ UNCHANGED <<conn, handled>>
           \/ /\ f = "didClose"
              /\ main' = [main EXCEPT ![p] = rest]
              /\ conn' = [conn EXCEPT ![c].client = FALSE]
              /\ UNCHANGED handled
    /\ UNCHANGED <<wire, result>>

-----------------------------------------------------------------------------
(* The work queue of a connection.                                         *)

\* sendOutgoingMessages, one message at a time: every message has its own
\* closure, later than open()'s.  Writing to a socket whose other end is
\* closed fails, and the message is lost.
SendOutgoing(c) ==
    /\ Alive(c) /\ conn[c].wq = "idle" /\ "readyRead" \notin conn[c].tasks
    /\ conn[c].connected /\ conn[c].out # <<>>
    /\ conn' = [conn EXCEPT ![c].out = Tail(@)]
    /\ wire' = IF conn[Peer[c]].connected
               THEN [wire EXCEPT ![c] = Append(@, Head(conn[c].out))] ELSE wire
    /\ UNCHANGED <<main, result, handled>>

\* Mutated forms: any reply answers; the bottom of the stack is woken.
AnswersAny(entry, n) == TRUE
AnswersBottom(pending, n) == pending # <<>> /\ pending[1].id = n

\* A pending reply is the one that reply n answers.
Answers(entry, n) == entry.id = n

\* Reply n answers the call on top of m_pendingSyncReplies.
AnswersTop(pending, n) == pending # <<>> /\ pending[Len(pending)].id = n

\* m_pendingSyncReplies with the reply in its place.
Replied(pending, n) ==
    [i \in DOMAIN pending |->
        [pending[i] EXCEPT !.didReceiveReply = @ \/ Answers(pending[i], n)]]

\* processIncomingSyncReply: the pending reply it answers, else the secondary
\* thread's; a late one is ignored.  Only an answer to the top wakes the client.
ProcessIncomingSyncReply(c, n) ==
    LET pending == conn[c].pending
        primary == \E i \in DOMAIN pending : Answers(pending[i], n)
    IN  /\ conn' = [conn EXCEPT
                     ![c].pending = Replied(@, n),
                     ![c].secondary =
                        IF ~primary /\ @.at = "waiting" /\ @.id = n
                        THEN [@ EXCEPT !.replied = TRUE, !.isSet = TRUE] ELSE @]
        /\ main' = IF AnswersTop(pending, n)
                   THEN [main EXCEPT ![Owner[c]].semaphore = TRUE] ELSE main

\* Mutated forms: one flag for all connections; a waiting client is trusted to
\* take the message itself.
IsNewEntryOneFlag(p, c) == main[p].scheduled = {}
IsNewEntryWhileIdle(p, c) == c \notin main[p].scheduled /\ main[p].stack = <<>>

\* m_didScheduleDispatchMessagesWorkSet has no entry for c yet.
IsNewEntry(p, c) == c \notin main[p].scheduled

\* SyncMessageState::processIncomingMessage, up to the wake-up.
QueueMarked(c, m) ==
    LET p == Owner[c]
    IN  /\ main' = [main EXCEPT
                     ![p].scheduled = @ \cup {c},
                     ![p].runLoop = IF IsNewEntry(p, c)
                        THEN Append(@, [f |-> "dispatchMessages", c |-> c]) ELSE @,
                     ![p].messages = Append(@, [c |-> c, msg |-> m])]
        /\ conn' = [conn EXCEPT ![c].wq = "wake"]

\* enqueueIncomingMessage.
EnqueueIncoming(c, m) ==
    /\ conn' = [conn EXCEPT ![c].incoming = Append(@, m)]
    /\ main' = [main EXCEPT ![Owner[c]].runLoop =
                 Append(@, [f |-> "dispatchOneMessage", c |-> c])]

\* readyReadHandler reads a message, and processIncomingMessage routes it.
Receive(c) ==
    /\ Alive(c) /\ conn[c].wq = "idle" /\ conn[c].connected
    /\ wire[Peer[c]] # <<>>
    /\ wire' = [wire EXCEPT ![Peer[c]] = Tail(@)]
    /\ LET m == Head(wire[Peer[c]])
       IN  \/ m.kind = "reply" /\ ProcessIncomingSyncReply(c, m.id)
           \/ m.kind # "reply" /\ m.marked /\ QueueMarked(c, m)
           \/ m.kind # "reply" /\ ~m.marked /\ EnqueueIncoming(c, m)
    /\ UNCHANGED <<result, handled>>

\* ... and wakes the client after queueing a marked message.
WakeUpClient(c) ==
    /\ conn[c].wq = "wake"
    /\ conn' = [conn EXCEPT ![c].wq = "idle"]
    /\ main' = [main EXCEPT ![Owner[c]].semaphore = TRUE]
    /\ UNCHANGED <<wire, result, handled>>

\* Mutated form: it does not.
SignalledNot(s) == s

\* A close signals the semaphore of the secondary thread's pending reply.
Signalled(s) == IF s.at = "waiting" THEN [s EXCEPT !.isSet = TRUE] ELSE s

\* connectionDidClose, up to the dispatch of its closure.  What is left of the
\* socket's data is not read.
Closed(k, done) ==
    [k EXCEPT !.connected = FALSE, !.didClose = @ + 1, !.wq = "post",
              !.tasks = @ \ done, !.secondary = Signalled(@)]

DidClose(c, done) ==
    /\ conn' = [conn EXCEPT ![c] = Closed(@, done)]
    /\ main' = IF conn[c].pending # <<>>
               THEN [main EXCEPT ![Owner[c]].semaphore = TRUE] ELSE main
    /\ UNCHANGED <<wire, result, handled>>

PostDidClose(c) ==
    /\ conn[c].wq = "post"
    /\ conn' = [conn EXCEPT ![c].wq = "idle"]
    /\ main' = [main EXCEPT ![Owner[c]].runLoop = Append(@, [f |-> "didClose", c |-> c])]
    /\ UNCHANGED <<wire, result, handled>>

\* The socket source sees the other end closed.
HangUp(c) ==
    /\ Alive(c) /\ conn[c].wq = "idle"
    /\ conn[c].connected /\ ~conn[Peer[c]].connected
    /\ DidClose(c, {})

\* The readyReadHandler that open() scheduled: it reads what Receive and HangUp
\* read; without the socket its read fails.
ReadyRead(c) ==
    /\ Alive(c) /\ conn[c].wq = "idle" /\ "readyRead" \in conn[c].tasks
    /\ IF conn[c].connected
       THEN /\ conn' = [conn EXCEPT ![c].tasks = @ \ {"readyRead"}]
            /\ UNCHANGED <<main, wire, result, handled>>
       ELSE DidClose(c, {"readyRead"})

\* platformInvalidate, behind the closures dispatched before invalidate().
PlatformInvalidate(c) ==
    /\ Alive(c) /\ conn[c].wq = "idle" /\ "readyRead" \notin conn[c].tasks
    /\ "invalidate" \in conn[c].tasks /\ (conn[c].connected => conn[c].out = <<>>)
    /\ conn' = [conn EXCEPT ![c].connected = FALSE, ![c].tasks = @ \ {"invalidate"}]
    /\ UNCHANGED <<main, wire, result, handled>>

-----------------------------------------------------------------------------
(* A secondary thread: sendSyncMessageFromSecondaryThread.                 *)

\* isValid(), read without a lock.
SecondaryChecks(c) ==
    /\ c \in Secondaries
    /\ Alive(c) /\ conn[c].secondary.at = "out" /\ conn[c].client
    /\ conn[c].sent < MaxSends[c]
    /\ conn' = [conn EXCEPT ![c].secondary.at = "valid"]
    /\ UNCHANGED <<main, wire, result, handled>>

\* Under the lock: give up if the connection has closed, else register and send.
SecondarySends(c) ==
    /\ conn[c].secondary.at = "valid" /\ conn[c].sent < MaxSends[c]
    /\ LET m == NewMessage(c, "sync", FALSE)
       IN  IF conn[c].didClose > 0
           THEN /\ conn' = [conn EXCEPT ![c].secondary = NoSecondary, ![c].sent = m.id]
                /\ result' = [result EXCEPT ![c][m.id] = "failed"]
           ELSE /\ conn' = [conn EXCEPT ![c] =
                             [Sending(@, m) EXCEPT
                                !.secondary = [NoSecondary EXCEPT !.at = "waiting", !.id = m.id]]]
                /\ result' = [result EXCEPT ![c][m.id] = "sent"]
    /\ UNCHANGED <<main, wire, handled>>

\* Its semaphore is signalled, or the time is up.
SecondaryReturns(c) ==
    /\ conn[c].secondary.at = "waiting"
    /\ conn[c].secondary.isSet \/ c \in Timed
    /\ conn' = [conn EXCEPT ![c].secondary = NoSecondary]
    /\ result' = [result EXCEPT ![c][conn[c].secondary.id] =
                   IF conn[c].secondary.replied THEN "ok" ELSE "failed"]
    /\ UNCHANGED <<main, wire, handled>>

-----------------------------------------------------------------------------
\* Steps the client takes of its own accord.
ClientCalls(c) ==
    \/ \E flag \in SendFlags : SendAsync(c, flag)
    \/ SendSync(c)
    \/ SendSyncFails(c)
    \/ Invalidate(c)

\* Steps of the main thread that its code goes on to take.
MainThread(p) ==
    \/ \E keep \in BOOLEAN : HandlerReturns(p, keep)
    \/ SwapMessages(p)
    \/ DispatchNext(p)
    \/ PutBackMessages(p)
    \/ WaitDispatches(p)
    \/ WaitChecks(p)
    \/ WaitWakes(p)
    \/ RunFunction(p)

WorkQueue(c) ==
    \/ SendOutgoing(c)
    \/ Receive(c)
    \/ WakeUpClient(c)
    \/ PostDidClose(c)
    \/ HangUp(c)
    \/ ReadyRead(c)
    \/ PlatformInvalidate(c)

\* Nothing is left on any call stack: the system may rest.
Rest ==
    /\ \A p \in Proc : main[p].stack = <<>>
    /\ UNCHANGED vars

Next ==
    \/ \E p \in Proc :
        MainThread(p) \/ SendDelayedReply(p) \/ WaitTimesOut(p) \/ Crash(p)
    \/ \E c \in Endpoint :
        \/ ClientCalls(c) \/ WorkQueue(c)
        \/ SecondaryChecks(c) \/ SecondarySends(c) \/ SecondaryReturns(c)
    \/ Rest

\* Threads keep running: a handler returns in the end, a kept reply is sent, the
\* run loop and the work queue go on to their next function, a wait with a
\* timeout does not go on for ever.  No fairness for the client's own calls or
\* for faults.
Fairness ==
    /\ \A p \in Proc :
        WF_vars(MainThread(p)) /\ WF_vars(SendDelayedReply(p)) /\ WF_vars(WaitTimesOut(p))
    /\ \A c \in Endpoint : WF_vars(WorkQueue(c))
    /\ \A c \in Secondaries :
        /\ WF_vars(SecondarySends(c))
        /\ WF_vars(conn[c].secondary.isSet /\ SecondaryReturns(c))

Spec == Init /\ [][Next]_vars /\ Fairness

-----------------------------------------------------------------------------
(* Properties.                                                             *)

\* A client asleep in waitForSyncReply is not left asleep: while its semaphore
\* is not set it has not been answered, its connection has not closed, and a
\* marked message in the queue is one whose work queue is about to signal.
NoLostWakeup ==
    \A p \in Proc :
        In(p, "sendSync") /\ Top(p).pc = "wait" /\ ~main[p].semaphore =>
            LET k == conn[Top(p).c]
            IN  /\ ~k.pending[Len(k.pending)].didReceiveReply
                /\ k.didClose = 0
                /\ main[p].messages # <<>> => \E c \in Own(p) : conn[c].wq = "wake"

\* The types, and the wake-ups of every client that waits, at any depth of calls
\* inside handlers.
ConnectionInv == TypeOK /\ NoLostWakeup

\* A marked message that nobody waiting has taken is still dispatched: for
\* every message in the SyncMessageState, or on its way back to it, the run
\* loop has a dispatchMessages for its connection to run, or is about to swap.
NothingStranded ==
    \A p \in Proc :
        LET stack == main[p].stack
            kept == {main[p].messages[i].c : i \in DOMAIN main[p].messages}
                    \cup UNION {{stack[i].putBack[j].c : j \in DOMAIN stack[i].putBack} :
                        i \in {i \in DOMAIN stack : stack[i].f = "dispatchMessages"}}
        IN  \A c \in kept :
              \/ \E i \in DOMAIN main[p].runLoop :
                    main[p].runLoop[i] = [f |-> "dispatchMessages", c |-> c]
              \/ \E i \in DOMAIN stack :
                    /\ stack[i].f = "dispatchMessages"
                    /\ ~stack[i].swapped /\ c \in stack[i].allowed

\* An unmarked message is handled only after every message sent before it on
\* its connection has been: WebProcess::initializeConnection has its sync
\* messages sent unmarked so that the frame notifications come first.
EarlierMessagesFirst ==
    \A p \in Proc :
        LET stack == main[p].stack
            waits(c, n) ==
              \/ \E i \in DOMAIN main[p].messages :
                    main[p].messages[i].c = c /\ main[p].messages[i].msg.id < n
              \/ \E i \in DOMAIN conn[c].incoming : conn[c].incoming[i].id < n
              \/ \E i \in DOMAIN stack :
                    /\ stack[i].f = "dispatchMessages"
                    /\ \E j \in DOMAIN stack[i].todo :
                          stack[i].todo[j].c = c /\ stack[i].todo[j].msg.id < n
        IN  \A i \in DOMAIN stack :
              stack[i].f = "handler" /\ ~stack[i].msg.marked =>
                  ~waits(stack[i].c, stack[i].msg.id)

\* What sendSyncMessage promises its caller (SyncCall): the handler at the
\* other end runs at most once, and the call succeeds only if it ran.
Calls == INSTANCE SyncCall WITH
    Sender <- Endpoint, Number <- Number, call <- result, runs <- handled

ImplementsSyncCall == Calls!Safety

\* Every sendSyncMessage comes back, with the reply or as a failure, however
\* the processes call each other from inside their handlers: two senders never
\* wait for each other for good, and a close or an invalidate ends the wait.
\* So does one from a secondary thread when its connection closes; a client
\* that invalidates the connection must not have one, for invalidate signals
\* no secondary thread.
SendSyncEnds ==
    \A c \in Endpoint \ (Secondaries \cap Invalidating) : \A n \in 1..MaxSends[c] :
        (result[c][n] = "sent") ~> (result[c][n] \in {"ok", "failed"})
=============================================================================
