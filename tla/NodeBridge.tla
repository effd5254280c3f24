----------------------------- MODULE NodeBridge -----------------------------
(***************************************************************************)
(* The bridge between page script, which runs in JavaScriptCore, and node, *)
(* which runs in V8, both on the web process's main thread.                *)
(*                                                                         *)
(* Page script reaches node only through NodeProxy objects.  A proxy holds *)
(* no V8 handle: it holds the name of a global variable of node's context, *)
(* and every operation on it is a piece of source text that names that     *)
(* variable and is run in V8.  An operation that yields a value first      *)
(* draws a number from the static counter ExeCnt and stores its value in   *)
(* the result variable of that number.  Functions that page script passes  *)
(* to node all become the one native function nodeproxyCb, which calls     *)
(* whatever callback the static slot m_data holds at that moment.          *)
(*                                                                         *)
(* Either engine can call into the other while it is being called: node's  *)
(* script calls nodeproxyCb, and page script runs while an operation is    *)
(* still turning its arguments into text (toString, toJSON, getters).  So  *)
(* the main thread's stack is a sequence of operations, which convert      *)
(* their arguments or run in V8, and of callbacks in JavaScriptCore.       *)
(***************************************************************************)
EXTENDS Naturals, Sequences

CONSTANTS
    MaxOps,     \* bound: operations and object parameters in a behaviour
    MaxRegs,    \* bound: callbacks registered in a behaviour
    MaxPages    \* bound: documents the process shows one after the other

ASSUME NodeBridgeAssumption ==
    MaxOps \in Nat /\ MaxRegs \in Nat /\ MaxPages \in Nat \ {0}

VARIABLES
    ids,        \* operations and object parameters so far; each is an identity
    exeCnt,     \* NodeProxy::ExeCnt
    moduleId,   \* require's static moduleid
    pcnt,       \* v82jscCb's static pcnt
    globals,    \* node's global variables that the bridge has assigned
    proxies,    \* the proxies handed to page script
    regs,       \* callbacks registered so far; each is a number
    slot,       \* m_data: the callback registered last
    kept,       \* registrations whose function node has kept and may call later
    stack,      \* operations and callbacks the main thread is inside, outermost first
    page,       \* the document the process shows
    contexts,   \* the documents that have not been destroyed
    crash,      \* what the process has dereferenced, if it has crashed
    reentered   \* history: operations during which another one drew from ExeCnt

counters == <<ids, exeCnt, moduleId, pcnt>>
heap == <<globals, proxies>>
documents == <<page, contexts>>
callbacks == <<regs, slot>>
vars == <<counters, heap, callbacks, kept, stack, documents, crash, reentered>>

\* How page script enters V8.  "req" is window.require, "new" instantiates a
\* required class, "exe" calls a function (node_proxy_cls_exe_fun), "get" reads
\* a property of a proxy (NodeProxy::getProp), "clsget" one of a function proxy
\* (node_proxy_cls_get_prop), "reqget" one of a required class
\* (node_get_prop_from_required_class), "set" assigns a property
\* (NodeProxy::setProperty, node_proxy_cls_set_prop).  A script that only asks
\* for the type of a property is, to the bridge, one that sets nothing.
Counting == {"exe", "get", "clsget", "reqget"}  \* draw from ExeCnt
Requiring == {"req", "new"}                     \* draw from moduleid
Converting == {"exe", "set", "new"}             \* turn arguments into text
Kinds == Counting \cup Requiring \cup Converting

\* What a script comes to: the kinds of value the conversions tell apart, or
\* an exception.
Outcomes == {"object", "array", "function", "null", "primitive", "throw"}

\* V8's typeof of such a value.
TypeOf(outcome) ==
    CASE outcome \in {"object", "array", "null"} -> "object"
      [] outcome = "function" -> "function"
      [] OTHER -> "other"

Ids == 1..MaxOps
Regs == 1..MaxRegs
Names == {"res", "mod", "par"} \X Nat
NoData == [reg |-> 0, page |-> 0]

\* An operation: the number in the variable it assigns, the callback it has
\* registered (0 if none), the document it is called from, and how far it is.
Script == [kind : Kinds, op : Ids, n : Nat, reg : 0..MaxRegs,
           page : 1..MaxPages, phase : {"converting", "running"}]

\* A callback: the registration node calls, and the one that is invoked.
Callback == [kind : {"cb"}, reg : Regs, data : Regs, page : 1..MaxPages]

Init ==
    /\ ids = 0
    /\ exeCnt = 0
    /\ moduleId = 0
    /\ pcnt = 0
    /\ globals = [nm \in {} |-> 0]
    /\ proxies = {}
    /\ regs = 0
    /\ slot = NoData
    /\ kept = {}
    /\ stack = <<>>
    /\ page = 1
    /\ contexts = {1}
    /\ crash = "none"
    /\ reentered = {}

Top == stack[Len(stack)]
Push(f) == Append(stack, f)
Pop == SubSeq(stack, 1, Len(stack) - 1)
SetTop(f) == [stack EXCEPT ![Len(stack)] = f]

IsRunning(f) == f.kind # "cb" /\ f.phase = "running"
IsConverting(f) == f.kind # "cb" /\ f.phase = "converting"

\* Page script runs when nothing is on the stack, when a callback is innermost,
\* and when the innermost operation is converting its arguments.
InPage == crash = "none" /\ (stack # <<>> => ~IsRunning(Top))

\* Node's script runs.
InNode == crash = "none" /\ stack # <<>> /\ IsRunning(Top)

\* libuv, which does not enter itself, is calling back: some callback was not
\* called by a script that page script runs.
UvRunning ==
    \E i \in 1..Len(stack) :
        stack[i].kind = "cb" /\ (i > 1 => ~IsRunning(stack[i - 1]))

\* The document of the page script that runs (exec->lexicalGlobalObject()).
CallerPage == IF stack = <<>> THEN page ELSE Top.page

Assign(nm, id, outcome) ==
    [x \in DOMAIN globals \cup {nm} |->
        IF x = nm THEN [of |-> id, type |-> TypeOf(outcome)] ELSE globals[x]]

-----------------------------------------------------------------------------
(* Page script calls node. *)

\* A mutated form: reading a property draws no number of its own.
DrawNotForGet(kind) ==
    /\ exeCnt' = IF kind \in Counting \ {"get"} THEN exeCnt + 1 ELSE exeCnt
    /\ moduleId' = IF kind = "req" THEN moduleId + 1 ELSE moduleId

\* The counters an operation advances as it begins its source text.  (A class is
\* instantiated by require, which draws its number after the conversion.)
Draw(kind) ==
    /\ exeCnt' = IF kind \in Counting THEN exeCnt + 1 ELSE exeCnt
    /\ moduleId' = IF kind = "req" THEN moduleId + 1 ELSE moduleId

\* The number in the variable that the source text assigns: ExeCnt is
\* incremented first, moduleid afterwards.
Number(kind) ==
    IF kind \in Counting THEN exeCnt' ELSE IF kind = "req" THEN moduleId ELSE 0

\* The operations that the main thread is inside.
OpsInside == {stack[i].op : i \in {j \in 1..Len(stack) : stack[j].kind # "cb"}}

\* An operation begins its source text.  One that takes no arguments runs it at
\* once.
StartOp(kind) ==
    /\ InPage
    /\ ids < MaxOps
    /\ ids' = ids + 1
    /\ Draw(kind)
    /\ stack' = Push([kind |-> kind, op |-> ids + 1, n |-> Number(kind), reg |-> 0,
                      page |-> CallerPage,
                      phase |-> IF kind \in Converting THEN "converting" ELSE "running"])
    /\ reentered' = IF kind \in Counting THEN reentered \cup OpsInside ELSE reentered
    /\ UNCHANGED <<pcnt, heap, callbacks, kept, documents, crash>>

\* Mutated forms: a callback that is already registered stays; a function that
\* is assigned to a property is not registered.
RegisterOnce ==
    slot' = IF slot = NoData THEN [reg |-> regs + 1, page |-> CallerPage] ELSE slot

RegisterNotForSet ==
    slot' = IF Top.kind # "set" THEN [reg |-> regs + 1, page |-> CallerPage] ELSE slot

\* The function passed replaces, and deletes, the one registered before.
Register == slot' = [reg |-> regs + 1, page |-> CallerPage]

\* An argument is a function: it is registered, and the text names nodeproxyCb.
ConvertFunction ==
    /\ InPage
    /\ stack # <<>>
    /\ IsConverting(Top)
    /\ regs < MaxRegs
    /\ regs' = regs + 1
    /\ Register
    /\ stack' = SetTop([Top EXCEPT !.reg = regs + 1])
    /\ UNCHANGED <<counters, heap, kept, documents, crash, reentered>>

\* The text is complete and is run.
RunScript ==
    /\ InPage
    /\ stack # <<>>
    /\ IsConverting(Top)
    /\ IF Top.kind = "new"
       THEN /\ moduleId' = moduleId + 1
            /\ stack' = SetTop([Top EXCEPT !.phase = "running", !.n = moduleId])
       ELSE /\ moduleId' = moduleId
            /\ stack' = SetTop([Top EXCEPT !.phase = "running"])
    /\ UNCHANGED <<ids, exeCnt, pcnt, heap, callbacks, kept, documents, crash, reentered>>

\* The script keeps a function it was passed: as the continuation of some
\* asynchronous work, as an event listener, as a property.
KeepCallback ==
    /\ InNode
    /\ Top.reg # 0
    /\ Top.reg \notin kept
    /\ kept' = kept \cup {Top.reg}
    /\ UNCHANGED <<counters, heap, callbacks, stack, documents, crash, reentered>>

-----------------------------------------------------------------------------
(* The script ends: its value has been stored in the operation's variable and *)
(* is converted for page script.                                              *)

\* Whether NodeProxy::v8data2jsc wraps a value in a proxy.  An array becomes
\* undefined.
V8Data2Jsc(outcome) == outcome \in {"object", "function"}

\* The value in the result variable of the operation that ends.
Store(outcome) ==
    globals' = IF outcome = "throw" THEN globals
               ELSE Assign(<<"res", Top.n>>, Top.op, outcome)

\* The name under which the value is handed to page script is built anew from
\* ExeCnt, after the script has run.
ResultName == <<"res", exeCnt>>

\* NodeProxy::v8typeof of that variable, after the value has been stored.
ResultType == IF ResultName \in DOMAIN globals' THEN globals'[ResultName].type ELSE "other"

\* Hand page script a proxy for the variable nm if cond holds.
Hand(nm, cond) ==
    proxies' = IF cond THEN proxies \cup {[name |-> nm, of |-> Top.op]} ELSE proxies

\* The process crashes when an empty handle, which is what a script that threw
\* returns, is asked for its type.
EmptyHandle(cond) == crash' = IF cond THEN "handle" ELSE crash

\* NodeProxy::getProp: an exception yields undefined.
EndGet(outcome) ==
    /\ Top.kind = "get"
    /\ Store(outcome)
    /\ Hand(ResultName, V8Data2Jsc(outcome))
    /\ UNCHANGED crash

\* node_proxy_cls_exe_fun: any object, an array too, becomes a proxy.
EndExe(outcome) ==
    /\ Top.kind = "exe"
    /\ Store(outcome)
    /\ Hand(ResultName, outcome \in {"object", "array", "function"})
    /\ EmptyHandle(outcome = "throw")

\* node_proxy_cls_get_prop: a second script asks for the type of the result
\* variable; only if that is not an object is the first script's value looked
\* at.
EndClsGet(outcome) ==
    /\ Top.kind = "clsget"
    /\ Store(outcome)
    /\ Hand(ResultName, ResultType = "object" \/ V8Data2Jsc(outcome))
    /\ EmptyHandle(ResultType # "object" /\ outcome = "throw")

\* node_get_prop_from_required_class: the same, but a function becomes a
\* function proxy.
EndReqGet(outcome) ==
    /\ Top.kind = "reqget"
    /\ Store(outcome)
    /\ Hand(ResultName, ResultType = "function" \/ V8Data2Jsc(outcome))
    /\ EmptyHandle(ResultType # "function" /\ outcome = "throw")

\* NodeProxy::setProperty and node_proxy_cls_set_prop return nothing and ignore
\* exceptions.
EndSet(outcome) ==
    /\ Top.kind = "set"
    /\ UNCHANGED <<heap, crash>>

\* window.require: a module that is an object becomes a proxy; one that is a
\* class, and one that is missing, becomes a function that page script can
\* instantiate.
EndReq(outcome) ==
    /\ Top.kind = "req"
    /\ globals' = IF outcome = "throw" THEN globals
                  ELSE Assign(<<"mod", Top.n>>, Top.op, outcome)
    /\ Hand(<<"mod", Top.n>>, outcome \notin {"function", "throw"})
    /\ UNCHANGED crash

\* _require_obj_from_class_: the object takes the place of the class under the
\* module's name.  A proxy is returned in every case: if the constructor throws
\* it names the class, if the module is missing it names no variable.
EndNew(outcome) ==
    /\ Top.kind = "new"
    /\ IF outcome = "throw"
       THEN globals' \in {globals, Assign(<<"mod", Top.n>>, Top.op, "function")}
       ELSE globals' = Assign(<<"mod", Top.n>>, Top.op, "object")
    /\ Hand(<<"mod", Top.n>>, TRUE)
    /\ UNCHANGED crash

EndOp(outcome) ==
    /\ InNode
    /\ \/ EndGet(outcome)
       \/ EndExe(outcome)
       \/ EndClsGet(outcome)
       \/ EndReqGet(outcome)
       \/ EndSet(outcome)
       \/ EndReq(outcome)
       \/ EndNew(outcome)
    /\ stack' = Pop
    /\ UNCHANGED <<counters, callbacks, kept, documents, reentered>>

-----------------------------------------------------------------------------
(* Node calls page script: v82jscCb. *)

\* A mutated form: the name is built after the counter has been advanced.
WrapParameterLate ==
    /\ ids < MaxOps
    /\ ids' = ids + 1
    /\ pcnt' = pcnt + 1
    /\ globals' = Assign(<<"par", pcnt>>, ids + 1, "object")
    /\ proxies' = proxies \cup {[name |-> <<"par", pcnt + 1>>, of |-> ids + 1]}

\* An object parameter is stored in a variable of its own and wrapped.
WrapParameter ==
    /\ ids < MaxOps
    /\ ids' = ids + 1
    /\ pcnt' = pcnt + 1
    /\ globals' = Assign(<<"par", pcnt>>, ids + 1, "object")
    /\ proxies' = proxies \cup {[name |-> <<"par", pcnt>>, of |-> ids + 1]}

\* A mutated form: the document is not looked at.
InvokeCallbackAnyway(r) ==
    stack' = IF slot = NoData THEN stack
             ELSE Push([kind |-> "cb", reg |-> r, data |-> slot.reg, page |-> slot.page])

\* JSCallbackData::invokeCallback returns at once if the document that the
\* callback was registered in has been destroyed.
InvokeCallback(r) ==
    stack' = IF slot.page \in contexts
             THEN Push([kind |-> "cb", reg |-> r, data |-> slot.reg, page |-> slot.page])
             ELSE stack

\* Node calls nodeproxyCb, which stands for registration r in what it was given:
\* the script that was passed it does, or a later one (an event is emitted), or
\* libuv has reported that some work is done, with nothing on the stack or from
\* a run loop nested in page script.  It may be the last such call.
NodeproxyCb(r) ==
    /\ crash = "none"
    /\ \/ InNode /\ (r \in kept \/ r = Top.reg)
       \/ ~InNode /\ r \in kept /\ ~UvRunning
    /\ WrapParameter \/ UNCHANGED <<ids, pcnt, heap>>
    /\ InvokeCallback(r)
    /\ crash' = IF slot = NoData THEN "slot" ELSE crash
    /\ kept' \in {kept, kept \ {r}}
    /\ UNCHANGED <<exeCnt, moduleId, callbacks, documents, reentered>>

\* m_data itself is not read again once the callback has been invoked.
CallbackReturn ==
    /\ crash = "none"
    /\ stack # <<>>
    /\ Top.kind = "cb"
    /\ stack' = Pop
    /\ UNCHANGED <<counters, heap, callbacks, kept, documents, crash, reentered>>

-----------------------------------------------------------------------------
(* The documents. *)

\* The process shows another document, between two callbacks or while page
\* script runs a nested loop.  The previous one lives on for as long as something
\* refers to it; m_data and what node has kept stay as they are.
Navigate ==
    /\ InPage
    /\ page < MaxPages
    /\ page' = page + 1
    /\ contexts' = contexts \cup {page + 1}
    /\ UNCHANGED <<counters, heap, callbacks, kept, stack, crash, reentered>>

\* A document that is not shown, and none of whose scripts the main thread is
\* inside (its global object refers to the document), is destroyed; its DOMWindow,
\* which the callback's JSDOMGlobalObject keeps alive, loses its context.
DestroyDocument(d) ==
    /\ crash = "none"
    /\ d \in contexts \ {page}
    /\ \A i \in 1..Len(stack) : stack[i].page # d
    /\ contexts' = contexts \ {d}
    /\ UNCHANGED <<counters, heap, callbacks, kept, stack, page, crash, reentered>>

Next ==
    \/ \E kind \in Kinds : StartOp(kind)
    \/ ConvertFunction
    \/ RunScript
    \/ KeepCallback
    \/ \E outcome \in Outcomes : EndOp(outcome)
    \/ \E r \in Regs : NodeproxyCb(r)
    \/ CallbackReturn
    \/ Navigate
    \/ \E d \in 1..MaxPages : DestroyDocument(d)

Spec == Init /\ [][Next]_vars

-----------------------------------------------------------------------------
(* Properties. *)

\* The type invariant of NodeProxy's statics, of node's variables and of the
\* main thread's stack.
TypeOK ==
    /\ ids \in 0..MaxOps
    /\ exeCnt \in Nat /\ moduleId \in Nat /\ pcnt \in Nat
    /\ DOMAIN globals \subseteq Names
    /\ \A nm \in DOMAIN globals :
          globals[nm] \in [of : Ids, type : {"object", "function", "other"}]
    /\ proxies \subseteq [name : Names, of : Ids]
    /\ regs \in 0..MaxRegs
    /\ slot \in [reg : Regs, page : 1..MaxPages] \cup {NoData}
    /\ kept \subseteq Regs
    /\ stack \in Seq(Script \cup Callback)
    /\ page \in 1..MaxPages
    /\ contexts \subseteq 1..MaxPages
    /\ crash \in {"none", "handle", "slot"}
    /\ reentered \subseteq Ids

\* A result variable keeps the value it was first given, whatever operations
\* run inside the one that assigns it: each operation takes its number
\* (++ExeCnt) before its arguments or its script can call back.
ResultsAreFinal ==
    [][\A nm \in DOMAIN globals :
          nm[1] = "res" => nm \in DOMAIN globals' /\ globals'[nm] = globals[nm]]_vars

\* A proxy's name stands for the proxy's own value for as long as the process
\* lives: always for modules, instances and parameters, and for a result unless
\* another operation drew from ExeCnt while this one converted its arguments or
\* ran its script.  (A proxy for a class that is missing names no variable.)
ProxyNamesItsValue ==
    \A p \in proxies :
        \/ p.name[1] = "res" /\ p.of \in reentered
        \/ p.name[1] = "mod" /\ p.name \notin DOMAIN globals
        \/ p.name \in DOMAIN globals /\ globals[p.name].of = p.of

\* However operations nest, a proxy never stands for a value older than its
\* own: the name that getProp, node_proxy_cls_exe_fun and the class operations
\* build after the script has run is that of the operation or of a later one.
ProxyNeverStale ==
    \A p \in proxies : p.name \in DOMAIN globals => globals[p.name].of >= p.of

\* nodeproxyCb never finds m_data null, although only some operations fill it
\* and documents come and go between its registration and the call.
SlotIsFilled == crash # "slot"

\* The callback that runs when node calls a function it was given is the one
\* registered for that function or one registered after it, never an older one.
CallbackNeverStale ==
    \A i \in 1..Len(stack) :
        stack[i].kind = "cb" => stack[i].data >= stack[i].reg

\* No page script runs in a document that has been destroyed, although m_data
\* and the functions node has kept outlive documents.
CallbackHasContext ==
    \A i \in 1..Len(stack) : stack[i].kind = "cb" => stack[i].page \in contexts

\* Proxies and callbacks do not go stale: a proxy never stands for an older
\* value, and a callback runs only in a document that exists.
BridgeInv == TypeOK /\ ProxyNeverStale /\ CallbackHasContext

\* What the declaration of v8data2jsc says: the proxy that is returned
\* "contain[s] the v8 object refname", that is, it stands for the value that
\* was converted.
ProxyContainsItsObject ==
    \A p \in proxies : p.name[1] = "res" =>
        p.name \in DOMAIN globals /\ globals[p.name].of = p.of
=============================================================================
