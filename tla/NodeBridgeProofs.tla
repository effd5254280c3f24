-------------------------- MODULE NodeBridgeProofs --------------------------
(***************************************************************************)
(* However page script and node call each other, and for any number of     *)
(* operations, callbacks and documents: nodeproxyCb never finds the        *)
(* callback slot empty, and never finds in it a callback older than the    *)
(* one it is called for; a result variable is assigned once; and a proxy   *)
(* stands for its own value or, if another operation drew a number while   *)
(* its own converted its arguments or ran, for a later one.                *)
(***************************************************************************)
EXTENDS NodeBridge, SequenceTheorems, TLAPS

\* The shapes of the two kinds of stack frames, without the bounds.
AnyScript == [kind : Kinds, op : Nat, n : Nat, reg : Nat, page : Nat,
              phase : {"converting", "running"}]
AnyCallback == [kind : {"cb"}, reg : Nat, data : Nat, page : Nat]

BridgeTypeOK ==
    /\ exeCnt \in Nat
    /\ moduleId \in Nat
    /\ ids \in Nat
    /\ regs \in Nat
    /\ page \in Nat
    /\ slot \in [reg : Nat, page : Nat]
    /\ stack \in Seq(AnyScript \cup AnyCallback)

\* Every function that node can still call was registered in the slot, which
\* has only moved on to later ones since.
Reachable(f, latest) ==
    /\ f.kind = "cb" => f.data >= f.reg
    /\ f.kind # "cb" => f.reg \in 0..latest

SlotInv ==
    /\ slot.reg = regs
    /\ kept \subseteq 1..regs
    /\ \A i \in 1..Len(stack) : Reachable(stack[i], regs)
    /\ crash # "slot"

IInv == BridgeTypeOK /\ SlotInv

\* Nothing is registered and nothing is on the stack at first.
LEMMA SlotInit == Init => IInv
  BY DEF Init, IInv, BridgeTypeOK, SlotInv, NoData

\* "cb" is no kind of script.
LEMMA ScriptKinds == "cb" \notin Kinds
  BY DEF Kinds, Counting, Requiring, Converting

\* Pushing a frame that is reachable leaves a stack of such frames, and a later
\* registration does no harm to the frames below.
LEMMA PushKeeps ==
    ASSUME NEW S, NEW s \in Seq(S), NEW f \in S, NEW a \in Nat, NEW b \in Nat,
           a <= b, Reachable(f, b), \A i \in 1..Len(s) : Reachable(s[i], a)
    PROVE  /\ Append(s, f) \in Seq(S)
           /\ \A i \in 1..Len(Append(s, f)) : Reachable(Append(s, f)[i], b)
<1>1. \A i \in 1..Len(s) : Reachable(s[i], b)
  <2> SUFFICES ASSUME NEW i \in 1..Len(s) PROVE Reachable(s[i], b)
    OBVIOUS
  <2>1. 0..a \subseteq 0..b
    OBVIOUS
  <2>2. Reachable(s[i], a)
    OBVIOUS
  <2>3. QED
    BY <2>1, <2>2, Zenon DEF Reachable
<1>2. \A i \in 1..Len(Append(s, f)) :
          Append(s, f)[i] = IF i <= Len(s) THEN s[i] ELSE f
  OBVIOUS
<1>3. \A i \in 1..Len(Append(s, f)) : i <= Len(s) => i \in 1..Len(s)
  OBVIOUS
<1>4. QED
  BY <1>1, <1>2, <1>3

\* The innermost frame is left.
LEMMA FrontOfStack ==
    ASSUME NEW S, NEW s \in Seq(S), s # <<>>
    PROVE  /\ SubSeq(s, 1, Len(s) - 1) \in Seq(S)
           /\ Len(SubSeq(s, 1, Len(s) - 1)) = Len(s) - 1
           /\ \A i \in 1..Len(s) - 1 : SubSeq(s, 1, Len(s) - 1)[i] = s[i]
<1>1. Len(s) \in Nat \ {0}
  OBVIOUS
<1>2. \A i \in 1..Len(s) - 1 : i \in 1..Len(s) /\ s[i] \in S
  BY <1>1
<1>3. 1 \in Int /\ Len(s) - 1 \in Int
  BY <1>1
<1>4. /\ SubSeq(s, 1, Len(s) - 1) \in Seq(S)
      /\ Len(SubSeq(s, 1, Len(s) - 1)) = IF 1 <= Len(s) - 1 THEN Len(s) - 1 - 1 + 1 ELSE 0
      /\ \A i \in 1..Len(s) - 1 - 1 + 1 : SubSeq(s, 1, Len(s) - 1)[i] = s[1 + i - 1]
  BY <1>2, <1>3, SubSeqProperties
<1>5. Len(SubSeq(s, 1, Len(s) - 1)) = Len(s) - 1
  <2>1. \A n \in Nat \ {0} : (IF 1 <= n - 1 THEN n - 1 - 1 + 1 ELSE 0) = n - 1
    OBVIOUS
  <2>2. QED
    BY <1>1, <1>4, <2>1, Zenon
<1>6. ASSUME NEW i \in 1..Len(s) - 1 PROVE SubSeq(s, 1, Len(s) - 1)[i] = s[i]
  <2>1. 1 + i - 1 = i /\ i \in 1..Len(s) - 1 - 1 + 1
    BY <1>1
  <2>2. SubSeq(s, 1, Len(s) - 1)[i] = s[1 + i - 1]
    BY <1>4, <2>1
  <2>3. QED
    BY <2>1, <2>2
<1>7. QED
  BY <1>4, <1>5, <1>6

LEMMA PopKeeps ==
    ASSUME BridgeTypeOK, SlotInv, stack # <<>>
    PROVE  /\ Pop \in Seq(AnyScript \cup AnyCallback)
           /\ \A i \in 1..Len(Pop) : Reachable(Pop[i], regs)
<1>1. Len(stack) \in Nat \ {0} /\ stack \in Seq(AnyScript \cup AnyCallback)
  BY DEF BridgeTypeOK
<1>2. /\ Pop \in Seq(AnyScript \cup AnyCallback)
      /\ Len(Pop) = Len(stack) - 1
      /\ \A i \in 1..Len(stack) - 1 : Pop[i] = stack[i]
  BY <1>1, FrontOfStack DEF Pop
<1>3. \A i \in 1..Len(Pop) : i \in 1..Len(stack) /\ Pop[i] = stack[i]
  BY <1>1, <1>2
<1>4. QED
  BY <1>2, <1>3 DEF SlotInv

\* The innermost frame is replaced.
LEMMA SetTopFacts ==
    ASSUME NEW S, NEW s \in Seq(S), s # <<>>, NEW f \in S,
           NEW t, t = [s EXCEPT ![Len(s)] = f]
    PROVE  /\ t \in Seq(S) /\ Len(t) = Len(s) /\ Len(s) \in 1..Len(s)
           /\ t[Len(s)] = f
           /\ \A i \in 1..Len(s) : i # Len(s) => t[i] = s[i]
  OBVIOUS

LEMMA SetTopKeeps ==
    ASSUME BridgeTypeOK, SlotInv, stack # <<>>, NEW f \in AnyScript \cup AnyCallback,
           NEW b \in Nat, regs <= b, Reachable(f, b), stack' = SetTop(f)
    PROVE  /\ stack' \in Seq(AnyScript \cup AnyCallback)
           /\ \A i \in 1..Len(stack') : Reachable(stack'[i], b)
<1>1. stack \in Seq(AnyScript \cup AnyCallback) /\ regs \in Nat
  BY DEF BridgeTypeOK
<1>2. /\ stack' \in Seq(AnyScript \cup AnyCallback) /\ Len(stack') = Len(stack)
      /\ stack'[Len(stack)] = f
      /\ \A i \in 1..Len(stack) : i # Len(stack) => stack'[i] = stack[i]
  BY <1>1, SetTopFacts DEF SetTop
<1>3. 0..regs \subseteq 0..b
  BY <1>1
<1>4. \A i \in 1..Len(stack) : Reachable(stack[i], b)
  BY <1>3, Zenon DEF SlotInv, Reachable
<1>5. QED
  BY <1>2, <1>4

\* The innermost frame.
LEMMA TopFacts ==
    ASSUME IInv, stack # <<>>
    PROVE  /\ Top \in AnyScript \cup AnyCallback
           /\ Top.kind # "cb" => Top \in AnyScript
           /\ Reachable(Top, regs)
<1>1. stack \in Seq(AnyScript \cup AnyCallback)
  BY DEF IInv, BridgeTypeOK
<1>2. Len(stack) \in 1..Len(stack)
  BY <1>1
<1>3. Top \in AnyScript \cup AnyCallback
  BY <1>1, <1>2 DEF Top
<1>4. Reachable(Top, regs)
  BY <1>2 DEF IInv, SlotInv, Top
<1>5. QED
  BY <1>3, <1>4 DEF AnyCallback

\* The page of the script that calls.
LEMMA CallerPageNat == ASSUME IInv PROVE CallerPage \in Nat
<1>1. CASE stack = <<>>
  BY <1>1 DEF CallerPage, IInv, BridgeTypeOK
<1>2. CASE stack # <<>>
  BY <1>2, TopFacts DEF CallerPage, AnyScript, AnyCallback
<1>3. QED
  BY <1>1, <1>2

\* An operation starts; it has registered nothing yet.
LEMMA StartKeeps ==
    ASSUME IInv, NEW kind \in Kinds, StartOp(kind)
    PROVE  IInv'
<1> DEFINE f == [kind |-> kind, op |-> ids + 1, n |-> Number(kind), reg |-> 0,
                 page |-> CallerPage,
                 phase |-> IF kind \in Converting THEN "converting" ELSE "running"]
<1> USE DEF IInv
<1>1. /\ ids' = ids + 1 /\ exeCnt' \in Nat /\ moduleId' \in Nat /\ regs' = regs
      /\ page' = page /\ kept' = kept /\ crash' = crash /\ slot' = slot
      /\ stack' = Append(stack, f)
  BY DEF StartOp, Draw, documents, callbacks, Push, BridgeTypeOK
<1>2. f \in AnyScript
  <2>1. Number(kind) \in Nat
    BY <1>1 DEF Number, BridgeTypeOK
  <2>2. ids + 1 \in Nat /\ 0 \in Nat /\ CallerPage \in Nat
    BY CallerPageNat DEF BridgeTypeOK
  <2>3. QED
    BY <2>1, <2>2, Zenon DEF AnyScript
<1>3. Reachable(f, regs)
  <2>1. f.kind # "cb" /\ f.reg = 0
    BY ScriptKinds
  <2>2. 0 \in 0..regs
    BY DEF BridgeTypeOK
  <2>3. QED
    BY <2>1, <2>2, Zenon DEF Reachable
<1>4. /\ stack' \in Seq(AnyScript \cup AnyCallback)
      /\ \A i \in 1..Len(stack') : Reachable(stack'[i], regs)
  <2>1. regs \in Nat /\ regs <= regs /\ stack \in Seq(AnyScript \cup AnyCallback)
    BY DEF BridgeTypeOK
  <2>2. \A i \in 1..Len(stack) : Reachable(stack[i], regs)
    BY DEF SlotInv
  <2>3. f \in AnyScript \cup AnyCallback
    BY <1>2
  <2> HIDE DEF f
  <2>4. QED
    BY <1>1, <1>3, <2>1, <2>2, <2>3, PushKeeps
<1>5. BridgeTypeOK'
  BY <1>1, <1>4 DEF BridgeTypeOK
<1>6. SlotInv'
  BY <1>1, <1>4, Zenon DEF SlotInv
<1>7. QED
  BY <1>5, <1>6

\* A function is registered: the slot moves on.
LEMMA ConvertKeeps == ASSUME IInv, ConvertFunction PROVE IInv'
<1> USE DEF IInv
<1>1. /\ ids' = ids /\ exeCnt' = exeCnt /\ moduleId' = moduleId /\ regs' = regs + 1
      /\ page' = page /\ kept' = kept /\ crash' = crash
      /\ slot' = [reg |-> regs + 1, page |-> CallerPage]
      /\ stack # <<>> /\ Top.kind # "cb"
      /\ stack' = SetTop([Top EXCEPT !.reg = regs + 1])
  BY DEF ConvertFunction, Register, IsConverting, counters, documents
<1>2. PICK f : f = [Top EXCEPT !.reg = regs + 1]
  OBVIOUS
<1>3. regs \in Nat /\ regs + 1 \in Nat /\ regs <= regs + 1
  BY DEF BridgeTypeOK
<1>4. f \in AnyScript /\ f.kind # "cb" /\ f.reg = regs + 1
  <2>1. Top \in AnyScript
    BY <1>1, TopFacts
  <2>2. QED
    BY <1>1, <1>2, <1>3, <2>1 DEF AnyScript
<1>5. Reachable(f, regs + 1)
  <2>1. regs + 1 \in 0..regs + 1
    BY <1>3
  <2>2. QED
    BY <1>4, <2>1, Zenon DEF Reachable
<1>6. /\ stack' \in Seq(AnyScript \cup AnyCallback)
      /\ \A i \in 1..Len(stack') : Reachable(stack'[i], regs + 1)
  <2>1. f \in AnyScript \cup AnyCallback /\ stack' = SetTop(f)
    BY <1>1, <1>2, <1>4
  <2>2. QED
    BY <1>1, <1>3, <1>5, <2>1, SetTopKeeps
<1>7. slot' \in [reg : Nat, page : Nat] /\ slot'.reg = regs + 1
  BY <1>1, <1>3, CallerPageNat
<1>8. kept' \subseteq 1..regs'
  BY <1>1, <1>3 DEF SlotInv
<1>9. BridgeTypeOK'
  BY <1>1, <1>3, <1>6, <1>7 DEF BridgeTypeOK
<1>10. SlotInv'
  BY <1>1, <1>6, <1>7, <1>8, Zenon DEF SlotInv
<1>11. QED
  BY <1>9, <1>10

\* The script is run: what it may call has been registered.
LEMMA RunKeeps == ASSUME IInv, RunScript PROVE IInv'
<1> USE DEF IInv
<1>1. /\ ids' = ids /\ exeCnt' = exeCnt /\ moduleId' \in {moduleId, moduleId + 1}
      /\ regs' = regs /\ slot' = slot
      /\ page' = page /\ kept' = kept /\ crash' = crash
      /\ stack # <<>> /\ Top.kind # "cb"
      /\ \/ stack' = SetTop([Top EXCEPT !.phase = "running", !.n = moduleId])
         \/ stack' = SetTop([Top EXCEPT !.phase = "running"])
  BY DEF RunScript, IsConverting, documents, callbacks
<1>2. PICK f : /\ stack' = SetTop(f)
               /\ \/ f = [Top EXCEPT !.phase = "running", !.n = moduleId]
                  \/ f = [Top EXCEPT !.phase = "running"]
  BY <1>1
<1>3. Top \in AnyScript /\ Reachable(Top, regs) /\ moduleId \in Nat /\ regs \in Nat
  BY <1>1, TopFacts DEF BridgeTypeOK
<1>4. f \in AnyScript /\ f.kind = Top.kind /\ f.reg = Top.reg
  <2>1. \A t \in AnyScript :
          /\ [t EXCEPT !.phase = "running", !.n = moduleId] \in AnyScript
          /\ [t EXCEPT !.phase = "running"] \in AnyScript
          /\ [t EXCEPT !.phase = "running", !.n = moduleId].kind = t.kind
          /\ [t EXCEPT !.phase = "running", !.n = moduleId].reg = t.reg
          /\ [t EXCEPT !.phase = "running"].kind = t.kind
          /\ [t EXCEPT !.phase = "running"].reg = t.reg
    BY <1>3 DEF AnyScript
  <2>2. QED
    BY <1>2, <1>3, <2>1, Zenon
<1>5. Reachable(f, regs)
  BY <1>1, <1>3, <1>4, Zenon DEF Reachable
<1>6. /\ stack' \in Seq(AnyScript \cup AnyCallback)
      /\ \A i \in 1..Len(stack') : Reachable(stack'[i], regs)
  <2>1. f \in AnyScript \cup AnyCallback /\ regs <= regs
    BY <1>3, <1>4
  <2>2. QED
    BY <1>1, <1>2, <1>3, <1>5, <2>1, SetTopKeeps
<1>7. BridgeTypeOK'
  BY <1>1, <1>3, <1>6 DEF BridgeTypeOK
<1>8. SlotInv'
  BY <1>1, <1>6, Zenon DEF SlotInv
<1>9. QED
  BY <1>7, <1>8

\* An operation ends: a frame is left, and nothing else that matters changes.
LEMMA EndKeeps ==
    ASSUME IInv, NEW outcome, EndOp(outcome)
    PROVE  IInv'
<1> USE DEF IInv
<1>1. /\ stack # <<>> /\ stack' = Pop
      /\ ids' = ids /\ exeCnt' = exeCnt /\ moduleId' = moduleId /\ page' = page
      /\ regs' = regs /\ slot' = slot /\ kept' = kept
  BY DEF EndOp, InNode, counters, documents, callbacks
<1>2. crash' # "slot"
  <2>1. crash' \in {crash, "handle"}
    BY DEF EndOp, EndGet, EndExe, EndClsGet, EndReqGet, EndSet, EndReq, EndNew,
        EmptyHandle
  <2>2. QED
    BY <2>1 DEF SlotInv
<1>3. /\ stack' \in Seq(AnyScript \cup AnyCallback)
      /\ \A i \in 1..Len(stack') : Reachable(stack'[i], regs)
  BY <1>1, PopKeeps
<1>4. QED
  BY <1>1, <1>2, <1>3 DEF BridgeTypeOK, SlotInv

\* Node calls nodeproxyCb: by the invariant the slot holds the callback that was
\* registered for what node calls, or a later one.  (No script has registration
\* 0: node cannot call what it was not given.)
LEMMA CallKeeps ==
    ASSUME IInv, NEW r \in Regs, NodeproxyCb(r)
    PROVE  IInv'
<1> DEFINE f == [kind |-> "cb", reg |-> r, data |-> slot.reg, page |-> slot.page]
<1> USE DEF IInv
<1>1. /\ exeCnt' = exeCnt /\ moduleId' = moduleId /\ page' = page
      /\ regs' = regs /\ slot' = slot /\ kept' \in SUBSET kept
      /\ crash' = IF slot = NoData THEN "slot" ELSE crash
      /\ stack' \in {stack, Append(stack, f)}
  BY DEF NodeproxyCb, documents, callbacks, InvokeCallback, Push
<1>2. ids' \in Nat
  BY DEF NodeproxyCb, WrapParameter, BridgeTypeOK
<1>3. r \in 1..regs
  <2>1. CASE r \in kept
    BY <2>1 DEF SlotInv
  <2>2. CASE InNode /\ r = Top.reg
    <3>1. Top.kind # "cb" /\ Reachable(Top, regs)
      BY <2>2, TopFacts DEF InNode, IsRunning
    <3>2. Top.reg \in 0..regs
      BY <3>1, Zenon DEF Reachable
    <3>3. QED
      BY <2>2, <3>2, NodeBridgeAssumption DEF Regs, BridgeTypeOK
  <2>3. QED
    BY <2>1, <2>2 DEF NodeproxyCb
<1>4. slot # NoData
  BY <1>3 DEF NoData, BridgeTypeOK, SlotInv
<1>5. f \in AnyCallback
  BY <1>3 DEF AnyCallback, BridgeTypeOK
<1>6. Reachable(f, regs)
  BY <1>3 DEF Reachable, BridgeTypeOK, SlotInv
<1>7. /\ stack' \in Seq(AnyScript \cup AnyCallback)
      /\ \A i \in 1..Len(stack') : Reachable(stack'[i], regs)
  <2>1. regs \in Nat /\ regs <= regs
    BY DEF BridgeTypeOK
  <2>2. stack \in Seq(AnyScript \cup AnyCallback)
    BY DEF BridgeTypeOK
  <2>3. \A i \in 1..Len(stack) : Reachable(stack[i], regs)
    BY DEF SlotInv
  <2>4. f \in AnyScript \cup AnyCallback
    BY <1>5
  <2> HIDE DEF f
  <2>5. /\ Append(stack, f) \in Seq(AnyScript \cup AnyCallback)
        /\ \A i \in 1..Len(Append(stack, f)) : Reachable(Append(stack, f)[i], regs)
    BY <1>6, <2>1, <2>2, <2>3, <2>4, PushKeeps
  <2>6. QED
    BY <1>1, <2>2, <2>3, <2>5
<1>8. BridgeTypeOK'
  BY <1>1, <1>2, <1>7 DEF BridgeTypeOK
<1>9. QED
  BY <1>1, <1>4, <1>7, <1>8 DEF SlotInv

\* The remaining steps: node keeps a function, a callback returns, documents
\* come and go.
LEMMA OthersKeep ==
    ASSUME IInv,
           \/ KeepCallback
           \/ CallbackReturn
           \/ Navigate
           \/ \E d \in 1..MaxPages : DestroyDocument(d)
           \/ UNCHANGED vars
    PROVE  IInv'
<1> USE DEF IInv
<1>1. CASE KeepCallback
  <2>1. /\ ids' = ids /\ exeCnt' = exeCnt /\ moduleId' = moduleId /\ page' = page
        /\ regs' = regs /\ slot' = slot /\ stack' = stack /\ crash' = crash
        /\ kept' = kept \cup {Top.reg}
    BY <1>1 DEF KeepCallback, counters, documents, callbacks
  <2>2. Top.reg \in 1..regs
    <3>1. Top.kind # "cb" /\ Reachable(Top, regs) /\ Top.reg # 0
      BY <1>1, TopFacts DEF KeepCallback, InNode, IsRunning
    <3>2. Top.reg \in 0..regs
      BY <3>1, Zenon DEF Reachable
    <3>3. QED
      BY <3>1, <3>2 DEF BridgeTypeOK
  <2>3. QED
    BY <2>1, <2>2 DEF BridgeTypeOK, SlotInv
<1>2. CASE CallbackReturn
  <2>1. /\ ids' = ids /\ exeCnt' = exeCnt /\ moduleId' = moduleId /\ page' = page
        /\ regs' = regs /\ slot' = slot /\ kept' = kept /\ crash' = crash
        /\ stack # <<>> /\ stack' = Pop
    BY <1>2 DEF CallbackReturn, counters, documents, callbacks
  <2>2. /\ stack' \in Seq(AnyScript \cup AnyCallback)
        /\ \A i \in 1..Len(stack') : Reachable(stack'[i], regs)
    BY <2>1, PopKeeps
  <2>3. QED
    BY <2>1, <2>2 DEF BridgeTypeOK, SlotInv
<1>3. CASE Navigate \/ (\E d \in 1..MaxPages : DestroyDocument(d)) \/ UNCHANGED vars
  <2>1. /\ ids' = ids /\ exeCnt' = exeCnt /\ moduleId' = moduleId /\ page' \in {page, page + 1}
        /\ regs' = regs /\ slot' = slot /\ kept' = kept /\ crash' = crash /\ stack' = stack
    BY <1>3 DEF Navigate, DestroyDocument, vars, counters, documents, callbacks
  <2>2. QED
    BY <2>1 DEF BridgeTypeOK, SlotInv
<1>4. QED
  BY <1>1, <1>2, <1>3

\* The invariant holds in every behaviour of the bridge.
LEMMA SlotInvariant == Spec => []IInv
<1>1. IInv /\ [Next]_vars => IInv'
  <2> SUFFICES ASSUME IInv, [Next]_vars PROVE IInv'
    OBVIOUS
  <2>0. CASE ConvertFunction \/ RunScript
    BY <2>0, ConvertKeeps, RunKeeps
  <2>1. CASE \E kind \in Kinds : StartOp(kind)
    BY <2>1, StartKeeps
  <2>2. CASE \E outcome \in Outcomes : EndOp(outcome)
    BY <2>2, EndKeeps
  <2>3. CASE \E r \in Regs : NodeproxyCb(r)
    BY <2>3, CallKeeps
  <2>4. CASE \/ KeepCallback
             \/ CallbackReturn
             \/ Navigate
             \/ \E d \in 1..MaxPages : DestroyDocument(d)
             \/ UNCHANGED vars
    BY <2>4, OthersKeep
  <2>5. QED
    BY <2>0, <2>1, <2>2, <2>3, <2>4 DEF Next
<1>2. QED
  BY <1>1, SlotInit, PTL DEF Spec

\* v82jscCb never dereferences a null m_data: whoever can call nodeproxyCb was
\* given it by an operation that filled the slot when it converted its
\* arguments, and nothing empties the slot.
THEOREM SlotAlwaysFilled == Spec => []SlotIsFilled
<1>1. IInv => SlotIsFilled
  BY DEF IInv, SlotInv, SlotIsFilled
<1>2. QED
  BY <1>1, SlotInvariant, PTL

\* When node calls a function it was given, v82jscCb runs the callback that was
\* registered for it, or one registered since.
THEOREM CallbacksNeverStale == Spec => []CallbackNeverStale
<1>1. IInv => CallbackNeverStale
  BY DEF IInv, SlotInv, Reachable, CallbackNeverStale
<1>2. QED
  BY <1>1, SlotInvariant, PTL

-----------------------------------------------------------------------------
(* The names of values.                                                    *)

\* An operation that has drawn its number from ExeCnt, or from moduleid: require
\* at once, the instantiation of a class when its script is run.
Counts(f) == f.kind \in Counting
Requires(f) == f.kind = "req" \/ (f.kind = "new" /\ f.phase = "running")
Frames == 1..Len(stack)

\* The numbers in use were drawn from the counters.
FrameNumbers ==
    \A i \in Frames :
        /\ stack[i].kind # "cb" => stack[i].op <= ids
        /\ Counts(stack[i]) => stack[i].n \in 1..exeCnt
        /\ Requires(stack[i]) => stack[i].n < moduleId

NameDrawn(nm) ==
    /\ nm[1] = "res" => nm[2] <= exeCnt
    /\ nm[1] = "mod" => nm[2] < moduleId
    /\ nm[1] = "par" => nm[2] < pcnt

NamesDrawn ==
    /\ \A nm \in DOMAIN globals : NameDrawn(nm)
    /\ \A p \in proxies : NameDrawn(p.name)

\* An operation that runs inside another one is later and has a later number.
Ordered ==
    \A i, j \in Frames : i < j =>
        /\ stack[i].kind # "cb" /\ stack[j].kind # "cb" => stack[i].op < stack[j].op
        /\ Counts(stack[i]) /\ Counts(stack[j]) => stack[i].n < stack[j].n
        /\ Requires(stack[i]) /\ Requires(stack[j]) => stack[i].n < stack[j].n

\* While an operation runs its result variable has no value, and what has later
\* numbers was computed by later operations.
ResultsPending ==
    \A i \in Frames, nm \in DOMAIN globals : Counts(stack[i]) /\ nm[1] = "res" =>
        /\ nm[2] # stack[i].n
        /\ nm[2] > stack[i].n => globals[nm].of > stack[i].op

\* A proxy may bear the name of an operation that is still running, but only of
\* one that is not earlier than its own.
ProxiesPending ==
    \A i \in Frames, p \in proxies :
        Counts(stack[i]) /\ p.name = <<"res", stack[i].n>> => p.of <= stack[i].op

\* A module has no name until require or the constructor returns.
ModulesPending ==
    \A i \in Frames : Requires(stack[i]) =>
        /\ <<"mod", stack[i].n>> \notin DOMAIN globals
        /\ \A p \in proxies : p.name # <<"mod", stack[i].n>>

\* An operation whose number is no longer the last has been re-entered.
ReentryNoted ==
    \A i \in Frames :
        Counts(stack[i]) /\ stack[i].n < exeCnt => stack[i].op \in reentered

NamesInv ==
    /\ FrameNumbers /\ NamesDrawn /\ Ordered
    /\ ResultsPending /\ ProxiesPending /\ ModulesPending /\ ReentryNoted
    /\ ProxyNeverStale /\ ProxyNamesItsValue

BridgeIInv == IInv /\ TypeOK /\ CallbackHasContext /\ NamesInv

\* A callback is no script, and counting and requiring operations are different.
LEMMA FrameKinds ==
    /\ \A f : Counts(f) => f.kind # "cb" /\ ~Requires(f)
    /\ \A f : Requires(f) => f.kind # "cb" /\ ~Counts(f)
  BY DEF Counts, Requires, Counting

\* What the bridge knows of the frames on the stack.
LEMMA FrameTypes ==
    ASSUME TypeOK
    PROVE  /\ Len(stack) \in Nat
           /\ \A i \in Frames : /\ stack[i] \in Script \cup Callback
                                /\ stack[i].page \in 1..MaxPages
                                /\ stack[i].kind # "cb" =>
                                      /\ stack[i] \in Script
                                      /\ stack[i].op \in Ids /\ stack[i].op \in Nat
                                      /\ stack[i].n \in Nat
                                /\ Counts(stack[i]) \/ Requires(stack[i]) =>
                                      stack[i].n \in Nat /\ stack[i].op \in Nat
           /\ stack # <<>> => Len(stack) \in Frames /\ Top = stack[Len(stack)]
<1>1. stack \in Seq(Script \cup Callback)
  BY DEF TypeOK
<1>2. Len(stack) \in Nat /\ (stack # <<>> => Len(stack) # 0)
  BY <1>1
<1>3. \A i \in Frames : stack[i] \in Script \cup Callback
  BY <1>1, ElementOfSeq DEF Frames
<1>4. \A f \in Script \cup Callback :
          /\ f.page \in 1..MaxPages
          /\ f.kind # "cb" => f \in Script /\ f.op \in Ids /\ f.n \in Nat
  BY DEF Script, Callback
<1>5. Ids \subseteq Nat
  BY NodeBridgeAssumption DEF Ids
<1>6. \A i \in Frames : /\ stack[i] \in Script \cup Callback
                        /\ stack[i].page \in 1..MaxPages
                        /\ stack[i].kind # "cb" =>
                              /\ stack[i] \in Script
                              /\ stack[i].op \in Ids /\ stack[i].op \in Nat
                              /\ stack[i].n \in Nat
  BY <1>3, <1>4, <1>5
<1>7. \A i \in Frames : Counts(stack[i]) \/ Requires(stack[i]) =>
                            stack[i].n \in Nat /\ stack[i].op \in Nat
  BY <1>6, FrameKinds
<1>8. stack # <<>> => Len(stack) \in Frames /\ Top = stack[Len(stack)]
  BY <1>2 DEF Frames, Top
<1>9. QED
  BY <1>2, <1>6, <1>7, <1>8

\* Assigning a variable.
LEMMA AssignFacts ==
    ASSUME NEW nm, NEW id, NEW outcome, globals' = Assign(nm, id, outcome)
    PROVE  /\ DOMAIN globals' = DOMAIN globals \cup {nm}
           /\ globals'[nm] = [of |-> id, type |-> TypeOf(outcome)]
           /\ globals'[nm].of = id /\ globals'[nm].type \in {"object", "function", "other"}
           /\ \A x \in DOMAIN globals : x # nm => globals'[x] = globals[x]
  BY DEF Assign, TypeOf

\* No number is drawn: the operations on the stack are those that were there,
\* with the numbers they had.
SameNumbers(f, g) ==
    f.kind = g.kind /\ f.op = g.op /\ f.n = g.n /\ (Requires(f) <=> Requires(g))

NoNewScript ==
    \A i \in Frames' :
        (i \in Frames /\ SameNumbers(stack'[i], stack[i])) \/ stack'[i].kind = "cb"

\* An object parameter is wrapped, or node's variables and the proxies stay.
WrapsOrKeeps == WrapParameter \/ UNCHANGED <<ids, pcnt, globals, proxies>>

LEMMA NoScriptKeepsNames ==
    ASSUME BridgeIInv, NoNewScript, WrapsOrKeeps,
           exeCnt' = exeCnt, moduleId' = moduleId, reentered' = reentered
    PROVE  NamesInv'
<1> USE DEF BridgeIInv, NamesInv
<1>1. /\ ids \in Nat /\ exeCnt \in Nat /\ moduleId \in Nat /\ pcnt \in Nat
      /\ (ids' = ids \/ ids' = ids + 1) /\ (pcnt' = pcnt \/ pcnt' = pcnt + 1)
  BY NodeBridgeAssumption DEF TypeOK, WrapsOrKeeps, WrapParameter
<1>3. \A i \in Frames' :
          /\ stack'[i].kind # "cb" =>
                i \in Frames /\ stack[i].kind # "cb" /\ stack'[i].op = stack[i].op
          /\ Counts(stack'[i]) => /\ i \in Frames /\ Counts(stack[i])
                                  /\ stack'[i].op = stack[i].op /\ stack'[i].n = stack[i].n
          /\ Requires(stack'[i]) => /\ i \in Frames /\ Requires(stack[i])
                                    /\ stack'[i].op = stack[i].op /\ stack'[i].n = stack[i].n
  <2>1. \A f, g : SameNumbers(f, g) => (Counts(f) <=> Counts(g)) /\ (Requires(f) <=> Requires(g))
    BY DEF SameNumbers, Counts
  <2>2. QED
    BY <2>1, FrameKinds DEF NoNewScript, SameNumbers
<1>4. FrameNumbers'
  <2> SUFFICES ASSUME NEW i \in Frames'
               PROVE  /\ stack'[i].kind # "cb" => stack'[i].op <= ids'
                      /\ Counts(stack'[i]) => stack'[i].n \in 1..exeCnt'
                      /\ Requires(stack'[i]) => stack'[i].n < moduleId'
    BY DEF FrameNumbers, Counts, Requires
  <2>1. \A j \in Frames : stack[j].kind # "cb" => stack[j].op \in Nat
    BY FrameTypes
  <2>2. stack'[i].kind # "cb" => stack'[i].op <= ids'
    BY <1>1, <1>3, <2>1 DEF FrameNumbers
  <2>3. QED
    BY <1>3, <2>2 DEF FrameNumbers
<1>5. Ordered'
  <2> SUFFICES ASSUME NEW i \in Frames', NEW j \in Frames', i < j
               PROVE  /\ stack'[i].kind # "cb" /\ stack'[j].kind # "cb" => stack'[i].op < stack'[j].op
                      /\ Counts(stack'[i]) /\ Counts(stack'[j]) => stack'[i].n < stack'[j].n
                      /\ Requires(stack'[i]) /\ Requires(stack'[j]) => stack'[i].n < stack'[j].n
    BY DEF Ordered, Counts, Requires
  <2>1. QED
    BY <1>3, FrameKinds DEF Ordered
<1>6. ReentryNoted'
  BY <1>3 DEF ReentryNoted, Counts
<1>7. CASE UNCHANGED <<ids, pcnt, globals, proxies>>
  <2>1. NamesDrawn' /\ ProxyNeverStale' /\ ProxyNamesItsValue'
    BY <1>7 DEF NamesDrawn, NameDrawn, ProxyNeverStale, ProxyNamesItsValue
  <2>2. ResultsPending'
    BY <1>3, <1>7 DEF ResultsPending, Counts
  <2>3. ProxiesPending'
    BY <1>3, <1>7 DEF ProxiesPending, Counts
  <2>4. ModulesPending'
    BY <1>3, <1>7 DEF ModulesPending, Requires
  <2>5. QED
    BY <1>4, <1>5, <1>6, <2>1, <2>2, <2>3, <2>4
<1>8. CASE WrapParameter
  <2>0. PICK nm, q : nm = <<"par", pcnt>> /\ q = [name |-> nm, of |-> ids + 1]
    OBVIOUS
  <2>1. /\ pcnt' = pcnt + 1 /\ proxies' = proxies \cup {q}
        /\ globals' = Assign(nm, ids + 1, "object")
    BY <1>8, <2>0 DEF WrapParameter
  <2>2. /\ DOMAIN globals' = DOMAIN globals \cup {nm} /\ globals'[nm].of = ids + 1
        /\ \A x \in DOMAIN globals : x # nm => globals'[x] = globals[x]
    BY <2>1, AssignFacts
  <2>3. nm[1] = "par" /\ nm[2] = pcnt /\ q.name = nm /\ q.of = ids + 1
    BY <2>0
  <2>4. nm \notin DOMAIN globals /\ \A p \in proxies : p.name # nm
    BY <1>1, <2>3 DEF NamesDrawn, NameDrawn
  <2>5. \A x \in Names : x[2] \in Nat
    BY NodeBridgeAssumption DEF Names
  <2>6. \A x \in Names : NameDrawn(x) => NameDrawn(x)'
    BY <1>1, <2>1, <2>5 DEF NameDrawn
  <2>7. NameDrawn(nm)'
    BY <1>1, <2>1, <2>3 DEF NameDrawn
  <2>8. NamesDrawn'
    <3>1. \A x \in DOMAIN globals : x \in Names /\ NameDrawn(x)
      BY DEF TypeOK, NamesDrawn
    <3>2. \A p \in proxies : p.name \in Names /\ NameDrawn(p.name)
      BY DEF TypeOK, NamesDrawn
    <3>3. \A x \in DOMAIN globals' : NameDrawn(x)'
      BY <2>2, <2>6, <2>7, <3>1
    <3>4. \A p \in proxies' : NameDrawn(p.name)'
      BY <2>1, <2>3, <2>6, <2>7, <3>2
    <3>5. QED
      BY <3>3, <3>4 DEF NamesDrawn, NameDrawn
  <2>9. ProxyNeverStale'
    BY <1>1, <2>1, <2>2, <2>3, <2>4 DEF ProxyNeverStale
  <2>10. ProxyNamesItsValue'
    BY <2>1, <2>2, <2>3, <2>4 DEF ProxyNamesItsValue
  <2>11. ResultsPending'
    BY <1>3, <2>2, <2>3 DEF ResultsPending, Counts
  <2>12. ProxiesPending'
    <3>1. \A n : <<"res", n>> # nm
      BY <2>3
    <3>2. QED
      BY <1>3, <2>1, <2>3, <3>1 DEF ProxiesPending, Counts
  <2>13. ModulesPending'
    <3>1. \A n : <<"mod", n>> # nm
      BY <2>3
    <3>2. QED
      BY <1>3, <2>1, <2>2, <2>3, <3>1 DEF ModulesPending, Requires
  <2>14. QED
    BY <1>4, <1>5, <1>6, <2>8, <2>9, <2>10, <2>11, <2>12, <2>13
<1>9. QED
  BY <1>7, <1>8 DEF WrapsOrKeeps

\* An operation starts: it is later than all others, and so is its number.
LEMMA StartKeepsNames ==
    ASSUME BridgeIInv, NEW kind \in Kinds, StartOp(kind)
    PROVE  NamesInv'
<1> USE DEF BridgeIInv, NamesInv
<1> DEFINE L == Len(stack)
<1>1. PICK f : f = [kind |-> kind, op |-> ids + 1, n |-> Number(kind), reg |-> 0,
                    page |-> CallerPage,
                    phase |-> IF kind \in Converting THEN "converting" ELSE "running"]
  OBVIOUS
<1>2. /\ f.kind = kind /\ f.op = ids + 1 /\ f.n = Number(kind) /\ kind # "cb"
      /\ kind = "new" => f.phase = "converting"
  BY <1>1, ScriptKinds DEF Converting
<1>3. /\ ids \in Nat /\ exeCnt \in Nat /\ moduleId \in Nat /\ pcnt \in Nat
      /\ ids' = ids + 1 /\ pcnt' = pcnt /\ globals' = globals /\ proxies' = proxies
      /\ exeCnt' = IF kind \in Counting THEN exeCnt + 1 ELSE exeCnt
      /\ moduleId' = IF kind = "req" THEN moduleId + 1 ELSE moduleId
      /\ stack' = Append(stack, f)
  BY <1>1, NodeBridgeAssumption DEF StartOp, Draw, heap, Push, TypeOK
<1>4. /\ Counts(f) <=> kind \in Counting
      /\ Requires(f) <=> kind = "req"
  BY <1>2 DEF Counts, Requires
<1>5. /\ Counts(f) => exeCnt' = exeCnt + 1 /\ f.n = exeCnt + 1 /\ moduleId' = moduleId
      /\ Requires(f) => moduleId' = moduleId + 1 /\ f.n = moduleId /\ exeCnt' = exeCnt
      /\ ~Counts(f) => exeCnt' = exeCnt
      /\ ~Requires(f) => moduleId' = moduleId
  BY <1>2, <1>3, <1>4, FrameKinds DEF Number
<1>6. /\ L \in Nat /\ Frames' = 1..L + 1 /\ stack'[L + 1] = f
      /\ \A i \in Frames : i \in Frames' /\ stack'[i] = stack[i]
  BY <1>3, FrameTypes DEF Frames, TypeOK
<1>7. \A i \in Frames' : i = L + 1 \/ (i \in Frames /\ i < L + 1 /\ stack'[i] = stack[i])
  BY <1>6 DEF Frames
<1>9. FrameNumbers'
  <2> SUFFICES ASSUME NEW i \in Frames'
               PROVE  /\ stack'[i].kind # "cb" => stack'[i].op <= ids'
                      /\ Counts(stack'[i]) => stack'[i].n \in 1..exeCnt'
                      /\ Requires(stack'[i]) => stack'[i].n < moduleId'
    BY DEF FrameNumbers, Counts, Requires
  <2>1. CASE i = L + 1
    BY <1>2, <1>3, <1>5, <1>6, <2>1
  <2>2. CASE i # L + 1
    <3>1. i \in Frames /\ stack'[i] = stack[i]
      BY <1>7, <2>2
    <3>2. /\ stack[i].kind # "cb" => stack[i].op \in Nat
          /\ Requires(stack[i]) => stack[i].n \in Nat
      BY <3>1, FrameTypes
    <3>3. stack'[i].kind # "cb" => stack'[i].op <= ids'
      BY <1>3, <3>1, <3>2 DEF FrameNumbers
    <3>4. Counts(stack'[i]) => stack'[i].n \in 1..exeCnt'
      BY <1>3, <3>1 DEF FrameNumbers
    <3>5. Requires(stack'[i]) => stack'[i].n < moduleId'
      BY <1>3, <3>1, <3>2 DEF FrameNumbers
    <3>6. QED
      BY <3>3, <3>4, <3>5
  <2>3. QED
    BY <2>1, <2>2
<1>10. \A x \in Names : x[2] \in Nat
  BY NodeBridgeAssumption DEF Names
<1>11. \A x \in Names : NameDrawn(x) => NameDrawn(x)'
  BY <1>3, <1>10 DEF NameDrawn
<1>12. /\ \A x \in DOMAIN globals : x \in Names /\ NameDrawn(x)
       /\ \A p \in proxies : p.name \in Names /\ NameDrawn(p.name)
  BY DEF TypeOK, NamesDrawn
<1>13. NamesDrawn'
  <2>1. /\ \A x \in DOMAIN globals' : NameDrawn(x)'
        /\ \A p \in proxies' : NameDrawn(p.name)'
    BY <1>3, <1>11, <1>12
  <2>2. QED
    BY <2>1 DEF NamesDrawn, NameDrawn
<1>14. Ordered'
  <2> SUFFICES ASSUME NEW i \in Frames', NEW j \in Frames', i < j
               PROVE  /\ stack'[i].kind # "cb" /\ stack'[j].kind # "cb" => stack'[i].op < stack'[j].op
                      /\ Counts(stack'[i]) /\ Counts(stack'[j]) => stack'[i].n < stack'[j].n
                      /\ Requires(stack'[i]) /\ Requires(stack'[j]) => stack'[i].n < stack'[j].n
    BY DEF Ordered, Counts, Requires
  <2>1. i \in Frames /\ stack'[i] = stack[i]
    BY <1>6, <1>7
  <2>2. CASE j = L + 1
    <3>1. /\ stack[i].kind # "cb" => stack[i].op \in Nat
          /\ Requires(stack[i]) => stack[i].n \in Nat
      BY <2>1, FrameTypes
    <3>2. /\ stack[i].kind # "cb" => stack[i].op < f.op
          /\ Counts(stack[i]) /\ Counts(f) => stack[i].n < f.n
          /\ Requires(stack[i]) /\ Requires(f) => stack[i].n < f.n
      BY <1>2, <1>3, <1>5, <2>1, <3>1 DEF FrameNumbers
    <3>3. QED
      BY <1>6, <2>1, <2>2, <3>2
  <2>3. CASE j # L + 1
    BY <1>7, <2>1, <2>3 DEF Ordered
  <2>4. QED
    BY <2>2, <2>3
<1>15. ResultsPending'
  <2> SUFFICES ASSUME NEW i \in Frames', NEW nm \in DOMAIN globals',
                      Counts(stack'[i]), nm[1] = "res"
               PROVE  /\ nm[2] # stack'[i].n
                      /\ nm[2] > stack'[i].n => globals'[nm].of > stack'[i].op
    BY DEF ResultsPending, Counts
  <2>1. CASE i = L + 1
    <3>1. nm[2] \in Nat /\ nm[2] <= exeCnt
      BY <1>3, <1>10, <1>12 DEF NameDrawn
    <3>2. QED
      BY <1>3, <1>5, <1>6, <2>1, <3>1
  <2>2. CASE i # L + 1
    BY <1>3, <1>7, <2>2 DEF ResultsPending
  <2>3. QED
    BY <2>1, <2>2
<1>16. ProxiesPending'
  <2> SUFFICES ASSUME NEW i \in Frames', NEW p \in proxies',
                      Counts(stack'[i]), p.name = <<"res", stack'[i].n>>
               PROVE  p.of <= stack'[i].op
    BY DEF ProxiesPending, Counts
  <2>1. CASE i = L + 1
    <3>1. p.name[1] = "res" /\ p.name[2] = exeCnt + 1
      BY <1>5, <1>6, <2>1
    <3>2. p.name[2] <= exeCnt
      BY <1>3, <1>12, <3>1 DEF NameDrawn
    <3>3. ~(exeCnt + 1 <= exeCnt)
      BY <1>3
    <3>4. QED
      BY <3>1, <3>2, <3>3, Zenon
  <2>2. CASE i # L + 1
    BY <1>3, <1>7, <2>2 DEF ProxiesPending
  <2>3. QED
    BY <2>1, <2>2
<1>17. ModulesPending'
  <2> SUFFICES ASSUME NEW i \in Frames', Requires(stack'[i])
               PROVE  /\ <<"mod", stack'[i].n>> \notin DOMAIN globals'
                      /\ \A p \in proxies' : p.name # <<"mod", stack'[i].n>>
    BY DEF ModulesPending, Requires
  <2>1. CASE i = L + 1
    <3>1. PICK nm : nm = <<"mod", stack'[i].n>>
      OBVIOUS
    <3>2. nm[1] = "mod" /\ nm[2] = moduleId
      BY <1>5, <1>6, <2>1, <3>1
    <3>3. ~NameDrawn(nm)
      BY <1>3, <3>2 DEF NameDrawn
    <3>4. QED
      BY <1>3, <1>12, <3>1, <3>3
  <2>2. CASE i # L + 1
    BY <1>3, <1>7, <2>2 DEF ModulesPending
  <2>3. QED
    BY <2>1, <2>2
<1>18. ReentryNoted'
  <2> SUFFICES ASSUME NEW i \in Frames', Counts(stack'[i]), stack'[i].n < exeCnt'
               PROVE  stack'[i].op \in reentered'
    BY DEF ReentryNoted, Counts
  <2>1. i \in Frames /\ stack'[i] = stack[i]
    <3>1. i # L + 1
      BY <1>3, <1>5, <1>6
    <3>2. QED
      BY <1>7, <3>1
  <2>2. CASE kind \in Counting
    <3>1. stack[i].kind # "cb"
      BY <2>1, FrameKinds
    <3>2. i \in {j \in 1..Len(stack) : stack[j].kind # "cb"}
      BY <2>1, <3>1 DEF Frames
    <3>3. stack[i].op \in OpsInside
      BY <3>2 DEF OpsInside
    <3>4. reentered' = reentered \cup OpsInside
      BY <2>2 DEF StartOp
    <3>5. QED
      BY <2>1, <3>3, <3>4
  <2>3. CASE kind \notin Counting
    BY <1>3, <2>1, <2>3 DEF StartOp, ReentryNoted
  <2>4. QED
    BY <2>2, <2>3
<1>19. ProxyNeverStale' /\ ProxyNamesItsValue'
  <2>1. reentered \subseteq reentered'
    BY DEF StartOp
  <2>2. ProxyNeverStale'
    BY <1>3 DEF ProxyNeverStale
  <2>3. ProxyNamesItsValue'
    BY <1>3, <2>1 DEF ProxyNamesItsValue
  <2>4. QED
    BY <2>2, <2>3
<1>20. QED
  BY <1>9, <1>13, <1>14, <1>15, <1>16, <1>17, <1>18, <1>19

\* The innermost operation is replaced by itself, further on.
LEMMA SetTopFrames ==
    ASSUME TypeOK, stack # <<>>, NEW f \in Script, stack' = SetTop(f)
    PROVE  /\ Frames' = Frames /\ Len(stack) \in Frames /\ stack'[Len(stack)] = f
           /\ \A i \in Frames : i # Len(stack) => stack'[i] = stack[i]
           /\ stack' \in Seq(Script \cup Callback)
<1>1. stack \in Seq(Script \cup Callback) /\ f \in Script \cup Callback
  BY DEF TypeOK
<1>2. /\ stack' \in Seq(Script \cup Callback) /\ Len(stack') = Len(stack)
      /\ Len(stack) \in 1..Len(stack) /\ stack'[Len(stack)] = f
      /\ \A i \in 1..Len(stack) : i # Len(stack) => stack'[i] = stack[i]
  BY <1>1, SetTopFacts DEF SetTop
<1>3. QED
  BY <1>2 DEF Frames

\* The fields of a frame whose text is extended or run.
LEMMA TopFields ==
    ASSUME TypeOK, stack # <<>>, Top.kind # "cb"
    PROVE  /\ Top \in Script
           /\ \A r \in 0..MaxRegs :
                 LET f == [Top EXCEPT !.reg = r] IN
                 f \in Script /\ f.kind = Top.kind /\ f.op = Top.op /\ f.n = Top.n
                   /\ f.phase = Top.phase
           /\ LET f == [Top EXCEPT !.phase = "running"] IN
              f \in Script /\ f.kind = Top.kind /\ f.op = Top.op /\ f.n = Top.n
           /\ \A n \in Nat :
                 LET f == [Top EXCEPT !.phase = "running", !.n = n] IN
                 f \in Script /\ f.kind = Top.kind /\ f.op = Top.op /\ f.n = n
                   /\ f.phase = "running"
<1>1. Top \in Script
  BY FrameTypes
<1>2. \A t \in Script :
        /\ \A r \in 0..MaxRegs :
             /\ [t EXCEPT !.reg = r] \in Script
             /\ [t EXCEPT !.reg = r].kind = t.kind /\ [t EXCEPT !.reg = r].op = t.op
             /\ [t EXCEPT !.reg = r].n = t.n /\ [t EXCEPT !.reg = r].phase = t.phase
        /\ [t EXCEPT !.phase = "running"] \in Script
        /\ [t EXCEPT !.phase = "running"].kind = t.kind
        /\ [t EXCEPT !.phase = "running"].op = t.op
        /\ [t EXCEPT !.phase = "running"].n = t.n
        /\ \A n \in Nat :
             /\ [t EXCEPT !.phase = "running", !.n = n] \in Script
             /\ [t EXCEPT !.phase = "running", !.n = n].kind = t.kind
             /\ [t EXCEPT !.phase = "running", !.n = n].op = t.op
             /\ [t EXCEPT !.phase = "running", !.n = n].n = n
             /\ [t EXCEPT !.phase = "running", !.n = n].phase = "running"
  BY DEF Script
<1>3. QED
  BY <1>1, <1>2, Zenon

\* An argument is registered, or a script run that has its number: no number is
\* drawn.
LEMMA TextKeepsNames ==
    ASSUME BridgeIInv, ConvertFunction \/ (RunScript /\ Top.kind # "new")
    PROVE  NamesInv'
<1>0. TypeOK
  BY DEF BridgeIInv
<1>1. /\ stack # <<>> /\ Top.kind # "cb"
      /\ exeCnt' = exeCnt /\ moduleId' = moduleId /\ reentered' = reentered
      /\ UNCHANGED <<ids, pcnt, globals, proxies>>
  BY DEF ConvertFunction, RunScript, IsConverting, counters, heap
<1>2. PICK f \in Script : /\ stack' = SetTop(f) /\ f.kind = Top.kind /\ f.op = Top.op
                          /\ f.n = Top.n /\ (Requires(f) <=> Requires(Top))
  <2>1. CASE ConvertFunction
    <3>1. stack' = SetTop([Top EXCEPT !.reg = regs + 1])
      BY <2>1 DEF ConvertFunction
    <3>2. regs + 1 \in 0..MaxRegs
      BY <1>0, <2>1, NodeBridgeAssumption DEF ConvertFunction, TypeOK
    <3>3. PICK f : f = [Top EXCEPT !.reg = regs + 1]
      OBVIOUS
    <3>4. f \in Script /\ f.kind = Top.kind /\ f.op = Top.op /\ f.n = Top.n /\ f.phase = Top.phase
      BY <1>0, <1>1, <3>2, <3>3, TopFields
    <3>5. QED
      BY <3>1, <3>3, <3>4 DEF Requires
  <2>2. CASE RunScript /\ Top.kind # "new"
    <3>1. stack' = SetTop([Top EXCEPT !.phase = "running"])
      BY <2>2 DEF RunScript
    <3>2. PICK f : f = [Top EXCEPT !.phase = "running"]
      OBVIOUS
    <3>3. f \in Script /\ f.kind = Top.kind /\ f.op = Top.op /\ f.n = Top.n
      BY <1>0, <1>1, <3>2, TopFields
    <3>4. QED
      BY <2>2, <3>1, <3>2, <3>3 DEF Requires
  <2>3. QED
    BY <2>1, <2>2
<1>3. /\ Frames' = Frames /\ stack'[Len(stack)] = f
      /\ \A i \in Frames : i # Len(stack) => stack'[i] = stack[i]
  BY <1>0, <1>1, <1>2, SetTopFrames
<1>4. NoNewScript
  <2>1. \A i \in Frames : SameNumbers(stack'[i], stack[i])
    BY <1>2, <1>3 DEF SameNumbers, Top
  <2>2. QED
    BY <1>3, <2>1 DEF NoNewScript
<1>5. WrapsOrKeeps
  BY <1>1 DEF WrapsOrKeeps
<1>6. QED
  BY <1>1, <1>4, <1>5, NoScriptKeepsNames

\* A class is instantiated: require draws the number of the module.
LEMMA RunNewKeepsNames ==
    ASSUME BridgeIInv, RunScript, Top.kind = "new"
    PROVE  NamesInv'
<1> USE DEF BridgeIInv, NamesInv
<1> DEFINE L == Len(stack)
<1>1. /\ stack # <<>> /\ Top.kind # "cb" /\ ~Requires(Top)
      /\ exeCnt' = exeCnt /\ moduleId' = moduleId + 1 /\ reentered' = reentered
      /\ ids' = ids /\ pcnt' = pcnt /\ globals' = globals /\ proxies' = proxies
      /\ stack' = SetTop([Top EXCEPT !.phase = "running", !.n = moduleId])
  BY DEF RunScript, IsConverting, heap, Requires
<1>2. ids \in Nat /\ exeCnt \in Nat /\ moduleId \in Nat /\ pcnt \in Nat
  BY DEF TypeOK
<1>3. PICK f : f = [Top EXCEPT !.phase = "running", !.n = moduleId]
  OBVIOUS
<1>4. f \in Script /\ f.kind = "new" /\ f.op = Top.op /\ f.n = moduleId /\ f.phase = "running"
  BY <1>1, <1>2, <1>3, TopFields
<1>5. Requires(f) /\ ~Counts(f)
  BY <1>4, FrameKinds DEF Requires
<1>6. /\ Frames' = Frames /\ L \in Frames /\ stack'[L] = f
      /\ \A i \in Frames : i # L => stack'[i] = stack[i]
  BY <1>1, <1>3, <1>4, SetTopFrames
\* Only the innermost frame draws, and the numbers from ExeCnt stay.
<1>7. \A i \in Frames' :
          /\ i \in Frames /\ i <= L
          /\ stack'[i].kind = stack[i].kind /\ stack'[i].op = stack[i].op
          /\ Counts(stack'[i]) => i # L /\ Counts(stack[i]) /\ stack'[i].n = stack[i].n
          /\ i # L => stack'[i] = stack[i]
  <2>1. L \in Nat /\ \A i \in Frames : i <= L
    BY FrameTypes DEF Frames
  <2>2. stack[L] = Top
    BY DEF Top
  <2>3. QED
    BY <1>4, <1>5, <1>6, <2>1, <2>2
<1>8. FrameNumbers'
  <2> SUFFICES ASSUME NEW i \in Frames'
               PROVE  /\ stack'[i].kind # "cb" => stack'[i].op <= ids'
                      /\ Counts(stack'[i]) => stack'[i].n \in 1..exeCnt'
                      /\ Requires(stack'[i]) => stack'[i].n < moduleId'
    BY DEF FrameNumbers, Counts, Requires
  <2>1. stack'[i].kind # "cb" => stack'[i].op <= ids'
    BY <1>1, <1>7 DEF FrameNumbers
  <2>2. Counts(stack'[i]) => stack'[i].n \in 1..exeCnt'
    BY <1>1, <1>7 DEF FrameNumbers
  <2>3. Requires(stack'[i]) => stack'[i].n < moduleId'
    <3>1. CASE i = L
      BY <1>1, <1>2, <1>4, <1>6, <3>1
    <3>2. CASE i # L
      <4>1. i \in Frames /\ stack'[i] = stack[i]
        BY <1>7, <3>2
      <4>2. Requires(stack[i]) => stack[i].n \in Nat /\ stack[i].n < moduleId
        BY <4>1, FrameTypes DEF FrameNumbers
      <4>3. QED
        BY <1>1, <1>2, <4>1, <4>2
    <3>3. QED
      BY <3>1, <3>2
  <2>4. QED
    BY <2>1, <2>2, <2>3
<1>9. \A x \in Names : x[2] \in Nat
  BY DEF Names
<1>10. \A x \in Names : NameDrawn(x) => NameDrawn(x)'
  BY <1>1, <1>2, <1>9 DEF NameDrawn
<1>11. /\ \A x \in DOMAIN globals : x \in Names /\ NameDrawn(x)
       /\ \A p \in proxies : p.name \in Names /\ NameDrawn(p.name)
  BY DEF TypeOK, NamesDrawn
<1>12. NamesDrawn'
  <2>1. /\ \A x \in DOMAIN globals' : NameDrawn(x)'
        /\ \A p \in proxies' : NameDrawn(p.name)'
    BY <1>1, <1>10, <1>11
  <2>2. QED
    BY <2>1 DEF NamesDrawn, NameDrawn
<1>13. Ordered'
  <2> SUFFICES ASSUME NEW i \in Frames', NEW j \in Frames', i < j
               PROVE  /\ stack'[i].kind # "cb" /\ stack'[j].kind # "cb" => stack'[i].op < stack'[j].op
                      /\ Counts(stack'[i]) /\ Counts(stack'[j]) => stack'[i].n < stack'[j].n
                      /\ Requires(stack'[i]) /\ Requires(stack'[j]) => stack'[i].n < stack'[j].n
    BY DEF Ordered, Counts, Requires
  <2>1. i # L /\ i \in Frames /\ j \in Frames /\ stack'[i] = stack[i]
    <3>1. L \in Nat /\ i \in Nat /\ j \in Nat /\ j <= L
      BY <1>6, <1>7, FrameTypes DEF Frames
    <3>2. i # L
      BY <3>1
    <3>3. QED
      BY <1>7, <3>2
  <2>2. stack'[i].kind # "cb" /\ stack'[j].kind # "cb" => stack'[i].op < stack'[j].op
    BY <1>7, <2>1 DEF Ordered
  <2>3. Counts(stack'[i]) /\ Counts(stack'[j]) => stack'[i].n < stack'[j].n
    BY <1>7, <2>1 DEF Ordered
  <2>4. Requires(stack'[i]) /\ Requires(stack'[j]) => stack'[i].n < stack'[j].n
    <3>1. CASE j = L
      <4>1. Requires(stack[i]) => stack[i].n < moduleId
        BY <2>1 DEF FrameNumbers
      <4>2. QED
        BY <1>4, <1>6, <2>1, <3>1, <4>1
    <3>2. CASE j # L
      BY <1>7, <2>1, <3>2 DEF Ordered
    <3>3. QED
      BY <3>1, <3>2
  <2>5. QED
    BY <2>2, <2>3, <2>4
<1>14. ResultsPending'
  BY <1>1, <1>7 DEF ResultsPending, Counts
<1>15. ProxiesPending'
  BY <1>1, <1>7 DEF ProxiesPending, Counts
<1>16. ReentryNoted'
  BY <1>1, <1>7 DEF ReentryNoted, Counts
<1>17. ModulesPending'
  <2> SUFFICES ASSUME NEW i \in Frames', Requires(stack'[i])
               PROVE  /\ <<"mod", stack'[i].n>> \notin DOMAIN globals'
                      /\ \A p \in proxies' : p.name # <<"mod", stack'[i].n>>
    BY DEF ModulesPending, Requires
  <2>1. CASE i = L
    <3>1. PICK nm : nm = <<"mod", moduleId>>
      OBVIOUS
    <3>2. nm[1] = "mod" /\ nm[2] = moduleId
      BY <3>1
    <3>3. ~NameDrawn(nm)
      BY <1>2, <3>2 DEF NameDrawn
    <3>4. stack'[i].n = moduleId
      BY <1>4, <1>6, <2>1
    <3>5. QED
      BY <1>1, <1>11, <3>1, <3>3, <3>4
  <2>2. CASE i # L
    BY <1>1, <1>7, <2>2 DEF ModulesPending
  <2>3. QED
    BY <2>1, <2>2
<1>18. ProxyNeverStale' /\ ProxyNamesItsValue'
  BY <1>1 DEF ProxyNeverStale, ProxyNamesItsValue
<1>19. QED
  BY <1>8, <1>12, <1>13, <1>14, <1>15, <1>16, <1>17, <1>18

\* What the end of an operation does to node's variables and the proxies.
EndsCounting ==
    /\ Counts(Top)
    /\ \/ /\ globals' = globals
          /\ proxies' # proxies => <<"res", exeCnt>> \in DOMAIN globals
       \/ \E outcome \in Outcomes : globals' = Assign(<<"res", Top.n>>, Top.op, outcome)
    /\ \/ proxies' = proxies
       \/ proxies' = proxies \cup {[name |-> <<"res", exeCnt>>, of |-> Top.op]}

EndsRequiring ==
    /\ Requires(Top)
    /\ \/ globals' = globals
       \/ \E outcome \in Outcomes : globals' = Assign(<<"mod", Top.n>>, Top.op, outcome)
    /\ \/ proxies' = proxies
       \/ proxies' = proxies \cup {[name |-> <<"mod", Top.n>>, of |-> Top.op]}

\* A proxy is handed out for a result that was stored or, when the type of the
\* result variable is asked for after an exception, for one that has a value.
LEMMA EndEffect ==
    ASSUME NEW outcome \in Outcomes, EndOp(outcome)
    PROVE  EndsCounting \/ EndsRequiring \/ UNCHANGED heap
<1> USE DEF Hand, Store, ResultName, ResultType
<1>1. CASE EndGet(outcome)
  BY <1>1 DEF EndGet, EndsCounting, Counts, Counting, V8Data2Jsc
<1>2. CASE EndExe(outcome)
  BY <1>2 DEF EndExe, EndsCounting, Counts, Counting
<1>3. CASE EndClsGet(outcome)
  BY <1>3 DEF EndClsGet, EndsCounting, Counts, Counting, V8Data2Jsc
<1>4. CASE EndReqGet(outcome)
  BY <1>4 DEF EndReqGet, EndsCounting, Counts, Counting, V8Data2Jsc
<1>5. CASE EndSet(outcome)
  BY <1>5 DEF EndSet
<1>6. CASE EndReq(outcome)
  BY <1>6 DEF EndReq, EndsRequiring, Requires
<1>7. CASE EndNew(outcome)
  BY <1>7 DEF EndNew, EndsRequiring, Requires, Outcomes, EndOp, InNode, IsRunning
<1>8. QED
  BY <1>1, <1>2, <1>3, <1>4, <1>5, <1>6, <1>7 DEF EndOp

\* An operation ends.  The operations below it are earlier, so its variable is
\* not theirs and its value is later than theirs; the proxy it hands out bears
\* the last number, whose variable holds this value or a later one.
LEMMA EndKeepsNames ==
    ASSUME BridgeIInv, NEW outcome \in Outcomes, EndOp(outcome)
    PROVE  NamesInv'
<1> USE DEF BridgeIInv, NamesInv
<1> DEFINE L == Len(stack)
<1>1. /\ ids' = ids /\ exeCnt' = exeCnt /\ moduleId' = moduleId /\ pcnt' = pcnt
      /\ reentered' = reentered /\ stack # <<>> /\ stack' = Pop
  BY DEF EndOp, InNode, counters
<1>2. PICK t : t = Top
  OBVIOUS
<1>3. /\ L \in Nat \ {0} /\ L \in Frames /\ t = stack[L] /\ t.op \in Nat /\ t.kind # "cb"
      /\ Counts(t) \/ Requires(t) => t.n \in Nat
  <2>1. Top.kind # "cb"
    BY DEF EndOp, InNode, IsRunning
  <2>2. QED
    BY <1>1, <1>2, <2>1, FrameTypes DEF Frames
<1>4. /\ stack' \in Seq(AnyScript \cup AnyCallback) /\ Len(stack') = L - 1
      /\ \A i \in 1..L - 1 : stack'[i] = stack[i]
  <2>1. stack \in Seq(AnyScript \cup AnyCallback)
    BY DEF IInv, BridgeTypeOK
  <2>2. QED
    BY <1>1, <2>1, FrontOfStack DEF Pop
<1>5. \A i \in Frames' : i \in Frames /\ i < L /\ stack'[i] = stack[i]
  BY <1>3, <1>4 DEF Frames
<1>6. /\ ids \in Nat /\ exeCnt \in Nat /\ moduleId \in Nat /\ pcnt \in Nat
  BY NodeBridgeAssumption DEF TypeOK
<1>7. FrameNumbers' /\ Ordered' /\ ReentryNoted'
  <2>2. FrameNumbers'
    BY <1>1, <1>5 DEF FrameNumbers, Counts, Requires
  <2>3. Ordered'
    BY <1>5 DEF Ordered, Counts, Requires
  <2>4. ReentryNoted'
    BY <1>1, <1>5 DEF ReentryNoted, Counts
  <2>5. QED
    BY <2>2, <2>3, <2>4
\* The operations below.
<1>8. \A i \in Frames' :
          /\ Counts(stack'[i]) /\ Counts(t) => stack'[i].n < t.n /\ stack'[i].op < t.op
          /\ Requires(stack'[i]) /\ Requires(t) => stack'[i].n < t.n
          /\ Counts(stack'[i]) \/ Requires(stack'[i]) =>
                stack'[i].n \in Nat /\ stack'[i].op \in Nat
  <2>1. \A i \in Frames : i < L =>
          /\ Counts(stack[i]) /\ Counts(t) => stack[i].n < t.n /\ stack[i].op < t.op
          /\ Requires(stack[i]) /\ Requires(t) => stack[i].n < t.n
    BY <1>3, FrameKinds DEF Ordered
  <2>2. QED
    BY <1>5, <2>1, FrameTypes
<1>9. \A nm : NameDrawn(nm)' <=> NameDrawn(nm)
  BY <1>1 DEF NameDrawn
<1>10. ASSUME UNCHANGED heap PROVE NamesInv'
  <2>1. NamesDrawn' /\ ProxyNeverStale' /\ ProxyNamesItsValue'
    BY <1>1, <1>10 DEF NamesDrawn, NameDrawn, ProxyNeverStale, ProxyNamesItsValue, heap
  <2>2. ResultsPending' /\ ProxiesPending' /\ ModulesPending'
    BY <1>5, <1>10 DEF ResultsPending, ProxiesPending, ModulesPending, Counts, Requires, heap
  <2>3. QED
    BY <1>7, <2>1, <2>2
<1>11. ASSUME EndsCounting PROVE NamesInv'
  <2>1. PICK nm, q : nm = <<"res", t.n>> /\ q = [name |-> <<"res", exeCnt>>, of |-> t.op]
    OBVIOUS
  <2>2. /\ Counts(t)
        /\ \/ globals' = globals /\ (proxies' # proxies => q.name \in DOMAIN globals)
           \/ \E o \in Outcomes : globals' = Assign(nm, t.op, o)
        /\ proxies' = proxies \/ proxies' = proxies \cup {q}
    BY <1>2, <1>11, <2>1 DEF EndsCounting
  <2>3. nm[1] = "res" /\ nm[2] = t.n /\ q.name[1] = "res" /\ q.name[2] = exeCnt /\ q.of = t.op
        /\ q.name = <<"res", exeCnt>>
    BY <2>1
  <2>4. t.n \in Nat /\ t.n <= exeCnt /\ nm \notin DOMAIN globals
    BY <1>3, <1>6, <2>2, <2>3 DEF FrameNumbers, ResultsPending
  <2>5. \/ globals' = globals
        \/ /\ DOMAIN globals' = DOMAIN globals \cup {nm} /\ globals'[nm].of = t.op
           /\ \A x \in DOMAIN globals : x # nm => globals'[x] = globals[x]
    <3>1. ASSUME NEW o \in Outcomes, globals' = Assign(nm, t.op, o)
          PROVE  /\ DOMAIN globals' = DOMAIN globals \cup {nm} /\ globals'[nm].of = t.op
                 /\ \A x \in DOMAIN globals : x # nm => globals'[x] = globals[x]
      BY <3>1, AssignFacts
    <3>2. QED
      BY <2>2, <3>1
  <2>6. /\ \A x \in DOMAIN globals : x \in DOMAIN globals' /\ globals'[x] = globals[x]
        /\ \A x \in DOMAIN globals' : x \in DOMAIN globals \/ (x = nm /\ globals'[nm].of = t.op)
    BY <2>4, <2>5
  <2>7. NamesDrawn'
    <3>1. NameDrawn(nm) /\ NameDrawn(q.name)
      BY <1>6, <2>3, <2>4 DEF NameDrawn
    <3>2. \A x \in DOMAIN globals' : NameDrawn(x)'
      BY <1>9, <2>6, <3>1 DEF NamesDrawn
    <3>3. \A p \in proxies' : NameDrawn(p.name)'
      BY <1>9, <2>2, <3>1 DEF NamesDrawn
    <3>4. QED
      BY <3>2, <3>3 DEF NamesDrawn, NameDrawn
  \* The name that is handed out.
  <2>8. q.name \in DOMAIN globals' => globals'[q.name].of >= t.op
    <3>1. CASE t.n = exeCnt
      BY <1>3, <2>1, <2>3, <2>4, <2>6, <3>1
    <3>2. CASE t.n # exeCnt
      <4>1. exeCnt > t.n /\ q.name # nm
        BY <1>6, <2>3, <2>4, <3>2
      <4>2. ASSUME q.name \in DOMAIN globals' PROVE globals'[q.name].of >= t.op
        <5>1. q.name \in DOMAIN globals /\ globals'[q.name] = globals[q.name]
          BY <2>6, <4>1, <4>2
        <5>2. globals[q.name].of > t.op
          BY <1>3, <2>2, <2>3, <4>1, <5>1 DEF ResultsPending
        <5>3. globals[q.name].of \in Nat
          BY <5>1 DEF TypeOK, Ids
        <5>4. QED
          BY <1>3, <5>1, <5>2, <5>3
      <4>3. QED
        BY <4>2
    <3>3. QED
      BY <3>1, <3>2
  <2>9. ProxyNeverStale'
    <3>1. ASSUME NEW p \in proxies, p.name \in DOMAIN globals' PROVE globals'[p.name].of >= p.of
      <4>1. CASE p.name \in DOMAIN globals
        BY <2>6, <4>1 DEF ProxyNeverStale
      <4>2. CASE p.name \notin DOMAIN globals
        <5>1. p.name = <<"res", t.n>> /\ globals'[p.name].of = t.op
          BY <2>1, <2>6, <3>1, <4>2
        <5>2. p.of <= t.op /\ p.of \in Nat
          BY <1>3, <2>2, <5>1 DEF ProxiesPending, TypeOK, Ids
        <5>3. QED
          BY <1>3, <5>1, <5>2
      <4>3. QED
        BY <4>1, <4>2
    <3>2. QED
      BY <2>2, <2>3, <2>8, <3>1 DEF ProxyNeverStale
  <2>10. ProxyNamesItsValue'
    <3>1. ASSUME NEW p \in proxies
          PROVE  \/ p.name[1] = "res" /\ p.of \in reentered'
                 \/ p.name[1] = "mod" /\ p.name \notin DOMAIN globals'
                 \/ p.name \in DOMAIN globals' /\ globals'[p.name].of = p.of
      <4>1. p.name[1] = "mod" => p.name # nm
        BY <2>3
      <4>2. QED
        BY <1>1, <2>6, <4>1 DEF ProxyNamesItsValue
    <3>2. ASSUME proxies' # proxies
          PROVE  \/ q.of \in reentered'
                 \/ q.name \in DOMAIN globals' /\ globals'[q.name].of = q.of
      <4>1. CASE t.n = exeCnt
        <5>1. q.name = nm
          BY <2>1, <4>1
        <5>2. \E o \in Outcomes : globals' = Assign(nm, t.op, o)
          BY <2>2, <2>4, <3>2, <5>1
        <5>3. PICK o \in Outcomes : globals' = Assign(nm, t.op, o)
          BY <5>2
        <5>4. DOMAIN globals' = DOMAIN globals \cup {nm} /\ globals'[nm].of = t.op
          BY <5>3, AssignFacts, Zenon
        <5>5. QED
          BY <2>3, <5>1, <5>4
      <4>2. CASE t.n # exeCnt
        <5>1. t.n < exeCnt
          BY <1>6, <2>4, <4>2
        <5>2. QED
          BY <1>1, <1>3, <2>2, <2>3, <5>1 DEF ReentryNoted
      <4>3. QED
        BY <4>1, <4>2
    <3>3. QED
      BY <2>2, <2>3, <3>1, <3>2 DEF ProxyNamesItsValue
  <2>11. ResultsPending'
    <3> SUFFICES ASSUME NEW i \in Frames', NEW x \in DOMAIN globals',
                        Counts(stack'[i]), x[1] = "res"
                 PROVE  /\ x[2] # stack'[i].n
                        /\ x[2] > stack'[i].n => globals'[x].of > stack'[i].op
      BY DEF ResultsPending, Counts
    <3>1. CASE x \in DOMAIN globals
      BY <1>5, <2>6, <3>1 DEF ResultsPending
    <3>2. CASE x \notin DOMAIN globals
      <4>1. x[2] = t.n /\ globals'[x].of = t.op
        BY <2>3, <2>6, <3>2
      <4>2. stack'[i].n < t.n /\ stack'[i].op < t.op /\ stack'[i].n \in Nat /\ stack'[i].op \in Nat
        BY <1>8, <2>2
      <4>3. QED
        BY <1>3, <2>4, <4>1, <4>2
    <3>3. QED
      BY <3>1, <3>2
  <2>12. ProxiesPending'
    <3> SUFFICES ASSUME NEW i \in Frames', NEW p \in proxies',
                        Counts(stack'[i]), p.name = <<"res", stack'[i].n>>
                 PROVE  p.of <= stack'[i].op
      BY DEF ProxiesPending, Counts
    <3>1. CASE p \in proxies
      BY <1>5, <3>1 DEF ProxiesPending
    <3>2. CASE p \notin proxies
      <4>1. p = q
        BY <2>2, <3>2
      <4>2. stack'[i].n = exeCnt
        BY <2>3, <4>1
      <4>3. stack'[i].n < t.n /\ stack'[i].n \in Nat
        BY <1>8, <2>2
      <4>4. QED
        BY <1>6, <2>4, <4>2, <4>3
    <3>3. QED
      BY <3>1, <3>2
  <2>13. ModulesPending'
    <3> SUFFICES ASSUME NEW i \in Frames', Requires(stack'[i])
                 PROVE  /\ <<"mod", stack'[i].n>> \notin DOMAIN globals'
                        /\ \A p \in proxies' : p.name # <<"mod", stack'[i].n>>
      BY DEF ModulesPending, Requires
    <3>1. PICK m : m = <<"mod", stack'[i].n>>
      OBVIOUS
    <3>2. m[1] = "mod"
      BY <3>1
    <3>3. m # nm /\ m # q.name
      BY <2>3, <3>2
    <3>4. m \notin DOMAIN globals /\ \A p \in proxies : p.name # m
      BY <1>5, <3>1 DEF ModulesPending
    <3>5. QED
      BY <2>2, <2>6, <3>1, <3>3, <3>4
  <2>14. QED
    BY <1>7, <2>7, <2>9, <2>10, <2>11, <2>12, <2>13
<1>12. ASSUME EndsRequiring PROVE NamesInv'
  <2>1. PICK nm, q : nm = <<"mod", t.n>> /\ q = [name |-> nm, of |-> t.op]
    OBVIOUS
  <2>2. /\ Requires(t)
        /\ \/ globals' = globals
           \/ \E o \in Outcomes : globals' = Assign(nm, t.op, o)
        /\ proxies' = proxies \/ proxies' = proxies \cup {q}
    BY <1>2, <1>12, <2>1 DEF EndsRequiring
  <2>3. nm[1] = "mod" /\ nm[2] = t.n /\ q.name = nm /\ q.of = t.op
    BY <2>1
  <2>4. /\ t.n \in Nat /\ t.n < moduleId /\ nm \notin DOMAIN globals
        /\ \A p \in proxies : p.name # nm
    BY <1>3, <2>1, <2>2 DEF FrameNumbers, ModulesPending
  <2>5. \/ globals' = globals
        \/ /\ DOMAIN globals' = DOMAIN globals \cup {nm} /\ globals'[nm].of = t.op
           /\ \A x \in DOMAIN globals : x # nm => globals'[x] = globals[x]
    <3>1. ASSUME NEW o \in Outcomes, globals' = Assign(nm, t.op, o)
          PROVE  /\ DOMAIN globals' = DOMAIN globals \cup {nm} /\ globals'[nm].of = t.op
                 /\ \A x \in DOMAIN globals : x # nm => globals'[x] = globals[x]
      BY <3>1, AssignFacts
    <3>2. QED
      BY <2>2, <3>1
  <2>6. /\ \A x \in DOMAIN globals : x \in DOMAIN globals' /\ globals'[x] = globals[x]
        /\ \A x \in DOMAIN globals' : x \in DOMAIN globals \/ (x = nm /\ globals'[nm].of = t.op)
    BY <2>4, <2>5
  <2>7. NamesDrawn'
    <3>1. NameDrawn(nm)
      BY <2>3, <2>4 DEF NameDrawn
    <3>2. \A x \in DOMAIN globals' : NameDrawn(x)'
      BY <1>9, <2>6, <3>1 DEF NamesDrawn
    <3>3. \A p \in proxies' : NameDrawn(p.name)'
      BY <1>9, <2>2, <2>3, <3>1 DEF NamesDrawn
    <3>4. QED
      BY <3>2, <3>3 DEF NamesDrawn, NameDrawn
  <2>8. ProxyNeverStale'
    <3>1. t.op >= t.op
      BY <1>3
    <3>2. QED
      BY <2>2, <2>3, <2>4, <2>6, <3>1 DEF ProxyNeverStale
  <2>9. ProxyNamesItsValue'
    BY <1>1, <2>2, <2>3, <2>4, <2>6 DEF ProxyNamesItsValue
  <2>10. ResultsPending'
    <3> SUFFICES ASSUME NEW i \in Frames', NEW x \in DOMAIN globals',
                        Counts(stack'[i]), x[1] = "res"
                 PROVE  /\ x[2] # stack'[i].n
                        /\ x[2] > stack'[i].n => globals'[x].of > stack'[i].op
      BY DEF ResultsPending, Counts
    <3>1. x \in DOMAIN globals /\ globals'[x] = globals[x]
      BY <2>3, <2>6
    <3>2. QED
      BY <1>5, <3>1 DEF ResultsPending
  <2>11. ProxiesPending'
    <3> SUFFICES ASSUME NEW i \in Frames', NEW p \in proxies',
                        Counts(stack'[i]), p.name = <<"res", stack'[i].n>>
                 PROVE  p.of <= stack'[i].op
      BY DEF ProxiesPending, Counts
    <3>1. p.name[1] = "res"
      OBVIOUS
    <3>2. p \in proxies
      BY <2>2, <2>3, <3>1
    <3>3. QED
      BY <1>5, <3>2 DEF ProxiesPending
  <2>12. ModulesPending'
    <3> SUFFICES ASSUME NEW i \in Frames', Requires(stack'[i])
                 PROVE  /\ <<"mod", stack'[i].n>> \notin DOMAIN globals'
                        /\ \A p \in proxies' : p.name # <<"mod", stack'[i].n>>
      BY DEF ModulesPending, Requires
    <3>1. PICK m : m = <<"mod", stack'[i].n>>
      OBVIOUS
    <3>2. m[2] = stack'[i].n /\ stack'[i].n < t.n /\ stack'[i].n \in Nat
      BY <1>8, <2>2, <3>1
    <3>3. m # nm
      BY <2>3, <2>4, <3>2
    <3>4. m \notin DOMAIN globals /\ \A p \in proxies : p.name # m
      BY <1>5, <3>1 DEF ModulesPending
    <3>5. QED
      BY <2>2, <2>3, <2>6, <3>1, <3>3, <3>4
  <2>13. QED
    BY <1>7, <2>7, <2>8, <2>9, <2>10, <2>11, <2>12
<1>13. QED
  BY <1>10, <1>11, <1>12, EndEffect

\* The conjuncts of the type invariant that do not depend on the kind of step.
StaticsOK ==
    /\ ids \in 0..MaxOps /\ exeCnt \in Nat /\ moduleId \in Nat /\ pcnt \in Nat
    /\ regs \in 0..MaxRegs
    /\ slot \in [reg : Regs, page : 1..MaxPages] \cup {NoData}
    /\ kept \subseteq Regs
    /\ page \in 1..MaxPages
    /\ contexts \subseteq 1..MaxPages
    /\ crash \in {"none", "handle", "slot"}
    /\ reentered \subseteq Ids

HeapOK ==
    /\ DOMAIN globals \subseteq Names
    /\ \A nm \in DOMAIN globals :
          globals[nm] \in [of : Ids, type : {"object", "function", "other"}]
    /\ proxies \subseteq [name : Names, of : Ids]

FramesOK ==
    /\ stack \in Seq(Script \cup Callback)
    /\ CallbackHasContext

\* A variable is assigned, or a proxy made, under a name the bridge builds and
\* for an operation or parameter that it has numbered.
LEMMA HeapGrows ==
    ASSUME HeapOK, NEW nm \in Names, NEW id \in Ids, NEW nm2 \in Names,
           globals' = globals \/ \E outcome : globals' = Assign(nm, id, outcome),
           proxies' = proxies \/ proxies' = proxies \cup {[name |-> nm2, of |-> id]}
    PROVE  HeapOK'
<1>1. proxies' \subseteq [name : Names, of : Ids]
  <2>1. [name |-> nm2, of |-> id] \in [name : Names, of : Ids]
    OBVIOUS
  <2>2. QED
    BY <2>1 DEF HeapOK
<1>2. CASE globals' = globals
  BY <1>1, <1>2 DEF HeapOK
<1>3. ASSUME NEW outcome, globals' = Assign(nm, id, outcome) PROVE HeapOK'
  <2>1. /\ DOMAIN globals' = DOMAIN globals \cup {nm}
        /\ globals'[nm] = [of |-> id, type |-> TypeOf(outcome)]
        /\ globals'[nm].of = id /\ globals'[nm].type \in {"object", "function", "other"}
        /\ \A x \in DOMAIN globals : x # nm => globals'[x] = globals[x]
    BY <1>3, AssignFacts, Zenon
  <2>2. globals'[nm] \in [of : Ids, type : {"object", "function", "other"}]
    BY <2>1
  <2>3. QED
    BY <1>1, <2>1, <2>2 DEF HeapOK
<1>4. QED
  BY <1>2, <1>3

\* The page of the script that calls.
LEMMA CallerPageType == ASSUME TypeOK PROVE CallerPage \in 1..MaxPages
  BY FrameTypes DEF CallerPage, TypeOK

LEMMA StaticsStep == ASSUME BridgeIInv, [Next]_vars PROVE StaticsOK'
<1> USE DEF BridgeIInv
<1>1. ids \in Nat /\ MaxOps \in Nat /\ ids <= MaxOps
  BY NodeBridgeAssumption DEF TypeOK
<1>2. ASSUME NEW kind \in Kinds, StartOp(kind) PROVE StaticsOK'
  <2>1. ids + 1 \in Ids /\ ids + 1 \in 0..MaxOps
    BY <1>1, <1>2 DEF StartOp, Ids
  <2>2. exeCnt' \in Nat /\ moduleId' \in Nat /\ ids' = ids + 1 /\ pcnt' = pcnt /\ pcnt \in Nat
    BY <1>2 DEF StartOp, Draw, TypeOK
  <2>3. reentered' \subseteq Ids
    <3>1. \A i \in 1..Len(stack) : stack[i].kind # "cb" => stack[i].op \in Ids
      BY FrameTypes DEF Frames
    <3>2. OpsInside \subseteq Ids
      BY <3>1 DEF OpsInside
    <3>3. QED
      BY <1>2, <3>2 DEF StartOp, TypeOK
  <2>4. QED
    BY <1>2, <2>1, <2>2, <2>3 DEF StartOp, documents, callbacks, StaticsOK, TypeOK
<1>3. ASSUME NEW outcome \in Outcomes, EndOp(outcome) PROVE StaticsOK'
  <2>1. crash' \in {crash, "handle"}
    BY <1>3 DEF EndOp, EndGet, EndExe, EndClsGet, EndReqGet, EndSet, EndReq, EndNew,
        EmptyHandle
  <2>2. UNCHANGED <<counters, callbacks, kept, documents, reentered>>
    BY <1>3 DEF EndOp
  <2>3. QED
    BY <2>1, <2>2 DEF counters, callbacks, documents, StaticsOK, TypeOK
<1>4. ASSUME NEW r \in Regs, NodeproxyCb(r) PROVE StaticsOK'
  <2>1. /\ ids' \in 0..MaxOps /\ pcnt' \in Nat
    <3>1. pcnt \in Nat
      BY DEF TypeOK
    <3>2. CASE WrapParameter
      BY <1>1, <3>1, <3>2 DEF WrapParameter
    <3>3. CASE UNCHANGED <<ids, pcnt, heap>>
      BY <1>1, <3>1, <3>3
    <3>4. QED
      BY <1>4, <3>2, <3>3 DEF NodeproxyCb
  <2>2. QED
    BY <1>4, <2>1 DEF NodeproxyCb, documents, callbacks, StaticsOK, TypeOK
<1>5. CASE KeepCallback
  <2>1. Top.reg \in Regs
    <3>1. Top \in Script /\ Top.reg # 0
      BY <1>5, FrameTypes DEF KeepCallback, InNode, IsRunning
    <3>2. QED
      BY <3>1, NodeBridgeAssumption DEF Script, Regs
  <2>2. QED
    BY <1>5, <2>1 DEF KeepCallback, counters, documents, callbacks, StaticsOK, TypeOK
<1>6. CASE CallbackReturn
  BY <1>6 DEF CallbackReturn, counters, documents, callbacks, StaticsOK, TypeOK
<1>7. CASE Navigate
  <2>1. page + 1 \in 1..MaxPages
    BY <1>7, NodeBridgeAssumption DEF Navigate, TypeOK
  <2>2. page' \in 1..MaxPages /\ contexts' \subseteq 1..MaxPages
    BY <1>7, <2>1 DEF Navigate, TypeOK
  <2>3. QED
    BY <1>7, <2>2 DEF Navigate, counters, callbacks, StaticsOK, TypeOK
<1>8. ASSUME NEW d \in 1..MaxPages, DestroyDocument(d) PROVE StaticsOK'
  BY <1>8 DEF DestroyDocument, counters, callbacks, StaticsOK, TypeOK
<1>9. CASE UNCHANGED vars
  BY <1>9 DEF vars, counters, documents, callbacks, StaticsOK, TypeOK
<1>10. CASE ConvertFunction
  <2>1. regs + 1 \in Regs /\ regs + 1 \in 0..MaxRegs
    BY <1>10, NodeBridgeAssumption DEF ConvertFunction, TypeOK, Regs
  <2>2. slot' \in [reg : Regs, page : 1..MaxPages] /\ regs' = regs + 1
    <3>1. CallerPage \in 1..MaxPages
      BY CallerPageType
    <3>2. QED
      BY <1>10, <2>1, <3>1 DEF ConvertFunction, Register
  <2>3. QED
    BY <1>10, <2>1, <2>2 DEF ConvertFunction, counters, documents, StaticsOK, TypeOK
<1>11. CASE RunScript
  <2>1. moduleId' \in Nat
    BY <1>11 DEF RunScript, TypeOK
  <2>2. QED
    BY <1>11, <2>1 DEF RunScript, documents, callbacks, StaticsOK, TypeOK
<1>12. QED
  BY <1>2, <1>3, <1>4, <1>5, <1>6, <1>7, <1>8, <1>9, <1>10, <1>11 DEF Next

LEMMA HeapStep == ASSUME BridgeIInv, [Next]_vars PROVE HeapOK'
<1> USE DEF BridgeIInv, NamesInv
<1>1. HeapOK
  BY DEF HeapOK, TypeOK
<1>2. UNCHANGED heap => HeapOK'
  BY <1>1 DEF HeapOK, heap
<1>3. ASSUME NEW outcome \in Outcomes, EndOp(outcome) PROVE HeapOK'
  <2>1. Top.op \in Ids /\ Top.n \in Nat /\ exeCnt \in Nat
    BY <1>3, FrameTypes DEF EndOp, InNode, IsRunning, TypeOK
  <2>2. /\ <<"res", Top.n>> \in Names /\ <<"res", exeCnt>> \in Names
        /\ <<"mod", Top.n>> \in Names
    BY <2>1 DEF Names
  <2>3. CASE EndsCounting
    BY <1>1, <2>1, <2>2, <2>3, HeapGrows DEF EndsCounting
  <2>4. CASE EndsRequiring
    BY <1>1, <2>1, <2>2, <2>4, HeapGrows DEF EndsRequiring
  <2>5. QED
    BY <1>2, <1>3, <2>3, <2>4, EndEffect
<1>4. ASSUME WrapParameter PROVE HeapOK'
  <2>1. <<"par", pcnt>> \in Names
    BY DEF TypeOK, Names
  <2>2. ids + 1 \in Ids
    BY <1>4, NodeBridgeAssumption DEF WrapParameter, TypeOK, Ids
  <2>3. QED
    BY <1>1, <1>4, <2>1, <2>2, HeapGrows DEF WrapParameter
<1>5. CASE (\E kind \in Kinds : StartOp(kind)) \/ ConvertFunction \/ RunScript
  BY <1>2, <1>5 DEF StartOp, ConvertFunction, RunScript
<1>6. CASE \E r \in Regs : NodeproxyCb(r)
  BY <1>2, <1>4, <1>6 DEF NodeproxyCb
<1>7. CASE \/ KeepCallback \/ CallbackReturn \/ Navigate
           \/ \E d \in 1..MaxPages : DestroyDocument(d)
           \/ UNCHANGED vars
  BY <1>2, <1>7 DEF KeepCallback, CallbackReturn, Navigate, DestroyDocument, vars
<1>8. QED
  BY <1>3, <1>5, <1>6, <1>7 DEF Next

LEMMA FramesStep == ASSUME BridgeIInv, [Next]_vars PROVE FramesOK'
<1> USE DEF BridgeIInv, NamesInv
<1>1. /\ stack \in Seq(Script \cup Callback) /\ CallbackHasContext
      /\ ids \in Nat /\ exeCnt \in Nat /\ moduleId \in Nat /\ MaxOps \in Nat
  BY NodeBridgeAssumption DEF TypeOK
<1>2. ASSUME stack' = stack,
             \A i \in 1..Len(stack) : stack[i].page \in contexts => stack[i].page \in contexts'
      PROVE  FramesOK'
  BY <1>1, <1>2 DEF FramesOK, CallbackHasContext
<1>3. ASSUME stack # <<>>, stack' = Pop, contexts' = contexts PROVE FramesOK'
  <2>1. /\ stack' \in Seq(Script \cup Callback) /\ Len(stack') = Len(stack) - 1
        /\ \A i \in 1..Len(stack) - 1 : stack'[i] = stack[i]
    BY <1>1, <1>3, FrontOfStack DEF Pop
  <2>2. Len(stack) \in Nat
    BY FrameTypes
  <2>3. \A i \in 1..Len(stack') : i \in 1..Len(stack) /\ stack'[i] = stack[i]
    BY <2>1, <2>2
  <2>4. QED
    BY <1>3, <2>1, <2>3 DEF FramesOK, CallbackHasContext
<1>4. ASSUME NEW f \in Script \cup Callback, stack' = Append(stack, f), contexts' = contexts,
             f.kind = "cb" => f.page \in contexts
      PROVE  FramesOK'
  <2>1. Len(stack) \in Nat
    BY FrameTypes
  <2>2. /\ stack' \in Seq(Script \cup Callback) /\ Len(stack') = Len(stack) + 1
        /\ stack'[Len(stack) + 1] = f /\ \A i \in 1..Len(stack) : stack'[i] = stack[i]
    BY <1>1, <1>4, <2>1, AppendProperties
  <2>3. \A i \in 1..Len(stack') : i = Len(stack) + 1 \/ i \in 1..Len(stack)
    BY <2>1, <2>2
  <2>4. CallbackHasContext'
    BY <1>4, <2>2, <2>3 DEF CallbackHasContext
  <2>5. QED
    BY <2>2, <2>4 DEF FramesOK
<1>5. ASSUME NEW kind \in Kinds, StartOp(kind) PROVE FramesOK'
  <2> DEFINE f == [kind |-> kind, op |-> ids + 1, n |-> Number(kind), reg |-> 0,
                   page |-> CallerPage,
                   phase |-> IF kind \in Converting THEN "converting" ELSE "running"]
  <2>1. ids + 1 \in Ids /\ 0 \in 0..MaxRegs
    BY <1>1, <1>5, NodeBridgeAssumption DEF StartOp, Ids
  <2>2. Number(kind) \in Nat
    BY <1>1, <1>5 DEF Number, StartOp, Draw
  <2>3. f \in Script
    BY <2>1, <2>2, CallerPageType, Zenon DEF Script
  <2>4. f.kind # "cb" /\ stack' = Append(stack, f) /\ contexts' = contexts
    BY <1>5, ScriptKinds DEF StartOp, Push, documents
  <2> HIDE DEF f
  <2>5. QED
    BY <1>4, <2>3, <2>4
<1>6. ASSUME NEW r \in Regs, NodeproxyCb(r) PROVE FramesOK'
  <2> DEFINE f == [kind |-> "cb", reg |-> r, data |-> slot.reg, page |-> slot.page]
  <2>1. contexts' = contexts
    BY <1>6 DEF NodeproxyCb, documents
  <2>2. CASE slot.page \in contexts
    <3>1. slot.page \in 1..MaxPages
      BY <2>2 DEF TypeOK
    <3>2. slot # NoData
      BY <3>1, NodeBridgeAssumption DEF NoData
    <3>3. slot.reg \in Regs
      BY <3>2 DEF TypeOK
    <3>4. f \in Callback /\ f.kind = "cb" /\ f.page \in contexts /\ stack' = Append(stack, f)
      BY <1>6, <2>2, <3>1, <3>3 DEF Callback, NodeproxyCb, InvokeCallback, Push
    <3> HIDE DEF f
    <3>5. QED
      BY <1>4, <2>1, <3>4
  <2>3. CASE slot.page \notin contexts
    BY <1>2, <1>6, <2>1, <2>3 DEF NodeproxyCb, InvokeCallback
  <2>4. QED
    BY <2>2, <2>3
\* An operation goes on: it stays no callback.
<1>0. ASSUME stack # <<>>, Top.kind # "cb", contexts' = contexts,
             NEW f \in Script, f.kind # "cb", stack' = SetTop(f)
      PROVE  FramesOK'
  <2>1. /\ Frames' = Frames /\ stack'[Len(stack)] = f
        /\ \A i \in Frames : i # Len(stack) => stack'[i] = stack[i]
        /\ stack' \in Seq(Script \cup Callback)
    BY <1>0, SetTopFrames
  <2>2. CallbackHasContext'
    BY <1>0, <1>1, <2>1 DEF CallbackHasContext, Frames
  <2>3. QED
    BY <2>1, <2>2 DEF FramesOK
<1>11. CASE ConvertFunction
  <2>1. stack # <<>> /\ Top.kind # "cb" /\ contexts' = contexts
    BY <1>11 DEF ConvertFunction, IsConverting, documents
  <2>2. PICK f : f = [Top EXCEPT !.reg = regs + 1]
    OBVIOUS
  <2>3. regs + 1 \in 0..MaxRegs
    BY <1>11, NodeBridgeAssumption DEF ConvertFunction, TypeOK
  <2>4. f \in Script /\ f.kind = Top.kind
    BY <2>1, <2>2, <2>3, TopFields
  <2>5. stack' = SetTop(f)
    BY <1>11, <2>2 DEF ConvertFunction
  <2>6. QED
    BY <1>0, <2>1, <2>4, <2>5
<1>12. CASE RunScript
  <2>1. stack # <<>> /\ Top.kind # "cb" /\ contexts' = contexts
    BY <1>12 DEF RunScript, IsConverting, documents
  <2>2. PICK f, g : /\ f = [Top EXCEPT !.phase = "running"]
                    /\ g = [Top EXCEPT !.phase = "running", !.n = moduleId]
    OBVIOUS
  <2>3. f \in Script /\ f.kind = Top.kind /\ g \in Script /\ g.kind = Top.kind
    BY <1>1, <2>1, <2>2, TopFields
  <2>4. stack' = SetTop(f) \/ stack' = SetTop(g)
    BY <1>12, <2>2 DEF RunScript
  <2>5. QED
    BY <1>0, <2>1, <2>3, <2>4
<1>7. CASE \E outcome \in Outcomes : EndOp(outcome)
  BY <1>3, <1>7 DEF EndOp, InNode, documents
<1>8. CASE CallbackReturn
  BY <1>3, <1>8 DEF CallbackReturn, documents
<1>9. CASE \/ KeepCallback \/ Navigate
           \/ \E d \in 1..MaxPages : DestroyDocument(d)
           \/ UNCHANGED vars
  BY <1>2, <1>9 DEF KeepCallback, Navigate, DestroyDocument, vars, documents
<1>10. QED
  BY <1>5, <1>6, <1>7, <1>8, <1>9, <1>11, <1>12 DEF Next

LEMMA NamesStep == ASSUME BridgeIInv, [Next]_vars PROVE NamesInv'
<1>1. CASE \E kind \in Kinds : StartOp(kind)
  BY <1>1, StartKeepsNames
<1>2. CASE \E outcome \in Outcomes : EndOp(outcome)
  BY <1>2, EndKeepsNames
<1>3. ASSUME NEW r \in Regs, NodeproxyCb(r) PROVE NamesInv'
  <2> DEFINE f == [kind |-> "cb", reg |-> r, data |-> slot.reg, page |-> slot.page]
  <2>1. f.kind = "cb" /\ (stack' = stack \/ stack' = Append(stack, f))
    BY <1>3 DEF NodeproxyCb, InvokeCallback, Push
  <2>2. stack \in Seq(Script \cup Callback)
    BY DEF BridgeIInv, TypeOK
  <2> HIDE DEF f
  <2>3. NoNewScript
    BY <2>1, <2>2 DEF NoNewScript, SameNumbers, Frames
  <2>4. WrapsOrKeeps /\ exeCnt' = exeCnt /\ moduleId' = moduleId /\ reentered' = reentered
    BY <1>3 DEF NodeproxyCb, WrapsOrKeeps, heap
  <2>5. QED
    BY <2>3, <2>4, NoScriptKeepsNames
<1>4. CASE CallbackReturn
  <2>1. stack # <<>> /\ stack' = Pop /\ stack \in Seq(Script \cup Callback) /\ Len(stack) \in Nat
    BY <1>4, FrameTypes DEF CallbackReturn, BridgeIInv, TypeOK
  <2>2. /\ Len(stack') = Len(stack) - 1
        /\ \A i \in 1..Len(stack) - 1 : stack'[i] = stack[i]
    BY <2>1, FrontOfStack DEF Pop
  <2>3. NoNewScript
    BY <2>1, <2>2 DEF NoNewScript, SameNumbers, Frames
  <2>4. WrapsOrKeeps /\ exeCnt' = exeCnt /\ moduleId' = moduleId /\ reentered' = reentered
    BY <1>4 DEF CallbackReturn, WrapsOrKeeps, heap, counters
  <2>5. QED
    BY <2>3, <2>4, NoScriptKeepsNames
<1>5. CASE \/ KeepCallback \/ Navigate
           \/ \E d \in 1..MaxPages : DestroyDocument(d)
           \/ UNCHANGED vars
  <2>1. /\ stack' = stack /\ UNCHANGED <<counters, heap, reentered>>
    BY <1>5 DEF KeepCallback, Navigate, DestroyDocument, vars
  <2>2. NoNewScript
    BY <2>1 DEF NoNewScript, SameNumbers, Frames
  <2>3. WrapsOrKeeps /\ exeCnt' = exeCnt /\ moduleId' = moduleId /\ reentered' = reentered
    BY <2>1 DEF WrapsOrKeeps, heap, counters
  <2>4. QED
    BY <2>2, <2>3, NoScriptKeepsNames
<1>6. CASE ConvertFunction \/ RunScript
  BY <1>6, TextKeepsNames, RunNewKeepsNames
<1>7. QED
  BY <1>1, <1>2, <1>3, <1>4, <1>5, <1>6 DEF Next

LEMMA BridgeInit == Init => BridgeIInv
<1> SUFFICES ASSUME Init PROVE BridgeIInv
  OBVIOUS
<1>1. IInv
  BY SlotInit
<1>2. Frames = {} /\ DOMAIN globals = {} /\ proxies = {}
  BY DEF Init, Frames
<1>3. CallbackHasContext /\ stack \in Seq(Script \cup Callback)
  BY DEF Init, CallbackHasContext
<1>4. TypeOK
  BY <1>2, <1>3, NodeBridgeAssumption DEF Init, TypeOK
<1>5. ProxyNeverStale /\ ProxyNamesItsValue
  BY <1>2 DEF ProxyNeverStale, ProxyNamesItsValue
<1>6. NamesInv
  BY <1>2, <1>5 DEF NamesInv, FrameNumbers, NamesDrawn, Ordered, ResultsPending,
      ProxiesPending, ModulesPending, ReentryNoted
<1>7. QED
  BY <1>1, <1>3, <1>4, <1>6 DEF BridgeIInv

\* The whole invariant holds in every behaviour of the bridge.
LEMMA BridgeInvariant == Spec => []BridgeIInv
<1>1. ASSUME IInv', BridgeIInv, [Next]_vars PROVE BridgeIInv'
  <2>1. NamesInv'
    BY <1>1, NamesStep
  <2>2. TypeOK' /\ CallbackHasContext'
    <3>1. StaticsOK' /\ HeapOK' /\ FramesOK'
      BY <1>1, StaticsStep, HeapStep, FramesStep
    <3>2. QED
      BY <3>1 DEF StaticsOK, HeapOK, FramesOK, TypeOK
  <2>3. QED
    BY <1>1, <2>1, <2>2 DEF BridgeIInv
<1>2. IInv' /\ BridgeIInv /\ [Next]_vars => BridgeIInv'
  BY <1>1
<1>3. QED
  BY <1>2, BridgeInit, SlotInvariant, PTL DEF Spec

\* Proxies and callbacks do not go stale: however page script and node call each
\* other, no proxy that getProp, node_proxy_cls_exe_fun or the class operations
\* return stands for an older value than its own, and invokeCallback runs page
\* script only in a document that exists.
THEOREM BridgeStaysSound == Spec => []BridgeInv
<1>1. BridgeIInv => BridgeInv
  BY DEF BridgeIInv, NamesInv, BridgeInv
<1>2. QED
  BY <1>1, BridgeInvariant, PTL

\* A proxy's name stands for the proxy's own value, unless it is a result and
\* another operation drew from ExeCnt while this one converted its arguments or
\* ran its script.
THEOREM ProxiesNameTheirValues == Spec => []ProxyNamesItsValue
<1>1. BridgeIInv => ProxyNamesItsValue
  BY DEF BridgeIInv, NamesInv
<1>2. QED
  BY <1>1, BridgeInvariant, PTL

\* A result variable is assigned once: no operation's source text overwrites the
\* result of another, whatever runs inside it.
THEOREM ResultsStayFinal == Spec => ResultsAreFinal
<1>1. ASSUME BridgeIInv, [Next]_vars
      PROVE  \A nm \in DOMAIN globals :
                nm[1] = "res" => nm \in DOMAIN globals' /\ globals'[nm] = globals[nm]
  <2> SUFFICES ASSUME NEW nm \in DOMAIN globals, nm[1] = "res"
               PROVE  nm \in DOMAIN globals' /\ globals'[nm] = globals[nm]
    OBVIOUS
  <2>1. ASSUME NEW x, NEW id, NEW o, globals' = Assign(x, id, o), nm # x
        PROVE  nm \in DOMAIN globals' /\ globals'[nm] = globals[nm]
    <3>1. /\ DOMAIN globals' = DOMAIN globals \cup {x}
          /\ \A y \in DOMAIN globals : y # x => globals'[y] = globals[y]
      BY <2>1, AssignFacts, Zenon
    <3>2. QED
      BY <2>1, <3>1, Zenon
  <2>2. ASSUME NEW outcome \in Outcomes, EndOp(outcome)
        PROVE  nm \in DOMAIN globals' /\ globals'[nm] = globals[nm]
    <3>1. stack # <<>> /\ Len(stack) \in Frames /\ Top = stack[Len(stack)]
      BY <1>1, <2>2, FrameTypes DEF EndOp, InNode, BridgeIInv
    <3>2. CASE EndsCounting
      <4>1. nm[2] # Top.n
        BY <1>1, <3>1, <3>2 DEF EndsCounting, BridgeIInv, NamesInv, ResultsPending
      <4>2. nm # <<"res", Top.n>>
        BY <4>1
      <4>3. QED
        BY <2>1, <3>2, <4>2 DEF EndsCounting
    <3>3. CASE EndsRequiring
      <4>1. nm # <<"mod", Top.n>>
        OBVIOUS
      <4>2. QED
        BY <2>1, <3>3, <4>1 DEF EndsRequiring
    <3>4. QED
      BY <2>2, <3>2, <3>3, EndEffect DEF heap
  <2>3. ASSUME WrapParameter PROVE nm \in DOMAIN globals' /\ globals'[nm] = globals[nm]
    <3>1. nm # <<"par", pcnt>>
      OBVIOUS
    <3>2. QED
      BY <2>1, <2>3, <3>1 DEF WrapParameter
  <2>4. QED
    BY <1>1, <2>2, <2>3 DEF Next, StartOp, ConvertFunction, RunScript, KeepCallback,
        NodeproxyCb, CallbackReturn, Navigate, DestroyDocument, vars, heap
<1>2. BridgeIInv /\ [Next]_vars
        => [\A nm \in DOMAIN globals :
              nm[1] = "res" => nm \in DOMAIN globals' /\ globals'[nm] = globals[nm]]_vars
  BY <1>1
<1>3. QED
  BY <1>2, BridgeInvariant, PTL DEF Spec, ResultsAreFinal
=============================================================================
