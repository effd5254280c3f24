------------------------------ MODULE SyncCall ------------------------------
(***************************************************************************)
(* What a synchronous message promises its sender: a call that was made    *)
(* ends with the reply or fails; its handler runs at most once, possibly   *)
(* after the caller has given up; it ends well only if the handler ran.    *)
(***************************************************************************)
EXTENDS Naturals

CONSTANTS Sender, Number

VARIABLES
    call,   \* call[s][n]: how far the n-th call of s has come
    runs    \* runs[s][n]: how often its handler has run

vars == <<call, runs>>

Init ==
    /\ call = [s \in Sender |-> [n \in Number |-> "idle"]]
    /\ runs = [s \in Sender |-> [n \in Number |-> 0]]

Send(s, n) ==
    /\ call[s][n] = "idle"
    /\ call' = [call EXCEPT ![s][n] = "sent"]
    /\ UNCHANGED runs

Handle(s, n) ==
    /\ call[s][n] # "idle" /\ runs[s][n] = 0
    /\ runs' = [runs EXCEPT ![s][n] = 1]
    /\ UNCHANGED call

Succeed(s, n) ==
    /\ call[s][n] = "sent" /\ runs[s][n] = 1
    /\ call' = [call EXCEPT ![s][n] = "ok"]
    /\ UNCHANGED runs

\* Calls fail one by one, at once if they cannot be sent, or together when
\* their process ends.
Fail ==
    /\ DOMAIN call' = Sender
    /\ \A s \in Sender :
        /\ DOMAIN call'[s] = Number
        /\ \A n \in Number :
            \/ call'[s][n] = call[s][n]
            \/ call[s][n] \in {"idle", "sent"} /\ call'[s][n] = "failed"
    /\ UNCHANGED runs

Next ==
    \/ \E s \in Sender, n \in Number : Send(s, n) \/ Handle(s, n) \/ Succeed(s, n)
    \/ Fail

Safety == Init /\ [][Next]_vars
=============================================================================
