---------------------------- MODULE MCConnection ----------------------------
(* Model checking Connection: a UI process and one or two web processes, with *)
(* the connections WebProcessProxy and WebProcess set up between them.        *)
EXTENDS Connection

CONSTANTS ui, w1, w2

WebProcs == Proc \ {ui}

\* <<p, q>> is the connection that p holds to q.
UIEnds == {<<ui, w>> : w \in WebProcs}
WebEnds == {<<w, ui>> : w \in WebProcs}
StarEndpoint == UIEnds \cup WebEnds
StarOwner == [c \in StarEndpoint |-> c[1]]
StarPeer == [c \in StarEndpoint |-> <<c[2], c[1]>>]

\* The connection on which asynchronous messages are sent, and the bounds.
MainEnd == {<<ui, w1>>}
OneSend == [c \in StarEndpoint |-> 1]
OneTwo == [c \in StarEndpoint |-> IF c \in UIEnds THEN 1 ELSE 2]
=============================================================================
