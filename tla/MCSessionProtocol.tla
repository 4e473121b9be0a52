-------------------------- MODULE MCSessionProtocol --------------------------
(* Small instances of SessionProtocol for TLC.                             *)
EXTENDS SessionProtocol

CONSTANTS p1, p2, c1, c2

(* Every connection goes from p1 to p2.                                    *)
ForwardClient == [c \in Conns |-> p1]
ForwardServer == [c \in Conns |-> p2]

NoEnds == {}
ClientOfC1 == {Client(c1)}
ServerOfC1 == {Server(c1)}

(* Bounds of the message-ids.  INIT_START has id 1 on the client: UpTo(0)   *)
(* leaves no further message, UpTo(1) leaves one, on either end.            *)
UpTo(n) == [e \in Ends |-> IF e[2] = "client" THEN n + 1 ELSE n]
NoMore == UpTo(0)
OneMore == UpTo(1)

(* One more message on the client end, or on the server end of c1, only.   *)
OneOnClient == [e \in Ends |-> IF e[2] = "client" THEN 2 ELSE 0]
OneOnServer == [e \in Ends |-> IF e = Server(c1) THEN 1 ELSE NoMore[e]]

(* One connection, c1, with up to three messages after INIT_START; or two,  *)
(* with nothing but the handshakes and the CLOSE_START of a startSession   *)
(* that gives up.                                                          *)
Started == {c \in Conns : starter[c] # "none"}
GivesUp(c) == starter[c] \in {"failing", "failed"}
OneOrTwo ==
    IF Started = {c1}
    THEN lastMid[Client(c1)] + lastMid[Server(c1)] <= 4
    ELSE \A e \in Ends :
            /\ app[e] = "idle"
            /\ lastMid[e] <= NoMore[e] + IF e[2] = "client" /\ GivesUp(e[1]) THEN 1 ELSE 0

(* The direction from the server breaks, if at all, before a message from  *)
(* it has reached the client: INIT_REPLY is lost, and all that follows.    *)
(* Only CutLink can lead out of this, and nothing obliges it to happen.    *)
CutEarly ==
    \A c \in Conns :
        cut[Server(c)] => /\ inbox[Client(c)] = <<>>
                          /\ handler[Client(c)] = "idle"
                          /\ created[Client(c)] = 0
=============================================================================
