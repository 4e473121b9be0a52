------------------------ MODULE SessionHandshakeProofs ------------------------
(* The safety of SessionProtocol, for every value of its constants: the    *)
(* handshake, the callbacks, the ids and the map.                          *)
EXTENDS SessionProtocolProofs

-----------------------------------------------------------------------------
(* The inductive invariant.                                                *)

(* The connection was not started, or its startSession could not connect.  *)
Unstarted(c) == starter[c] \in {"none", "refused"}

(* The client has not processed INIT_REPLY, the server not INIT_START.     *)
Before(c) == created[Client(c)] = 0 /\ handler[Client(c)] = "idle"
Fresh(c) == created[Server(c)] = 0

StartInv(c) ==
    Unstarted(c) =>
        /\ phase[Client(c)] = IF starter[c] = "none" THEN "none" ELSE "deleted"
        /\ phase[Server(c)] = "none"
        /\ inbox[Client(c)] = <<>>
        /\ inbox[Server(c)] = <<>>
        /\ Before(c)
        /\ Fresh(c)

(* What is on its way, in the inbox bc of the client and bs of the server. *)
Wire(c, bc, bs) ==
    /\ Fresh(c) => /\ bc = <<>>
                   /\ Before(c)
                   /\ handler[Server(c)] = "idle"
                   /\ \A i \in DOMAIN bs : bs[i].type = "InitStart"
    /\ Before(c) => /\ \A i \in DOMAIN bc : bc[i].type # "CloseReply"
                    /\ \A i \in DOMAIN bs : bs[i].type # "CloseStart"
    /\ \A i \in DOMAIN bc : bc[i].type # "InitStart"
    /\ \A i \in DOMAIN bs : bs[i].type # "InitReply"
    /\ \A i \in DOMAIN bs : bs[i].type = "InitStart" =>
          /\ i = 1
          /\ Fresh(c) \/ handler[Server(c)] = "initStart"
          /\ bs[i].arg = sessionId[Client(c)]
    /\ \A i \in DOMAIN bc : bc[i].type = "InitReply" =>
          /\ created[Client(c)] = 0
          /\ handler[Server(c)] = "idle"
          /\ handler[Client(c)] = "initReply" => i = 1
          /\ bc[i].arg = sessionId[Server(c)]
          /\ bc[i].sid = sessionId[Client(c)]
          /\ \A j \in DOMAIN bc : bc[j].type = "InitReply" => i = j
    /\ handler[Client(c)] # "initStart"
    /\ handler[Client(c)] = "initReply" =>
          bc # <<>> /\ bc[1].type = "InitReply" /\ created[Client(c)] = 0
    /\ handler[Server(c)] # "initReply"
    /\ handler[Server(c)] = "initStart" =>
          bs # <<>> /\ bs[1].type = "InitStart" /\ Before(c)

IdInv(c) ==
    /\ ~Fresh(c) => sessionId[Server(c)][2] = sessionId[Client(c)][2]
    /\ Before(c) => sessionId[Client(c)][1] = 0
    /\ created[Client(c)] > 0 => sessionId[Client(c)] = sessionId[Server(c)]

ClientInv(c) ==
    LET e == Client(c)
    IN  /\ Before(c) /\ ~Unstarted(c) => phase[e] \in {"NotReady", "deleted"}
        /\ Before(c) => app[e] = "idle" /\ closed[e] = 0
        /\ ~Before(c) => phase[e] \in {"Ready", "NotConnected", "deleted"}
        /\ app[e] # "idle" => created[e] > 0
        /\ created[e] <= 1
        /\ closed[e] <= 1
        /\ closed[e] > 0 => phase[e] \in {"NotConnected", "deleted"}
        /\ closed[e] > created[e] => starter[c] = "failing" /\ handler[e] = "initReply"

ServerInv(c) ==
    LET e == Server(c)
    IN  /\ Fresh(c) => phase[e] \in {"none", "NotConnected"} /\ app[e] = "idle" /\ closed[e] = 0
        /\ ~Fresh(c) => phase[e] \in {"Ready", "NotConnected", "deleted"}
        /\ created[e] <= 1
        /\ closed[e] <= created[e]
        /\ closed[e] > 0 => phase[e] \in {"NotConnected", "deleted"}

ConnInv(c) ==
    /\ StartInv(c)
    /\ Wire(c, inbox[Client(c)], inbox[Server(c)])
    /\ IdInv(c)
    /\ ClientInv(c)
    /\ ServerInv(c)

Low(c) == sessionId[Client(c)][2]
High(c) == sessionId[Server(c)][1]

NumberInv ==
    /\ \A c \in Conns : ~Unstarted(c) /\ counter[ClientOf[c]] < IdBase
          => Low(c) \in 1 .. counter[ClientOf[c]]
    /\ \A c, d \in Conns :
          /\ c # d /\ ClientOf[c] = ClientOf[d] /\ counter[ClientOf[c]] < IdBase
          /\ ~Unstarted(c) /\ ~Unstarted(d)
          => Low(c) # Low(d)
    /\ \A c \in Conns : ~Fresh(c) /\ counter[ServerOf[c]] < IdBase
          => High(c) \in 1 .. counter[ServerOf[c]]
    /\ \A c, d \in Conns :
          /\ c # d /\ ServerOf[c] = ServerOf[d] /\ counter[ServerOf[c]] < IdBase
          /\ ~Fresh(c) /\ ~Fresh(d)
          => High(c) # High(d)

MapInv ==
    /\ NoDanglingRegistration
    /\ \A p \in Procs : \A x \in sessions[p] : x[2][2] = "server" => created[x[2]] > 0

-----------------------------------------------------------------------------
(* Connections and inboxes.                                                *)

(* What ConnInv says depends on these parts of the state only.             *)
Local(c) ==
    <<starter[c], phase[Client(c)], phase[Server(c)], inbox[Client(c)], inbox[Server(c)],
      handler[Client(c)], handler[Server(c)], app[Client(c)], created[Client(c)],
      app[Server(c)], created[Server(c)], closed[Client(c)], closed[Server(c)],
      sessionId[Client(c)], sessionId[Server(c)]>>

(* A step of other connections does not matter.                            *)
LEMMA ConnFrame ==
    ASSUME NEW c \in Conns, ConnInv(c), UNCHANGED Local(c)
    PROVE  ConnInv(c)'
BY DEF Local, ConnInv, StartInv, Wire, IdInv, ClientInv, ServerInv, Unstarted, Before, Fresh

(* The ends of two connections are different.                              *)
LEMMA DistinctEnds ==
    ASSUME NEW c \in Conns, NEW d \in Conns
    PROVE  /\ Client(c) # Server(d)
           /\ Client(c) = Client(d) => c = d
           /\ Server(c) = Server(d) => c = d
           /\ Client(c)[1] = c /\ Server(c)[1] = c
           /\ Client(c)[2] = "client" /\ Server(c)[2] = "server"
BY DEF Client, Server

Ordinary == {"CloseStart", "CloseReply", "HeartbeatStart", "HeartbeatReply"}

(* Taking the first message off does not disturb what is on its way.       *)
LEMMA WireTail ==
    ASSUME NEW c \in Conns, NEW bc \in Seq(Msgs), NEW bs \in Seq(Msgs), Wire(c, bc, bs)
    PROVE  /\ handler[Client(c)] = "idle" /\ bc # <<>> => Wire(c, Tail(bc), bs)
           /\ handler[Server(c)] = "idle" /\ bs # <<>> => Wire(c, bc, Tail(bs))
<1>1. ASSUME NEW q \in Seq(Msgs), q # <<>>
      PROVE  /\ Tail(q) \in Seq(Msgs)
             /\ \A i \in DOMAIN Tail(q) : i + 1 \in DOMAIN q /\ Tail(q)[i] = q[i + 1] /\ i \in Nat \ {0}
             /\ q[1] = Head(q)
  BY <1>1
<1>2. ASSUME handler[Client(c)] = "idle", bc # <<>>
      PROVE  Wire(c, Tail(bc), bs)
  <2> DEFINE r == Tail(bc)
  <2>1. \A i \in DOMAIN r : i + 1 \in DOMAIN bc /\ r[i] = bc[i + 1] /\ i \in Nat \ {0}
    BY <1>1, <1>2
  <2>2. Fresh(c) => bc = <<>>
    BY DEF Wire
  <2> HIDE DEF r
  <2>3. Wire(c, r, bs)
    BY <1>2, <2>1, <2>2 DEF Wire
  <2> QED
    BY <2>3 DEF r
<1>3. ASSUME handler[Server(c)] = "idle", bs # <<>>
      PROVE  Wire(c, bc, Tail(bs))
  <2> DEFINE r == Tail(bs)
  <2>1. \A i \in DOMAIN r : i + 1 \in DOMAIN bs /\ r[i] = bs[i + 1] /\ i \in Nat \ {0}
    BY <1>1, <1>3
  <2> HIDE DEF r
  <2>2. Wire(c, bc, r)
    BY <1>3, <2>1 DEF Wire
  <2> QED
    BY <2>2 DEF r
<1> QED
  BY <1>2, <1>3

(* Nor does sending one of the messages of an established session, if the  *)
(* sender may do so already.                                               *)
LEMMA WireAppend ==
    ASSUME NEW c \in Conns, NEW bc \in Seq(Msgs), NEW bs \in Seq(Msgs), Wire(c, bc, bs),
           NEW m \in Msgs, m.type \in Ordinary, ~Fresh(c)
    PROVE  /\ (m.type = "CloseReply" => ~Before(c)) => Wire(c, Append(bc, m), bs)
           /\ (m.type = "CloseStart" => ~Before(c)) => Wire(c, bc, Append(bs, m))
<1>1. ASSUME NEW q \in Seq(Msgs)
      PROVE  /\ Append(q, m) \in Seq(Msgs)
             /\ Append(q, m) # <<>>
             /\ \A i \in DOMAIN Append(q, m) : \/ i \in DOMAIN q /\ Append(q, m)[i] = q[i]
                                               \/ Append(q, m)[i] = m
             /\ q # <<>> => Append(q, m)[1] = q[1]
  BY <1>1
<1>2. ASSUME m.type = "CloseReply" => ~Before(c)
      PROVE  Wire(c, Append(bc, m), bs)
  <2> DEFINE r == Append(bc, m)
  <2>1. /\ r # <<>>
        /\ \A i \in DOMAIN r : (i \in DOMAIN bc /\ r[i] = bc[i]) \/ r[i] = m
        /\ bc # <<>> => r[1] = bc[1]
    BY <1>1
  <2> HIDE DEF r
  <2>2. Wire(c, r, bs)
    BY <1>2, <2>1 DEF Wire, Ordinary
  <2> QED
    BY <2>2 DEF r
<1>3. ASSUME m.type = "CloseStart" => ~Before(c)
      PROVE  Wire(c, bc, Append(bs, m))
  <2> DEFINE r == Append(bs, m)
  <2>1. /\ r # <<>>
        /\ \A i \in DOMAIN r : (i \in DOMAIN bs /\ r[i] = bs[i]) \/ r[i] = m
        /\ bs # <<>> => r[1] = bs[1]
    BY <1>1
  <2> HIDE DEF r
  <2>2. Wire(c, bc, r)
    BY <1>3, <2>1 DEF Wire, Ordinary
  <2> QED
    BY <2>2 DEF r
<1> QED
  BY <1>2, <1>3

(* The wire of a connection, with the inboxes box.                         *)
WireOf(c, box) == Wire(c, box[Client(c)], box[Server(c)])

(* Sending and consuming, at an end of the connection.                     *)
LEMMA WireSent ==
    ASSUME NEW box \in [Ends -> Seq(Msgs)], NEW c \in Conns, WireOf(c, box),
           NEW e \in {Client(c), Server(c)}, NEW m \in Msgs, m.type \in Ordinary, ~Fresh(c),
           e = Server(c) /\ m.type = "CloseReply" => ~Before(c),
           e = Client(c) /\ m.type = "CloseStart" => ~Before(c)
    PROVE  /\ WireOf(c, Sent(box, e, m))
           /\ Sent(box, e, m) \in [Ends -> Seq(Msgs)]
           /\ \A f \in Ends : f[1] # c => Sent(box, e, m)[f] = box[f]
           /\ \A f \in Ends : box[f] # <<>> =>
                 Sent(box, e, m)[f] # <<>> /\ Head(Sent(box, e, m)[f]) = Head(box[f])
<1>0. /\ e \in Ends /\ Peer(e) \in Ends /\ Peer(e) # e
      /\ e = Client(c) => Peer(e) = Server(c)
      /\ e = Server(c) => Peer(e) = Client(c)
      /\ Client(c) # Server(c) /\ Client(c)[1] = c /\ Server(c)[1] = c
      /\ Client(c) \in Ends /\ Server(c) \in Ends
  BY ConnLemma, EndsLemma, DistinctEnds
<1>1. CASE Sent(box, e, m) = box
  BY <1>1
<1>2. CASE Sent(box, e, m) = [box EXCEPT ![Peer(e)] = Append(@, m)]
  <2>1. Append(box[Peer(e)], m) \in Seq(Msgs)
    BY <1>0
  <2>2. /\ Sent(box, e, m) \in [Ends -> Seq(Msgs)]
        /\ \A f \in Ends : f[1] # c => Sent(box, e, m)[f] = box[f]
    BY <1>0, <1>2, <2>1
  <2>3. \A f \in Ends : box[f] # <<>> =>
            Sent(box, e, m)[f] # <<>> /\ Head(Sent(box, e, m)[f]) = Head(box[f])
    <3>1. \A q \in Seq(Msgs) : q # <<>> => Append(q, m) # <<>> /\ Head(Append(q, m)) = Head(q)
      OBVIOUS
    <3> QED
      BY <1>0, <1>2, <3>1
  <2>4. CASE e = Client(c)
    <3>1. /\ Sent(box, e, m)[Client(c)] = box[Client(c)]
          /\ Sent(box, e, m)[Server(c)] = Append(box[Server(c)], m)
      BY <1>0, <1>2, <2>4
    <3>2. Wire(c, box[Client(c)], Append(box[Server(c)], m))
      BY <1>0, <2>4, WireAppend DEF WireOf
    <3> QED
      BY <2>2, <2>3, <3>1, <3>2, Zenon DEF WireOf
  <2>5. CASE e = Server(c)
    <3>1. /\ Sent(box, e, m)[Server(c)] = box[Server(c)]
          /\ Sent(box, e, m)[Client(c)] = Append(box[Client(c)], m)
      BY <1>0, <1>2, <2>5
    <3>2. Wire(c, Append(box[Client(c)], m), box[Server(c)])
      BY <1>0, <2>5, WireAppend DEF WireOf
    <3> QED
      BY <2>2, <2>3, <3>1, <3>2, Zenon DEF WireOf
  <2> QED
    BY <2>4, <2>5
<1> QED
  BY <1>1, <1>2 DEF Sent

(* Taking a message off, at an end whose receive thread is idle.           *)
LEMMA WireConsumed ==
    ASSUME TypeInv, NEW c \in Conns, WireOf(c, inbox), NEW e \in {Client(c), Server(c)},
           handler[e] = "idle", inbox[e] # <<>>
    PROVE  /\ WireOf(c, Consumed(e))
           /\ Consumed(e) \in [Ends -> Seq(Msgs)]
           /\ \A f \in Ends : f # e => Consumed(e)[f] = inbox[f]
<1>0. /\ e \in Ends
      /\ Client(c) # Server(c)
      /\ Client(c) \in Ends /\ Server(c) \in Ends
      /\ inbox \in [Ends -> Seq(Msgs)]
  BY ConnLemma, DistinctEnds DEF TypeInv, BaseTypes
<1>1. /\ Consumed(e) \in [Ends -> Seq(Msgs)]
      /\ Consumed(e)[e] = Tail(inbox[e])
      /\ \A f \in Ends : f # e => Consumed(e)[f] = inbox[f]
  BY <1>0, ConsumedLemma
<1>2. CASE e = Client(c)
  <2>1. Wire(c, Tail(inbox[Client(c)]), inbox[Server(c)])
    BY <1>0, <1>2, WireTail DEF WireOf
  <2>2. Consumed(e)[Client(c)] = Tail(inbox[Client(c)]) /\ Consumed(e)[Server(c)] = inbox[Server(c)]
    BY <1>0, <1>1, <1>2
  <2> QED
    BY <1>1, <2>1, <2>2, Zenon DEF WireOf
<1>3. CASE e = Server(c)
  <2>1. Wire(c, inbox[Client(c)], Tail(inbox[Server(c)]))
    BY <1>0, <1>3, WireTail DEF WireOf
  <2>2. Consumed(e)[Server(c)] = Tail(inbox[Server(c)]) /\ Consumed(e)[Client(c)] = inbox[Client(c)]
    BY <1>0, <1>1, <1>3
  <2> QED
    BY <1>1, <2>1, <2>2, Zenon DEF WireOf
<1> QED
  BY <1>2, <1>3

-----------------------------------------------------------------------------
(* Steps of an established session.                                        *)

AllConnInv == \A c \in Conns : ConnInv(c)

(* The parts of the state that change when INIT_START or INIT_REPLY is     *)
(* handled, and then only.                                                 *)
HandshakeRests == UNCHANGED <<handler, created, sessionId>>

(* What a step of one end e of connection c leaves alone.                  *)
OthersRest(c, e) ==
    /\ \A f \in Ends : f # e => UNCHANGED <<phase[f], closed[f], app[f]>>
    /\ \A f \in Ends : f[1] # c => UNCHANGED inbox[f]
    /\ \A d \in Conns : d # c => UNCHANGED starter[d]

(* What may happen to a session object: nothing, its end, the end of the   *)
(* socket, its deletion.                                                   *)
ObjectStep(c, e) ==
    /\ starter'[c] \notin {"none", "refused"}
    /\ starter'[c] = starter[c] \/ handler[Client(c)] = "idle" \/ starter'[c] = "failing"
    /\ app'[e] # "idle" => created[e] > 0
    /\ \/ phase'[e] = phase[e] /\ closed'[e] = closed[e]
       \/ /\ phase[e] = "Ready" /\ phase'[e] = "NotConnected"
          /\ closed'[e] = closed[e] + 1
          /\ handler[e] = "idle" \/ e = Server(c) \/ starter'[c] = "failing"
       \/ /\ e = Client(c) => ~Before(c)
          /\ e = Server(c) => ~Fresh(c)
          /\ phase'[e] = "NotConnected" /\ closed'[e] = closed[e]
       \/ /\ handler[e] = "idle" /\ phase'[e] = "deleted"
          /\ e = Server(c) => ~Fresh(c)
          /\ closed'[e] = IF phase[e] = "Ready" THEN closed[e] + 1 ELSE closed[e]

(* Such a step of the client keeps what is known of its object.            *)
LEMMA ClientStep ==
    ASSUME TypeInv, NEW c \in Conns, ClientInv(c), ~Unstarted(c), HandshakeRests,
           ObjectStep(c, Client(c)), handler[Client(c)] # "initStart"
    PROVE  ClientInv(c)'
<1>1. /\ closed[Client(c)] \in Nat /\ created[Client(c)] \in Nat
      /\ handler[Client(c)] \in {"idle", "initStart", "initReply"}
      /\ phase[Client(c)] \in {"none", "NotConnected", "NotReady", "Ready", "deleted"}
  BY ConnLemma DEF TypeInv, BaseTypes
<1>2. Client(c) # Server(c)
  BY ConnLemma
<1> QED
  BY <1>1, <1>2 DEF ClientInv, ObjectStep, HandshakeRests, Unstarted, Before

(* And of the server.                                                      *)
LEMMA ServerStep ==
    ASSUME TypeInv, NEW c \in Conns, ServerInv(c), HandshakeRests, ObjectStep(c, Server(c))
    PROVE  ServerInv(c)'
<1>1. /\ closed[Server(c)] \in Nat /\ created[Server(c)] \in Nat
      /\ handler[Server(c)] \in {"idle", "initStart", "initReply"}
      /\ phase[Server(c)] \in {"none", "NotConnected", "NotReady", "Ready", "deleted"}
  BY ConnLemma DEF TypeInv, BaseTypes
<1>2. Client(c) # Server(c)
  BY ConnLemma
<1> QED
  BY <1>1, <1>2 DEF ServerInv, ObjectStep, HandshakeRests, Fresh

(* The invariant after a step of one end that is not part of the handshake.*)
LEMMA QuietStep ==
    ASSUME TypeInv, AllConnInv, NEW c \in Conns, NEW e \in {Client(c), Server(c)}, ~Unstarted(c),
           HandshakeRests, OthersRest(c, e), ObjectStep(c, e), WireOf(c, inbox')
    PROVE  AllConnInv'
<1>0. /\ ConnInv(c)
      /\ Client(c) \in Ends /\ Server(c) \in Ends /\ Client(c) # Server(c)
      /\ Client(c)[1] = c /\ Server(c)[1] = c
  BY ConnLemma, DistinctEnds DEF AllConnInv
<1>1. ASSUME NEW d \in Conns, d # c
      PROVE  ConnInv(d)'
  <2>1. /\ Client(d) \in Ends /\ Server(d) \in Ends
        /\ Client(d)[1] # c /\ Server(d)[1] # c
        /\ Client(d) # e /\ Server(d) # e
    BY <1>0, <1>1, ConnLemma, DistinctEnds
  <2>2. UNCHANGED Local(d)
    BY <1>1, <2>1 DEF Local, OthersRest, HandshakeRests
  <2> QED
    BY <2>2, ConnFrame DEF AllConnInv
<1>2. ~Unstarted(c)'
  BY DEF ObjectStep, Unstarted
<1>3. Wire(c, inbox[Client(c)], inbox[Server(c)])'
  BY DEF WireOf, Wire, HandshakeRests, Before, Fresh
<1>4. IdInv(c)'
  BY <1>0 DEF ConnInv, IdInv, HandshakeRests, Before, Fresh
<1>5. CASE e = Client(c)
  <2>1. ClientInv(c)'
    BY <1>0, <1>5, ClientStep DEF ConnInv, Wire
  <2>2. ServerInv(c)'
    BY <1>0, <1>5 DEF ConnInv, ServerInv, OthersRest, HandshakeRests, Fresh
  <2> QED
    BY <1>1, <1>2, <1>3, <1>4, <2>1, <2>2 DEF AllConnInv, ConnInv, StartInv
<1>6. CASE e = Server(c)
  <2>1. ServerInv(c)'
    BY <1>0, <1>6, ServerStep DEF ConnInv
  <2>2. ClientInv(c)'
    <3>1. UNCHANGED <<phase[Client(c)], closed[Client(c)], app[Client(c)]>>
      BY <1>0, <1>6 DEF OthersRest
    <3>2. starter'[c] = starter[c] \/ handler[Client(c)] = "idle" \/ starter'[c] = "failing"
      BY <1>6 DEF ObjectStep
    <3>3. closed[Client(c)] \in Nat /\ created[Client(c)] \in Nat
      BY <1>0 DEF TypeInv, BaseTypes
    <3> QED
      BY <1>0, <1>2, <3>1, <3>2, <3>3 DEF ConnInv, ClientInv, HandshakeRests, Unstarted, Before
  <2> QED
    BY <1>1, <1>2, <1>3, <1>4, <2>1, <2>2 DEF AllConnInv, ConnInv, StartInv
<1> QED
  BY <1>5, <1>6

(* All parts of the invariant together.                                    *)
SafeInv == TypeInv /\ AllConnInv /\ NumberInv /\ MapInv

(* The map only loses entries, and all of a session that is deleted; a     *)
(* handler keeps the message it works on.                                  *)
MapShrinks(e) ==
    /\ \A p \in Procs : sessions'[p] \subseteq sessions[p]
    /\ phase'[e] = "deleted" /\ phase[e] # "deleted" =>
          handler[e] = "idle" /\ \A x \in sessions'[Owner(e)] : x[1] # sessionId[e]
    /\ \A f \in Ends : handler[f] # "idle" => Head(inbox'[f]) = Head(inbox[f])

(* Then the map leads to sessions that are there.                          *)
LEMMA MapStep ==
    ASSUME TypeInv, MapInv, NEW c \in Conns, NEW e \in {Client(c), Server(c)},
           HandshakeRests, OthersRest(c, e), ObjectStep(c, e), MapShrinks(e)
    PROVE  MapInv'
<1>0. /\ e \in Ends
      /\ sessions \in [Procs -> SUBSET (Ids \X Ends)]
  BY ConnLemma DEF TypeInv, BaseTypes
<1> SUFFICES ASSUME NEW p \in Procs, NEW x \in sessions'[p]
             PROVE  /\ Owner(x[2]) = p
                    /\ phase'[x[2]] \notin {"none", "deleted"}
                    /\ x[1] = RegisteredId(x[2])'
                    /\ x[2][2] = "server" => created'[x[2]] > 0
  BY DEF MapInv, NoDanglingRegistration
<1>1. x \in sessions[p] /\ x[2] \in Ends
  BY <1>0 DEF MapShrinks
<1>2. /\ Owner(x[2]) = p
      /\ phase[x[2]] \notin {"none", "deleted"}
      /\ x[1] = RegisteredId(x[2])
      /\ x[2][2] = "server" => created[x[2]] > 0
  BY <1>1 DEF MapInv, NoDanglingRegistration
<1>3. x[1] = RegisteredId(x[2])'
  BY <1>1, <1>2 DEF RegisteredId, HandshakeRests, MapShrinks
<1>4. phase'[x[2]] \notin {"none", "deleted"}
  <2>1. CASE x[2] # e
    BY <1>1, <1>2, <2>1 DEF OthersRest
  <2>2. CASE x[2] = e
    <3>1. x[1] = sessionId[e] \/ handler[e] # "idle"
      BY <1>2, <2>2 DEF RegisteredId
    <3>2. phase'[e] # "deleted"
      BY <1>2, <2>2, <3>1 DEF MapShrinks
    <3> QED
      BY <1>2, <2>2, <3>2 DEF ObjectStep
  <2> QED
    BY <2>1, <2>2
<1> QED
  BY <1>2, <1>3, <1>4 DEF HandshakeRests

(* The numbers of the ids stay as they are.                                *)
LEMMA NumberFrame ==
    ASSUME NumberInv, UNCHANGED <<counter, created, sessionId>>,
           \A c \in Conns : ~Unstarted(c)' => ~Unstarted(c)
    PROVE  NumberInv'
BY DEF NumberInv, Low, High, Fresh

(* The whole invariant after a step of an established session.             *)
LEMMA QuietSafe ==
    ASSUME SafeInv, TypeInv', NEW c \in Conns, NEW e \in {Client(c), Server(c)}, ~Unstarted(c),
           HandshakeRests, UNCHANGED counter, OthersRest(c, e), ObjectStep(c, e),
           WireOf(c, inbox'), MapShrinks(e)
    PROVE  SafeInv'
<1>1. AllConnInv'
  BY QuietStep DEF SafeInv
<1>2. MapInv'
  BY MapStep DEF SafeInv
<1>3. NumberInv'
  BY NumberFrame DEF SafeInv, HandshakeRests, OthersRest, Unstarted
<1> QED
  BY <1>1, <1>2, <1>3 DEF SafeInv

-----------------------------------------------------------------------------
(* The actions.                                                            *)

(* What the invariant says of one connection.                              *)
LEMMA ConnFacts ==
    ASSUME SafeInv, NEW c \in Conns, NEW e \in {Client(c), Server(c)}
    PROVE  /\ e \in Ends /\ e[1] = c /\ Peer(e) \in {Client(c), Server(c)} /\ Peer(e)[1] = c
           /\ Owner(e) \in Procs
           /\ ConnInv(c)
           /\ WireOf(c, inbox)
           /\ inbox \in [Ends -> Seq(Msgs)]
           /\ sessions \in [Procs -> SUBSET (Ids \X Ends)]
           /\ sessionId[e] \in Ids /\ lastMid[e] \in Nat
           /\ created[e] \in Nat /\ closed[e] \in Nat
           /\ phase[e] = "Ready" => ~Unstarted(c) /\ ~Fresh(c) /\ (e = Client(c) => ~Before(c))
           /\ Fresh(c) => Before(c)
<1>1. ConnInv(c)
  BY DEF SafeInv, AllConnInv
<1>2. /\ e \in Ends /\ e[1] = c /\ Peer(e) \in {Client(c), Server(c)} /\ Peer(e)[1] = c
      /\ Owner(e) \in Procs
  BY ConnLemma, EndsLemma, DistinctEnds
<1>3. WireOf(c, inbox)
  BY <1>1 DEF ConnInv, WireOf
<1>4. Fresh(c) => Before(c)
  BY <1>1 DEF ConnInv, Wire
<1>5. phase[e] = "Ready" => ~Unstarted(c) /\ ~Fresh(c) /\ (e = Client(c) => ~Before(c))
  BY <1>1, <1>4 DEF ConnInv, StartInv, ClientInv, ServerInv
<1> QED
  BY <1>1, <1>2, <1>3, <1>4, <1>5 DEF SafeInv, TypeInv, BaseTypes

(* The application is inside closeSession only after the create-callback.  *)
LEMMA AppFacts ==
    ASSUME SafeInv, NEW c \in Conns, NEW e \in {Client(c), Server(c)}, app[e] # "idle"
    PROVE  created[e] > 0
<1>1. ConnInv(c) /\ created[e] \in Nat
  BY ConnFacts
<1>2. CASE e = Client(c)
  BY <1>1, <1>2 DEF ConnInv, ClientInv
<1>3. CASE e = Server(c)
  BY <1>1, <1>3 DEF ConnInv, ServerInv, Fresh
<1> QED
  BY <1>2, <1>3

(* Appending a message keeps the messages the handlers work on.            *)
HeadsKept == \A f \in Ends : handler[f] # "idle" => Head(inbox'[f]) = Head(inbox[f])

(* The first half of closeSession.                                         *)
LEMMA AnnounceCloseStep ==
    ASSUME SafeInv, NEW c \in Conns, NEW e \in {Client(c), Server(c)}, AnnounceClose(e)
    PROVE  WireOf(c, inbox') /\ HeadsKept /\ \A f \in Ends : f[1] # c => UNCHANGED inbox[f]
<1>0. /\ e \in Ends
      /\ WireOf(c, inbox)
      /\ inbox \in [Ends -> Seq(Msgs)]
      /\ sessionId[e] \in Ids /\ lastMid[e] + 1 \in Nat
      /\ phase[e] = "Ready" => ~Unstarted(c) /\ ~Fresh(c) /\ (e = Client(c) => ~Before(c))
      /\ \A f \in Ends : handler[f] # "idle" => inbox[f] # <<>>
  BY ConnFacts DEF SafeInv, TypeInv, HandlerHasMessage
<1>1. CASE phase[e] = "Ready"
  <2>1. CloseStart(e) \in Msgs /\ CloseStart(e).type = "CloseStart"
    BY <1>0, MsgLemma, ZeroIdLemma DEF CloseStart, MsgTypes
  <2>2. inbox' = Sent(inbox, e, CloseStart(e))
    BY <1>1 DEF AnnounceClose
  <2> DEFINE m == CloseStart(e)
  <2>3. /\ m \in Msgs /\ m.type \in Ordinary
        /\ e = Server(c) /\ m.type = "CloseReply" => ~Before(c)
        /\ e = Client(c) /\ m.type = "CloseStart" => ~Before(c)
        /\ inbox' = Sent(inbox, e, m)
    BY <1>0, <1>1, <2>1, <2>2 DEF Ordinary
  <2> HIDE DEF m
  <2>4. /\ WireOf(c, Sent(inbox, e, m))
        /\ \A f \in Ends : f[1] # c => Sent(inbox, e, m)[f] = inbox[f]
        /\ \A f \in Ends : inbox[f] # <<>> => Head(Sent(inbox, e, m)[f]) = Head(inbox[f])
    BY <1>0, <1>1, <2>3, WireSent
  <2> QED
    BY <1>0, <2>3, <2>4 DEF HeadsKept
<1>2. CASE phase[e] # "Ready"
  BY <1>0, <1>2 DEF AnnounceClose, HeadsKept
<1> QED
  BY <1>1, <1>2

(* endSession: the map loses at most entries.                              *)
LEMMA EndSessionStep ==
    ASSUME SafeInv, NEW c \in Conns, NEW e \in {Client(c), Server(c)}, NEW map,
           map \subseteq sessions[Owner(e)], EndSession(e, map)
    PROVE  /\ \A p \in Procs : sessions'[p] \subseteq sessions[p]
           /\ \A f \in Ends : f # e => UNCHANGED <<phase[f], closed[f]>>
           /\ \/ phase'[e] = phase[e] /\ closed'[e] = closed[e]
              \/ phase[e] = "Ready" /\ phase'[e] = "NotConnected" /\ closed'[e] = closed[e] + 1
<1>0. e \in Ends /\ sessions \in [Procs -> SUBSET (Ids \X Ends)]
  BY ConnFacts
<1>1. RemoveSession(map, sessionId[e]) \subseteq sessions[Owner(e)]
  BY DEF RemoveSession
<1>2. sessions' = [sessions EXCEPT ![Owner(e)] = RemoveSession(map, sessionId[e])]
      \/ sessions' = [sessions EXCEPT ![Owner(e)] = map]
  BY Zenon DEF EndSession
<1>3. \A p \in Procs : sessions'[p] \subseteq sessions[p]
  BY <1>0, <1>1, <1>2
<1>4. phase \in [Ends -> {"none", "NotConnected", "NotReady", "Ready", "deleted"}]
      /\ closed \in [Ends -> Nat]
  BY DEF SafeInv, TypeInv, BaseTypes
<1>5. CASE phase[e] = "Ready"
  <2>1. phase' = [phase EXCEPT ![e] = "NotConnected"] /\ closed' = [closed EXCEPT ![e] = @ + 1]
    BY <1>5 DEF EndSession
  <2> QED
    BY <1>0, <1>3, <1>4, <1>5, <2>1
<1>6. CASE phase[e] # "Ready"
  BY <1>3, <1>6 DEF EndSession
<1> QED
  BY <1>5, <1>6

(* The destructor: no entry of the session is left.                        *)
LEMMA DeleteSessionStep ==
    ASSUME SafeInv, NEW c \in Conns, NEW e \in {Client(c), Server(c)}, DeleteSession(e)
    PROVE  /\ \A p \in Procs : sessions'[p] \subseteq sessions[p]
           /\ \A x \in sessions'[Owner(e)] : x[1] # sessionId[e]
           /\ \A f \in Ends : f # e => UNCHANGED <<phase[f], closed[f]>>
           /\ phase'[e] = "deleted"
           /\ closed'[e] = IF phase[e] = "Ready" THEN closed[e] + 1 ELSE closed[e]
<1>0. e \in Ends /\ Owner(e) \in Procs /\ sessions \in [Procs -> SUBSET (Ids \X Ends)]
  BY ConnFacts
<1>1. sessions' = [sessions EXCEPT ![Owner(e)] = RemoveSession(sessions[Owner(e)], sessionId[e])]
  BY DEF DeleteSession
<1>2. /\ RemoveSession(sessions[Owner(e)], sessionId[e]) \subseteq sessions[Owner(e)]
      /\ \A x \in RemoveSession(sessions[Owner(e)], sessionId[e]) : x[1] # sessionId[e]
  BY DEF RemoveSession
<1> HIDE DEF SafeInv
<1>3. phase \in [Ends -> {"none", "NotConnected", "NotReady", "Ready", "deleted"}]
      /\ closed \in [Ends -> Nat]
  BY DEF SafeInv, TypeInv, BaseTypes
<1>4. /\ \A p \in Procs : sessions'[p] \subseteq sessions[p]
      /\ \A x \in sessions'[Owner(e)] : x[1] # sessionId[e]
  <2> DEFINE r == RemoveSession(sessions[Owner(e)], sessionId[e])
  <2>1. r \subseteq sessions[Owner(e)] /\ \A x \in r : x[1] # sessionId[e]
    BY <1>2
  <2>2. sessions' = [sessions EXCEPT ![Owner(e)] = r]
    BY <1>1
  <2> HIDE DEF r
  <2>3. sessions'[Owner(e)] = r /\ \A p \in Procs : p # Owner(e) => sessions'[p] = sessions[p]
    BY <1>0, <2>2
  <2> QED
    BY <2>1, <2>3
<1> QED
  BY <1>0, <1>3, <1>4 DEF DeleteSession

(* What an idle receive thread finds in a message of an established        *)
(* session.                                                                *)
LEMMA ReceiveFacts ==
    ASSUME SafeInv, NEW c \in Conns, NEW e \in {Client(c), Server(c)}, NEW type \in Ordinary,
           Receives(e, type)
    PROVE  /\ inbox[e] # <<>> /\ handler[e] = "idle" /\ phase[e] # "deleted"
           /\ Head(inbox[e]) \in Msgs /\ Head(inbox[e]).type = type
           /\ ~Unstarted(c) /\ ~Fresh(c)
           /\ e = Server(c) /\ type = "CloseStart" => ~Before(c)
           /\ e = Client(c) /\ type = "CloseReply" => ~Before(c)
<1>0. /\ ConnInv(c) /\ e \in Ends /\ inbox[e] \in Seq(Msgs)
      /\ inbox[e] # <<>> /\ handler[e] = "idle" /\ phase[e] # "deleted"
      /\ Head(inbox[e]).type = type
  BY ConnFacts DEF Receives
<1> DEFINE q == inbox[e]
<1>1. Head(q) \in Msgs /\ Head(q) = q[1] /\ 1 \in DOMAIN q
  BY <1>0
<1>2. ~Unstarted(c)
  BY <1>0 DEF ConnInv, StartInv
<1>3. ~Fresh(c)
  BY <1>0, <1>1 DEF ConnInv, Wire, Ordinary
<1>4. /\ e = Server(c) /\ type = "CloseStart" => ~Before(c)
      /\ e = Client(c) /\ type = "CloseReply" => ~Before(c)
  BY <1>0, <1>1 DEF ConnInv, Wire
<1> QED
  BY <1>0, <1>1, <1>2, <1>3, <1>4

(* What is on its way after a message is taken off.                        *)
LEMMA ConsumedStep ==
    ASSUME SafeInv, NEW c \in Conns, NEW e \in {Client(c), Server(c)},
           handler[e] = "idle", inbox[e] # <<>>
    PROVE  /\ WireOf(c, Consumed(e))
           /\ Consumed(e) \in [Ends -> Seq(Msgs)]
           /\ \A f \in Ends : f[1] # c => Consumed(e)[f] = inbox[f]
           /\ \A f \in Ends : handler[f] # "idle" =>
                 Consumed(e)[f] # <<>> /\ Head(Consumed(e)[f]) = Head(inbox[f])
<1>1. /\ WireOf(c, Consumed(e))
      /\ Consumed(e) \in [Ends -> Seq(Msgs)]
      /\ \A f \in Ends : f # e => Consumed(e)[f] = inbox[f]
  BY ConnFacts, WireConsumed DEF SafeInv
<1>2. e[1] = c /\ \A f \in Ends : handler[f] # "idle" => inbox[f] # <<>>
  BY ConnFacts DEF SafeInv, TypeInv, HandlerHasMessage
<1> QED
  BY <1>1, <1>2

(* And after it is answered with an ordinary message.                      *)
LEMMA ReplyStep ==
    ASSUME SafeInv, NEW c \in Conns, NEW e \in {Client(c), Server(c)},
           handler[e] = "idle", inbox[e] # <<>>, ~Fresh(c),
           NEW m \in Msgs, m.type \in Ordinary \ {"CloseStart"},
           e = Server(c) /\ m.type = "CloseReply" => ~Before(c),
           inbox' = Sent(Consumed(e), e, m)
    PROVE  WireOf(c, inbox') /\ HeadsKept /\ \A f \in Ends : f[1] # c => UNCHANGED inbox[f]
<1> DEFINE box == Consumed(e)
<1>1. /\ WireOf(c, box)
      /\ box \in [Ends -> Seq(Msgs)]
      /\ \A f \in Ends : f[1] # c => box[f] = inbox[f]
      /\ \A f \in Ends : handler[f] # "idle" => box[f] # <<>> /\ Head(box[f]) = Head(inbox[f])
  BY ConsumedStep
<1>2. inbox' = Sent(box, e, m)
  OBVIOUS
<1> HIDE DEF box
<1>3. /\ WireOf(c, Sent(box, e, m))
      /\ \A f \in Ends : f[1] # c => Sent(box, e, m)[f] = box[f]
      /\ \A f \in Ends : box[f] # <<>> => Head(Sent(box, e, m)[f]) = Head(box[f])
  BY <1>1, WireSent
<1> QED
  BY <1>1, <1>2, <1>3 DEF HeadsKept

(* Sending an ordinary message.                                            *)
LEMMA SendStep ==
    ASSUME SafeInv, NEW c \in Conns, NEW e \in {Client(c), Server(c)}, ~Fresh(c),
           NEW m \in Msgs, m.type \in Ordinary \ {"CloseReply"},
           e = Client(c) => ~Before(c), inbox' = Sent(inbox, e, m)
    PROVE  WireOf(c, inbox') /\ HeadsKept /\ \A f \in Ends : f[1] # c => UNCHANGED inbox[f]
<1>0. /\ WireOf(c, inbox)
      /\ inbox \in [Ends -> Seq(Msgs)]
      /\ \A f \in Ends : handler[f] # "idle" => inbox[f] # <<>>
  BY ConnFacts DEF SafeInv, TypeInv, HandlerHasMessage
<1>1. /\ WireOf(c, Sent(inbox, e, m))
      /\ \A f \in Ends : f[1] # c => Sent(inbox, e, m)[f] = inbox[f]
      /\ \A f \in Ends : inbox[f] # <<>> => Head(Sent(inbox, e, m)[f]) = Head(inbox[f])
  BY <1>0, WireSent
<1> QED
  BY <1>0, <1>1 DEF HeadsKept

(* The thread in startSession, once INIT_START is sent.                    *)
LEMMA PollSafe ==
    ASSUME SafeInv, TypeInv', NEW c \in Conns, Poll(c)
    PROVE  SafeInv'
<1> DEFINE e == Client(c)
<1>0. /\ e \in {Client(c), Server(c)} /\ e # Server(c) /\ Owner(e) \in Procs
      /\ ConnInv(c) /\ WireOf(c, inbox)
      /\ e \in Ends
      /\ app[e] # "idle" => created[e] > 0
  BY ConnFacts, ConnLemma DEF ConnInv, ClientInv
<1>1. CASE StartSessionReturns(c)
  <2>1. /\ starter[c] = "waiting" /\ starter' = [starter EXCEPT ![c] = "returned"]
        /\ UNCHANGED <<counter, sessions, phase, sessionId, inbox, handler, app, created, closed>>
        /\ initState[e] = 1
    BY <1>1 DEF StartSessionReturns, procVars, objVars, netVars, callbackVars
  <2>2. starter \in [Conns -> {"none", "waiting", "returned", "failing", "failed", "refused"}]
    BY DEF SafeInv, TypeInv, BaseTypes
  <2>3. ~Unstarted(c) /\ OthersRest(c, e) /\ HandshakeRests /\ MapShrinks(e)
    BY <2>1, <2>2 DEF Unstarted, OthersRest, HandshakeRests, MapShrinks
  <2>4. ConnInv(c)'
    <3>1. starter'[c] = "returned"
      BY <2>1, <2>2
    <3> QED
      BY <1>0, <2>1, <3>1 DEF ConnInv, StartInv, Wire, IdInv, ClientInv, ServerInv, Unstarted,
                              Before, Fresh
  <2>5. \A d \in Conns : ConnInv(d)'
    <3>1. ASSUME NEW d \in Conns, d # c
          PROVE  ConnInv(d)'
      <4>1. UNCHANGED Local(d)
        BY <2>1, <2>2, <3>1 DEF Local
      <4> QED
        BY <4>1, ConnFrame DEF SafeInv, AllConnInv
    <3> QED
      BY <2>4, <3>1
  <2>6. MapInv'
    BY <2>1 DEF SafeInv, MapInv, NoDanglingRegistration, RegisteredId
  <2>7. NumberInv'
    BY <2>1, <2>2, NumberFrame DEF SafeInv, Unstarted
  <2> QED
    BY <2>5, <2>6, <2>7 DEF SafeInv, AllConnInv
<1>2. CASE StartSessionGivesUp(c)
  <2>1. /\ starter[c] = "waiting" /\ starter' = [starter EXCEPT ![c] = "failing"]
        /\ AnnounceClose(e)
        /\ EndSession(e, sessions[Owner(e)])
        /\ UNCHANGED <<counter, sessionId, handler, app, created>>
    BY <1>2 DEF StartSessionGivesUp
  <2>2. starter \in [Conns -> {"none", "waiting", "returned", "failing", "failed", "refused"}]
    BY DEF SafeInv, TypeInv, BaseTypes
  <2>3. WireOf(c, inbox') /\ HeadsKept /\ \A f \in Ends : f[1] # c => UNCHANGED inbox[f]
    BY <1>0, <2>1, AnnounceCloseStep
  <2>4. /\ \A p \in Procs : sessions'[p] \subseteq sessions[p]
        /\ \A f \in Ends : f # e => UNCHANGED <<phase[f], closed[f]>>
        /\ \/ phase'[e] = phase[e] /\ closed'[e] = closed[e]
           \/ phase[e] = "Ready" /\ phase'[e] = "NotConnected" /\ closed'[e] = closed[e] + 1
    BY <1>0, <2>1, EndSessionStep
  <2> HIDE DEF e
  <2>5. ~Unstarted(c) /\ HandshakeRests /\ OthersRest(c, e)
    BY <2>1, <2>2, <2>3, <2>4 DEF Unstarted, HandshakeRests, OthersRest
  <2>6. starter'[c] = "failing"
    BY <2>1, <2>2
  <2>7. ObjectStep(c, e)
    BY <1>0, <2>1, <2>4, <2>6 DEF ObjectStep
  <2>8. MapShrinks(e)
    BY <2>3, <2>4 DEF MapShrinks, HeadsKept
  <2> QED
    BY <1>0, <2>1, <2>3, <2>5, <2>7, <2>8, QuietSafe
<1>3. CASE StartSessionFails(c)
  <2>1. /\ starter[c] = "failing" /\ starter' = [starter EXCEPT ![c] = "failed"]
        /\ handler[e] = "idle"
        /\ AnnounceClose(e)
        /\ DeleteSession(e)
        /\ UNCHANGED <<counter, sessionId, handler, app, created>>
    BY <1>3 DEF StartSessionFails, DeleteSession
  <2>2. starter \in [Conns -> {"none", "waiting", "returned", "failing", "failed", "refused"}]
    BY DEF SafeInv, TypeInv, BaseTypes
  <2>3. WireOf(c, inbox') /\ HeadsKept /\ \A f \in Ends : f[1] # c => UNCHANGED inbox[f]
    BY <1>0, <2>1, AnnounceCloseStep
  <2>4. /\ \A p \in Procs : sessions'[p] \subseteq sessions[p]
        /\ \A x \in sessions'[Owner(e)] : x[1] # sessionId[e]
        /\ \A f \in Ends : f # e => UNCHANGED <<phase[f], closed[f]>>
        /\ phase'[e] = "deleted"
        /\ closed'[e] = IF phase[e] = "Ready" THEN closed[e] + 1 ELSE closed[e]
    BY <1>0, <2>1, DeleteSessionStep
  <2>5. ~Unstarted(c) /\ HandshakeRests /\ OthersRest(c, e)
    BY <2>1, <2>2, <2>3, <2>4 DEF Unstarted, HandshakeRests, OthersRest
  <2>6. starter'[c] = "failed" /\ handler[Client(c)] = "idle"
    BY <2>1, <2>2
  <2> HIDE DEF e
  <2>7. ObjectStep(c, e)
    BY <1>0, <2>1, <2>4, <2>6 DEF ObjectStep
  <2>8. MapShrinks(e)
    BY <2>1, <2>3, <2>4 DEF MapShrinks, HeadsKept
  <2> QED
    BY <1>0, <2>1, <2>3, <2>5, <2>7, <2>8, QuietSafe
<1> QED
  BY <1>1, <1>2, <1>3 DEF Poll

(* The handlers of an established session.                                 *)
LEMMA EstablishedSafe ==
    ASSUME SafeInv, TypeInv', NEW c \in Conns, NEW e \in {Client(c), Server(c)},
           \/ ProcessCloseStart(e) \/ ProcessCloseReply(e)
           \/ ProcessHeartbeatStart(e) \/ ProcessHeartbeatReply(e)
    PROVE  SafeInv'
<1> DEFINE m == Head(inbox[e])
<1>0. /\ e \in Ends /\ Owner(e) \in Procs
      /\ sessionId[e] \in Ids /\ ZeroId \in Ids
      /\ sessions \in [Procs -> SUBSET (Ids \X Ends)]
      /\ Client(c) # Server(c)
      /\ ConnInv(c)
  BY ConnFacts, ConnLemma, ZeroIdLemma
<1>1. CASE ProcessCloseStart(e)
  <2> DEFINE r == Msg("CloseReply", sessionId[e], m.mid, ZeroId)
             map == RemoveSession(sessions[Owner(e)], m.arg)
  <2>1. /\ Receives(e, "CloseStart")
        /\ inbox' = Sent(Consumed(e), e, r)
        /\ EndSession(e, map)
        /\ UNCHANGED <<counter, sessionId, handler, app, starter, created>>
    BY <1>1 DEF ProcessCloseStart, threadVars
  <2>2. /\ inbox[e] # <<>> /\ handler[e] = "idle"
        /\ m \in Msgs
        /\ ~Unstarted(c) /\ ~Fresh(c)
        /\ e = Server(c) => ~Before(c)
    BY <2>1, ReceiveFacts DEF Ordinary
  <2>3. r \in Msgs /\ r.type = "CloseReply"
    BY <1>0, <2>2, MsgLemma DEF MsgTypes, Msgs
  <2>4. map \subseteq sessions[Owner(e)]
    BY DEF RemoveSession
  <2> HIDE DEF r, map, m
  <2>5. WireOf(c, inbox') /\ HeadsKept /\ \A f \in Ends : f[1] # c => UNCHANGED inbox[f]
    BY <2>1, <2>2, <2>3, ReplyStep DEF Ordinary
  <2>6. /\ \A p \in Procs : sessions'[p] \subseteq sessions[p]
        /\ \A f \in Ends : f # e => UNCHANGED <<phase[f], closed[f]>>
        /\ \/ phase'[e] = phase[e] /\ closed'[e] = closed[e]
           \/ phase[e] = "Ready" /\ phase'[e] = "NotConnected" /\ closed'[e] = closed[e] + 1
    BY <2>1, <2>4, EndSessionStep
  <2>7. HandshakeRests /\ OthersRest(c, e)
    BY <2>1, <2>5, <2>6 DEF HandshakeRests, OthersRest
  <2>8. app'[e] # "idle" => created[e] > 0
    BY <2>1, AppFacts
  <2>9. ObjectStep(c, e)
    BY <1>0, <2>1, <2>2, <2>6, <2>8 DEF ObjectStep, Unstarted
  <2>10. MapShrinks(e)
    BY <2>5, <2>6 DEF MapShrinks, HeadsKept
  <2> QED
    BY <2>1, <2>2, <2>5, <2>7, <2>9, <2>10, QuietSafe
<1>2. CASE ProcessCloseReply(e)
  <2>1. /\ Receives(e, "CloseReply")
        /\ inbox' = Consumed(e)
        /\ sessions' = [sessions EXCEPT ![Owner(e)] = RemoveSession(@, m.arg)]
        /\ phase' = [phase EXCEPT ![e] = "NotConnected"]
        /\ UNCHANGED <<counter, sessionId, handler, app, starter, created, closed>>
    BY <1>2 DEF ProcessCloseReply, threadVars, callbackVars
  <2>2. /\ inbox[e] # <<>> /\ handler[e] = "idle"
        /\ ~Unstarted(c) /\ ~Fresh(c)
        /\ e = Client(c) => ~Before(c)
    BY <2>1, ReceiveFacts DEF Ordinary
  <2>3. WireOf(c, inbox') /\ HeadsKept /\ \A f \in Ends : f[1] # c => UNCHANGED inbox[f]
    BY <2>1, <2>2, ConsumedStep DEF HeadsKept
  <2>4. \A p \in Procs : sessions'[p] \subseteq sessions[p]
    <3>1. RemoveSession(sessions[Owner(e)], m.arg) \subseteq sessions[Owner(e)]
      BY DEF RemoveSession
    <3> QED
      BY <1>0, <2>1, <3>1
  <2>5. phase'[e] = "NotConnected" /\ \A f \in Ends : f # e => phase'[f] = phase[f]
    BY <1>0, <2>1 DEF SafeInv, TypeInv, BaseTypes
  <2>6. HandshakeRests /\ OthersRest(c, e)
    BY <2>1, <2>3, <2>5 DEF HandshakeRests, OthersRest
  <2>7. app'[e] # "idle" => created[e] > 0
    BY <2>1, AppFacts
  <2>8. ObjectStep(c, e)
    BY <1>0, <2>1, <2>2, <2>5, <2>7 DEF ObjectStep, Unstarted
  <2>9. MapShrinks(e)
    BY <2>3, <2>4, <2>5 DEF MapShrinks, HeadsKept
  <2> QED
    BY <2>1, <2>2, <2>3, <2>6, <2>8, <2>9, QuietSafe
<1>3. ASSUME UNCHANGED <<counter, sessions, phase, sessionId, handler, app, starter, created, closed>>,
             NEW type \in Ordinary, Receives(e, type),
             WireOf(c, inbox') /\ HeadsKept /\ \A f \in Ends : f[1] # c => UNCHANGED inbox[f]
      PROVE  SafeInv'
  <2>1. ~Unstarted(c)
    BY <1>3, ReceiveFacts
  <2>2. HandshakeRests /\ OthersRest(c, e)
    BY <1>3 DEF HandshakeRests, OthersRest
  <2>3. app'[e] # "idle" => created[e] > 0
    BY <1>3, AppFacts
  <2>4. ObjectStep(c, e)
    BY <1>0, <1>3, <2>1, <2>3 DEF ObjectStep, Unstarted
  <2>5. MapShrinks(e)
    BY <1>3 DEF MapShrinks, HeadsKept
  <2> QED
    BY <1>3, <2>1, <2>2, <2>4, <2>5, QuietSafe
<1>4. CASE ProcessHeartbeatStart(e)
  <2> DEFINE r == Msg("HeartbeatReply", sessionId[e], m.mid, ZeroId)
  <2>1. /\ Receives(e, "HeartbeatStart")
        /\ inbox' = Sent(Consumed(e), e, r)
        /\ UNCHANGED <<counter, sessions, phase, sessionId, handler, app, starter, created, closed>>
    BY <1>4 DEF ProcessHeartbeatStart, procVars, objVars, threadVars, callbackVars
  <2>2. inbox[e] # <<>> /\ handler[e] = "idle" /\ m \in Msgs /\ ~Fresh(c)
    BY <2>1, ReceiveFacts DEF Ordinary
  <2>3. r \in Msgs /\ r.type = "HeartbeatReply"
    BY <1>0, <2>2, MsgLemma DEF MsgTypes, Msgs
  <2> HIDE DEF r, m
  <2>4. WireOf(c, inbox') /\ HeadsKept /\ \A f \in Ends : f[1] # c => UNCHANGED inbox[f]
    BY <2>1, <2>2, <2>3, ReplyStep DEF Ordinary
  <2>5. "HeartbeatStart" \in Ordinary
    BY DEF Ordinary
  <2> QED
    BY <1>3, <2>1, <2>4, <2>5
<1>5. CASE ProcessHeartbeatReply(e)
  <2>1. /\ Receives(e, "HeartbeatReply")
        /\ inbox' = Consumed(e)
        /\ UNCHANGED <<counter, sessions, phase, sessionId, handler, app, starter, created, closed>>
    BY <1>5 DEF ProcessHeartbeatReply, objVars, threadVars, callbackVars
  <2>2. inbox[e] # <<>> /\ handler[e] = "idle"
    BY <2>1, ReceiveFacts DEF Ordinary
  <2>3. WireOf(c, inbox') /\ HeadsKept /\ \A f \in Ends : f[1] # c => UNCHANGED inbox[f]
    BY <2>1, <2>2, ConsumedStep DEF HeadsKept
  <2>4. "HeartbeatReply" \in Ordinary
    BY DEF Ordinary
  <2> QED
    BY <1>3, <2>1, <2>3, <2>4
<1> QED
  BY <1>1, <1>2, <1>4, <1>5

(* The timer thread sends a heartbeat; the application closes or deletes a *)
(* session.                                                                *)
LEMMA OwnSideSafe ==
    ASSUME SafeInv, TypeInv', NEW c \in Conns, NEW e \in {Client(c), Server(c)},
           SendHeartbeat(e) \/ Application(e)
    PROVE  SafeInv'
<1>0. /\ e \in Ends /\ Owner(e) \in Procs /\ e[1] = c
      /\ sessionId[e] \in Ids /\ ZeroId \in Ids /\ lastMid[e] + 1 \in Nat
      /\ sessions \in [Procs -> SUBSET (Ids \X Ends)]
      /\ Client(c) # Server(c)
      /\ e = Client(c) => e[2] = "client"
      /\ ConnInv(c)
      /\ WireOf(c, inbox)
  BY ConnFacts, ConnLemma, DistinctEnds, ZeroIdLemma
<1>1. ASSUME created[e] > 0
      PROVE  ~Unstarted(c) /\ ~Fresh(c) /\ (e = Client(c) => ~Before(c))
  <2>1. e = Client(c) => ~Before(c)
    BY <1>1 DEF Before
  <2>2. e = Server(c) => ~Fresh(c)
    BY <1>1 DEF Fresh
  <2>3. ~Fresh(c)
    BY <2>1, <2>2, ConnFacts
  <2> QED
    BY <1>0, <2>1, <2>3 DEF ConnInv, StartInv
<1>2. app \in [Ends -> {"idle", "marked", "markedReply", "sent"}]
  BY DEF SafeInv, TypeInv, BaseTypes
<1>3. CASE SendHeartbeat(e)
  <2> DEFINE m == Msg("HeartbeatStart", sessionId[e], lastMid[e] + 1, ZeroId)
  <2>1. /\ phase[e] = "Ready"
        /\ inbox' = Sent(inbox, e, m)
        /\ UNCHANGED <<counter, sessions, phase, sessionId, handler, app, starter, created, closed>>
    BY <1>3 DEF SendHeartbeat, threadVars, callbackVars
  <2>2. m \in Msgs /\ m.type = "HeartbeatStart"
    BY <1>0, MsgLemma DEF MsgTypes
  <2>3. ~Unstarted(c) /\ ~Fresh(c) /\ (e = Client(c) => ~Before(c))
    BY <2>1, ConnFacts
  <2> HIDE DEF m
  <2>4. WireOf(c, inbox') /\ HeadsKept /\ \A f \in Ends : f[1] # c => UNCHANGED inbox[f]
    BY <2>1, <2>2, <2>3, SendStep DEF Ordinary
  <2>5. HandshakeRests /\ OthersRest(c, e)
    BY <2>1, <2>4 DEF HandshakeRests, OthersRest
  <2>6. app'[e] # "idle" => created[e] > 0
    BY <2>1, AppFacts
  <2>7. ObjectStep(c, e)
    BY <2>1, <2>3, <2>6 DEF ObjectStep, Unstarted
  <2>8. MapShrinks(e)
    BY <2>1, <2>4 DEF MapShrinks, HeadsKept
  <2> QED
    BY <2>1, <2>3, <2>4, <2>5, <2>7, <2>8, QuietSafe
<1>4. ASSUME NEW replyExpected \in BOOLEAN, CloseSession(e, replyExpected)
      PROVE  SafeInv'
  <2>1. /\ created[e] > 0
        /\ \E a : app' = [app EXCEPT ![e] = a]
        /\ UNCHANGED <<counter, sessions, phase, sessionId, inbox, handler, starter, created, closed>>
    BY <1>4 DEF CloseSession, AppHolds, objVars, netVars, callbackVars
  <2>2. \A f \in Ends : f # e => UNCHANGED app[f]
    BY <1>2, <2>1
  <2>3. HandshakeRests /\ OthersRest(c, e)
    BY <2>1, <2>2 DEF HandshakeRests, OthersRest
  <2>4. ObjectStep(c, e)
    BY <1>1, <2>1 DEF ObjectStep, Unstarted
  <2>5. MapShrinks(e)
    BY <2>1 DEF MapShrinks
  <2> QED
    BY <1>0, <1>1, <2>1, <2>3, <2>4, <2>5, QuietSafe
<1>5. CASE SendCloseStart(e)
  <2> DEFINE m == CloseStart(e)
  <2>1. /\ app[e] # "idle"
        /\ inbox' = Sent(inbox, e, m)
        /\ \E a : app' = [app EXCEPT ![e] = a]
        /\ UNCHANGED <<counter, sessions, phase, sessionId, handler, starter, created, closed>>
    BY <1>5 DEF SendCloseStart, callbackVars
  <2>2. created[e] > 0
    BY <2>1, AppFacts
  <2>3. m \in Msgs /\ m.type = "CloseStart"
    BY <1>0, MsgLemma DEF CloseStart, MsgTypes
  <2> HIDE DEF m
  <2>4. WireOf(c, inbox') /\ HeadsKept /\ \A f \in Ends : f[1] # c => UNCHANGED inbox[f]
    BY <1>1, <2>1, <2>2, <2>3, SendStep DEF Ordinary
  <2>5. \A f \in Ends : f # e => UNCHANGED app[f]
    BY <1>2, <2>1
  <2>6. HandshakeRests /\ OthersRest(c, e)
    BY <2>1, <2>4, <2>5 DEF HandshakeRests, OthersRest
  <2>7. ObjectStep(c, e)
    BY <1>1, <2>1, <2>2 DEF ObjectStep, Unstarted
  <2>8. MapShrinks(e)
    BY <2>1, <2>4 DEF MapShrinks, HeadsKept
  <2> QED
    BY <1>1, <2>1, <2>2, <2>4, <2>6, <2>7, <2>8, QuietSafe
<1>6. CASE FinishClose(e)
  <2>1. /\ app[e] # "idle"
        /\ EndSession(e, sessions[Owner(e)])
        /\ app' = [app EXCEPT ![e] = "idle"]
        /\ UNCHANGED <<counter, sessionId, inbox, handler, starter, created>>
    BY <1>6 DEF FinishClose, netVars
  <2>2. created[e] > 0
    BY <2>1, AppFacts
  <2>3. /\ \A p \in Procs : sessions'[p] \subseteq sessions[p]
        /\ \A f \in Ends : f # e => UNCHANGED <<phase[f], closed[f]>>
        /\ \/ phase'[e] = phase[e] /\ closed'[e] = closed[e]
           \/ phase[e] = "Ready" /\ phase'[e] = "NotConnected" /\ closed'[e] = closed[e] + 1
    BY <2>1, EndSessionStep
  <2>4. \A f \in Ends : f # e => UNCHANGED app[f]
    BY <1>2, <2>1
  <2>5. HandshakeRests /\ OthersRest(c, e)
    BY <2>1, <2>3, <2>4 DEF HandshakeRests, OthersRest
  <2>6. e = Client(c) => handler[e] = "idle"
    BY <1>0, <2>2 DEF ConnInv, Wire, SafeInv, TypeInv, BaseTypes
  <2>7. ObjectStep(c, e)
    BY <1>1, <2>1, <2>2, <2>3, <2>6 DEF ObjectStep, Unstarted
  <2>8. MapShrinks(e)
    BY <2>1, <2>3 DEF MapShrinks
  <2> QED
    BY <1>0, <1>1, <2>1, <2>2, <2>5, <2>7, <2>8, QuietSafe
<1>7. CASE AppDeletes(e)
  <2>1. /\ created[e] > 0 /\ handler[e] = "idle"
        /\ AnnounceClose(e)
        /\ DeleteSession(e)
        /\ UNCHANGED <<counter, sessionId, handler, app, starter, created>>
    BY <1>7 DEF AppDeletes, AppHolds, DeleteSession, threadVars
  <2>2. WireOf(c, inbox') /\ HeadsKept /\ \A f \in Ends : f[1] # c => UNCHANGED inbox[f]
    BY <2>1, AnnounceCloseStep
  <2>3. /\ \A p \in Procs : sessions'[p] \subseteq sessions[p]
        /\ \A x \in sessions'[Owner(e)] : x[1] # sessionId[e]
        /\ \A f \in Ends : f # e => UNCHANGED <<phase[f], closed[f]>>
        /\ phase'[e] = "deleted"
        /\ closed'[e] = IF phase[e] = "Ready" THEN closed[e] + 1 ELSE closed[e]
    BY <2>1, DeleteSessionStep
  <2>4. HandshakeRests /\ OthersRest(c, e)
    BY <2>1, <2>2, <2>3 DEF HandshakeRests, OthersRest
  <2>5. ObjectStep(c, e)
    BY <1>1, <2>1, <2>3 DEF ObjectStep, Unstarted
  <2>6. MapShrinks(e)
    BY <2>1, <2>2, <2>3 DEF MapShrinks, HeadsKept
  <2> QED
    BY <1>1, <2>1, <2>2, <2>4, <2>5, <2>6, QuietSafe
<1> QED
  BY <1>3, <1>4, <1>5, <1>6, <1>7 DEF Application

-----------------------------------------------------------------------------
(* The steps of the handshake.                                             *)

(* A step of connection c leaves the other connections alone.              *)
StepOf(c) ==
    /\ \A f \in Ends : f[1] # c =>
          UNCHANGED <<phase[f], closed[f], app[f], inbox[f], handler[f], created[f], sessionId[f]>>
    /\ \A d \in Conns : d # c => UNCHANGED starter[d]

(* Then the other connections are as they were.                            *)
LEMMA OthersKeep ==
    ASSUME SafeInv, NEW c \in Conns, StepOf(c), ConnInv(c)'
    PROVE  AllConnInv'
<1>1. ASSUME NEW d \in Conns, d # c
      PROVE  ConnInv(d)'
  <2>1. /\ Client(d) \in Ends /\ Server(d) \in Ends
        /\ Client(d)[1] # c /\ Server(d)[1] # c
    BY <1>1, ConnLemma, DistinctEnds
  <2>2. UNCHANGED Local(d)
    BY <1>1, <2>1 DEF Local, StepOf
  <2> QED
    BY <2>2, ConnFrame DEF SafeInv, AllConnInv
<1> QED
  BY <1>1 DEF AllConnInv

(* What MapInv says of one entry.                                          *)
Registered(p, x) ==
    /\ Owner(x[2]) = p
    /\ phase[x[2]] \notin {"none", "deleted"}
    /\ x[1] = RegisteredId(x[2])
    /\ x[2][2] = "server" => created[x[2]] > 0

(* The invariant of the maps, entry by entry.                              *)
LEMMA MapByEntry == MapInv <=> \A p \in Procs : \A x \in sessions[p] : Registered(p, x)
BY DEF MapInv, NoDanglingRegistration, Registered

(* An entry of another connection stays right.                             *)
LEMMA EntriesOfOthers ==
    ASSUME SafeInv, NEW c \in Conns, StepOf(c), NEW p \in Procs, NEW x \in sessions[p],
           x[2][1] # c
    PROVE  Registered(p, x)'
<1>1. x[2] \in Ends
  BY DEF SafeInv, TypeInv, BaseTypes
<1>2. Registered(p, x)
  BY MapByEntry DEF SafeInv
<1> QED
  BY <1>1, <1>2 DEF Registered, RegisteredId, StepOf

(* Steps that change nothing of the kind: the network, the timer.          *)
LEMMA HiddenSafe ==
    ASSUME SafeInv, TypeInv',
           UNCHANGED <<counter, sessions, phase, sessionId, inbox, handler, app, starter,
                       created, closed>>
    PROVE  SafeInv'
<1>1. AllConnInv'
  <2> SUFFICES ASSUME NEW c \in Conns
               PROVE  ConnInv(c)'
    BY DEF AllConnInv
  <2> QED
    BY ConnFrame DEF SafeInv, AllConnInv, Local
<1>2. MapInv'
  BY DEF SafeInv, MapInv, NoDanglingRegistration, RegisteredId
<1>3. NumberInv'
  BY NumberFrame DEF SafeInv, Unstarted
<1> QED
  BY <1>1, <1>2, <1>3 DEF SafeInv

(* The server accepts the socket.                                          *)
LEMMA AcceptSafe ==
    ASSUME SafeInv, TypeInv', NEW c \in Conns, ProcessConnection(c)
    PROVE  SafeInv'
<1> DEFINE e == Server(c)
<1>0. /\ e \in Ends /\ e[1] = c /\ Client(c) \in Ends /\ Client(c) # e
      /\ ConnInv(c)
  BY ConnFacts, ConnLemma, DistinctEnds
<1>1. /\ starter[c] \notin {"none", "refused"} /\ phase[e] = "none"
      /\ phase' = [phase EXCEPT ![e] = "NotConnected"]
      /\ UNCHANGED <<counter, sessions, sessionId, inbox, handler, app, starter, created, closed>>
  BY DEF ProcessConnection, procVars, netVars, threadVars, callbackVars
<1>2. phase'[e] = "NotConnected" /\ \A f \in Ends : f # e => phase'[f] = phase[f]
  BY <1>0, <1>1 DEF SafeInv, TypeInv, BaseTypes
<1>3. StepOf(c)
  BY <1>0, <1>1, <1>2 DEF StepOf
<1>4. ConnInv(c)'
  BY <1>0, <1>1, <1>2 DEF ConnInv, StartInv, Wire, IdInv, ClientInv, ServerInv, Unstarted, Before,
                          Fresh
<1>5. MapInv'
  BY <1>0, <1>1, <1>2 DEF SafeInv, TypeInv, BaseTypes, MapInv, NoDanglingRegistration, RegisteredId
<1>6. NumberInv'
  BY <1>1, NumberFrame DEF SafeInv, Unstarted
<1> QED
  BY <1>3, <1>4, <1>5, <1>6, OthersKeep DEF SafeInv

(* Remainders of numbers below the base.                                   *)
LEMMA SmallRemainder ==
    ASSUME NEW n \in Nat, n < IdBase
    PROVE  n % IdBase = n
BY ConstantsAssumption DEF ConstantsAssumption

(* startSession that cannot connect.                                       *)
LEMMA RefusedSafe ==
    ASSUME SafeInv, TypeInv', NEW c \in Conns, StartSessionRefused(c)
    PROVE  SafeInv'
<1> DEFINE e == Client(c)
           p == ClientOf[c]
<1>0. /\ e \in Ends /\ e[1] = c /\ Server(c) \in Ends /\ Server(c) # e /\ p \in Procs
      /\ ConnInv(c)
      /\ sessions \in [Procs -> SUBSET (Ids \X Ends)]
      /\ counter \in [Procs -> Nat]
      /\ starter \in [Conns -> {"none", "waiting", "returned", "failing", "failed", "refused"}]
      /\ e = <<c, "client">>
  BY ConnFacts, ConnLemma, DistinctEnds DEF SafeInv, TypeInv, BaseTypes, Client
<1>1. /\ starter[c] = "none" /\ starter' = [starter EXCEPT ![c] = "refused"]
      /\ counter' \in {counter, [counter EXCEPT ![p] = @ + 1]}
      /\ phase' = [phase EXCEPT ![e] = "deleted"]
      /\ sessions' = [sessions EXCEPT ![p] = RemoveSession(@, ZeroId)]
      /\ UNCHANGED <<sessionId, inbox, handler, app, created, closed>>
  BY DEF StartSessionRefused, netVars, callbackVars
<1>2. /\ phase'[e] = "deleted" /\ \A f \in Ends : f # e => phase'[f] = phase[f]
      /\ starter'[c] = "refused" /\ \A d \in Conns : d # c => starter'[d] = starter[d]
  BY <1>0, <1>1 DEF SafeInv, TypeInv, BaseTypes
<1>3. StepOf(c)
  BY <1>0, <1>1, <1>2 DEF StepOf
<1>4. ConnInv(c)'
  BY <1>0, <1>1, <1>2 DEF ConnInv, StartInv, Wire, IdInv, ClientInv, ServerInv, Unstarted, Before,
                          Fresh
<1>5. MapInv'
  <2>1. \A q \in Procs : sessions'[q] \subseteq sessions[q]
    <3>1. RemoveSession(sessions[p], ZeroId) \subseteq sessions[p]
      BY DEF RemoveSession
    <3> QED
      BY <1>0, <1>1, <3>1
  <2>2. phase[e] = "none"
    BY <1>0, <1>1 DEF ConnInv, StartInv, Unstarted
  <2>3. ASSUME NEW q \in Procs, NEW x \in sessions'[q]
        PROVE  Registered(q, x)'
    <3>1. x \in sessions[q] /\ x[2] \in Ends /\ Registered(q, x)
      BY <1>0, <2>1, <2>3, MapByEntry DEF SafeInv
    <3>2. x[2] # e
      BY <2>2, <3>1 DEF Registered
    <3> QED
      BY <1>1, <1>2, <3>1, <3>2 DEF Registered, RegisteredId
  <2> QED
    BY <2>3 DEF MapInv, NoDanglingRegistration, Registered
<1>6. NumberInv'
  <2>1. \A d \in Conns : ~Unstarted(d)' => ~Unstarted(d)
    BY <1>2 DEF Unstarted
  <2>2. \A q \in Procs : counter[q] \in Nat /\ counter'[q] \in Nat /\ counter[q] <= counter'[q]
    BY <1>0, <1>1
  <2>3. \A d \in Conns : ClientOf[d] \in Procs /\ ServerOf[d] \in Procs
    BY ConnLemma
  <2> HIDE DEF e, p
  <2>4. UNCHANGED <<created, sessionId>>
    BY <1>1
  <2> QED
    BY <2>1, <2>2, <2>3, <2>4, ConstantsAssumption
       DEF SafeInv, NumberInv, Low, High, Fresh, ConstantsAssumption
<1> QED
  BY <1>3, <1>4, <1>5, <1>6, OthersKeep DEF SafeInv

(* startSession: INIT_START is the first message of the connection.        *)
LEMMA StartSafe ==
    ASSUME SafeInv, TypeInv', NEW c \in Conns, StartSession(c)
    PROVE  SafeInv'
<1> DEFINE e == Client(c)
           s == Server(c)
           p == ClientOf[c]
           n == counter[p] + 1
           id == InitialId(n)
           m == Msg("InitStart", id, lastMid[e] + 1, id)
<1>0. /\ e \in Ends /\ e[1] = c /\ s \in Ends /\ s # e /\ s[1] = c /\ Peer(e) = s
      /\ p \in Procs /\ Owner(e) = p
      /\ ConnInv(c)
      /\ sessions \in [Procs -> SUBSET (Ids \X Ends)]
      /\ counter \in [Procs -> Nat]
      /\ starter \in [Conns -> {"none", "waiting", "returned", "failing", "failed", "refused"}]
      /\ inbox \in [Ends -> Seq(Msgs)]
      /\ e[2] = "client"
      /\ n \in Nat /\ lastMid[e] + 1 \in Nat
  <2>1. /\ e \in Ends /\ s \in Ends /\ s # e /\ Peer(e) = s
        /\ p \in Procs /\ Owner(e) = p
    BY ConnLemma
  <2>2. e[1] = c /\ s[1] = c /\ e[2] = "client"
    BY DistinctEnds
  <2>3. /\ ConnInv(c)
        /\ sessions \in [Procs -> SUBSET (Ids \X Ends)]
        /\ inbox \in [Ends -> Seq(Msgs)]
        /\ lastMid[e] \in Nat
    BY ConnFacts
  <2>4. /\ counter \in [Procs -> Nat]
        /\ starter \in [Conns -> {"none", "waiting", "returned", "failing", "failed", "refused"}]
    BY DEF SafeInv, TypeInv, BaseTypes
  <2>5. counter[p] + 1 \in Nat /\ lastMid[e] + 1 \in Nat
    BY <2>1, <2>3, <2>4
  <2> QED
    BY <2>1, <2>2, <2>3, <2>4, <2>5
<1>1. id \in Ids /\ id[1] = 0 /\ id[2] = n % IdBase
  BY <1>0, InitialIdLemma DEF InitialId
<1>2. m \in Msgs /\ m.type = "InitStart" /\ m.arg = id
  BY <1>0, <1>1, MsgLemma DEF MsgTypes
<1>3. /\ starter[c] = "none" /\ starter' = [starter EXCEPT ![c] = "waiting"]
      /\ counter' = [counter EXCEPT ![p] = n]
      /\ sessionId' = [sessionId EXCEPT ![e] = id]
      /\ phase' = [phase EXCEPT ![e] = "NotReady"]
      /\ sessions' = [sessions EXCEPT ![p] = AddSession(@, id, e)]
      /\ inbox' = IF cut[e] THEN inbox ELSE [inbox EXCEPT ![s] = Append(@, m)]
      /\ UNCHANGED <<handler, app, created, closed>>
  BY <1>0 DEF StartSession, callbackVars
<1> HIDE DEF id, m, n
<1>4. /\ phase'[e] = "NotReady" /\ \A f \in Ends : f # e => phase'[f] = phase[f]
      /\ sessionId'[e] = id /\ \A f \in Ends : f # e => sessionId'[f] = sessionId[f]
      /\ starter'[c] = "waiting" /\ \A d \in Conns : d # c => starter'[d] = starter[d]
      /\ counter'[p] = n /\ \A q \in Procs : q # p => counter'[q] = counter[q]
  BY <1>0, <1>3 DEF SafeInv, TypeInv, BaseTypes
<1>5. /\ phase[e] = "none" /\ phase[s] = "none"
      /\ inbox[e] = <<>> /\ inbox[s] = <<>>
      /\ Before(c) /\ Fresh(c)
  BY <1>0, <1>3 DEF ConnInv, StartInv, Unstarted
<1>6. /\ inbox'[e] = <<>>
      /\ inbox'[s] = <<>> \/ inbox'[s] = <<m>>
      /\ \A f \in Ends : f # s => inbox'[f] = inbox[f]
  <2>1. CASE cut[e]
    BY <1>3, <1>5, <2>1
  <2>2. CASE ~cut[e]
    BY <1>0, <1>3, <1>5, <2>2
  <2> QED
    BY <2>1, <2>2
<1>7. StepOf(c)
  BY <1>0, <1>3, <1>4, <1>6 DEF StepOf
<1>8. ConnInv(c)'
  <2>1. ~Unstarted(c)' /\ Before(c)' /\ Fresh(c)'
    BY <1>3, <1>4, <1>5 DEF Unstarted, Before, Fresh
  <2>2. Wire(c, inbox[Client(c)], inbox[Server(c)])'
    <3>1. /\ \A i \in DOMAIN inbox'[s] : i = 1 /\ inbox'[s][i] = m
          /\ DOMAIN inbox'[e] = {}
      BY <1>6
    <3>2. /\ sessionId'[e] = id /\ handler' = handler /\ created' = created
          /\ handler[e] = "idle" /\ handler[s] = "idle" /\ inbox'[e] = <<>>
      BY <1>0, <1>3, <1>4, <1>5, <1>6 DEF ConnInv, Wire, Before
    <3> QED
      BY <1>2, <2>1, <3>1, <3>2 DEF Wire
  <2>3. IdInv(c)'
    BY <1>0, <1>1, <1>3, <1>4, <2>1 DEF IdInv, Before
  <2>4. ClientInv(c)' /\ ServerInv(c)'
    BY <1>0, <1>3, <1>4, <1>5, <2>1 DEF ConnInv, ClientInv, ServerInv, Before, Fresh, Unstarted
  <2> QED
    BY <2>1, <2>2, <2>3, <2>4 DEF ConnInv, StartInv
<1>9. MapInv'
  <2>1. ASSUME NEW q \in Procs, NEW x \in sessions'[q]
        PROVE  Registered(q, x)'
    <3>1. x \in sessions[q] \/ (q = p /\ x = <<id, e>>)
      BY <1>0, <1>3 DEF AddSession
    <3>2. ASSUME x \in sessions[q]
          PROVE  Registered(q, x)'
      <4>1. Registered(q, x) /\ x[2] \in Ends
        BY <1>0, <3>2, MapByEntry DEF SafeInv
      <4>2. x[2] # e
        BY <1>5, <4>1 DEF Registered
      <4>3. handler[x[2]] # "idle" => x[2] # s
        BY <1>0, <1>5 DEF ConnInv, Wire
      <4> QED
        BY <1>3, <1>4, <1>6, <4>1, <4>2, <4>3 DEF Registered, RegisteredId
    <3>3. ASSUME q = p, x = <<id, e>>
          PROVE  Registered(q, x)'
      BY <1>0, <1>3, <1>4, <1>5, <3>3 DEF Registered, RegisteredId, Before
    <3> QED
      BY <3>1, <3>2, <3>3
  <2> QED
    BY <2>1 DEF MapInv, NoDanglingRegistration, Registered
<1>10. NumberInv'
  <2>1. \A q \in Procs : counter[q] \in Nat /\ counter'[q] \in Nat /\ counter[q] <= counter'[q]
    BY <1>0, <1>4 DEF n
  <2>2. \A d \in Conns : ClientOf[d] \in Procs /\ ServerOf[d] \in Procs
    BY ConnLemma
  <2>3. /\ \A d \in Conns : High(d)' = High(d) /\ Fresh(d)' = Fresh(d)
        /\ \A d \in Conns : d # c => Low(d)' = Low(d) /\ Unstarted(d)' = Unstarted(d)
    <3>1. \A d \in Conns : /\ Server(d) \in Ends /\ Server(d) # e /\ Client(d) \in Ends
                           /\ d # c => Client(d) # e
      BY ConnLemma, DistinctEnds
    <3> QED
      BY <1>3, <1>4, <3>1 DEF High, Low, Fresh, Unstarted
  <2>4. n = counter[p] + 1 /\ n \in Nat /\ IdBase \in Nat
    BY <1>0, ConstantsAssumption DEF n, ConstantsAssumption
  <2>5. n < IdBase => Low(c)' = n
    BY <1>1, <1>4, <2>4, SmallRemainder DEF Low
  <2>6. counter'[p] = n
    BY <1>4
  <2> HIDE DEF e, s
  <2>7. \A d \in Conns : ~Unstarted(d)' /\ counter'[ClientOf[d]] < IdBase
            => Low(d)' \in 1 .. counter'[ClientOf[d]]
    <3> SUFFICES ASSUME NEW d \in Conns, ~Unstarted(d)', counter'[ClientOf[d]] < IdBase
                 PROVE  Low(d)' \in 1 .. counter'[ClientOf[d]]
      OBVIOUS
    <3>1. CASE d = c
      <4>1. n < IdBase
        BY <2>6, <3>1
      <4>2. Low(d)' = n
        BY <2>5, <3>1, <4>1 DEF Low
      <4> QED
        BY <1>0, <2>4, <2>6, <3>1, <4>1, <4>2
    <3>2. CASE d # c
      <4>1. counter[ClientOf[d]] < IdBase /\ Low(d) \in 1 .. counter[ClientOf[d]]
        BY <2>1, <2>2, <2>3, <2>4, <3>2 DEF SafeInv, NumberInv
      <4> QED
        BY <2>1, <2>2, <2>3, <3>2, <4>1
    <3> QED
      BY <3>1, <3>2
  <2>8. ASSUME NEW a \in Conns, NEW b \in Conns, a # b, ClientOf[a] = ClientOf[b],
               counter'[ClientOf[a]] < IdBase, ~Unstarted(a)', ~Unstarted(b)'
        PROVE  Low(a)' # Low(b)'
    <3>1. counter[ClientOf[a]] < IdBase
      BY <2>1, <2>2, <2>4, <2>8
    <3>2. ASSUME NEW d \in Conns, d # c, ClientOf[d] = p, ~Unstarted(d)', n < IdBase
          PROVE  Low(d)' # n
      <4>1. Low(d) \in 1 .. counter[p]
        BY <1>0, <2>3, <2>4, <3>2 DEF SafeInv, NumberInv
      <4> QED
        BY <1>0, <2>3, <2>4, <3>2, <4>1
    <3>3. CASE a = c
      BY <2>5, <2>6, <2>8, <3>2, <3>3
    <3>4. CASE b = c
      BY <2>5, <2>6, <2>8, <3>2, <3>4
    <3>5. CASE a # c /\ b # c
      BY <2>3, <2>8, <3>1, <3>5 DEF SafeInv, NumberInv
    <3> QED
      BY <3>3, <3>4, <3>5
  <2>9. \A d \in Conns : ~Fresh(d)' /\ counter'[ServerOf[d]] < IdBase
            => High(d)' \in 1 .. counter'[ServerOf[d]]
    BY <2>1, <2>2, <2>3, <2>4 DEF SafeInv, NumberInv
  <2>10. ASSUME NEW a \in Conns, NEW b \in Conns, a # b, ServerOf[a] = ServerOf[b],
                counter'[ServerOf[a]] < IdBase, ~Fresh(a)', ~Fresh(b)'
         PROVE  High(a)' # High(b)'
    BY <2>1, <2>2, <2>3, <2>4, <2>10 DEF SafeInv, NumberInv
  <2> QED
    BY <2>7, <2>8, <2>9, <2>10 DEF NumberInv
<1> QED
  BY <1>7, <1>8, <1>9, <1>10, OthersKeep DEF SafeInv

(* The server makes its session ready.                                     *)
LEMMA InitStartSafe ==
    ASSUME SafeInv, TypeInv', NEW c \in Conns, NEW e \in {Client(c), Server(c)},
           ProcessInitStart(e)
    PROVE  SafeInv'
<1> DEFINE k == Client(c)
           p == Owner(e)
           m == Head(inbox[e])
           n == counter[p] + 1
           id == CompleteId(m.arg, n)
<1>0. /\ e \in Ends /\ e[1] = c /\ p \in Procs /\ k \in Ends /\ k[1] = c
      /\ ConnInv(c)
      /\ sessions \in [Procs -> SUBSET (Ids \X Ends)]
      /\ inbox[e] \in Seq(Msgs)
      /\ k # Server(c)
  BY ConnFacts, ConnLemma, DistinctEnds
<1>1. /\ Receives(e, "InitStart") /\ inbox[e] # <<>> /\ m.type = "InitStart" /\ handler[e] = "idle"
      /\ counter' = [counter EXCEPT ![p] = n]
      /\ sessions' = [sessions EXCEPT ![p] = AddSession(@, id, e)]
      /\ sessionId' = [sessionId EXCEPT ![e] = id]
      /\ phase' = [phase EXCEPT ![e] = "Ready"]
      /\ created' = [created EXCEPT ![e] = @ + 1]
      /\ handler' = [handler EXCEPT ![e] = "initStart"]
      /\ UNCHANGED <<inbox, app, starter, closed>>
  BY DEF ProcessInitStart, Receives, netVars
<1>2. m = inbox[e][1] /\ 1 \in DOMAIN inbox[e]
  BY <1>0, <1>1
<1>3. e = Server(c) /\ e # k /\ p = ServerOf[c] /\ e[2] = "server"
  <2>1. e # k
    BY <1>0, <1>1, <1>2 DEF ConnInv, Wire
  <2> QED
    BY <1>0, <2>1, ConnLemma, DistinctEnds
<1>4. /\ Fresh(c) /\ Before(c) /\ inbox[k] = <<>> /\ m.arg = sessionId[k]
      /\ handler[k] = "idle"
  BY <1>0, <1>1, <1>2, <1>3 DEF ConnInv, Wire, Before
<1>5. ~Unstarted(c)
  BY <1>0, <1>1, <1>3 DEF ConnInv, StartInv
<1>6. sessionId[k][1] = 0 /\ sessionId[k] \in Ids
  BY <1>0, <1>4 DEF ConnInv, IdInv, SafeInv, TypeInv, BaseTypes
<1>7. counter \in [Procs -> Nat] /\ n \in Nat /\ n = counter[p] + 1
  <2>1. counter \in [Procs -> Nat]
    BY DEF SafeInv, TypeInv, BaseTypes
  <2> HIDE DEF p
  <2> QED
    BY <1>0, <2>1
<1>8. id[1] = n % IdBase /\ id[2] = sessionId[k][2] /\ id \in Ids
  BY <1>4, <1>6, <1>7, CompleteIdLemma DEF CompleteId
<1> HIDE DEF id, m, n
<1>9. /\ phase'[e] = "Ready" /\ \A f \in Ends : f # e => phase'[f] = phase[f]
      /\ sessionId'[e] = id /\ \A f \in Ends : f # e => sessionId'[f] = sessionId[f]
      /\ created'[e] = 1 /\ \A f \in Ends : f # e => created'[f] = created[f]
      /\ handler'[e] = "initStart" /\ \A f \in Ends : f # e => handler'[f] = handler[f]
      /\ counter'[p] = n /\ \A q \in Procs : q # p => counter'[q] = counter[q]
  <2>1. /\ phase \in [Ends -> {"none", "NotConnected", "NotReady", "Ready", "deleted"}]
        /\ sessionId \in [Ends -> Ids]
        /\ created \in [Ends -> Nat]
        /\ handler \in [Ends -> {"idle", "initStart", "initReply"}]
    BY DEF SafeInv, TypeInv, BaseTypes
  <2>2. created[e] = 0
    BY <1>3, <1>4 DEF Fresh
  <2> HIDE DEF p, k
  <2> QED
    BY <1>0, <1>1, <1>7, <2>1, <2>2
<1>10. StepOf(c)
  BY <1>0, <1>1, <1>9 DEF StepOf
<1> HIDE DEF p, k
<1>11. ConnInv(c)'
  <2>1. ~Unstarted(c)' /\ Before(c)' /\ ~Fresh(c)'
    BY <1>0, <1>1, <1>3, <1>4, <1>5, <1>9 DEF Unstarted, Before, Fresh, k
  <2>2. Wire(c, inbox[Client(c)], inbox[Server(c)])'
    BY <1>0, <1>1, <1>2, <1>3, <1>4, <1>9, <2>1 DEF ConnInv, Wire, k
  <2>3. IdInv(c)'
    BY <1>0, <1>3, <1>4, <1>8, <1>9, <2>1 DEF ConnInv, IdInv, Before, k
  <2>4. ClientInv(c)'
    BY <1>0, <1>1, <1>3, <1>4, <1>5, <1>9, <2>1 DEF ConnInv, ClientInv, Before, k
  <2>5. ServerInv(c)'
    BY <1>0, <1>1, <1>3, <1>4, <1>9, <2>1 DEF ConnInv, ServerInv
  <2> QED
    BY <2>1, <2>2, <2>3, <2>4, <2>5 DEF ConnInv, StartInv
<1>12. MapInv'
  <2>1. ASSUME NEW q \in Procs, NEW x \in sessions'[q]
        PROVE  Registered(q, x)'
    <3>1. x \in sessions[q] \/ (q = p /\ x = <<id, e>>)
      BY <1>0, <1>1 DEF AddSession
    <3>2. ASSUME x \in sessions[q]
          PROVE  Registered(q, x)'
      <4>1. Registered(q, x) /\ x[2] \in Ends
        BY <1>0, <3>2, MapByEntry DEF SafeInv
      <4>2. x[2] # e
        BY <1>3, <1>4, <4>1 DEF Registered, Fresh
      <4> QED
        BY <1>1, <1>9, <4>1, <4>2 DEF Registered, RegisteredId
    <3>3. ASSUME q = p, x = <<id, e>>
          PROVE  Registered(q, x)'
      BY <1>9, <3>3 DEF Registered, RegisteredId, p
    <3> QED
      BY <3>1, <3>2, <3>3
  <2> QED
    BY <2>1 DEF MapInv, NoDanglingRegistration, Registered
<1>13. NumberInv'
  <2>1. \A q \in Procs : counter[q] \in Nat /\ counter'[q] \in Nat /\ counter[q] <= counter'[q]
    BY <1>7, <1>9
  <2>2. \A d \in Conns : ClientOf[d] \in Procs /\ ServerOf[d] \in Procs
    BY ConnLemma
  <2>3. /\ \A d \in Conns : Low(d)' = Low(d) /\ Unstarted(d)' = Unstarted(d)
        /\ \A d \in Conns : d # c => High(d)' = High(d) /\ Fresh(d)' = Fresh(d)
    <3>1. \A d \in Conns : /\ Client(d) \in Ends /\ Client(d) # e /\ Server(d) \in Ends
                           /\ d # c => Server(d) # e
      BY <1>3, ConnLemma, DistinctEnds
    <3> QED
      BY <1>1, <1>9, <3>1 DEF High, Low, Fresh, Unstarted
  <2>4. IdBase \in Nat
    BY ConstantsAssumption DEF ConstantsAssumption
  <2>5. n < IdBase => High(c)' = n
    BY <1>3, <1>7, <1>8, <1>9, SmallRemainder DEF High
  <2>6. \A d \in Conns : ~Fresh(d)' /\ counter'[ServerOf[d]] < IdBase
            => High(d)' \in 1 .. counter'[ServerOf[d]]
    <3> SUFFICES ASSUME NEW d \in Conns, ~Fresh(d)', counter'[ServerOf[d]] < IdBase
                 PROVE  High(d)' \in 1 .. counter'[ServerOf[d]]
      OBVIOUS
    <3>1. CASE d = c
      <4>1. n < IdBase /\ counter'[ServerOf[d]] = n
        BY <1>3, <1>9, <3>1
      <4>2. High(d)' = n
        BY <2>5, <3>1, <4>1 DEF High
      <4>3. counter[p] \in Nat
        BY <1>0, <1>7
      <4> QED
        BY <1>7, <4>1, <4>2, <4>3
    <3>2. CASE d # c
      <4>1. counter[ServerOf[d]] < IdBase /\ High(d) \in 1 .. counter[ServerOf[d]]
        BY <2>1, <2>2, <2>3, <2>4, <3>2 DEF SafeInv, NumberInv
      <4> QED
        BY <2>1, <2>2, <2>3, <3>2, <4>1
    <3> QED
      BY <3>1, <3>2
  <2>7. ASSUME NEW a \in Conns, NEW b \in Conns, a # b, ServerOf[a] = ServerOf[b],
               counter'[ServerOf[a]] < IdBase, ~Fresh(a)', ~Fresh(b)'
        PROVE  High(a)' # High(b)'
    <3>1. counter[ServerOf[a]] < IdBase
      BY <2>1, <2>2, <2>4, <2>7
    <3>2. ASSUME NEW d \in Conns, d # c, ServerOf[d] = p, ~Fresh(d)', n < IdBase
          PROVE  High(d)' # n
      <4>1. High(d) \in 1 .. counter[p]
        <5>1. counter[p] < IdBase
          BY <1>0, <1>7, <2>4, <3>2
        <5> QED
          BY <2>3, <3>2, <5>1 DEF SafeInv, NumberInv
      <4> QED
        BY <1>0, <1>7, <2>3, <3>2, <4>1
    <3>3. CASE a = c
      BY <1>3, <1>9, <2>5, <2>7, <3>2, <3>3
    <3>4. CASE b = c
      BY <1>3, <1>9, <2>5, <2>7, <3>2, <3>4
    <3>5. CASE a # c /\ b # c
      BY <2>3, <2>7, <3>1, <3>5 DEF SafeInv, NumberInv
    <3> QED
      BY <3>3, <3>4, <3>5
  <2>8. \A d \in Conns : ~Unstarted(d)' /\ counter'[ClientOf[d]] < IdBase
            => Low(d)' \in 1 .. counter'[ClientOf[d]]
    BY <2>1, <2>2, <2>3, <2>4 DEF SafeInv, NumberInv
  <2>9. ASSUME NEW a \in Conns, NEW b \in Conns, a # b, ClientOf[a] = ClientOf[b],
               counter'[ClientOf[a]] < IdBase, ~Unstarted(a)', ~Unstarted(b)'
        PROVE  Low(a)' # Low(b)'
    BY <2>1, <2>2, <2>3, <2>4, <2>9 DEF SafeInv, NumberInv
  <2> QED
    BY <2>6, <2>7, <2>8, <2>9 DEF NumberInv
<1> QED
  BY <1>10, <1>11, <1>12, <1>13, OthersKeep DEF SafeInv

(* The server answers: INIT_REPLY carries the ids both ends have now.      *)
LEMMA InitReplySentSafe ==
    ASSUME SafeInv, TypeInv', NEW c \in Conns, NEW e \in {Client(c), Server(c)},
           SendInitReply(e)
    PROVE  SafeInv'
<1> DEFINE k == Client(c)
           m == Head(inbox[e])
           r == Msg("InitReply", m.arg, m.mid, sessionId[e])
           box == Consumed(e)
<1>0. /\ e \in Ends /\ k \in Ends /\ k[1] = c /\ e[1] = c
      /\ ConnInv(c)
      /\ inbox \in [Ends -> Seq(Msgs)]
      /\ k # Server(c)
      /\ sessionId[e] \in Ids
  BY ConnFacts, ConnLemma, DistinctEnds
<1>1. /\ handler[e] = "initStart"
      /\ inbox' = Sent(box, e, r)
      /\ handler' = [handler EXCEPT ![e] = "idle"]
      /\ UNCHANGED <<counter, sessions, phase, sessionId, app, starter, created, closed>>
  BY DEF SendInitReply, procVars, objVars, callbackVars
<1>2. e = Server(c) /\ e # k /\ Peer(e) = k
  <2>1. e # k
    BY <1>0, <1>1 DEF ConnInv, Wire
  <2> QED
    BY <1>0, <2>1, ConnLemma
<1>3. /\ inbox[e] # <<>> /\ inbox[e][1].type = "InitStart" /\ Before(c) /\ ~Fresh(c)
      /\ \A i \in DOMAIN inbox[e] : inbox[e][i].type = "InitStart" =>
            i = 1 /\ inbox[e][i].arg = sessionId[k]
      /\ \A i \in DOMAIN inbox[k] : inbox[k][i].type # "InitReply"
      /\ created[k] = 0 /\ handler[k] = "idle"
  BY <1>0, <1>1, <1>2 DEF ConnInv, Wire, Before
<1>4. m \in Msgs /\ m = inbox[e][1] /\ 1 \in DOMAIN inbox[e]
  BY <1>0, <1>3
<1>5. m.arg = sessionId[k] /\ m.arg \in Ids /\ m.mid \in Nat
  BY <1>3, <1>4 DEF Msgs
<1>6. r \in Msgs /\ r.type = "InitReply" /\ r.sid = sessionId[k] /\ r.arg = sessionId[e]
  BY <1>0, <1>5, MsgLemma DEF MsgTypes
<1>7. /\ box \in [Ends -> Seq(Msgs)]
      /\ box[e] = Tail(inbox[e])
      /\ \A f \in Ends : f # e => box[f] = inbox[f]
  BY <1>0, <1>3, ConsumedLemma
<1> HIDE DEF r, box, m
<1>8. /\ \A f \in Ends : f # k => inbox'[f] = box[f]
      /\ inbox'[k] = box[k] \/ inbox'[k] = Append(box[k], r)
  BY <1>0, <1>1, <1>2, <1>6, <1>7, SentLemma
<1>9. /\ inbox'[e] = Tail(inbox[e])
      /\ inbox'[k] = inbox[k] \/ inbox'[k] = Append(inbox[k], r)
      /\ \A f \in Ends : f[1] # c => inbox'[f] = inbox[f]
  BY <1>0, <1>2, <1>7, <1>8
<1>10. handler'[e] = "idle" /\ \A f \in Ends : f # e => handler'[f] = handler[f]
  BY <1>0, <1>1 DEF SafeInv, TypeInv, BaseTypes
<1>11. StepOf(c)
  BY <1>0, <1>1, <1>9, <1>10 DEF StepOf
<1> HIDE DEF k
<1>12. ConnInv(c)'
  <2>1. UNCHANGED <<Before(c), Fresh(c), Unstarted(c)>>
    BY <1>1, <1>2, <1>10, <1>0 DEF Before, Fresh, Unstarted, k
  <2>2. \A i \in DOMAIN inbox'[e] : i + 1 \in DOMAIN inbox[e] /\ i \in Nat \ {0}
                                    /\ inbox'[e][i] = inbox[e][i + 1]
    <3>1. inbox[e] \in Seq(Msgs) /\ inbox[e] # <<>>
      BY <1>0, <1>3
    <3> QED
      BY <1>9, <3>1
  <2>3. \A i \in DOMAIN inbox'[k] : \/ i \in DOMAIN inbox[k] /\ inbox'[k][i] = inbox[k][i]
                                    \/ inbox'[k][i] = r /\ i = Len(inbox[k]) + 1
    <3>1. inbox[k] \in Seq(Msgs)
      BY <1>0
    <3> QED
      BY <1>9, <3>1
  <2>4. /\ \A i \in DOMAIN inbox'[e] : inbox'[e][i].type \notin {"InitStart", "InitReply", "CloseStart"}
        /\ \A i \in DOMAIN inbox'[k] : inbox'[k][i].type \notin {"InitStart", "CloseReply"}
    <3>1. /\ \A i \in DOMAIN inbox[e] : inbox[e][i].type \notin {"InitReply", "CloseStart"}
          /\ \A i \in DOMAIN inbox[e] : inbox[e][i].type = "InitStart" => i = 1
      BY <1>0, <1>2, <1>3 DEF ConnInv, Wire, k
    <3>2. \A i \in DOMAIN inbox[k] : inbox[k][i].type \notin {"InitStart", "CloseReply"}
      BY <1>0, <1>2, <1>3 DEF ConnInv, Wire, k
    <3>3. \A i \in DOMAIN inbox'[e] : i + 1 # 1
      BY <2>2
    <3>4. \A i \in DOMAIN inbox'[e] : inbox'[e][i].type \notin {"InitStart", "InitReply", "CloseStart"}
      BY <2>2, <3>1, <3>3
    <3>5. \A i \in DOMAIN inbox'[k] : inbox'[k][i].type \notin {"InitStart", "CloseReply"}
      BY <1>6, <2>3, <3>2
    <3> QED
      BY <3>4, <3>5
  <2>5. \A i \in DOMAIN inbox'[k] : inbox'[k][i].type = "InitReply" =>
            inbox'[k][i] = r /\ i = Len(inbox[k]) + 1
    BY <1>3, <2>3
  <2>6. /\ created'[k] = 0 /\ handler'[e] = "idle" /\ handler'[k] = "idle"
        /\ r.arg = sessionId'[e] /\ r.sid = sessionId'[k]
    BY <1>1, <1>2, <1>3, <1>6, <1>10, <1>0
  <2>7. Wire(c, inbox[Client(c)], inbox[Server(c)])'
    BY <1>2, <1>3, <2>1, <2>4, <2>5, <2>6 DEF Wire, k
  <2>8. IdInv(c)'
    BY <1>0, <1>1, <2>1 DEF ConnInv, IdInv
  <2>9. ClientInv(c)' /\ ServerInv(c)'
    BY <1>0, <1>1, <1>2, <1>10, <2>1 DEF ConnInv, ClientInv, ServerInv, k
  <2>10. ~Unstarted(c)'
    BY <1>0, <1>2, <1>3, <2>1 DEF ConnInv, StartInv
  <2> QED
    BY <2>7, <2>8, <2>9, <2>10 DEF ConnInv, StartInv
<1>13. MapInv'
  <2>1. ASSUME NEW q \in Procs, NEW x \in sessions'[q]
        PROVE  Registered(q, x)'
    <3>1. x \in sessions[q] /\ Registered(q, x) /\ x[2] \in Ends
      BY <1>1, <2>1, MapByEntry DEF SafeInv, TypeInv, BaseTypes
    <3>2. CASE x[2] = e
      BY <1>1, <1>10, <3>1, <3>2 DEF Registered, RegisteredId
    <3>3. CASE x[2] = k
      BY <1>1, <1>2, <1>3, <1>10, <3>1, <3>3 DEF Registered, RegisteredId
    <3>4. CASE x[2] # e /\ x[2] # k
      <4>1. x[2][1] # c
        BY <1>2, <3>1, <3>4, EndsLemma DEF k
      <4> QED
        BY <1>11, <3>1, <4>1, EntriesOfOthers
    <3> QED
      BY <3>2, <3>3, <3>4
  <2> QED
    BY <2>1 DEF MapInv, NoDanglingRegistration, Registered
<1>14. NumberInv'
  BY <1>1, NumberFrame DEF SafeInv, Unstarted
<1> QED
  BY <1>11, <1>12, <1>13, <1>14, OthersKeep DEF SafeInv

(* The client makes its session ready and files it under the final id.     *)
LEMMA InitReplySafe ==
    ASSUME SafeInv, TypeInv', NEW c \in Conns, NEW e \in {Client(c), Server(c)},
           ProcessInitReply(e)
    PROVE  SafeInv'
<1> DEFINE s == Server(c)
           p == Owner(e)
           m == Head(inbox[e])
           map == RemoveSession(sessions[p], m.sid)
<1>0. /\ e \in Ends /\ s \in Ends /\ s[1] = c /\ e[1] = c /\ p \in Procs
      /\ ConnInv(c)
      /\ inbox[e] \in Seq(Msgs)
      /\ sessions \in [Procs -> SUBSET (Ids \X Ends)]
      /\ s # Client(c)
  BY ConnFacts, ConnLemma, DistinctEnds
<1>1. /\ inbox[e] # <<>> /\ m.type = "InitReply" /\ handler[e] = "idle" /\ phase[e] = "NotReady"
      /\ sessions' = [sessions EXCEPT ![p] = AddSession(map, m.arg, e)]
      /\ phase' = [phase EXCEPT ![e] = "Ready"]
      /\ handler' = [handler EXCEPT ![e] = "initReply"]
      /\ UNCHANGED <<counter, sessionId, inbox, app, starter, created, closed>>
  BY DEF ProcessInitReply, Receives, netVars, callbackVars
<1>2. m = inbox[e][1] /\ 1 \in DOMAIN inbox[e]
  BY <1>0, <1>1
<1>3. e = Client(c) /\ e # s /\ e[2] = "client"
  <2>1. e # s
    BY <1>0, <1>1, <1>2 DEF ConnInv, Wire
  <2> QED
    BY <1>0, <2>1, DistinctEnds
<1>4. /\ created[e] = 0 /\ handler[s] = "idle" /\ m.arg = sessionId[s] /\ m.sid = sessionId[e]
      /\ Before(c) /\ ~Fresh(c)
      /\ \A i \in DOMAIN inbox[e] : inbox[e][i].type = "InitReply" => i = 1
  BY <1>0, <1>1, <1>2, <1>3 DEF ConnInv, Wire, Before
<1>5. ~Unstarted(c) /\ closed[e] = 0
  BY <1>0, <1>1, <1>3, <1>4 DEF ConnInv, StartInv, ClientInv
<1>6. /\ phase'[e] = "Ready" /\ \A f \in Ends : f # e => phase'[f] = phase[f]
      /\ handler'[e] = "initReply" /\ \A f \in Ends : f # e => handler'[f] = handler[f]
  BY <1>0, <1>1 DEF SafeInv, TypeInv, BaseTypes
<1>7. StepOf(c)
  BY <1>0, <1>1, <1>6 DEF StepOf
<1> HIDE DEF s, m, map, p
<1>8. ConnInv(c)'
  <2>1. ~Before(c)' /\ ~Fresh(c)' /\ ~Unstarted(c)'
    BY <1>1, <1>3, <1>4, <1>5, <1>6 DEF Before, Fresh, Unstarted
  <2>2. Wire(c, inbox[Client(c)], inbox[Server(c)])'
    BY <1>0, <1>1, <1>2, <1>3, <1>4, <1>6, <2>1 DEF ConnInv, Wire, s
  <2>3. IdInv(c)'
    BY <1>0, <1>1, <1>3, <1>4, <2>1 DEF ConnInv, IdInv
  <2>4. ClientInv(c)'
    BY <1>0, <1>1, <1>3, <1>4, <1>5, <1>6, <2>1 DEF ConnInv, ClientInv
  <2>5. ServerInv(c)'
    BY <1>0, <1>1, <1>3, <1>4, <1>6, <2>1 DEF ConnInv, ServerInv, s
  <2> QED
    BY <2>1, <2>2, <2>3, <2>4, <2>5 DEF ConnInv, StartInv
<1>9. MapInv'
  <2>1. ASSUME NEW q \in Procs, NEW x \in sessions'[q]
        PROVE  Registered(q, x)'
    <3>1. \/ x \in sessions[q] /\ (q = p => x \in map)
          \/ q = p /\ x = <<m.arg, e>>
      BY <1>0, <1>1 DEF AddSession, RemoveSession, map
    <3>2. ASSUME x \in sessions[q], q = p => x \in map
          PROVE  Registered(q, x)'
      <4>1. Registered(q, x) /\ x[2] \in Ends
        BY <1>0, <3>2, MapByEntry DEF SafeInv
      <4>2. x[2] # e
        <5>1. ASSUME x[2] = e
              PROVE  FALSE
          <6>1. x[1] = sessionId[e] /\ q = p
            BY <1>1, <4>1, <5>1 DEF Registered, RegisteredId, p
          <6> QED
            BY <1>4, <3>2, <6>1 DEF map, RemoveSession
        <5> QED
          BY <5>1
      <4> QED
        BY <1>1, <1>6, <4>1, <4>2 DEF Registered, RegisteredId
    <3>3. ASSUME q = p, x = <<m.arg, e>>
          PROVE  Registered(q, x)'
      BY <1>1, <1>3, <1>6, <3>3 DEF Registered, RegisteredId, p, m
    <3> QED
      BY <3>1, <3>2, <3>3
  <2> QED
    BY <2>1 DEF MapInv, NoDanglingRegistration, Registered
<1>10. NumberInv'
  BY <1>1, NumberFrame DEF SafeInv, Unstarted
<1> QED
  BY <1>7, <1>8, <1>9, <1>10, OthersKeep DEF SafeInv

(* The client takes the final id over.                                     *)
LEMMA FinishReadySafe ==
    ASSUME SafeInv, TypeInv', NEW c \in Conns, NEW e \in {Client(c), Server(c)},
           FinishSessionReady(e)
    PROVE  SafeInv'
<1> DEFINE s == Server(c)
           m == Head(inbox[e])
<1>0. /\ e \in Ends /\ s \in Ends /\ s[1] = c /\ e[1] = c
      /\ ConnInv(c)
      /\ inbox \in [Ends -> Seq(Msgs)]
      /\ s # Client(c)
  BY ConnFacts, ConnLemma, DistinctEnds
<1>1. /\ handler[e] = "initReply"
      /\ sessionId' = [sessionId EXCEPT ![e] = m.arg]
      /\ created' = [created EXCEPT ![e] = @ + 1]
      /\ inbox' = Consumed(e)
      /\ handler' = [handler EXCEPT ![e] = "idle"]
      /\ UNCHANGED <<counter, sessions, phase, app, starter, closed>>
  BY DEF FinishSessionReady, procVars
<1>2. e = Client(c) /\ e # s
  BY <1>0, <1>1 DEF ConnInv, Wire
<1>3. /\ inbox[e] # <<>> /\ inbox[e][1].type = "InitReply" /\ created[e] = 0
      /\ ~Before(c) /\ ~Fresh(c) /\ handler[s] # "initStart"
  BY <1>0, <1>1, <1>2 DEF ConnInv, Wire, Before
<1>4. m = inbox[e][1] /\ 1 \in DOMAIN inbox[e]
  BY <1>0, <1>3
<1>5. /\ m.arg = sessionId[s]
      /\ \A i \in DOMAIN inbox[e] : inbox[e][i].type = "InitReply" => i = 1
  BY <1>0, <1>1, <1>2, <1>3, <1>4 DEF ConnInv, Wire
<1>6. ~Unstarted(c)
  BY <1>0, <1>2, <1>3 DEF ConnInv, StartInv
<1>7. /\ inbox'[e] = Tail(inbox[e])
      /\ \A f \in Ends : f # e => inbox'[f] = inbox[f]
  BY <1>0, <1>1, <1>3, ConsumedLemma
<1>8. /\ sessionId'[e] = sessionId[s] /\ \A f \in Ends : f # e => sessionId'[f] = sessionId[f]
      /\ created'[e] = 1 /\ \A f \in Ends : f # e => created'[f] = created[f]
      /\ handler'[e] = "idle" /\ \A f \in Ends : f # e => handler'[f] = handler[f]
  BY <1>0, <1>1, <1>3, <1>5 DEF SafeInv, TypeInv, BaseTypes
<1>9. StepOf(c)
  BY <1>0, <1>1, <1>7, <1>8 DEF StepOf
<1> HIDE DEF s, m
<1>10. ConnInv(c)'
  <2>1. ~Before(c)' /\ ~Fresh(c)' /\ ~Unstarted(c)'
    BY <1>0, <1>1, <1>2, <1>3, <1>6, <1>8 DEF Before, Fresh, Unstarted, s
  <2>2. \A i \in DOMAIN inbox'[e] : i + 1 \in DOMAIN inbox[e] /\ i \in Nat \ {0}
                                    /\ inbox'[e][i] = inbox[e][i + 1]
    <3>1. inbox[e] \in Seq(Msgs) /\ inbox[e] # <<>>
      BY <1>0, <1>3
    <3> QED
      BY <1>7, <3>1
  <2>3. \A i \in DOMAIN inbox'[e] : inbox'[e][i].type \notin {"InitReply", "InitStart"}
    BY <1>0, <1>2, <1>5, <2>2 DEF ConnInv, Wire
  <2>4. /\ inbox'[s] = inbox[s]
        /\ \A i \in DOMAIN inbox[s] : inbox[s][i].type \notin {"InitReply", "InitStart"}
    BY <1>0, <1>2, <1>3, <1>7 DEF ConnInv, Wire, s
  <2>5. Wire(c, inbox[Client(c)], inbox[Server(c)])'
    <3>1. handler'[s] # "initStart" /\ handler'[s] # "initReply" /\ handler'[e] = "idle"
      BY <1>0, <1>2, <1>3, <1>8 DEF ConnInv, Wire, s
    <3> QED
      BY <1>2, <2>1, <2>3, <2>4, <3>1 DEF Wire, s
  <2>6. IdInv(c)'
    BY <1>0, <1>2, <1>8, <2>1 DEF IdInv, s
  <2>7. ClientInv(c)'
    <3>1. closed[e] \in Nat /\ created'[e] = 1 /\ phase'[e] = phase[e] /\ closed'[e] = closed[e]
          /\ app'[e] = app[e]
      BY <1>1, <1>8, ConnFacts
    <3>2. closed[e] <= 1 /\ phase[e] \in {"Ready", "NotConnected", "deleted"}
          /\ (closed[e] > 0 => phase[e] \in {"NotConnected", "deleted"})
      BY <1>0, <1>2, <1>3 DEF ConnInv, ClientInv
    <3> QED
      BY <1>2, <2>1, <3>1, <3>2 DEF ClientInv
  <2>8. ServerInv(c)'
    BY <1>0, <1>1, <1>2, <1>3, <1>8, <2>1 DEF ConnInv, ServerInv, s
  <2> QED
    BY <2>1, <2>5, <2>6, <2>7, <2>8 DEF ConnInv, StartInv
<1>11. MapInv'
  <2>1. ASSUME NEW q \in Procs, NEW x \in sessions'[q]
        PROVE  Registered(q, x)'
    <3>1. x \in sessions[q] /\ Registered(q, x) /\ x[2] \in Ends
      BY <1>1, <2>1, MapByEntry DEF SafeInv, TypeInv, BaseTypes
    <3>2. CASE x[2] = e
      <4>1. x[1] = m.arg
        BY <1>1, <3>1, <3>2 DEF Registered, RegisteredId, m
      <4>2. x[1] = RegisteredId(e)'
        BY <1>5, <1>8, <4>1 DEF RegisteredId
      <4>3. x[1] = RegisteredId(x[2])'
        BY <1>8, <3>2, <4>2 DEF RegisteredId
      <4>4. x[2][2] = "server" => created'[x[2]] > 0
        BY <1>8, <3>2
      <4> QED
        BY <1>1, <3>1, <4>3, <4>4 DEF Registered
    <3>3. CASE x[2] # e
      BY <1>1, <1>7, <1>8, <3>1, <3>3 DEF Registered, RegisteredId
    <3> QED
      BY <3>2, <3>3
  <2> QED
    BY <2>1 DEF MapInv, NoDanglingRegistration, Registered
<1>12. NumberInv'
  <2>1. \A d \in Conns : /\ Client(d) \in Ends /\ Server(d) \in Ends /\ Server(d) # e
                         /\ d # c => Client(d) # e
    BY <1>2, ConnLemma, DistinctEnds
  <2>2. sessionId[s][2] = sessionId[e][2]
    BY <1>0, <1>2, <1>3 DEF ConnInv, IdInv, s
  <2>3. \A d \in Conns : High(d)' = High(d) /\ Fresh(d)' = Fresh(d)
    BY <1>8, <2>1 DEF High, Fresh
  <2>4. \A d \in Conns : Low(d)' = Low(d)
    <3> SUFFICES ASSUME NEW d \in Conns
                 PROVE  sessionId'[Client(d)][2] = sessionId[Client(d)][2]
      BY DEF Low
    <3>1. CASE d = c
      BY <1>2, <1>8, <2>2, <3>1
    <3>2. CASE d # c
      BY <1>8, <2>1, <3>2
    <3> QED
      BY <3>1, <3>2
  <2>5. \A d \in Conns : Unstarted(d)' = Unstarted(d)
    BY <1>1 DEF Unstarted
  <2> QED
    BY <1>1, <2>3, <2>4, <2>5 DEF SafeInv, NumberInv
<1> QED
  BY <1>9, <1>10, <1>11, <1>12, OthersKeep DEF SafeInv

-----------------------------------------------------------------------------
(* The invariant holds.                                                    *)

(* No connection was started, no counter was used, every map is empty.     *)
LEMMA SafeInit == Init => SafeInv
<1> SUFFICES ASSUME Init
             PROVE  SafeInv
  OBVIOUS
<1>1. TypeInv
  BY TypeInit
<1>2. AllConnInv
  <2> SUFFICES ASSUME NEW c \in Conns
               PROVE  ConnInv(c)
    BY DEF AllConnInv
  <2>1. /\ Client(c) \in Ends /\ Server(c) \in Ends
        /\ ZeroId[1] = 0 /\ ZeroId[2] = 0
    BY ConnLemma DEF ZeroId
  <2>2. /\ starter[c] = "none"
        /\ \A e \in {Client(c), Server(c)} :
              /\ phase[e] = "none" /\ inbox[e] = <<>> /\ handler[e] = "idle" /\ app[e] = "idle"
              /\ created[e] = 0 /\ closed[e] = 0 /\ sessionId[e] = ZeroId
    BY <2>1 DEF Init
  <2>3. Unstarted(c) /\ Before(c) /\ Fresh(c)
    BY <2>2 DEF Unstarted, Before, Fresh
  <2>4. StartInv(c) /\ Wire(c, inbox[Client(c)], inbox[Server(c)])
    BY <2>2, <2>3 DEF StartInv, Wire
  <2>5. IdInv(c) /\ ClientInv(c) /\ ServerInv(c)
    BY <2>1, <2>2, <2>3 DEF IdInv, ClientInv, ServerInv
  <2> QED
    BY <2>4, <2>5 DEF ConnInv
<1>3. NumberInv
  BY ConnLemma DEF Init, NumberInv, Unstarted, Fresh
<1>4. MapInv
  BY DEF Init, MapInv, NoDanglingRegistration
<1> QED
  BY <1>1, <1>2, <1>3, <1>4 DEF SafeInv

(* Every step preserves it: the lemmas on the actions, put together.       *)
LEMMA SafeStep == SafeInv /\ [Next]_vars => SafeInv'
<1> SUFFICES ASSUME SafeInv, [Next]_vars
             PROVE  SafeInv'
  OBVIOUS
<1>1. TypeInv'
  BY TypeStep DEF SafeInv
<1>2. ASSUME NEW c \in Conns, Start(c) \/ Poll(c) \/ ProcessConnection(c)
      PROVE  SafeInv'
  BY <1>1, <1>2, StartSafe, RefusedSafe, PollSafe, AcceptSafe DEF Start
<1>3. ASSUME NEW e \in Ends, Receive(e) \/ SendHeartbeat(e) \/ Application(e) \/ CutLink(e)
      PROVE  SafeInv'
  <2>1. PICK c \in Conns : e \in {Client(c), Server(c)}
    BY EndsLemma
  <2>2. CASE Receive(e)
    BY <1>1, <2>1, <2>2, InitStartSafe, InitReplySentSafe, InitReplySafe, FinishReadySafe,
       EstablishedSafe DEF Receive
  <2>3. CASE SendHeartbeat(e) \/ Application(e)
    BY <1>1, <2>1, <2>3, OwnSideSafe
  <2>4. CASE CutLink(e)
    BY <1>1, <2>4, HiddenSafe DEF CutLink, procVars, objVars, threadVars, callbackVars
  <2> QED
    BY <1>3, <2>2, <2>3, <2>4
<1>4. ASSUME NEW p \in Procs, Timer(p)
      PROVE  SafeInv'
  <2>1. UNCHANGED <<counter, sessions, phase, sessionId, inbox, handler, app, starter,
                    created, closed>>
    BY <1>4, TimerLeaves
  <2> QED
    BY <1>1, <2>1, HiddenSafe
<1>5. CASE UNCHANGED vars
  BY <1>1, <1>5, HiddenSafe DEF vars, procVars, objVars, netVars, threadVars, callbackVars
<1> QED
  BY <1>2, <1>3, <1>4, <1>5 DEF Next

(* What an end is, and what the invariant says of its connection.          *)
LEMMA EndFacts ==
    ASSUME SafeInv, NEW e \in Ends
    PROVE  /\ e[1] \in Conns
           /\ ConnInv(e[1])
           /\ e[2] \in {"client", "server"}
           /\ e[2] = "client" => e = Client(e[1])
           /\ e[2] = "server" => e = Server(e[1])
           /\ created[e] \in Nat /\ closed[e] \in Nat
           /\ handler[e] \in {"idle", "initStart", "initReply"}
<1>1. e[1] \in Conns /\ e[2] \in {"client", "server"} /\ e = <<e[1], e[2]>>
  BY DEF Ends
<1>2. /\ created[e] \in Nat /\ closed[e] \in Nat
      /\ handler[e] \in {"idle", "initStart", "initReply"}
  BY DEF SafeInv, TypeInv, BaseTypes
<1> QED
  BY <1>1, <1>2 DEF SafeInv, AllConnInv, Client, Server

-----------------------------------------------------------------------------
(* The theorems.                                                           *)

(* A map of sessions never leads to an object that is deleted, not yet     *)
(* there or of another process, nor files it under an id that ~Session     *)
(* will not look for, for any number of processes and connections.         *)
THEOREM RegistrationsCorrect == Spec => []NoDanglingRegistration
<1>1. SafeInv => NoDanglingRegistration
  BY DEF SafeInv, MapInv
<1> QED
  BY <1>1, SafeInit, SafeStep, PTL DEF Spec

(* connectiSession and makeSessionReady cannot fail: INIT_START and        *)
(* INIT_REPLY find the session they are for in the state before.           *)
THEOREM HandshakeCorrect == Spec => []HandshakeFindsItsState
<1>1. SafeInv => HandshakeFindsItsState
  <2> SUFFICES ASSUME SafeInv, NEW e \in Ends, NEW i \in DOMAIN inbox[e]
               PROVE  /\ inbox[e][i].type = "InitStart" /\ ~(i = 1 /\ handler[e] = "initStart")
                            => phase[e] \in {"none", "NotConnected"} /\ created[e] = 0
                      /\ inbox[e][i].type = "InitReply" /\ ~(i = 1 /\ handler[e] = "initReply")
                            => phase[e] \in {"NotReady", "deleted"} /\ created[e] = 0
    BY DEF HandshakeFindsItsState
  <2> DEFINE c == e[1]
  <2>1. /\ c \in Conns /\ ConnInv(c)
        /\ e = Client(c) \/ e = Server(c)
        /\ handler[e] \in {"idle", "initStart", "initReply"}
        /\ inbox[e] # <<>>
    BY EndFacts
  <2> HIDE DEF c
  <2>2. CASE e = Server(c)
    BY <2>1, <2>2 DEF ConnInv, Wire, ServerInv, Fresh
  <2>3. CASE e = Client(c)
    <3>1. inbox[e][i].type # "InitStart"
      BY <2>1, <2>3 DEF ConnInv, Wire
    <3>2. ASSUME inbox[e][i].type = "InitReply", ~(i = 1 /\ handler[e] = "initReply")
          PROVE  phase[e] \in {"NotReady", "deleted"} /\ created[e] = 0
      <4>1. Before(c)
        BY <2>1, <2>3, <3>2 DEF ConnInv, Wire, Before
      <4>2. ~Unstarted(c)
        BY <2>1, <2>3 DEF ConnInv, StartInv
      <4> QED
        BY <2>1, <2>3, <4>1, <4>2 DEF ConnInv, ClientInv, Before
    <3> QED
      BY <3>1, <3>2
  <2> QED
    BY <2>1, <2>2, <2>3
<1> QED
  BY <1>1, SafeInit, SafeStep, PTL DEF Spec

(* Both ends of an established session have the same id.                   *)
THEOREM IdsAgree == Spec => []IdAgreement
<1>1. SafeInv => IdAgreement
  BY DEF SafeInv, AllConnInv, ConnInv, IdInv, IdAgreement
<1> QED
  BY <1>1, SafeInit, SafeStep, PTL DEF Spec

(* Two sessions that a process has on the same side never share an id,     *)
(* however many processes connect to it, until a counter wraps around.     *)
THEOREM IdsUnique == Spec => []UniqueIdsPerSide
<1>1. SafeInv => UniqueIdsPerSide
  <2> SUFFICES ASSUME SafeInv, \A p \in Procs : counter[p] < IdBase,
                      NEW e \in Ends, NEW f \in Ends,
                      e # f, e[2] = f[2], Owner(e) = Owner(f), created[e] > 0, created[f] > 0
               PROVE  sessionId[e] # sessionId[f]
    BY DEF UniqueIdsPerSide
  <2>1. /\ e[1] \in Conns /\ ConnInv(e[1]) /\ f[1] \in Conns /\ ConnInv(f[1])
        /\ \A c \in Conns : ClientOf[c] \in Procs /\ ServerOf[c] \in Procs
    BY EndFacts, ConstantsAssumption DEF ConstantsAssumption
  <2>2. CASE e[2] = "client"
    <3>1. e = Client(e[1]) /\ f = Client(f[1]) /\ e[1] # f[1] /\ ClientOf[e[1]] = ClientOf[f[1]]
      <4>1. e = Client(e[1]) /\ f = Client(f[1])
        BY <2>2, EndFacts
      <4>2. Owner(e) = ClientOf[e[1]] /\ Owner(f) = ClientOf[f[1]]
        BY <2>2 DEF Owner
      <4>3. e[1] # f[1]
        BY <4>1
      <4> QED
        BY <4>1, <4>2, <4>3
    <3>2. ~Unstarted(e[1]) /\ ~Unstarted(f[1])
      BY <2>1, <3>1 DEF ConnInv, StartInv, Before
    <3>3. Low(e[1]) # Low(f[1])
      <4>1. counter[ClientOf[e[1]]] < IdBase
        BY <2>1
      <4> QED
        BY <2>1, <3>1, <3>2, <4>1 DEF SafeInv, NumberInv
    <3> QED
      BY <3>1, <3>3 DEF Low
  <2>3. CASE e[2] = "server"
    <3>1. e = Server(e[1]) /\ f = Server(f[1]) /\ e[1] # f[1] /\ ServerOf[e[1]] = ServerOf[f[1]]
      <4>1. e = Server(e[1]) /\ f = Server(f[1])
        BY <2>3, EndFacts
      <4>2. Owner(e) = ServerOf[e[1]] /\ Owner(f) = ServerOf[f[1]]
        BY <2>3 DEF Owner
      <4>3. e[1] # f[1]
        BY <4>1
      <4> QED
        BY <4>1, <4>2, <4>3
    <3>2. ~Fresh(e[1]) /\ ~Fresh(f[1])
      BY <3>1 DEF Fresh
    <3>3. High(e[1]) # High(f[1])
      <4>1. counter[ServerOf[e[1]]] < IdBase
        BY <2>1
      <4> QED
        BY <2>1, <3>1, <3>2, <4>1 DEF SafeInv, NumberInv
    <3> QED
      BY <3>1, <3>3 DEF High
  <2> QED
    BY <2>2, <2>3, EndFacts
<1> QED
  BY <1>1, SafeInit, SafeStep, PTL DEF Spec

(* Whoever closes a session, and however many do so at the same time, the  *)
(* application gets each callback at most once and in the right order.     *)
THEOREM CallbacksInOrder == Spec => []CallbackOrder
<1>1. SafeInv => CallbackOrder
  <2> SUFFICES ASSUME SafeInv, NEW e \in Ends
               PROVE  /\ created[e] <= 1
                      /\ closed[e] <= 1
                      /\ closed[e] > 0 => phase[e] \in {"NotConnected", "deleted"}
                      /\ closed[e] > created[e] => e[2] = "client" /\ starter[e[1]] = "failing"
    BY DEF CallbackOrder
  <2>1. /\ ConnInv(e[1]) /\ created[e] \in Nat /\ closed[e] \in Nat
        /\ e[2] \in {"client", "server"}
    BY EndFacts
  <2>2. CASE e[2] = "client"
    <3>1. e = Client(e[1])
      BY <2>2, EndFacts
    <3> QED
      BY <2>1, <2>2, <3>1 DEF ConnInv, ClientInv
  <2>3. CASE e[2] = "server"
    <3>1. e = Server(e[1])
      BY <2>3, EndFacts
    <3> QED
      BY <2>1, <3>1 DEF ConnInv, ServerInv
  <2> QED
    BY <2>1, <2>2, <2>3
<1> QED
  BY <1>1, SafeInit, SafeStep, PTL DEF Spec

===============================================================================
