------------------------ MODULE SessionRegistryProofs ------------------------
(* The map of sessions and the list of open replies of SessionProtocol,    *)
(* for every value of its constants: what is ready is registered, and the  *)
(* entry of INIT_START is gone when the session is handed over.            *)
EXTENDS SessionHandshakeProofs

-----------------------------------------------------------------------------
(* What no step takes back: counters and message-ids only grow, and an id  *)
(* stays as it is once it was given.                                       *)

Forward ==
    /\ \A p \in Procs : counter'[p] >= counter[p]
    /\ \A e \in Ends : /\ lastMid'[e] >= lastMid[e]
                       /\ lastMid'[e] # lastMid[e] => ~Unstarted(e[1])'
    /\ \A c \in Conns : /\ Unstarted(c)' => Unstarted(c)
                        /\ ~Unstarted(c)' /\ Unstarted(c) => lastMid'[Client(c)] # lastMid[Client(c)]
                        /\ ~Unstarted(c) => Low(c)' = Low(c)
                        /\ ~Fresh(c) => ~Fresh(c)' /\ UNCHANGED sessionId[Server(c)]
                        /\ Before(c) => Before(c)' \/ ProcessInitReply(Client(c))

(* The types of what this module is about.                                 *)
LEMMA RegistryTypes ==
    ASSUME SafeInv
    PROVE  /\ counter \in [Procs -> Nat]
           /\ lastMid \in [Ends -> Nat]
           /\ created \in [Ends -> Nat]
           /\ sessionId \in [Ends -> Ids]
           /\ sessions \in [Procs -> SUBSET (Ids \X Ends)]
           /\ messageList \in [Procs -> Seq(Entries)]
           /\ inbox \in [Ends -> Seq(Msgs)]
           /\ phase \in [Ends -> {"none", "NotConnected", "NotReady", "Ready", "deleted"}]
           /\ handler \in [Ends -> {"idle", "initStart", "initReply"}]
           /\ starter \in [Conns -> {"none", "waiting", "returned", "failing", "failed", "refused"}]
BY DEF SafeInv, TypeInv, BaseTypes

(* The application and the threads act on sessions that were started.      *)
LEMMA StartedLemma ==
    ASSUME SafeInv, NEW e \in Ends, phase[e] = "Ready" \/ app[e] # "idle" \/ created[e] > 0
    PROVE  /\ e[1] \in Conns
           /\ ~Unstarted(e[1])
           /\ e = Server(e[1]) => ~Fresh(e[1])
           /\ e = Client(e[1]) => ~Before(e[1])
           /\ e = Client(e[1]) \/ e = Server(e[1])
<1>1. e[1] \in Conns /\ e \in {Client(e[1]), Server(e[1])}
  BY EndsLemma
<1>2. CASE phase[e] = "Ready"
  BY <1>1, <1>2, ConnFacts
<1>3. CASE created[e] > 0
  <2>1. ConnInv(e[1]) /\ created[e] \in Nat
    BY <1>1, ConnFacts
  <2> QED
    BY <1>1, <1>3, <2>1, ConnLemma DEF ConnInv, StartInv, Before, Fresh
<1>4. CASE app[e] # "idle"
  BY <1>1, <1>3, <1>4, AppFacts
<1> QED
  BY <1>2, <1>3, <1>4

(* A step outside of the handshake.                                        *)
LEMMA QuietForward ==
    ASSUME SafeInv, UNCHANGED <<counter, sessionId, created, handler>>,
           \A c \in Conns : Unstarted(c)' <=> Unstarted(c),
           NEW e \in Ends,
           \/ UNCHANGED lastMid
           \/ lastMid' = [lastMid EXCEPT ![e] = @ + 1] /\ ~Unstarted(e[1])
    PROVE  Forward
<1>1. /\ counter \in [Procs -> Nat] /\ lastMid \in [Ends -> Nat] /\ e[1] \in Conns
  BY RegistryTypes, EndsLemma
<1>2. \A f \in Ends : /\ lastMid'[f] >= lastMid[f]
                      /\ lastMid'[f] # lastMid[f] => ~Unstarted(f[1])'
  BY <1>1
<1>3. \A p \in Procs : counter'[p] >= counter[p]
  BY <1>1
<1>4. \A c \in Conns : Low(c)' = Low(c) /\ Fresh(c)' = Fresh(c) /\ Before(c)' = Before(c)
  BY DEF Low, Fresh, Before
<1> QED
  BY <1>2, <1>3, <1>4 DEF Forward

(* A wait-loop of startSession that returns, gives up or fails starts and   *)
(* frees no session: what was started before it still counts.               *)
LEMMA PollForward ==
    ASSUME SafeInv, NEW c \in Conns, Poll(c)
    PROVE  Forward
<1>1. Client(c) \in Ends /\ Client(c)[1] = c
  BY ConnLemma, DistinctEnds
<1>2. ~Unstarted(c) /\ \A d \in Conns : Unstarted(d)' <=> Unstarted(d)
  <2>1. PICK s \in {"returned", "failing", "failed"} : starter' = [starter EXCEPT ![c] = s]
    BY DEF Poll, StartSessionReturns, StartSessionGivesUp, StartSessionFails
  <2>2. starter[c] \in {"waiting", "failing"}
    BY DEF Poll, StartSessionReturns, StartSessionGivesUp, StartSessionFails
  <2>3. starter'[c] = s /\ \A d \in Conns : d # c => starter'[d] = starter[d]
    BY <2>1, RegistryTypes
  <2> QED
    BY <2>2, <2>3 DEF Unstarted
<1>3. UNCHANGED <<counter, sessionId, created, handler>>
  BY DEF Poll, StartSessionReturns, StartSessionGivesUp, StartSessionFails, procVars, objVars,
         callbackVars
<1>4. UNCHANGED lastMid \/ lastMid' = [lastMid EXCEPT ![Client(c)] = @ + 1]
  BY DEF Poll, StartSessionReturns, StartSessionGivesUp, StartSessionFails, DeleteSession,
         AnnounceClose, objVars
<1> QED
  BY <1>1, <1>2, <1>3, <1>4, QuietForward

(* A heartbeat and what the application does take nothing back.             *)
LEMMA OwnSideForward ==
    ASSUME SafeInv, NEW e \in Ends, SendHeartbeat(e) \/ Application(e)
    PROVE  Forward
<1>1. UNCHANGED <<counter, sessionId, created, handler, starter>>
  BY DEF SendHeartbeat, Application, CloseSession, SendCloseStart, FinishClose, AppDeletes,
         threadVars, objVars, callbackVars
<1>2. UNCHANGED lastMid \/ lastMid' = [lastMid EXCEPT ![e] = @ + 1]
  BY DEF SendHeartbeat, Application, CloseSession, SendCloseStart, FinishClose, AppDeletes,
         DeleteSession, AnnounceClose, objVars
<1>3. phase[e] = "Ready" \/ app[e] # "idle" \/ created[e] > 0
  BY DEF SendHeartbeat, Application, CloseSession, SendCloseStart, FinishClose, AppDeletes,
         AppHolds
<1>4. ~Unstarted(e[1])
  BY <1>3, StartedLemma
<1> QED
  BY <1>1, <1>2, <1>4, QuietForward DEF Unstarted

(* Nor do the handlers of an established session.                           *)
LEMMA EstablishedForward ==
    ASSUME SafeInv, NEW e \in Ends,
           \/ ProcessCloseStart(e) \/ ProcessCloseReply(e)
           \/ ProcessHeartbeatStart(e) \/ ProcessHeartbeatReply(e)
    PROVE  Forward
<1>1. UNCHANGED <<counter, sessionId, created, handler, starter, lastMid>>
  BY DEF ProcessCloseStart, ProcessCloseReply, ProcessHeartbeatStart, ProcessHeartbeatReply,
         threadVars, objVars, procVars, callbackVars
<1> QED
  BY <1>1, QuietForward DEF Unstarted

(* The start of a session: a new id, for a session nobody has seen yet.    *)
LEMMA StartForward ==
    ASSUME SafeInv, NEW c \in Conns, Start(c) \/ ProcessConnection(c)
    PROVE  Forward
<1> DEFINE e == Client(c)
<1>0. /\ e \in Ends /\ e[1] = c /\ \A d \in Conns : Server(d) # e /\ (Client(d) = e => d = c)
      /\ ClientOf[c] \in Procs
      /\ counter \in [Procs -> Nat] /\ lastMid \in [Ends -> Nat] /\ sessionId \in [Ends -> Ids]
  BY ConnLemma, DistinctEnds, RegistryTypes
<1>1. UNCHANGED <<created, handler>>
  BY DEF Start, StartSession, StartSessionRefused, ProcessConnection, callbackVars, threadVars
<1>2. \A d \in Conns : Fresh(d)' = Fresh(d) /\ Before(d)' = Before(d)
  BY <1>1 DEF Fresh, Before
<1>3. CASE ProcessConnection(c)
  <2>1. UNCHANGED <<counter, sessionId, starter, lastMid>>
    BY <1>3 DEF ProcessConnection, procVars, threadVars
  <2> QED
    BY <1>0, <1>1, <2>1, QuietForward DEF Unstarted
<1>4. CASE Start(c)
  <2>1. /\ starter[c] = "none"
        /\ counter' \in {counter, [counter EXCEPT ![ClientOf[c]] = @ + 1]}
    BY <1>4 DEF Start, StartSession, StartSessionRefused
  <2>2. \/ /\ starter' = [starter EXCEPT ![c] = "waiting"]
           /\ lastMid' = [lastMid EXCEPT ![e] = @ + 1]
           /\ sessionId' = [sessionId EXCEPT ![e] = InitialId(counter[ClientOf[c]] + 1)]
        \/ /\ starter' = [starter EXCEPT ![c] = "refused"]
           /\ UNCHANGED <<lastMid, sessionId>>
    BY <1>4 DEF Start, StartSession, StartSessionRefused
  <2> HIDE DEF e
  <2>3. \A f \in Ends : f # e => sessionId'[f] = sessionId[f] /\ lastMid'[f] = lastMid[f]
    BY <1>0, <2>2
  <2>4. \A d \in Conns : d # c => starter'[d] = starter[d]
    BY <2>2, RegistryTypes
  <2>5. Unstarted(c) /\ \A d \in Conns : d # c => Unstarted(d)' = Unstarted(d)
    BY <2>1, <2>4 DEF Unstarted
  <2>6. \A d \in Conns : /\ UNCHANGED sessionId[Server(d)]
                         /\ d # c => Low(d)' = Low(d)
    BY <1>0, <2>3, ConnLemma DEF Low, e
  <2>7. /\ \A f \in Ends : lastMid'[f] >= lastMid[f]
        /\ \A p \in Procs : counter'[p] >= counter[p]
    BY <1>0, <2>1, <2>2
  <2>8. /\ lastMid'[e] # lastMid[e] => ~Unstarted(c)'
        /\ ~Unstarted(c)' => lastMid'[e] # lastMid[e]
    BY <1>0, <2>2, RegistryTypes DEF Unstarted
  <2>9. \A f \in Ends : lastMid'[f] # lastMid[f] => ~Unstarted(f[1])'
    BY <1>0, <2>3, <2>8
  <2> QED
    BY <1>2, <2>5, <2>6, <2>7, <2>8, <2>9 DEF Forward, e
<1> QED
  BY <1>3, <1>4

(* The handshake: the server's id is given once, the client's completed.   *)
LEMMA HandshakeForward ==
    ASSUME SafeInv, NEW c \in Conns, NEW e \in {Client(c), Server(c)},
           \/ ProcessInitStart(e) \/ SendInitReply(e)
           \/ ProcessInitReply(e) \/ FinishSessionReady(e)
    PROVE  Forward
<1>0. /\ e \in Ends /\ e[1] = c /\ ConnInv(c) /\ Owner(e) \in Procs
      /\ Client(c) \in Ends /\ Server(c) \in Ends /\ Client(c) # Server(c)
      /\ \A d \in Conns : d # c => Client(d) # e /\ Server(d) # e
      /\ \A d \in Conns : Client(d) \in Ends /\ Server(d) \in Ends
      /\ inbox[e] \in Seq(Msgs)
      /\ counter \in [Procs -> Nat] /\ lastMid \in [Ends -> Nat] /\ sessionId \in [Ends -> Ids]
      /\ created \in [Ends -> Nat]
      /\ handler \in [Ends -> {"idle", "initStart", "initReply"}]
  <2>1. /\ e \in Ends /\ e[1] = c /\ ConnInv(c) /\ Owner(e) \in Procs
        /\ inbox[e] \in Seq(Msgs)
    BY ConnFacts
  <2>2. \A d \in Conns : Client(d) \in Ends /\ Server(d) \in Ends
    BY ConnLemma
  <2>3. /\ Client(c) # Server(c)
        /\ \A d \in Conns : d # c => Client(d) # e /\ Server(d) # e
    BY DistinctEnds
  <2> QED
    BY <2>1, <2>2, <2>3, RegistryTypes
<1>1. UNCHANGED <<lastMid, starter>>
  BY DEF ProcessInitStart, SendInitReply, ProcessInitReply, FinishSessionReady, objVars
<1>2. \A d \in Conns : Unstarted(d)' = Unstarted(d)
  BY <1>1 DEF Unstarted
<1>3. \A f \in Ends : f # e => UNCHANGED <<created[f], handler[f], sessionId[f]>>
  BY <1>0 DEF ProcessInitStart, SendInitReply, ProcessInitReply, FinishSessionReady, objVars,
              callbackVars
<1>4. \A p \in Procs : counter'[p] >= counter[p]
  <2>1. UNCHANGED counter \/ counter' = [counter EXCEPT ![Owner(e)] = @ + 1]
    BY DEF ProcessInitStart, SendInitReply, ProcessInitReply, FinishSessionReady, procVars
  <2>2. counter \in [Procs -> Nat] /\ Owner(e) \in Procs
    BY <1>0
  <2>3. CASE UNCHANGED counter
    BY <2>2, <2>3
  <2>4. CASE counter' = [counter EXCEPT ![Owner(e)] = @ + 1]
    BY <2>2, <2>4
  <2> QED
    BY <2>1, <2>3, <2>4
<1>5. \A d \in Conns : d # c => /\ Fresh(d)' = Fresh(d) /\ Before(d)' = Before(d)
                                /\ Low(d)' = Low(d) /\ UNCHANGED sessionId[Server(d)]
  BY <1>0, <1>3 DEF Fresh, Before, Low
<1>6. /\ Low(c)' = Low(c)
      /\ ~Fresh(c) => ~Fresh(c)' /\ UNCHANGED sessionId[Server(c)]
      /\ Before(c) => Before(c)' \/ ProcessInitReply(Client(c))
  <2>1. CASE ProcessInitStart(e)
    <3>1. /\ inbox[e] # <<>> /\ inbox[e][1].type = "InitStart" /\ handler[e] = "idle"
          /\ 1 \in DOMAIN inbox[e]
      BY <1>0, <2>1 DEF ProcessInitStart, Receives
    <3>2. e = Server(c) /\ Fresh(c)
      BY <1>0, <3>1 DEF ConnInv, Wire
    <3> QED
      BY <1>0, <1>3, <3>2 DEF Low, Before
  <2>2. CASE SendInitReply(e)
    <3>1. e = Server(c) /\ UNCHANGED <<created, sessionId>>
      BY <1>0, <2>2 DEF SendInitReply, ConnInv, Wire, objVars, callbackVars
    <3> QED
      BY <1>0, <1>3, <3>1 DEF Low, Before, Fresh
  <2>3. CASE ProcessInitReply(e)
    <3>1. /\ inbox[e] # <<>> /\ inbox[e][1].type = "InitReply" /\ 1 \in DOMAIN inbox[e]
          /\ UNCHANGED <<created, sessionId>>
      BY <1>0, <2>3 DEF ProcessInitReply, Receives, callbackVars
    <3>2. e = Client(c)
      BY <1>0, <3>1 DEF ConnInv, Wire
    <3> QED
      BY <2>3, <3>1, <3>2 DEF Low, Fresh
  <2>4. CASE FinishSessionReady(e)
    <3>1. /\ handler[e] = "initReply"
          /\ sessionId' = [sessionId EXCEPT ![e] = Head(inbox[e]).arg]
      BY <2>4 DEF FinishSessionReady
    <3>2. e = Client(c) /\ ~Before(c)
      BY <1>0, <3>1 DEF ConnInv, Wire, Before
    <3>3. /\ inbox[e] # <<>> /\ inbox[e][1].type = "InitReply" /\ 1 \in DOMAIN inbox[e]
          /\ inbox[e][1].arg = sessionId[Server(c)] /\ Head(inbox[e]) = inbox[e][1]
      <4>1. inbox[e] # <<>> /\ inbox[e][1].type = "InitReply"
        BY <1>0, <3>1, <3>2 DEF ConnInv, Wire
      <4>2. 1 \in DOMAIN inbox[e] /\ Head(inbox[e]) = inbox[e][1]
        BY <1>0, <4>1
      <4> QED
        BY <1>0, <3>2, <4>1, <4>2 DEF ConnInv, Wire
    <3>4. ~Fresh(c) /\ sessionId[Server(c)][2] = sessionId[Client(c)][2]
      BY <1>0, <3>2 DEF ConnInv, Wire, IdInv
    <3> QED
      BY <1>0, <1>3, <3>1, <3>2, <3>3, <3>4 DEF Low, Fresh
  <2> QED
    BY <2>1, <2>2, <2>3, <2>4
<1> QED
  BY <1>0, <1>1, <1>2, <1>4, <1>5, <1>6 DEF Forward

(* No step takes anything back.                                            *)
LEMMA ForwardStep == SafeInv /\ [Next]_vars => Forward
<1> SUFFICES ASSUME SafeInv, [Next]_vars
             PROVE  Forward
  OBVIOUS
<1>1. ASSUME NEW c \in Conns, Start(c) \/ Poll(c) \/ ProcessConnection(c)
      PROVE  Forward
  BY <1>1, StartForward, PollForward
<1>2. ASSUME NEW e \in Ends, Receive(e) \/ SendHeartbeat(e) \/ Application(e) \/ CutLink(e)
      PROVE  Forward
  <2>1. PICK c \in Conns : e \in {Client(c), Server(c)}
    BY EndsLemma
  <2>2. CASE Receive(e)
    BY <2>1, <2>2, HandshakeForward, EstablishedForward DEF Receive
  <2>3. CASE CutLink(e)
    BY <2>3, QuietForward DEF CutLink, procVars, objVars, threadVars, callbackVars, Unstarted
  <2> QED
    BY <1>2, <2>2, <2>3, OwnSideForward
<1>3. ASSUME NEW p \in Procs, Timer(p)
      PROVE  Forward
  <2>1. UNCHANGED <<counter, sessionId, created, handler, starter, lastMid>>
    BY <1>3, TimerLeaves
  <2>2. CASE Ends = {}
    BY <2>1, <2>2, RegistryTypes, ConnLemma DEF Forward
  <2>3. CASE Ends # {}
    BY <2>1, <2>3, QuietForward DEF Unstarted
  <2> QED
    BY <2>2, <2>3
<1>4. CASE UNCHANGED vars
  <2>1. UNCHANGED <<counter, sessionId, created, handler, starter, lastMid>>
    BY <1>4 DEF vars, procVars, objVars, threadVars, callbackVars
  <2>2. CASE Ends = {}
    BY <2>1, <2>2, RegistryTypes, ConnLemma DEF Forward
  <2>3. CASE Ends # {}
    BY <2>1, <2>3, QuietForward DEF Unstarted
  <2> QED
    BY <2>2, <2>3
<1> QED
  BY <1>1, <1>2, <1>3, <1>4 DEF Next

-----------------------------------------------------------------------------
(* Messages: INIT_START is the first message of its session and the reply  *)
(* repeats its message-id; the CLOSE messages carry no id in their body.   *)

Plain(m) ==
    /\ m.type \in {"InitStart", "InitReply"} => m.mid = 1
    /\ m.type \in {"CloseStart", "CloseReply"} => m.arg = ZeroId

AllPlain(box) == \A e \in Ends : \A i \in DOMAIN box[e] : Plain(box[e][i])

(* A session that was not started has sent nothing.                        *)
MidInv ==
    \A c \in Conns : IF Unstarted(c) THEN lastMid[Client(c)] = 0 ELSE lastMid[Client(c)] >= 1

(* The message-ids follow from what no step takes back.                    *)
LEMMA MidStep == SafeInv /\ Forward /\ TypeInv' /\ MidInv => MidInv'
<1> SUFFICES ASSUME SafeInv, Forward, TypeInv', MidInv, NEW c \in Conns
             PROVE  IF Unstarted(c)' THEN lastMid'[Client(c)] = 0 ELSE lastMid'[Client(c)] >= 1
  BY DEF MidInv
<1>1. /\ Client(c) \in Ends /\ Client(c)[1] = c
      /\ lastMid[Client(c)] \in Nat /\ lastMid'[Client(c)] \in Nat
  BY ConnLemma, DistinctEnds DEF SafeInv, TypeInv, BaseTypes
<1> QED
  BY <1>1 DEF Forward, MidInv

(* Sending a message of this kind, and taking one off.                     *)
LEMMA PlainSent ==
    ASSUME NEW box \in [Ends -> Seq(Msgs)], AllPlain(box), NEW e \in Ends,
           NEW m \in Msgs, Plain(m)
    PROVE  AllPlain(Sent(box, e, m))
<1> SUFFICES ASSUME NEW f \in Ends, NEW i \in DOMAIN Sent(box, e, m)[f]
             PROVE  Plain(Sent(box, e, m)[f][i])
  BY DEF AllPlain
<1>1. Sent(box, e, m)[f] = box[f] \/ Sent(box, e, m)[f] = Append(box[f], m)
  BY SentLemma
<1>2. \A q \in Seq(Msgs) : \A j \in DOMAIN Append(q, m) :
          (j \in DOMAIN q /\ Append(q, m)[j] = q[j]) \/ Append(q, m)[j] = m
  OBVIOUS
<1> QED
  BY <1>1, <1>2 DEF AllPlain

(* Nor does taking a message off.                                           *)
LEMMA PlainConsumed ==
    ASSUME inbox \in [Ends -> Seq(Msgs)], AllPlain(inbox), NEW e \in Ends, inbox[e] # <<>>
    PROVE  /\ Consumed(e) \in [Ends -> Seq(Msgs)]
           /\ AllPlain(Consumed(e))
           /\ Head(inbox[e]) \in Msgs
           /\ Plain(Head(inbox[e]))
<1>1. \A q \in Seq(Msgs) : q # <<>> =>
          /\ Head(q) = q[1] /\ 1 \in DOMAIN q
          /\ \A i \in DOMAIN Tail(q) : i + 1 \in DOMAIN q /\ Tail(q)[i] = q[i + 1]
  OBVIOUS
<1>2. /\ Consumed(e) \in [Ends -> Seq(Msgs)]
      /\ Consumed(e)[e] = Tail(inbox[e])
      /\ \A f \in Ends : f # e => Consumed(e)[f] = inbox[f]
      /\ Head(inbox[e]) \in Msgs
  BY ConsumedLemma
<1>3. ASSUME NEW f \in Ends, NEW i \in DOMAIN Consumed(e)[f]
      PROVE  Plain(Consumed(e)[f][i])
  <2>1. CASE f = e
    <3>1. inbox[e] \in Seq(Msgs) /\ i \in DOMAIN Tail(inbox[e])
      BY <1>2, <2>1
    <3>2. i + 1 \in DOMAIN inbox[e] /\ Tail(inbox[e])[i] = inbox[e][i + 1]
      BY <1>1, <3>1
    <3> QED
      BY <1>2, <2>1, <3>2 DEF AllPlain
  <2>2. CASE f # e
    BY <1>2, <2>2 DEF AllPlain
  <2> QED
    BY <2>1, <2>2
<1>4. Plain(Head(inbox[e]))
  <2>1. Head(inbox[e]) = inbox[e][1] /\ 1 \in DOMAIN inbox[e]
    BY <1>1
  <2> QED
    BY <2>1 DEF AllPlain
<1> QED
  BY <1>2, <1>3, <1>4 DEF AllPlain

(* CLOSE_START of closeSession.                                            *)
LEMMA CloseStartPlain ==
    ASSUME SafeInv, NEW e \in Ends
    PROVE  CloseStart(e) \in Msgs /\ Plain(CloseStart(e))
<1>1. sessionId[e] \in Ids /\ lastMid[e] + 1 \in Nat /\ "CloseStart" \in MsgTypes
  BY RegistryTypes DEF MsgTypes
<1> QED
  BY <1>1, MsgLemma, ZeroIdLemma DEF CloseStart, Plain

(* Every step leaves such messages only.                                   *)
LEMMA PlainStep == SafeInv /\ MidInv /\ AllPlain(inbox) /\ [Next]_vars => AllPlain(inbox')
<1> SUFFICES ASSUME SafeInv, MidInv, AllPlain(inbox), [Next]_vars
             PROVE  AllPlain(inbox')
  OBVIOUS
<1>0. /\ inbox \in [Ends -> Seq(Msgs)]
      /\ \A e \in Ends : sessionId[e] \in Ids /\ lastMid[e] + 1 \in Nat
  BY RegistryTypes
<1>1. ASSUME NEW e \in Ends, inbox' = inbox \/ inbox' = Sent(inbox, e, CloseStart(e))
      PROVE  AllPlain(inbox')
  <2>1. AllPlain(Sent(inbox, e, CloseStart(e)))
    BY <1>0, CloseStartPlain, PlainSent
  <2> QED
    BY <1>1, <2>1
<1>2. ASSUME NEW e \in Ends, AnnounceClose(e)
      PROVE  AllPlain(inbox')
  BY <1>1, <1>2 DEF AnnounceClose
<1>3. ASSUME NEW e \in Ends, inbox[e] # <<>>, NEW m \in Msgs, Plain(m),
             inbox' = Sent(Consumed(e), e, m)
      PROVE  AllPlain(inbox')
  BY <1>0, <1>3, PlainConsumed, PlainSent
<1>4. ASSUME NEW c \in Conns, StartSession(c)
      PROVE  AllPlain(inbox')
  <2> DEFINE e == Client(c)
             id == InitialId(counter[ClientOf[c]] + 1)
             m == Msg("InitStart", id, lastMid[e] + 1, id)
  <2>1. e \in Ends /\ Peer(e) \in Ends /\ lastMid[e] + 1 = 1 /\ id \in Ids
    <3>1. e \in Ends /\ Peer(e) \in Ends /\ ClientOf[c] \in Procs
      BY ConnLemma, EndsLemma
    <3>2. lastMid[e] = 0
      BY <1>4 DEF StartSession, MidInv, Unstarted
    <3>3. counter[ClientOf[c]] + 1 \in Nat
      BY <3>1, RegistryTypes
    <3> QED
      BY <3>1, <3>2, <3>3, InitialIdLemma
  <2>2. m \in Msgs /\ Plain(m)
    BY <2>1, MsgLemma DEF MsgTypes, Plain
  <2>3. inbox' = inbox \/ inbox' = [inbox EXCEPT ![Peer(e)] = Append(@, m)]
    BY <1>4 DEF StartSession
  <2> HIDE DEF m, e, id
  <2>4. ASSUME NEW f \in Ends
        PROVE  inbox'[f] = inbox[f] \/ inbox'[f] = Append(inbox[f], m)
    BY <1>0, <2>1, <2>3
  <2>5. \A q \in Seq(Msgs) : \A j \in DOMAIN Append(q, m) :
            (j \in DOMAIN q /\ Append(q, m)[j] = q[j]) \/ Append(q, m)[j] = m
    BY <2>2
  <2> SUFFICES ASSUME NEW f \in Ends, NEW i \in DOMAIN inbox'[f]
               PROVE  Plain(inbox'[f][i])
    BY DEF AllPlain
  <2>6. \/ i \in DOMAIN inbox[f] /\ inbox'[f][i] = inbox[f][i]
        \/ inbox'[f][i] = m
    BY <1>0, <2>4, <2>5
  <2> QED
    BY <2>2, <2>6 DEF AllPlain
<1>5. ASSUME NEW c \in Conns, Start(c) \/ Poll(c) \/ ProcessConnection(c)
      PROVE  AllPlain(inbox')
  <2>1. Client(c) \in Ends
    BY ConnLemma
  <2>2. CASE StartSessionRefused(c) \/ ProcessConnection(c) \/ StartSessionReturns(c)
    BY <2>2 DEF StartSessionRefused, ProcessConnection, StartSessionReturns, netVars
  <2>3. CASE StartSessionGivesUp(c) \/ StartSessionFails(c)
    BY <1>2, <2>1, <2>3 DEF StartSessionGivesUp, StartSessionFails, DeleteSession
  <2> QED
    BY <1>4, <1>5, <2>2, <2>3 DEF Start, Poll
<1>6. ASSUME NEW e \in Ends, Receive(e)
      PROVE  AllPlain(inbox')
  <2> DEFINE h == Head(inbox[e])
  <2>1. inbox[e] # <<>>
    <3>1. handler[e] # "idle" => inbox[e] # <<>>
      BY DEF SafeInv, TypeInv, HandlerHasMessage
    <3>2. (\E type \in MsgTypes : Receives(e, type)) \/ handler[e] # "idle"
      BY <1>6 DEF Receive, ProcessInitStart, SendInitReply, ProcessInitReply,
            FinishSessionReady, ProcessCloseStart, ProcessCloseReply, ProcessHeartbeatStart,
            ProcessHeartbeatReply, MsgTypes
    <3> QED
      BY <3>1, <3>2 DEF Receives
  <2>2. CASE UNCHANGED inbox
    BY <2>2
  <2>3. CASE inbox' = Consumed(e) /\ inbox[e] # <<>>
    BY <1>0, <2>3, PlainConsumed
  <2>4. CASE SendInitReply(e) /\ inbox[e] # <<>>
    <3> DEFINE m == Msg("InitReply", h.arg, h.mid, sessionId[e])
    <3>1. h \in Msgs /\ Plain(h) /\ h.type = "InitStart"
      <4>1. PICK c \in Conns : e \in {Client(c), Server(c)}
        BY EndsLemma
      <4>2. ConnInv(c) /\ handler[e] = "initStart"
        BY <2>4, <4>1, ConnFacts DEF SendInitReply
      <4>3. e = Server(c) /\ inbox[e][1].type = "InitStart"
        BY <4>1, <4>2 DEF ConnInv, Wire
      <4>4. h = inbox[e][1]
        BY <1>0, <2>4
      <4>5. h \in Msgs /\ Plain(h)
        BY <1>0, <2>4, PlainConsumed
      <4> QED
        BY <4>3, <4>4, <4>5
    <3>2. h.arg \in Ids /\ h.mid = 1
      BY <3>1 DEF Msgs, Plain
    <3>3. m \in Msgs /\ m.type = "InitReply" /\ m.mid = 1
      <4>1. "InitReply" \in MsgTypes /\ h.mid \in Nat
        BY <3>2 DEF MsgTypes
      <4> QED
        BY <1>0, <3>2, <4>1, MsgLemma
    <3>4. inbox' = Sent(Consumed(e), e, m)
      BY <2>4 DEF SendInitReply
    <3> QED
      BY <1>3, <2>4, <3>3, <3>4 DEF Plain
  <2>5. CASE (ProcessCloseStart(e) \/ ProcessHeartbeatStart(e)) /\ inbox[e] # <<>>
    <3>1. h.mid \in Nat
      BY <1>0, <2>5, PlainConsumed DEF Msgs
    <3>2. PICK type \in {"CloseReply", "HeartbeatReply"} :
             inbox' = Sent(Consumed(e), e, Msg(type, sessionId[e], h.mid, ZeroId))
      BY <2>5 DEF ProcessCloseStart, ProcessHeartbeatStart
    <3>3. /\ Msg(type, sessionId[e], h.mid, ZeroId) \in Msgs
          /\ Plain(Msg(type, sessionId[e], h.mid, ZeroId))
      BY <1>0, <3>1, MsgLemma, ZeroIdLemma DEF MsgTypes, Plain
    <3> QED
      BY <1>3, <2>5, <3>2, <3>3
  <2> QED
    BY <1>6, <2>1, <2>2, <2>3, <2>4, <2>5
    DEF Receive, ProcessInitStart, ProcessInitReply, FinishSessionReady, ProcessCloseReply,
        ProcessHeartbeatReply, netVars
<1>7. ASSUME NEW e \in Ends, SendHeartbeat(e)
      PROVE  AllPlain(inbox')
  <2> DEFINE m == Msg("HeartbeatStart", sessionId[e], lastMid[e] + 1, ZeroId)
  <2>1. m \in Msgs /\ Plain(m)
    BY <1>0, MsgLemma, ZeroIdLemma DEF MsgTypes, Plain
  <2>2. inbox' = Sent(inbox, e, m)
    BY <1>7 DEF SendHeartbeat
  <2> QED
    BY <1>0, <2>1, <2>2, PlainSent
<1>8. ASSUME NEW e \in Ends, Application(e)
      PROVE  AllPlain(inbox')
  BY <1>1, <1>2, <1>8 DEF Application, CloseSession, SendCloseStart, FinishClose, AppDeletes,
                          DeleteSession, netVars
<1>9. CASE UNCHANGED inbox
  BY <1>9
<1> QED
  BY <1>5, <1>6, <1>7, <1>8, <1>9, TimerLeaves DEF Next, CutLink, netVars, vars

-----------------------------------------------------------------------------
(* The list of messages that wait for a reply: marking, ticking and        *)
(* removing leave some of its requests, whatever their new order.          *)

Request(m) == <<m.session, m.sid, m.mid>>

Thins(new, old) ==
    \E g \in [1 .. Len(new) -> 1 .. Len(old)] :
        /\ \A i, j \in 1 .. Len(new) : g[i] = g[j] => i = j
        /\ \A i \in 1 .. Len(new) : Request(new[i]) = Request(old[g[i]])

(* A list with the same requests at the same positions.                    *)
LEMMA ThinsSame ==
    ASSUME NEW new, NEW old, Len(new) \in Nat, Len(new) = Len(old),
           \A i \in 1 .. Len(old) : Request(new[i]) = Request(old[i])
    PROVE  Thins(new, old)
<1> DEFINE g == [i \in 1 .. Len(new) |-> i]
<1>1. /\ g \in [1 .. Len(new) -> 1 .. Len(old)]
      /\ \A i, j \in 1 .. Len(new) : g[i] = g[j] => i = j
      /\ \A i \in 1 .. Len(new) : Request(new[i]) = Request(old[g[i]])
  OBVIOUS
<1> QED
  BY <1>1 DEF Thins

(* removeMessage takes the first match out; the last entry takes its place.*)
LEMMA RemoveShape ==
    ASSUME NEW l \in Seq(Entries), NEW sid, NEW mid, Matches(l, sid, mid) # {}
    PROVE  LET f == First(Matches(l, sid, mid))
               r == RemoveMessage(l, sid, mid)
           IN  /\ f \in 1 .. Len(l)
               /\ l[f].sid = sid /\ l[f].mid = mid
               /\ Len(r) = Len(l) - 1
               /\ \A i \in 1 .. Len(l) - 1 : r[i] = IF i = f THEN l[Len(l)] ELSE l[i]
<1> DEFINE f == First(Matches(l, sid, mid))
           t == SwapLast(l, f)
<1>1. f \in 1 .. Len(l) /\ l[f].sid = sid /\ l[f].mid = mid
  BY MatchesLemma
<1>2. RemoveMessage(l, sid, mid) = SubSeq(t, 1, Len(l) - 1)
  BY DEF RemoveMessage
<1>3. /\ t \in Seq(Entries)
      /\ Len(t) = Len(l)
      /\ \A j \in 1 .. Len(l) : t[j] = IF j = Len(l) THEN l[f] ELSE IF j = f THEN l[Len(l)] ELSE l[j]
  BY <1>1, SwapLastLemma
<1> HIDE DEF f, t
<1>4. /\ Len(SubSeq(t, 1, Len(l) - 1)) = Len(l) - 1
      /\ \A i \in 1 .. Len(l) - 1 : SubSeq(t, 1, Len(l) - 1)[i] = t[i]
  BY <1>1, <1>3
<1>5. \A i \in 1 .. Len(l) - 1 : i \in 1 .. Len(l) /\ i # Len(l)
  BY <1>1
<1> QED
  BY <1>1, <1>2, <1>3, <1>4, <1>5 DEF f

(* Removing the entry of a reply thins the list.                            *)
LEMMA ThinsRemove ==
    ASSUME NEW l \in Seq(Entries), NEW sid, NEW mid
    PROVE  Thins(RemoveMessage(l, sid, mid), l)
<1>1. CASE Matches(l, sid, mid) = {}
  <2>1. RemoveMessage(l, sid, mid) = l /\ Len(l) \in Nat
    BY <1>1 DEF RemoveMessage
  <2> QED
    BY <2>1, ThinsSame
<1>2. CASE Matches(l, sid, mid) # {}
  <2> DEFINE f == First(Matches(l, sid, mid))
             r == RemoveMessage(l, sid, mid)
             g == [i \in 1 .. Len(r) |-> IF i = f THEN Len(l) ELSE i]
  <2>1. /\ f \in 1 .. Len(l)
        /\ Len(r) = Len(l) - 1
        /\ \A i \in 1 .. Len(l) - 1 : r[i] = IF i = f THEN l[Len(l)] ELSE l[i]
    BY <1>2, RemoveShape
  <2> HIDE DEF f, r
  <2>2. Len(l) \in Nat
    OBVIOUS
  <2>3. \A i \in 1 .. Len(r) : i \in 1 .. Len(l) - 1 /\ i # Len(l) /\ i \in 1 .. Len(l)
    BY <2>1, <2>2
  <2>4. g \in [1 .. Len(r) -> 1 .. Len(l)]
    BY <2>1, <2>2, <2>3
  <2>5. \A i, j \in 1 .. Len(r) : g[i] = g[j] => i = j
    BY <2>3
  <2>6. \A i \in 1 .. Len(r) : Request(r[i]) = Request(l[g[i]])
    BY <2>1, <2>3
  <2> HIDE DEF g
  <2>7. Thins(r, l)
    BY <2>4, <2>5, <2>6 DEF Thins
  <2> QED
    BY <2>7 DEF r
<1> QED
  BY <1>1, <1>2

(* Marking the entries of a session and ticking the timers.                *)
LEMMA ThinsMark ==
    ASSUME NEW l \in Seq(Entries), NEW sid, NEW last
    PROVE  Thins(IgnoreAllOf(l, sid), l) /\ Thins(Ticked(l, last), l)
<1>1. Len(l) \in Nat
  OBVIOUS
<1>2. Thins(IgnoreAllOf(l, sid), l)
  BY <1>1, IgnoreAllOfLemma, ThinsSame DEF Request
<1>3. Thins(Ticked(l, last), l)
  BY <1>1, TickedLemma, ThinsSame DEF Request
<1> QED
  BY <1>2, <1>3

-----------------------------------------------------------------------------
(* What waits for a reply: requests of sessions of this process, each with *)
(* the id its session had then, no two of a session with the same number.  *)

Waits(p, m) ==
    /\ Owner(m.session) = p
    /\ m.mid \in 1 .. lastMid[m.session]
    /\ \A c \in Conns : m.session = Client(c) /\ m.mid = 1 => m.sid = <<0, Low(c)>>
    /\ \A c \in Conns : m.session = Server(c) => ~Fresh(c) /\ m.sid = sessionId[Server(c)]

ListOK(p, l) ==
    /\ \A i \in 1 .. Len(l) : Waits(p, l[i])
    /\ \A i, j \in 1 .. Len(l) : l[i].session = l[j].session /\ l[i].mid = l[j].mid => i = j

ListInv == \A p \in Procs : ListOK(p, messageList[p])

(* INIT_START of a client is not in the list.                              *)
NoInitOf(c, l) == \A i \in 1 .. Len(l) : ~(l[i].session = Client(c) /\ l[i].mid = 1)

(* It is gone when the client has processed the reply.                     *)
AnsweredInv ==
    \A c \in Conns : ~Before(c) /\ counter[ClientOf[c]] < IdBase
                        => NoInitOf(c, messageList[ClientOf[c]])

(* A new request of end e.                                                 *)
Adds(p, e, sid) ==
    /\ Owner(e) = p
    /\ messageList'[p] = Append(messageList[p], Entry(sid, lastMid[e] + 1, e))
    /\ lastMid'[e] = lastMid[e] + 1
    /\ \A c \in Conns : e = Client(c) /\ lastMid[e] = 0 => sid = <<0, Low(c)'>> /\ Before(c)'
    /\ \A c \in Conns : e = Server(c) => ~Fresh(c)' /\ sid = sessionId'[Server(c)]

ListMoves ==
    \A p \in Procs : \/ Thins(messageList'[p], messageList[p])
                     \/ \E e \in Ends, sid \in Ids : Adds(p, e, sid)

(* One list is thinned, the others stay.                                   *)
LEMMA ThinsAt ==
    ASSUME SafeInv, NEW p \in Procs, NEW new, Thins(new, messageList[p]),
           messageList' = [messageList EXCEPT ![p] = new]
    PROVE  ListMoves
<1>1. ASSUME NEW q \in Procs
      PROVE  Thins(messageList'[q], messageList[q])
  <2>1. messageList[q] \in Seq(Entries) /\ messageList \in [Procs -> Seq(Entries)]
    BY RegistryTypes
  <2>2. Len(messageList[q]) \in Nat
    BY <2>1
  <2>3. CASE q = p
    BY <2>1, <2>3
  <2>4. CASE q # p
    <3>1. messageList'[q] = messageList[q]
      BY <2>1, <2>4
    <3> QED
      BY <2>2, <3>1, ThinsSame
  <2> QED
    BY <2>3, <2>4
<1> QED
  BY <1>1 DEF ListMoves

(* Nothing happens to the lists.                                           *)
LEMMA ListsRest == SafeInv /\ UNCHANGED messageList => ListMoves
<1> SUFFICES ASSUME SafeInv, UNCHANGED messageList, NEW p \in Procs
             PROVE  Thins(messageList'[p], messageList[p])
  BY DEF ListMoves
<1>1. messageList[p] \in Seq(Entries)
  BY RegistryTypes
<1>2. Len(messageList[p]) \in Nat
  BY <1>1
<1> QED
  BY <1>2, ThinsSame

(* One list gets a request, the others stay.                               *)
LEMMA AddsAt ==
    ASSUME SafeInv, NEW e \in Ends, NEW sid \in Ids,
           messageList' = [messageList EXCEPT ![Owner(e)] =
                              Append(@, Entry(sid, lastMid[e] + 1, e))],
           lastMid' = [lastMid EXCEPT ![e] = @ + 1],
           \A c \in Conns : e = Client(c) /\ lastMid[e] = 0 => sid = <<0, Low(c)'>> /\ Before(c)',
           \A c \in Conns : e = Server(c) => ~Fresh(c)' /\ sid = sessionId'[Server(c)]
    PROVE  ListMoves
<1>1. /\ messageList \in [Procs -> Seq(Entries)]
      /\ lastMid \in [Ends -> Nat]
      /\ Owner(e) \in Procs
  BY RegistryTypes, EndsLemma
<1>2. Adds(Owner(e), e, sid)
  BY <1>1 DEF Adds
<1>3. ASSUME NEW q \in Procs, q # Owner(e)
      PROVE  Thins(messageList'[q], messageList[q])
  <2>1. messageList'[q] = messageList[q] /\ messageList[q] \in Seq(Entries)
    BY <1>1, <1>3
  <2>2. Len(messageList[q]) \in Nat
    BY <2>1
  <2> QED
    BY <2>1, <2>2, ThinsSame
<1> QED
  BY <1>2, <1>3 DEF ListMoves

(* The requests of closeSession and of the heartbeats.                     *)
LEMMA RequestAdded ==
    ASSUME SafeInv, MidInv, NEW e \in Ends,
           phase[e] = "Ready" \/ app[e] # "idle" \/ created[e] > 0,
           messageList' = [messageList EXCEPT ![Owner(e)] =
                              Append(@, Entry(sessionId[e], lastMid[e] + 1, e))],
           lastMid' = [lastMid EXCEPT ![e] = @ + 1],
           UNCHANGED <<sessionId, created>>
    PROVE  ListMoves
<1>1. sessionId[e] \in Ids
  BY RegistryTypes
<1>2. ASSUME NEW c \in Conns, e = Client(c)
      PROVE  lastMid[e] # 0
  <2>1. e[1] = c
    BY <1>2, DistinctEnds
  <2>2. ~Unstarted(c)
    BY <2>1, StartedLemma
  <2> QED
    BY <1>2, <2>2 DEF MidInv
<1>3. ASSUME NEW c \in Conns, e = Server(c)
      PROVE  ~Fresh(c)' /\ sessionId[e] = sessionId'[Server(c)]
  <2>1. e[1] = c
    BY <1>3, DistinctEnds
  <2>2. ~Fresh(c)
    BY <1>3, <2>1, StartedLemma
  <2> QED
    BY <1>3, <2>2 DEF Fresh
<1> QED
  BY <1>1, <1>2, <1>3, AddsAt

(* Every step thins a list, adds a request to it or leaves it alone.       *)
LEMMA ListMovesStep == SafeInv /\ MidInv /\ [Next]_vars => ListMoves
<1> SUFFICES ASSUME SafeInv, MidInv, [Next]_vars
             PROVE  ListMoves
  OBVIOUS
<1>0. /\ \A p \in Procs : messageList[p] \in Seq(Entries)
      /\ \A e \in Ends : Owner(e) \in Procs
  BY RegistryTypes, EndsLemma
<1>1. ASSUME NEW e \in Ends, AnnounceClose(e)
      PROVE  ListMoves
  <2>1. \/ UNCHANGED messageList
        \/ messageList' = [messageList EXCEPT ![Owner(e)] =
                              IgnoreAllOf(messageList[Owner(e)], sessionId[e])]
    BY <1>1 DEF AnnounceClose
  <2>2. Thins(IgnoreAllOf(messageList[Owner(e)], sessionId[e]), messageList[Owner(e)])
    BY <1>0, ThinsMark
  <2> QED
    BY <1>0, <2>1, <2>2, ListsRest, ThinsAt
<1>2. ASSUME NEW e \in Ends, NEW m, messageList' = Answered(e, m)
      PROVE  ListMoves
  <2>1. \/ UNCHANGED messageList
        \/ messageList' = [messageList EXCEPT ![Owner(e)] =
                              RemoveMessage(messageList[Owner(e)], m.sid, m.mid)]
    BY <1>2 DEF Answered
  <2>2. Thins(RemoveMessage(messageList[Owner(e)], m.sid, m.mid), messageList[Owner(e)])
    BY <1>0, ThinsRemove
  <2> QED
    BY <1>0, <2>1, <2>2, ListsRest, ThinsAt
<1>3. ASSUME NEW c \in Conns, StartSession(c)
      PROVE  ListMoves
  <2> DEFINE e == Client(c)
             id == InitialId(counter[ClientOf[c]] + 1)
  <2>1. /\ e \in Ends /\ Owner(e) = ClientOf[c] /\ ClientOf[c] \in Procs
        /\ \A d \in Conns : Server(d) # e /\ (Client(d) = e => d = c)
    BY ConnLemma, DistinctEnds
  <2>2. id \in Ids
    <3>1. counter[ClientOf[c]] + 1 \in Nat
      BY <2>1, RegistryTypes
    <3> QED
      BY <3>1, InitialIdLemma
  <2>3. /\ messageList' = [messageList EXCEPT ![ClientOf[c]] =
                               Append(@, Entry(id, lastMid[e] + 1, e))]
        /\ lastMid' = [lastMid EXCEPT ![e] = @ + 1]
        /\ sessionId' = [sessionId EXCEPT ![e] = id]
        /\ UNCHANGED <<handler, created>>
    BY <1>3 DEF StartSession, callbackVars
  <2>4. id = <<0, Low(c)'>>
    <3>1. sessionId'[Client(c)] = id
      BY <2>1, <2>3, RegistryTypes
    <3> QED
      BY <3>1 DEF Low, InitialId
  <2>5. Before(c)'
    <3>1. ConnInv(c) /\ Unstarted(c)
      BY <1>3, ConnFacts DEF StartSession, Unstarted
    <3> QED
      BY <2>3, <3>1 DEF ConnInv, StartInv, Before
  <2> HIDE DEF e, id
  <2>6. messageList' = [messageList EXCEPT ![Owner(e)] = Append(@, Entry(id, lastMid[e] + 1, e))]
    BY <2>1, <2>3
  <2>7. \A d \in Conns : e = Client(d) /\ lastMid[e] = 0 => id = <<0, Low(d)'>> /\ Before(d)'
    BY <2>1, <2>4, <2>5
  <2>8. \A d \in Conns : e = Server(d) => ~Fresh(d)' /\ id = sessionId'[Server(d)]
    BY <2>1
  <2> QED
    BY <2>1, <2>2, <2>3, <2>6, <2>7, <2>8, AddsAt
<1>4. ASSUME NEW c \in Conns, Start(c) \/ Poll(c) \/ ProcessConnection(c)
      PROVE  ListMoves
  <2>1. Client(c) \in Ends
    BY ConnLemma
  <2>2. CASE StartSessionRefused(c) \/ ProcessConnection(c) \/ StartSessionReturns(c)
    BY <2>2, ListsRest DEF StartSessionRefused, ProcessConnection, StartSessionReturns, procVars
  <2>3. CASE StartSessionGivesUp(c) \/ StartSessionFails(c)
    BY <1>1, <2>1, <2>3 DEF StartSessionGivesUp, StartSessionFails, DeleteSession
  <2> QED
    BY <1>3, <1>4, <2>2, <2>3 DEF Start, Poll
<1>5. ASSUME NEW e \in Ends, Receive(e)
      PROVE  ListMoves
  BY <1>2, <1>5, ListsRest
  DEF Receive, ProcessInitStart, SendInitReply, ProcessInitReply, FinishSessionReady,
      ProcessCloseStart, ProcessCloseReply, ProcessHeartbeatStart, ProcessHeartbeatReply, procVars
<1>6. ASSUME NEW e \in Ends, SendHeartbeat(e)
      PROVE  ListMoves
  BY <1>6, RequestAdded DEF SendHeartbeat, callbackVars
<1>7. ASSUME NEW e \in Ends, NEW replyExpected \in BOOLEAN, CloseSession(e, replyExpected)
      PROVE  ListMoves
  <2>1. messageList' = [messageList EXCEPT ![Owner(e)] =
                           IgnoreAllOf(messageList[Owner(e)], sessionId[e])]
    BY <1>7 DEF CloseSession
  <2>2. Thins(IgnoreAllOf(messageList[Owner(e)], sessionId[e]), messageList[Owner(e)])
    BY <1>0, ThinsMark
  <2> QED
    BY <1>0, <2>1, <2>2, ThinsAt
<1>8. ASSUME NEW e \in Ends, SendCloseStart(e)
      PROVE  ListMoves
  <2>1. UNCHANGED <<sessionId, created>> /\ app[e] # "idle"
    BY <1>8 DEF SendCloseStart, callbackVars
  <2>2. /\ lastMid' = [lastMid EXCEPT ![e] = @ + 1]
        /\ \/ UNCHANGED messageList
           \/ messageList' = [messageList EXCEPT ![Owner(e)] =
                                  Append(@, Entry(sessionId[e], lastMid[e] + 1, e))]
    BY <1>8 DEF SendCloseStart
  <2> QED
    BY <2>1, <2>2, ListsRest, RequestAdded
<1>9. ASSUME NEW e \in Ends, Application(e)
      PROVE  ListMoves
  BY <1>1, <1>7, <1>8, <1>9, ListsRest DEF Application, FinishClose, AppDeletes, DeleteSession
<1>10. ASSUME NEW p \in Procs, Timer(p)
       PROVE  ListMoves
  <2> DEFINE l == messageList[p]
  <2>1. ASSUME NEW last, messageList' = [messageList EXCEPT ![p] = Ticked(l, last)]
        PROVE  ListMoves
    <3>1. Thins(Ticked(l, last), l)
      BY <1>0, ThinsMark
    <3> QED
      BY <2>1, <3>1, ThinsAt
  <2>2. ASSUME NEW sid, NEW mid, messageList' = [messageList EXCEPT ![p] = RemoveMessage(l, sid, mid)]
        PROVE  ListMoves
    <3>1. Thins(RemoveMessage(l, sid, mid), l)
      BY <1>0, ThinsRemove
    <3> QED
      BY <2>2, <3>1, ThinsAt
  <2>3. CASE MakeTimerStep(p)
    BY <2>1, <2>3 DEF MakeTimerStep
  <2>4. CASE RemoveDue(p)
    BY <2>2, <2>4 DEF RemoveDue
  <2>5. CASE ReportDue(p)
    BY <2>5, ListsRest DEF ReportDue
  <2> QED
    BY <1>10, <2>3, <2>4, <2>5 DEF Timer
<1>11. CASE UNCHANGED messageList
  BY <1>11, ListsRest
<1> QED
  BY <1>4, <1>5, <1>6, <1>9, <1>10, <1>11 DEF Next, CutLink, procVars, vars

(* A request stays what it is, wherever it stands in the list.             *)
LEMMA WaitsKeeps ==
    ASSUME SafeInv, TypeInv', MidInv, Forward, NEW p, NEW m \in Entries, Waits(p, m),
           NEW n \in Entries, Request(n) = Request(m)
    PROVE  Waits(p, n)'
<1>1. /\ n.session = m.session /\ n.sid = m.sid /\ n.mid = m.mid
      /\ m.session \in Ends /\ m.mid \in Nat
  BY DEF Request, Entries
<1>2. /\ lastMid[m.session] \in Nat /\ lastMid'[m.session] \in Nat
      /\ lastMid'[m.session] >= lastMid[m.session]
  BY <1>1, RegistryTypes DEF TypeInv, BaseTypes, Forward
<1>3. m.mid \in 1 .. lastMid'[m.session]
  BY <1>1, <1>2 DEF Waits
<1>4. ASSUME NEW c \in Conns, m.session = Client(c), m.mid = 1
      PROVE  m.sid = <<0, Low(c)'>>
  <2>1. lastMid[Client(c)] # 0 /\ m.sid = <<0, Low(c)>>
    BY <1>2, <1>4 DEF Waits
  <2> QED
    BY <2>1 DEF MidInv, Forward
<1>5. ASSUME NEW c \in Conns, m.session = Server(c)
      PROVE  ~Fresh(c)' /\ m.sid = sessionId'[Server(c)]
  BY <1>5 DEF Waits, Forward
<1> QED
  BY <1>1, <1>3, <1>4, <1>5 DEF Waits

(* Every step keeps the requests in order.                                 *)
LEMMA ListStep ==
    SafeInv /\ TypeInv' /\ MidInv /\ ListInv /\ Forward /\ ListMoves => ListInv'
<1> SUFFICES ASSUME SafeInv, TypeInv', MidInv, ListInv, Forward, ListMoves, NEW p \in Procs
             PROVE  ListOK(p, messageList[p])'
  BY DEF ListInv
<1>0. PICK l, r : l = messageList[p] /\ r = messageList'[p]
  OBVIOUS
<1>1. l \in Seq(Entries) /\ r \in Seq(Entries) /\ lastMid \in [Ends -> Nat]
  BY <1>0 DEF SafeInv, TypeInv, BaseTypes
<1>2. /\ \A i \in 1 .. Len(l) : Waits(p, l[i])
      /\ \A i, j \in 1 .. Len(l) : l[i].session = l[j].session /\ l[i].mid = l[j].mid => i = j
  BY <1>0 DEF ListInv, ListOK
<1> SUFFICES /\ \A i \in 1 .. Len(r) : Waits(p, r[i])'
             /\ \A i, j \in 1 .. Len(r) : r[i].session = r[j].session /\ r[i].mid = r[j].mid => i = j
  BY <1>0 DEF ListOK, Waits
<1>3. CASE Thins(r, l)
  <2>1. PICK g \in [1 .. Len(r) -> 1 .. Len(l)] :
          /\ \A i, j \in 1 .. Len(r) : g[i] = g[j] => i = j
          /\ \A i \in 1 .. Len(r) : Request(r[i]) = Request(l[g[i]])
    BY <1>3 DEF Thins
  <2>2. \A i \in 1 .. Len(r) : /\ g[i] \in 1 .. Len(l)
                               /\ r[i] \in Entries /\ l[g[i]] \in Entries
    BY <1>1, <2>1
  <2>3. \A i \in 1 .. Len(r) : Waits(p, r[i])'
    BY <1>2, <2>1, <2>2, WaitsKeeps
  <2>4. \A i \in 1 .. Len(r) : r[i].session = l[g[i]].session /\ r[i].mid = l[g[i]].mid
    BY <2>1, <2>2 DEF Request
  <2>5. ASSUME NEW i \in 1 .. Len(r), NEW j \in 1 .. Len(r),
               r[i].session = r[j].session, r[i].mid = r[j].mid
        PROVE  i = j
    BY <1>2, <2>1, <2>2, <2>4, <2>5
  <2> QED
    BY <2>3, <2>5
<1>4. ASSUME NEW e \in Ends, NEW sid \in Ids, Adds(p, e, sid)
      PROVE  /\ \A i \in 1 .. Len(r) : Waits(p, r[i])'
             /\ \A i, j \in 1 .. Len(r) :
                   r[i].session = r[j].session /\ r[i].mid = r[j].mid => i = j
  <2>0. PICK n : n = Entry(sid, lastMid[e] + 1, e)
    OBVIOUS
  <2>1. lastMid[e] + 1 \in Nat /\ lastMid[e] \in Nat
    BY <1>1
  <2>2. n \in Entries /\ n.session = e /\ n.mid = lastMid[e] + 1 /\ n.sid = sid
    BY <2>0, <2>1, EntryLemma DEF Entry
  <2>3. r = Append(l, n)
    BY <1>0, <1>4, <2>0 DEF Adds
  <2>4. lastMid[e] + 1 \in 1 .. lastMid'[e]
    BY <1>4, <2>1 DEF Adds
  <2>5. lastMid[e] + 1 = 1 => lastMid[e] = 0
    BY <2>1
  <2>6. Waits(p, n)'
    <3>1. Owner(n.session) = p /\ n.mid \in 1 .. lastMid'[n.session]
      BY <1>4, <2>2, <2>4 DEF Adds
    <3>2. \A c \in Conns : n.session = Client(c) /\ n.mid = 1 => n.sid = <<0, Low(c)'>>
      BY <1>4, <2>2, <2>5 DEF Adds
    <3>3. \A c \in Conns : n.session = Server(c) => ~Fresh(c)' /\ n.sid = sessionId'[Server(c)]
      BY <1>4, <2>2 DEF Adds
    <3> QED
      BY <3>1, <3>2, <3>3 DEF Waits
  <2>7. /\ Len(l) \in Nat /\ Len(r) = Len(l) + 1 /\ r[Len(r)] = n
        /\ \A i \in 1 .. Len(l) : r[i] = l[i] /\ l[i] \in Entries
        /\ \A i \in 1 .. Len(r) : i \in 1 .. Len(l) \/ i = Len(r)
    BY <1>1, <2>2, <2>3
  <2>8. \A i \in 1 .. Len(r) : Waits(p, r[i])'
    <3>1. \A i \in 1 .. Len(l) : Waits(p, l[i])'
      BY <1>2, <2>7, WaitsKeeps
    <3> QED
      BY <2>6, <2>7, <3>1
  <2>9. \A i \in 1 .. Len(l) : ~(l[i].session = e /\ l[i].mid = n.mid)
    <3> SUFFICES ASSUME NEW i \in 1 .. Len(l), l[i].session = e, l[i].mid = n.mid
                 PROVE  FALSE
      OBVIOUS
    <3>1. l[i].mid \in 1 .. lastMid[e]
      BY <1>2 DEF Waits
    <3> QED
      BY <2>1, <2>2, <3>1
  <2>10. ASSUME NEW i \in 1 .. Len(r), NEW j \in 1 .. Len(r),
                r[i].session = r[j].session, r[i].mid = r[j].mid
         PROVE  i = j
    BY <1>2, <2>2, <2>7, <2>9, <2>10
  <2> QED
    BY <2>8, <2>10
<1> QED
  BY <1>0, <1>3, <1>4 DEF ListMoves

(* INIT_REPLY finds the entry of its own INIT_START, if it is still there. *)
LEMMA ReplyFindsInit ==
    ASSUME SafeInv, MidInv, ListInv, AllPlain(inbox), NEW c \in Conns,
           ProcessInitReply(Client(c)), Before(c), counter[ClientOf[c]] < IdBase
    PROVE  NoInitOf(c, messageList'[ClientOf[c]])
<1> DEFINE e == Client(c)
           p == ClientOf[c]
           m == Head(inbox[e])
           l == messageList[p]
           r == RemoveMessage(l, m.sid, m.mid)
<1>0. /\ e \in Ends /\ p \in Procs /\ Owner(e) = p /\ l \in Seq(Entries)
      /\ messageList \in [Procs -> Seq(Entries)]
      /\ ConnInv(c) /\ inbox \in [Ends -> Seq(Msgs)] /\ sessionId[e] \in Ids
  BY ConnLemma, ConnFacts, RegistryTypes
<1>1. inbox[e] # <<>> /\ m.type = "InitReply" /\ messageList' = Answered(e, m)
  BY DEF ProcessInitReply, Receives
<1>2. m = inbox[e][1] /\ 1 \in DOMAIN inbox[e] /\ m.mid = 1
  <2>1. m = inbox[e][1] /\ 1 \in DOMAIN inbox[e]
    BY <1>0, <1>1
  <2>2. Plain(m)
    BY <1>0, <2>1 DEF AllPlain
  <2> QED
    BY <1>1, <2>1, <2>2 DEF Plain
<1>3. m.sid = <<0, Low(c)>>
  <2>1. m.sid = sessionId[Client(c)] /\ sessionId[Client(c)][1] = 0
    BY <1>0, <1>1, <1>2 DEF ConnInv, Wire, IdInv
  <2> QED
    BY <1>0, <2>1 DEF Low, Ids
<1>4. messageList'[p] = r
  BY <1>0, <1>1 DEF Answered, IsReply
<1>5. /\ \A i \in 1 .. Len(l) : Waits(p, l[i])
      /\ \A i, j \in 1 .. Len(l) : l[i].session = l[j].session /\ l[i].mid = l[j].mid => i = j
  BY <1>0 DEF ListInv, ListOK
<1>6. ~Unstarted(c)
  BY <1>0, <1>1 DEF ConnInv, StartInv
<1> HIDE DEF e, p, m, l
<1>7. ASSUME NEW i \in 1 .. Len(l), l[i].session = Client(c), l[i].mid = 1
      PROVE  l[i].sid = m.sid /\ i \in Matches(l, m.sid, m.mid)
  <2>1. l[i].sid = m.sid
    BY <1>3, <1>5, <1>7 DEF Waits
  <2> QED
    BY <1>0, <1>2, <1>7, <2>1 DEF Matches
<1>8. CASE Matches(l, m.sid, m.mid) = {}
  <2>1. r = l
    BY <1>8 DEF RemoveMessage
  <2> QED
    BY <1>4, <1>7, <1>8, <2>1 DEF NoInitOf, p
<1>9. CASE Matches(l, m.sid, m.mid) # {}
  <2> DEFINE f == First(Matches(l, m.sid, m.mid))
  <2>1. /\ f \in 1 .. Len(l) /\ l[f].sid = m.sid /\ l[f].mid = 1
        /\ Len(r) = Len(l) - 1
        /\ \A i \in 1 .. Len(l) - 1 : r[i] = IF i = f THEN l[Len(l)] ELSE l[i]
    <3>1. /\ f \in 1 .. Len(l) /\ l[f].sid = m.sid /\ l[f].mid = m.mid
          /\ Len(r) = Len(l) - 1
          /\ \A i \in 1 .. Len(l) - 1 : r[i] = IF i = f THEN l[Len(l)] ELSE l[i]
      BY <1>0, <1>9, RemoveShape
    <3> QED
      BY <1>2, <3>1
  <2> HIDE DEF f, r
  <2>2. Waits(p, l[f]) /\ l[f].session \in Ends
    <3>1. l[f] \in Entries
      BY <1>0, <2>1
    <3> QED
      BY <1>5, <2>1, <3>1 DEF Entries
  <2>3. PICK d \in Conns : l[f].session \in {Client(d), Server(d)}
    BY <2>2, EndsLemma
  <2>4. l[f].session # Server(d)
    <3> SUFFICES ASSUME l[f].session = Server(d)
                 PROVE  FALSE
      OBVIOUS
    <3>1. ~Fresh(d) /\ sessionId[Server(d)] = m.sid /\ ServerOf[d] = p
      BY <2>1, <2>2, ConnLemma DEF Waits
    <3>2. High(d) \in 1 .. counter[p]
      BY <3>1 DEF SafeInv, NumberInv, p
    <3>3. High(d) = 0
      BY <1>3, <3>1 DEF High
    <3> QED
      BY <3>2, <3>3
  <2>5. l[f].session = Client(c)
    <3>1. l[f].session = Client(d) /\ ClientOf[d] = p /\ m.sid = <<0, Low(d)>>
      BY <2>1, <2>2, <2>3, <2>4, ConnLemma DEF Waits
    <3>2. lastMid[Client(d)] # 0
      <4>1. l[f].mid \in 1 .. lastMid[Client(d)]
        BY <2>2, <3>1 DEF Waits
      <4> QED
        BY <2>1, <4>1
    <3>3. ~Unstarted(d) /\ Low(d) = Low(c)
      BY <1>3, <3>1, <3>2 DEF MidInv
    <3>4. d = c
      BY <1>6, <3>1, <3>3 DEF SafeInv, NumberInv, p
    <3> QED
      BY <3>1, <3>4
  <2>6. ASSUME NEW i \in 1 .. Len(r), r[i].session = Client(c), r[i].mid = 1
        PROVE  FALSE
    <3>1. Len(l) \in Nat /\ i \in 1 .. Len(l) - 1 /\ i \in 1 .. Len(l) /\ i # Len(l)
      BY <1>0, <2>1, <2>6
    <3>2. Len(l) \in 1 .. Len(l)
      BY <2>1, <3>1
    <3> QED
      BY <1>5, <2>1, <2>5, <2>6, <3>1, <3>2
  <2> QED
    BY <1>4, <2>6 DEF NoInitOf, p, r
<1> QED
  BY <1>8, <1>9

(* So no step leaves INIT_START in the list of a client that has its reply.*)
LEMMA AnsweredStep ==
    ASSUME SafeInv, TypeInv', MidInv, ListInv, AllPlain(inbox), AnsweredInv, Forward, ListMoves
    PROVE  AnsweredInv'
<1> SUFFICES ASSUME NEW c \in Conns, ~Before(c)', counter'[ClientOf[c]] < IdBase
             PROVE  NoInitOf(c, messageList'[ClientOf[c]])
  BY DEF AnsweredInv, NoInitOf
<1>0. PICK p, l, r : p = ClientOf[c] /\ l = messageList[p] /\ r = messageList'[p]
  OBVIOUS
<1>1. /\ p \in Procs /\ l \in Seq(Entries) /\ r \in Seq(Entries)
      /\ lastMid \in [Ends -> Nat]
      /\ counter[p] < IdBase
  <2>1. /\ p \in Procs /\ l \in Seq(Entries) /\ r \in Seq(Entries) /\ lastMid \in [Ends -> Nat]
        /\ counter[p] \in Nat /\ counter'[p] \in Nat
    BY <1>0, ConnLemma DEF SafeInv, TypeInv, BaseTypes
  <2>2. counter'[p] >= counter[p] /\ counter'[p] < IdBase /\ IdBase \in Nat
    BY <1>0, <2>1, ConstantsAssumption DEF Forward, ConstantsAssumption
  <2> QED
    BY <2>1, <2>2
<1>2. CASE Before(c)
  <2>1. ProcessInitReply(Client(c))
    BY <1>2 DEF Forward
  <2> QED
    BY <1>0, <1>1, <1>2, <2>1, ReplyFindsInit
<1>3. CASE ~Before(c)
  <2>1. NoInitOf(c, l)
    BY <1>0, <1>1, <1>3 DEF AnsweredInv
  <2>2. CASE Thins(r, l)
    <3>1. PICK g \in [1 .. Len(r) -> 1 .. Len(l)] :
             \A i \in 1 .. Len(r) : Request(r[i]) = Request(l[g[i]])
      BY <2>2 DEF Thins
    <3>2. \A i \in 1 .. Len(r) : /\ g[i] \in 1 .. Len(l)
                                 /\ r[i].session = l[g[i]].session /\ r[i].mid = l[g[i]].mid
      BY <3>1 DEF Request
    <3> QED
      BY <1>0, <2>1, <3>2 DEF NoInitOf
  <2>3. ASSUME NEW e \in Ends, NEW sid \in Ids, Adds(p, e, sid)
        PROVE  NoInitOf(c, r)
    <3>0. PICK n : n = Entry(sid, lastMid[e] + 1, e)
      OBVIOUS
    <3>1. lastMid[e] + 1 \in Nat /\ (lastMid[e] + 1 = 1 => lastMid[e] = 0)
      BY <1>1
    <3>2. n \in Entries /\ n.session = e /\ n.mid = lastMid[e] + 1
      BY <3>0, <3>1, EntryLemma DEF Entry
    <3>3. ~(n.session = Client(c) /\ n.mid = 1)
      BY <2>3, <3>1, <3>2 DEF Adds
    <3>4. r = Append(l, n)
      BY <1>0, <2>3, <3>0 DEF Adds
    <3>5. \A i \in 1 .. Len(r) : (i \in 1 .. Len(l) /\ r[i] = l[i]) \/ r[i] = n
      BY <1>1, <3>2, <3>4
    <3> QED
      BY <2>1, <3>3, <3>5 DEF NoInitOf
  <2> QED
    BY <1>0, <1>1, <2>2, <2>3 DEF ListMoves
<1> QED
  BY <1>2, <1>3

-----------------------------------------------------------------------------
(* The inductive invariant of the replies.                                 *)
ReplyInv == AllPlain(inbox) /\ MidInv /\ ListInv /\ AnsweredInv

(* The invariant holds at the start ...                                     *)
LEMMA ReplyInit == Init => ReplyInv
<1> SUFFICES ASSUME Init
             PROVE  ReplyInv
  OBVIOUS
<1>1. AllPlain(inbox)
  BY DEF Init, AllPlain
<1>2. MidInv
  BY ConnLemma DEF Init, MidInv, Unstarted
<1>3. \A p \in Procs : 1 .. Len(messageList[p]) = {}
  <2>1. \A p \in Procs : messageList[p] = <<>>
    BY DEF Init
  <2>2. 1 .. Len(<<>>) = {}
    OBVIOUS
  <2> QED
    BY <2>1, <2>2, Zenon
<1>4. ListInv
  BY <1>3 DEF ListInv, ListOK
<1>5. AnsweredInv
  <2>1. \A c \in Conns : Before(c)
    BY ConnLemma DEF Init, Before
  <2> QED
    BY <2>1 DEF AnsweredInv
<1> QED
  BY <1>1, <1>2, <1>4, <1>5 DEF ReplyInv

(* ... and every step keeps it.                                             *)
LEMMA ReplyStepInv == SafeInv /\ ReplyInv /\ [Next]_vars => ReplyInv'
<1> SUFFICES ASSUME SafeInv, ReplyInv, [Next]_vars
             PROVE  ReplyInv'
  OBVIOUS
<1>1. AllPlain(inbox) /\ MidInv /\ ListInv /\ AnsweredInv
  BY DEF ReplyInv
<1>2. Forward /\ ListMoves /\ TypeInv'
  BY <1>1, ForwardStep, ListMovesStep, SafeStep DEF SafeInv
<1>3. AllPlain(inbox')
  BY <1>1, PlainStep
<1>4. MidInv'
  BY <1>1, <1>2, MidStep
<1>5. ListInv'
  BY <1>1, <1>2, ListStep
<1>6. AnsweredInv'
  BY <1>1, <1>2, AnsweredStep
<1>7. AllPlain(inbox)'
  BY <1>3 DEF AllPlain
<1> QED
  BY <1>4, <1>5, <1>6, <1>7 DEF ReplyInv

(* Once a client's create-callback was called, its INIT_START waits for no *)
(* reply: the entry was found and removed among those of all other         *)
(* sessions of the process, whatever the timer and closeSession did to the *)
(* order of the list.                                                      *)
THEOREM InitAnswered == Spec => []InitIsAnswered
<1>1. SafeInv /\ ReplyInv => InitIsAnswered
  <2> SUFFICES ASSUME SafeInv, ReplyInv, NEW c \in Conns, created[Client(c)] > 0,
                      counter[ClientOf[c]] < IdBase
               PROVE  \A i \in DOMAIN messageList[ClientOf[c]] :
                         LET m == messageList[ClientOf[c]][i]
                         IN  ~(m.session = Client(c) /\ m.mid = 1)
    BY DEF InitIsAnswered
  <2>1. ~Before(c)
    BY DEF Before
  <2>2. NoInitOf(c, messageList[ClientOf[c]])
    BY <2>1 DEF ReplyInv, AnsweredInv
  <2>3. messageList[ClientOf[c]] \in Seq(Entries)
    BY ConnLemma, RegistryTypes
  <2> QED
    BY <2>2, <2>3 DEF NoInitOf
<1> QED
  BY <1>1, SafeInit, SafeStep, ReplyInit, ReplyStepInv, PTL DEF Spec

-----------------------------------------------------------------------------
(* The map of sessions: the ids of a process that only connects or only    *)
(* accepts are all different, so that nothing else than the end of a       *)
(* session takes its entry out of the map.                                 *)

(* The session has the id of its side.                                     *)
Numbered(e) ==
    \A c \in Conns : /\ e = Client(c) => ~Unstarted(c)
                     /\ e = Server(c) => ~Fresh(c)

(* Until the client has both halves, it is registered under the low one.   *)
LEMMA RegisteredFacts ==
    ASSUME SafeInv, NEW c \in Conns
    PROVE  /\ RegisteredId(Client(c))[2] = Low(c)
           /\ RegisteredId(Server(c)) = sessionId[Server(c)]
           /\ Before(c) => RegisteredId(Client(c)) = sessionId[Client(c)]
<1>1. /\ ConnInv(c) /\ Client(c) \in Ends /\ inbox \in [Ends -> Seq(Msgs)]
  BY ConnFacts, RegistryTypes
<1>2. /\ RegisteredId(Server(c)) = sessionId[Server(c)]
      /\ Before(c) => RegisteredId(Client(c)) = sessionId[Client(c)]
  BY <1>1 DEF RegisteredId, ConnInv, Wire, Before
<1>3. CASE handler[Client(c)] = "initReply"
  <2>1. inbox[Client(c)] # <<>> /\ inbox[Client(c)][1].type = "InitReply"
    BY <1>1, <1>3 DEF ConnInv, Wire
  <2>2. 1 \in DOMAIN inbox[Client(c)] /\ Head(inbox[Client(c)]) = inbox[Client(c)][1]
    BY <1>1, <2>1
  <2>3. Head(inbox[Client(c)]).arg = sessionId[Server(c)] /\ ~Fresh(c)
    BY <1>1, <2>1, <2>2 DEF ConnInv, Wire
  <2> QED
    BY <1>1, <1>2, <1>3, <2>3 DEF RegisteredId, ConnInv, IdInv, Low
<1>4. CASE handler[Client(c)] # "initReply"
  BY <1>2, <1>4 DEF RegisteredId, Low
<1> QED
  BY <1>2, <1>3, <1>4

(* A registered or ready session has its id.                               *)
LEMMA NumberedLemma ==
    ASSUME SafeInv, NEW e \in Ends,
           \/ phase[e] = "Ready" \/ app[e] # "idle" \/ created[e] > 0
           \/ \E p \in Procs : \E x \in sessions[p] : x[2] = e
    PROVE  Numbered(e)
<1>0. PICK c \in Conns : e \in {Client(c), Server(c)} /\ e[1] = c
  BY EndsLemma, DistinctEnds
<1> SUFFICES (e = Client(c) => ~Unstarted(c)) /\ (e = Server(c) => ~Fresh(c))
  BY <1>0, DistinctEnds DEF Numbered
<1>1. CASE phase[e] = "Ready" \/ app[e] # "idle" \/ created[e] > 0
  BY <1>0, <1>1, StartedLemma
<1>2. CASE \E p \in Procs : \E x \in sessions[p] : x[2] = e
  <2>1. /\ phase[e] \notin {"none", "deleted"}
        /\ e[2] = "server" => created[e] > 0
    BY <1>2, MapByEntry DEF SafeInv, Registered
  <2>2. ConnInv(c) /\ created[e] \in Nat
    BY <1>0, ConnFacts
  <2>3. e = Server(c) => ~Fresh(c)
    BY <2>1, <2>2, DistinctEnds DEF Fresh
  <2>4. e = Client(c) => ~Unstarted(c)
    BY <2>1, <2>2 DEF ConnInv, StartInv
  <2> QED
    BY <2>3, <2>4
<1> QED
  BY <1>1, <1>2

(* The ids of one side.                                                    *)
LEMMA IdsDiffer ==
    ASSUME SafeInv, NEW p \in Procs, OneSided(p), counter[p] < IdBase,
           NEW e \in Ends, NEW f \in Ends, e # f, Owner(e) = p, Owner(f) = p,
           Numbered(e), Numbered(f)
    PROVE  RegisteredId(e) # sessionId[f] /\ RegisteredId(e) # RegisteredId(f)
<1>0. PICK c \in Conns, d \in Conns : e \in {Client(c), Server(c)} /\ f \in {Client(d), Server(d)}
  BY EndsLemma
<1>1. CASE e = Client(c)
  <2>1. ClientOf[c] = p
    BY <1>1, ConnLemma
  <2>2. f # Server(d)
    BY <2>1, ConnLemma DEF OneSided
  <2>3. f = Client(d) /\ ClientOf[d] = p /\ c # d /\ ~Unstarted(c) /\ ~Unstarted(d)
    BY <1>0, <1>1, <2>2, ConnLemma DEF Numbered
  <2>4. Low(c) # Low(d)
    BY <2>1, <2>3 DEF SafeInv, NumberInv
  <2>5. RegisteredId(e)[2] = Low(c) /\ RegisteredId(f)[2] = Low(d) /\ sessionId[f][2] = Low(d)
    BY <1>1, <2>3, RegisteredFacts DEF Low
  <2> QED
    BY <2>4, <2>5
<1>2. CASE e = Server(c)
  <2>1. ServerOf[c] = p
    BY <1>2, ConnLemma
  <2>2. f # Client(d)
    BY <2>1, ConnLemma DEF OneSided
  <2>3. f = Server(d) /\ ServerOf[d] = p /\ c # d /\ ~Fresh(c) /\ ~Fresh(d)
    BY <1>0, <1>2, <2>2, ConnLemma DEF Numbered
  <2>4. High(c) # High(d)
    BY <2>1, <2>3 DEF SafeInv, NumberInv
  <2>5. RegisteredId(e)[1] = High(c) /\ RegisteredId(f)[1] = High(d) /\ sessionId[f][1] = High(d)
    BY <1>2, <2>3, RegisteredFacts DEF High
  <2> QED
    BY <2>4, <2>5
<1> QED
  BY <1>0, <1>1, <1>2

(* And none of them is the id in the body of the CLOSE messages.           *)
LEMMA IdsNotZero ==
    ASSUME SafeInv, NEW e \in Ends, counter[Owner(e)] < IdBase, Numbered(e)
    PROVE  RegisteredId(e) # ZeroId
<1>0. PICK c \in Conns : e \in {Client(c), Server(c)}
  BY EndsLemma
<1>1. CASE e = Client(c)
  <2>1. Low(c) \in 1 .. counter[ClientOf[c]] /\ RegisteredId(e)[2] = Low(c)
    BY <1>1, ConnLemma, RegisteredFacts DEF SafeInv, NumberInv, Numbered
  <2> QED
    BY <2>1 DEF ZeroId
<1>2. CASE e = Server(c)
  <2>1. High(c) \in 1 .. counter[ServerOf[c]] /\ RegisteredId(e)[1] = High(c)
    BY <1>2, ConnLemma, RegisteredFacts DEF SafeInv, NumberInv, Numbered, High
  <2> QED
    BY <2>1 DEF ZeroId
<1> QED
  BY <1>0, <1>1, <1>2

(* What leaves a map: the entry of a session that ends, is deleted or has  *)
(* still its initial id, and what is filed under 0.                        *)
Leaves(p, x) ==
    \/ x[1] = ZeroId
    \/ \E f \in Ends : /\ Owner(f) = p /\ Numbered(f) /\ x[1] = sessionId[f]
                       /\ ~(phase[f] = "Ready" /\ phase'[f] = "Ready")

Drops == \A p \in Procs : \A x \in sessions[p] : x \in sessions'[p] \/ Leaves(p, x)

(* A session that ends takes the entries with its id along.                *)
LEMMA EndLeaves ==
    ASSUME NEW f \in Ends, Numbered(f), phase[f] # "Ready" \/ phase'[f] # "Ready"
    PROVE  \A x : x[1] = sessionId[f] => Leaves(Owner(f), x)
BY DEF Leaves

(* Removing the entries of one id, in one map.                             *)
LEMMA DropsAt ==
    ASSUME SafeInv, NEW p \in Procs, NEW map,
           sessions' = [sessions EXCEPT ![p] = map],
           \A x \in sessions[p] : x \in map \/ Leaves(p, x)
    PROVE  Drops
<1>1. sessions'[p] = map /\ \A q \in Procs : q # p => sessions'[q] = sessions[q]
  BY RegistryTypes
<1> QED
  BY <1>1 DEF Drops

(* endSession, after the caller has removed the id of the message.         *)
LEMMA EndSessionDrops ==
    ASSUME SafeInv, NEW e \in Ends, NEW map, EndSession(e, map),
           map = sessions[Owner(e)] \/ map = RemoveSession(sessions[Owner(e)], ZeroId)
    PROVE  Drops
<1>0. Owner(e) \in Procs /\ phase \in [Ends -> {"none", "NotConnected", "NotReady", "Ready", "deleted"}]
  BY EndsLemma, RegistryTypes
<1>1. \A x \in sessions[Owner(e)] : x \in map \/ Leaves(Owner(e), x)
  BY DEF RemoveSession, Leaves
<1>2. CASE phase[e] = "Ready"
  <2>1. /\ phase' = [phase EXCEPT ![e] = "NotConnected"]
        /\ sessions' = [sessions EXCEPT ![Owner(e)] = RemoveSession(map, sessionId[e])]
    BY <1>2 DEF EndSession
  <2>2. phase'[e] # "Ready" /\ Numbered(e)
    BY <1>0, <1>2, <2>1, NumberedLemma
  <2>3. \A x \in sessions[Owner(e)] :
           x \in RemoveSession(map, sessionId[e]) \/ Leaves(Owner(e), x)
    BY <1>1, <2>2, EndLeaves DEF RemoveSession
  <2> QED
    BY <1>0, <2>1, <2>2, <2>3, DropsAt
<1>3. CASE phase[e] # "Ready"
  <2>1. sessions' = [sessions EXCEPT ![Owner(e)] = map]
    BY <1>3 DEF EndSession
  <2> QED
    BY <1>0, <1>1, <2>1, DropsAt
<1> QED
  BY <1>2, <1>3

(* The destructor.                                                         *)
LEMMA DeleteSessionDrops ==
    ASSUME SafeInv, NEW e \in Ends, DeleteSession(e), Numbered(e)
    PROVE  Drops
<1>0. Owner(e) \in Procs /\ phase \in [Ends -> {"none", "NotConnected", "NotReady", "Ready", "deleted"}]
  BY EndsLemma, RegistryTypes
<1>1. /\ phase' = [phase EXCEPT ![e] = "deleted"]
      /\ sessions' = [sessions EXCEPT ![Owner(e)] = RemoveSession(sessions[Owner(e)], sessionId[e])]
  BY DEF DeleteSession
<1>2. phase'[e] # "Ready"
  BY <1>0, <1>1
<1>3. \A x \in sessions[Owner(e)] :
         x \in RemoveSession(sessions[Owner(e)], sessionId[e]) \/ Leaves(Owner(e), x)
  BY <1>2, EndLeaves DEF RemoveSession
<1> QED
  BY <1>0, <1>1, <1>2, <1>3, DropsAt

(* Nothing leaves.                                                         *)
LEMMA NothingDrops ==
    ASSUME SafeInv, NEW p \in Procs, NEW id, NEW e,
           \/ UNCHANGED sessions
           \/ sessions' = [sessions EXCEPT ![p] = AddSession(sessions[p], id, e)]
    PROVE  Drops
<1>1. \A x \in sessions[p] : x \in AddSession(sessions[p], id, e)
  BY DEF AddSession
<1> QED
  BY <1>1, DropsAt DEF Drops

(* INIT_REPLY: the entry under the initial id goes.                        *)
LEMMA InitReplyDrops ==
    ASSUME SafeInv, NEW c \in Conns, ProcessInitReply(Client(c))
    PROVE  Drops
<1> DEFINE e == Client(c)
           m == Head(inbox[e])
           map == AddSession(RemoveSession(sessions[Owner(e)], m.sid), m.arg, e)
<1>1. /\ ConnInv(c) /\ e \in Ends /\ Owner(e) \in Procs /\ inbox[e] \in Seq(Msgs)
  BY ConnFacts
<1>2. /\ inbox[e] # <<>> /\ m.type = "InitReply" /\ phase[e] = "NotReady"
      /\ sessions' = [sessions EXCEPT ![Owner(e)] = map]
  BY DEF ProcessInitReply, Receives
<1>3. m = inbox[e][1] /\ 1 \in DOMAIN inbox[e]
  BY <1>1, <1>2
<1>4. m.sid = sessionId[e] /\ ~Unstarted(c)
  BY <1>1, <1>2, <1>3 DEF ConnInv, Wire, StartInv
<1>5. Numbered(e)
  BY <1>4, DistinctEnds DEF Numbered
<1>6. \A x \in sessions[Owner(e)] : x \in map \/ Leaves(Owner(e), x)
  <2>1. \A x \in sessions[Owner(e)] : x \in map \/ x[1] = sessionId[e]
    BY <1>4 DEF AddSession, RemoveSession
  <2>2. \A x : x[1] = sessionId[e] => Leaves(Owner(e), x)
    BY <1>1, <1>2, <1>5, EndLeaves
  <2> QED
    BY <2>1, <2>2
<1> HIDE DEF e, m, map
<1> QED
  BY <1>1, <1>2, <1>6, DropsAt

(* Every step.                                                             *)
LEMMA DropsStep == SafeInv /\ AllPlain(inbox) /\ [Next]_vars => Drops
<1> SUFFICES ASSUME SafeInv, AllPlain(inbox), [Next]_vars
             PROVE  Drops
  OBVIOUS
<1>1. ASSUME UNCHANGED sessions
      PROVE  Drops
  BY <1>1 DEF Drops
<1>2. ASSUME NEW c \in Conns, Start(c) \/ Poll(c) \/ ProcessConnection(c)
      PROVE  Drops
  <2>1. Client(c) \in Ends /\ ClientOf[c] \in Procs
    BY ConnLemma
  <2>2. CASE StartSession(c)
    <3> DEFINE id == InitialId(counter[ClientOf[c]] + 1)
               map == sessions[ClientOf[c]]
    <3>1. sessions' = [sessions EXCEPT ![ClientOf[c]] = AddSession(map, id, Client(c))]
      BY <2>2 DEF StartSession
    <3> QED
      BY <2>1, <3>1, NothingDrops
  <2>6. CASE StartSessionRefused(c)
    <3> DEFINE map == RemoveSession(sessions[ClientOf[c]], ZeroId)
    <3>1. sessions' = [sessions EXCEPT ![ClientOf[c]] = map]
      BY <2>6 DEF StartSessionRefused
    <3>2. \A x \in sessions[ClientOf[c]] : x \in map \/ Leaves(ClientOf[c], x)
      BY DEF RemoveSession, Leaves
    <3> HIDE DEF map
    <3> QED
      BY <2>1, <3>1, <3>2, DropsAt
  <2>3. CASE ProcessConnection(c) \/ StartSessionReturns(c)
    BY <1>1, <2>3 DEF ProcessConnection, StartSessionReturns, procVars
  <2>4. CASE StartSessionGivesUp(c)
    BY <2>1, <2>4, EndSessionDrops DEF StartSessionGivesUp
  <2>5. CASE StartSessionFails(c)
    <3>1. Numbered(Client(c))
      BY <2>5, DistinctEnds DEF StartSessionFails, Numbered, Unstarted
    <3> QED
      BY <2>1, <2>5, <3>1, DeleteSessionDrops DEF StartSessionFails
  <2> QED
    BY <1>2, <2>2, <2>3, <2>4, <2>5, <2>6 DEF Start, Poll
<1>3. ASSUME NEW e \in Ends, Receive(e)
      PROVE  Drops
  <2> DEFINE m == Head(inbox[e])
  <2>0. Owner(e) \in Procs /\ inbox \in [Ends -> Seq(Msgs)]
    BY EndsLemma, RegistryTypes
  <2>1. CASE ProcessInitStart(e)
    BY <2>0, <2>1, NothingDrops DEF ProcessInitStart
  <2>2. CASE SendInitReply(e) \/ FinishSessionReady(e) \/ ProcessHeartbeatStart(e)
             \/ ProcessHeartbeatReply(e)
    BY <1>1, <2>2 DEF SendInitReply, FinishSessionReady, ProcessHeartbeatStart,
                      ProcessHeartbeatReply, procVars
  <2>3. CASE ProcessInitReply(e)
    <3>1. PICK c \in Conns : e \in {Client(c), Server(c)}
      BY EndsLemma
    <3>2. inbox[e] # <<>> /\ m.type = "InitReply"
      BY <2>3 DEF ProcessInitReply, Receives
    <3>3. m = inbox[e][1] /\ 1 \in DOMAIN inbox[e]
      BY <2>0, <3>2
    <3>4. e = Client(c)
      BY <3>1, <3>2, <3>3, ConnFacts DEF ConnInv, Wire
    <3> QED
      BY <2>3, <3>4, InitReplyDrops
  <2>4. CASE ProcessCloseStart(e) \/ ProcessCloseReply(e)
    <3>1. inbox[e] # <<>> /\ m.type \in {"CloseStart", "CloseReply"}
      BY <2>4 DEF ProcessCloseStart, ProcessCloseReply, Receives
    <3>2. m.arg = ZeroId
      BY <2>0, <3>1, PlainConsumed DEF Plain
    <3>3. CASE ProcessCloseStart(e)
      BY <3>2, <3>3, EndSessionDrops DEF ProcessCloseStart
    <3>4. CASE ProcessCloseReply(e)
      <4>1. sessions' = [sessions EXCEPT ![Owner(e)] = RemoveSession(sessions[Owner(e)], ZeroId)]
        BY <3>2, <3>4 DEF ProcessCloseReply
      <4>2. \A x \in sessions[Owner(e)] :
               x \in RemoveSession(sessions[Owner(e)], ZeroId) \/ Leaves(Owner(e), x)
        BY DEF RemoveSession, Leaves
      <4> QED
        BY <2>0, <4>1, <4>2, DropsAt
    <3> QED
      BY <2>4, <3>3, <3>4
  <2> QED
    BY <1>3, <2>1, <2>2, <2>3, <2>4 DEF Receive
<1>4. ASSUME NEW e \in Ends, Application(e)
      PROVE  Drops
  <2>1. CASE \E replyExpected \in BOOLEAN : CloseSession(e, replyExpected)
    BY <1>1, <2>1 DEF CloseSession
  <2>2. CASE SendCloseStart(e)
    BY <1>1, <2>2 DEF SendCloseStart
  <2>3. CASE FinishClose(e)
    BY <2>3, EndSessionDrops DEF FinishClose
  <2>4. CASE AppDeletes(e)
    <3>1. Numbered(e)
      BY <2>4, NumberedLemma DEF AppDeletes, AppHolds
    <3> QED
      BY <2>4, <3>1, DeleteSessionDrops DEF AppDeletes
  <2> QED
    BY <1>4, <2>1, <2>2, <2>3, <2>4 DEF Application
<1> QED
  BY <1>1, <1>2, <1>3, <1>4, TimerLeaves DEF Next, SendHeartbeat, CutLink, procVars, vars

(* Who becomes ready does so in one of the handlers of the handshake.      *)
LEMMA BecomesReady ==
    ASSUME SafeInv, [Next]_vars, NEW e \in Ends, phase[e] # "Ready", phase'[e] = "Ready"
    PROVE  ProcessInitStart(e) \/ ProcessInitReply(e)
<1>0. phase \in [Ends -> {"none", "NotConnected", "NotReady", "Ready", "deleted"}]
  BY RegistryTypes
<1>1. ASSUME NEW f \in Ends, NEW v \in {"NotReady", "NotConnected", "deleted"},
             phase' = [phase EXCEPT ![f] = v]
      PROVE  FALSE
  BY <1>0, <1>1
<1>2. ASSUME UNCHANGED phase
      PROVE  FALSE
  BY <1>2
<1>3. ASSUME NEW f \in Ends, NEW map, EndSession(f, map)
      PROVE  FALSE
  BY <1>1, <1>2, <1>3 DEF EndSession
<1>4. ASSUME NEW c \in Conns, Start(c) \/ Poll(c) \/ ProcessConnection(c)
      PROVE  FALSE
  <2>1. Client(c) \in Ends /\ Server(c) \in Ends
    BY ConnLemma
  <2>2. CASE Start(c)
    BY <1>1, <2>1, <2>2 DEF Start, StartSession, StartSessionRefused
  <2>3. CASE Poll(c)
    BY <1>1, <1>2, <1>3, <2>1, <2>3
    DEF Poll, StartSessionReturns, StartSessionGivesUp, StartSessionFails, DeleteSession, objVars
  <2>4. CASE ProcessConnection(c)
    BY <1>1, <2>1, <2>4 DEF ProcessConnection
  <2> QED
    BY <1>4, <2>2, <2>3, <2>4
<1>5. ASSUME NEW f \in Ends, Receive(f)
      PROVE  ProcessInitStart(e) \/ ProcessInitReply(e)
  <2>1. CASE ProcessInitStart(f) \/ ProcessInitReply(f)
    <3>1. phase' = [phase EXCEPT ![f] = "Ready"]
      BY <2>1 DEF ProcessInitStart, ProcessInitReply
    <3>2. f = e
      BY <1>0, <3>1
    <3> QED
      BY <2>1, <3>2
  <2>2. CASE ~(ProcessInitStart(f) \/ ProcessInitReply(f))
    <3>1. \/ SendInitReply(f) \/ FinishSessionReady(f) \/ ProcessHeartbeatStart(f)
          \/ ProcessHeartbeatReply(f) \/ ProcessCloseStart(f) \/ ProcessCloseReply(f)
      BY <1>5, <2>2 DEF Receive
    <3>2. CASE SendInitReply(f) \/ FinishSessionReady(f) \/ ProcessHeartbeatStart(f)
               \/ ProcessHeartbeatReply(f)
      BY <1>2, <3>2 DEF SendInitReply, FinishSessionReady, ProcessHeartbeatStart,
                        ProcessHeartbeatReply, objVars
    <3>3. CASE ProcessCloseStart(f)
      BY <1>3, <3>3 DEF ProcessCloseStart
    <3>4. CASE ProcessCloseReply(f)
      BY <1>1, <3>4 DEF ProcessCloseReply
    <3> QED
      BY <3>1, <3>2, <3>3, <3>4
  <2> QED
    BY <2>1, <2>2
<1>6. ASSUME NEW f \in Ends, Application(f)
      PROVE  FALSE
  <2>1. CASE (\E replyExpected \in BOOLEAN : CloseSession(f, replyExpected)) \/ SendCloseStart(f)
    BY <1>2, <2>1 DEF CloseSession, SendCloseStart, objVars
  <2>2. CASE FinishClose(f)
    BY <1>3, <2>2 DEF FinishClose
  <2>3. CASE AppDeletes(f)
    BY <1>1, <2>3 DEF AppDeletes, DeleteSession
  <2> QED
    BY <1>6, <2>1, <2>2, <2>3 DEF Application
<1>7. ~(\E f \in Ends : SendHeartbeat(f) \/ CutLink(f))
  BY <1>2 DEF SendHeartbeat, CutLink, objVars
<1>8. ~(\E p \in Procs : Timer(p)) /\ ~(UNCHANGED vars)
  BY <1>2, TimerLeaves DEF vars, objVars
<1> QED
  BY <1>4, <1>5, <1>6, <1>7, <1>8 DEF Next

(* A ready session that stays ready stays in the map.                      *)
LEMMA ReadyStays ==
    ASSUME SafeInv, SafeInv', Drops, NEW e \in Ends, phase[e] = "Ready", phase'[e] = "Ready",
           OneSided(Owner(e)), counter[Owner(e)] < IdBase,
           <<RegisteredId(e), e>> \in sessions[Owner(e)]
    PROVE  <<RegisteredId(e)', e>> \in sessions'[Owner(e)]
<1> DEFINE p == Owner(e)
           x == <<RegisteredId(e), e>>
<1>1. p \in Procs /\ x \in sessions[p] /\ x[1] = RegisteredId(e) /\ x[2] = e
  BY EndsLemma
<1>2. Numbered(e)
  BY NumberedLemma
<1>3. ~Leaves(p, x)
  <2>1. x[1] # ZeroId
    BY <1>1, <1>2, IdsNotZero
  <2>2. ASSUME NEW f \in Ends, Owner(f) = p, Numbered(f), x[1] = sessionId[f],
               ~(phase[f] = "Ready" /\ phase'[f] = "Ready")
        PROVE  FALSE
    <3>1. f # e
      BY <2>2
    <3> QED
      BY <1>1, <1>2, <2>2, <3>1, IdsDiffer
  <2> QED
    BY <2>1, <2>2 DEF Leaves
<1>4. x \in sessions'[p]
  BY <1>1, <1>3 DEF Drops
<1>5. x[1] = RegisteredId(e)'
  BY <1>1, <1>4 DEF SafeInv, MapInv, NoDanglingRegistration
<1> QED
  BY <1>1, <1>4, <1>5

(* The id of a session that becomes ready is not taken.                    *)
LEMMA InitStartRegisters ==
    ASSUME SafeInv, SafeInv', Forward, NEW e \in Ends, ProcessInitStart(e), OneSided(Owner(e)),
           counter'[Owner(e)] < IdBase
    PROVE  <<RegisteredId(e)', e>> \in sessions'[Owner(e)]
<1> DEFINE p == Owner(e)
           id == CompleteId(Head(inbox[e]).arg, counter[p] + 1)
<1>0. /\ p \in Procs /\ inbox[e] \in Seq(Msgs) /\ sessionId \in [Ends -> Ids]
      /\ created[e] \in Nat /\ created \in [Ends -> Nat]
      /\ sessions \in [Procs -> SUBSET (Ids \X Ends)]
  BY EndsLemma, RegistryTypes
<1>1. /\ inbox[e] # <<>> /\ Head(inbox[e]).type = "InitStart" /\ handler[e] = "idle"
      /\ sessions' = [sessions EXCEPT ![p] = AddSession(sessions[p], id, e)]
      /\ sessionId' = [sessionId EXCEPT ![e] = id]
      /\ created' = [created EXCEPT ![e] = @ + 1]
  BY DEF ProcessInitStart, Receives
<1> HIDE DEF id
<1>2. PICK c \in Conns : e \in {Client(c), Server(c)}
  BY EndsLemma
<1>3. e = Server(c) /\ Fresh(c) /\ ServerOf[c] = p
  <2>1. inbox[e][1].type = "InitStart" /\ 1 \in DOMAIN inbox[e]
    BY <1>0, <1>1
  <2> QED
    BY <1>1, <1>2, <2>1, ConnFacts, ConnLemma DEF ConnInv, Wire
<1>4. ~Fresh(c)' /\ High(c)' = id[1] /\ sessionId'[e] = id
  BY <1>0, <1>1, <1>3 DEF Fresh, High
<1>5. ASSUME NEW x \in sessions[p], x[1] = id
      PROVE  FALSE
  <2>1. x[2] \in Ends /\ Owner(x[2]) = p /\ x[1] = RegisteredId(x[2]) /\ Numbered(x[2])
    BY <1>0, <1>5, NumberedLemma DEF SafeInv, MapInv, NoDanglingRegistration
  <2>2. PICK d \in Conns : x[2] \in {Client(d), Server(d)}
    BY <2>1, EndsLemma
  <2>3. x[2] = Server(d) /\ ServerOf[d] = p /\ ~Fresh(d)
    BY <1>3, <2>1, <2>2, ConnLemma DEF OneSided, Numbered
  <2>4. c # d /\ ~Fresh(d)' /\ UNCHANGED sessionId[Server(d)]
    BY <1>3, <2>3 DEF Forward
  <2>5. High(c)' # High(d)'
    BY <1>3, <1>4, <2>3, <2>4 DEF SafeInv, NumberInv
  <2>6. High(d)' = id[1]
    BY <1>5, <2>1, <2>3, <2>4, RegisteredFacts DEF High
  <2> QED
    BY <1>4, <2>5, <2>6
<1>6. <<id, e>> \in sessions'[p]
  BY <1>0, <1>1, <1>5 DEF AddSession
<1>7. RegisteredId(e)' = id
  BY <1>0, <1>6 DEF SafeInv, MapInv, NoDanglingRegistration
<1> QED
  BY <1>6, <1>7

(* INIT_REPLY files the session of the client under its final id.           *)
LEMMA InitReplyRegisters ==
    ASSUME SafeInv, SafeInv', NEW e \in Ends, ProcessInitReply(e), OneSided(Owner(e)),
           counter[Owner(e)] < IdBase
    PROVE  <<RegisteredId(e)', e>> \in sessions'[Owner(e)]
<1> DEFINE p == Owner(e)
           m == Head(inbox[e])
<1>0. /\ p \in Procs /\ inbox[e] \in Seq(Msgs)
      /\ sessions \in [Procs -> SUBSET (Ids \X Ends)]
  BY EndsLemma, RegistryTypes
<1>1. /\ inbox[e] # <<>> /\ m.type = "InitReply" /\ handler[e] = "idle"
      /\ sessions' = [sessions EXCEPT ![p] =
                          AddSession(RemoveSession(sessions[p], m.sid), m.arg, e)]
  BY DEF ProcessInitReply, Receives
<1>2. m = inbox[e][1] /\ 1 \in DOMAIN inbox[e]
  BY <1>0, <1>1
<1> HIDE DEF m
<1>3. PICK c \in Conns : e \in {Client(c), Server(c)}
  BY EndsLemma
<1>4. /\ e = Client(c) /\ Before(c) /\ ~Fresh(c) /\ ~Unstarted(c) /\ ClientOf[c] = p
      /\ m.arg = sessionId[Server(c)] /\ m.sid = sessionId[e]
  BY <1>1, <1>2, <1>3, ConnFacts, ConnLemma DEF ConnInv, Wire, Before, StartInv
<1>5. m.arg[2] = Low(c)
  BY <1>4, ConnFacts DEF ConnInv, IdInv, Low
<1>6. ASSUME NEW x \in RemoveSession(sessions[p], m.sid), x[1] = m.arg
      PROVE  FALSE
  <2>1. x \in sessions[p] /\ x[1] # m.sid
    BY DEF RemoveSession
  <2>2. x[2] \in Ends /\ Owner(x[2]) = p /\ x[1] = RegisteredId(x[2]) /\ Numbered(x[2])
    BY <1>0, <2>1, NumberedLemma DEF SafeInv, MapInv, NoDanglingRegistration
  <2>3. x[2] # e
    BY <1>4, <2>1, <2>2, RegisteredFacts
  <2>4. PICK d \in Conns : x[2] \in {Client(d), Server(d)}
    BY <2>2, EndsLemma
  <2>5. x[2] = Client(d) /\ ClientOf[d] = p /\ ~Unstarted(d) /\ d # c
    BY <1>4, <2>2, <2>3, <2>4, ConnLemma DEF OneSided, Numbered
  <2>6. Low(c) # Low(d)
    BY <1>4, <2>5 DEF SafeInv, NumberInv
  <2>7. Low(d) = m.arg[2]
    BY <1>6, <2>2, <2>5, RegisteredFacts
  <2> QED
    BY <1>5, <2>6, <2>7
<1>7. <<m.arg, e>> \in sessions'[p]
  BY <1>0, <1>1, <1>6 DEF AddSession
<1>8. RegisteredId(e)' = m.arg
  BY <1>0, <1>7 DEF SafeInv, MapInv, NoDanglingRegistration
<1> QED
  BY <1>7, <1>8

(* A step neither makes a session ready without its entry nor takes the     *)
(* entry of a ready session away.                                           *)
LEMMA ReadyStep ==
    SafeInv /\ ReplyInv /\ ReadyIsRegistered /\ [Next]_vars => ReadyIsRegistered'
<1> SUFFICES ASSUME SafeInv, ReplyInv, ReadyIsRegistered, [Next]_vars,
                    NEW e \in Ends, phase'[e] = "Ready", OneSided(Owner(e)),
                    counter'[Owner(e)] < IdBase
             PROVE  <<RegisteredId(e)', e>> \in sessions'[Owner(e)]
  BY DEF ReadyIsRegistered
<1>1. SafeInv' /\ Forward /\ Drops
  BY SafeStep, ForwardStep, DropsStep DEF ReplyInv
<1>2. counter[Owner(e)] < IdBase
  <2>1. Owner(e) \in Procs /\ counter[Owner(e)] \in Nat /\ counter'[Owner(e)] \in Nat
    BY <1>1, EndsLemma DEF SafeInv, TypeInv, BaseTypes
  <2>2. counter'[Owner(e)] >= counter[Owner(e)] /\ IdBase \in Nat
    BY <1>1, <2>1, ConstantsAssumption DEF Forward, ConstantsAssumption
  <2> QED
    BY <2>1, <2>2
<1>3. CASE phase[e] = "Ready"
  <2>1. <<RegisteredId(e), e>> \in sessions[Owner(e)]
    BY <1>2, <1>3 DEF ReadyIsRegistered
  <2> QED
    BY <1>1, <1>2, <1>3, <2>1, ReadyStays
<1>4. CASE phase[e] # "Ready"
  BY <1>1, <1>2, <1>4, BecomesReady, InitStartRegisters, InitReplyRegisters
<1> QED
  BY <1>3, <1>4

(* A ready session of a process that only connects or only accepts is in   *)
(* the map under its id, so that heartbeats reach it: no addSession finds  *)
(* the id taken, and nothing but its own end removes it, for any number of *)
(* sessions whose handshakes, timeouts and closes overlap.                 *)
THEOREM ReadyRegistered == Spec => []ReadyIsRegistered
<1>1. Init => ReadyIsRegistered
  BY DEF Init, ReadyIsRegistered
<1> QED
  BY <1>1, SafeInit, SafeStep, ReplyInit, ReplyStepInv, ReadyStep, PTL DEF Spec

===============================================================================
