-------------------------- MODULE SessionPromiseProofs --------------------------
(***************************************************************************)
(* SessionProtocol implements SessionPromise: whatever messages, timers,   *)
(* handlers and applications do in between, what both applications see of  *)
(* a connection is a behaviour of the promise.                             *)
(***************************************************************************)
EXTENDS SessionRegistryProofs

(* The poll of startSession is released by the create-callback; no session *)
(* is deleted under a handler that works on it, or while startSession has  *)
(* not returned it.                                                        *)
ReleaseInv == \A c \in Conns : initState[Client(c)] = 1 => created[Client(c)] > 0
UnusedInv == \A e \in Ends : phase[e] = "deleted" => handler[e] = "idle"
PolledInv == \A c \in Conns : starter[c] \in {"waiting", "failing"} => phase[Client(c)] # "deleted"

SeenInv == SafeInv /\ ReleaseInv /\ UnusedInv /\ PolledInv

Seen == <<Call, created, closed, Told, Deleted>>

-----------------------------------------------------------------------------
(* The mapping.                                                            *)

(* Both modules name the ends in the same way.                             *)
LEMMA SameNames ==
    /\ Promise!Ends = Ends
    /\ \A c : Promise!Client(c) = Client(c) /\ Promise!Server(c) = Server(c)
BY DEF Promise!Ends, Promise!Client, Promise!Server, Ends, Client, Server

(* What the applications see when a step changes the thread of one call,   *)
LEMMA CallMoves ==
    ASSUME SafeInv, NEW c \in Conns, NEW s, starter' = [starter EXCEPT ![c] = s]
    PROVE  Call' = [Call EXCEPT ![c] = IF s = "failing" THEN "waiting" ELSE s]
<1>1. starter \in [Conns -> {"none", "waiting", "returned", "failing", "failed", "refused"}]
  BY DEF SafeInv, TypeInv, BaseTypes
<1>2. starter'[c] = s /\ \A d \in Conns : d # c => starter'[d] = starter[d]
  BY <1>1
<1> QED
  BY <1>2 DEF Call

(* deletes one session,                                                    *)
LEMMA DeletedGrows ==
    ASSUME SafeInv, NEW e \in Ends, phase' = [phase EXCEPT ![e] = "deleted"]
    PROVE  Deleted' = Deleted \cup {e}
<1>1. phase \in [Ends -> {"none", "NotConnected", "NotReady", "Ready", "deleted"}]
  BY DEF SafeInv, TypeInv, BaseTypes
<1>2. phase'[e] = "deleted" /\ \A f \in Ends : f # e => phase'[f] = phase[f]
  BY <1>1
<1> QED
  BY <1>2 DEF Deleted

(* moves one session to another state than that,                           *)
LEMMA DeletedStays ==
    ASSUME SafeInv, NEW e \in Ends, phase[e] # "deleted", NEW s, s # "deleted",
           phase' = [phase EXCEPT ![e] = s]
    PROVE  Deleted' = Deleted
<1>1. phase \in [Ends -> {"none", "NotConnected", "NotReady", "Ready", "deleted"}]
  BY DEF SafeInv, TypeInv, BaseTypes
<1>2. phase'[e] = s /\ \A f \in Ends : f # e => phase'[f] = phase[f]
  BY <1>1
<1> QED
  BY <1>2 DEF Deleted

(* calls the create-callback of one session,                               *)
LEMMA ToldOne ==
    ASSUME SafeInv, NEW e \in Ends, created[e] = 0, NEW i \in Ids,
           created' = [created EXCEPT ![e] = @ + 1], sessionId' = [sessionId EXCEPT ![e] = i]
    PROVE  /\ created' = [created EXCEPT ![e] = 1]
           /\ Told' = [Told EXCEPT ![e] = i]
<1>1. created \in [Ends -> Nat] /\ sessionId \in [Ends -> Ids]
  BY DEF SafeInv, TypeInv, BaseTypes
<1>2. /\ created'[e] = 1 /\ sessionId'[e] = i
      /\ \A f \in Ends : f # e => created'[f] = created[f] /\ sessionId'[f] = sessionId[f]
  BY <1>1
<1>3. created' = [created EXCEPT ![e] = 1]
  BY <1>1
<1>4. /\ Told' = [f \in Ends |-> IF created'[f] > 0 THEN sessionId'[f] ELSE ZeroId]
      /\ Told = [f \in Ends |-> IF created[f] > 0 THEN sessionId[f] ELSE ZeroId]
  BY DEF Told
<1>5. [Told EXCEPT ![e] = i] = [f \in Ends |-> IF f = e THEN i ELSE Told[f]]
  BY <1>4
<1>6. \A f \in Ends : (IF created'[f] > 0 THEN sessionId'[f] ELSE ZeroId)
                         = (IF f = e THEN i ELSE Told[f])
  BY <1>2, <1>4
<1> QED
  BY <1>3, <1>4, <1>5, <1>6

(* or gives an id to a session that nobody was told of.                    *)
LEMMA ToldSame ==
    ASSUME UNCHANGED created, \A e \in Ends : created[e] > 0 => sessionId'[e] = sessionId[e]
    PROVE  Told' = Told
BY DEF Told

(* The applications see nothing of most steps.                             *)
LEMMA NothingSeen ==
    ASSUME UNCHANGED <<starter, created, closed, sessionId, phase>>
    PROVE  UNCHANGED Seen
BY DEF Seen, Call, Told, Deleted

(* What is known of an end that is ready.                                  *)
LEMMA ReadyFacts ==
    ASSUME SafeInv, NEW c \in Conns, NEW e \in {Client(c), Server(c)}, phase[e] = "Ready"
    PROVE  /\ closed[e] = 0 /\ ~Fresh(c) /\ created[Server(c)] = 1
           /\ created[e] = 1 \/ (e = Client(c) /\ handler[e] # "idle")
<1>1. /\ ConnInv(c) /\ ~Fresh(c) /\ (e = Client(c) => ~Before(c))
      /\ closed[e] \in Nat /\ created[e] \in Nat
  BY ConnFacts
<1>2. created[Server(c)] \in Nat
  BY ConnFacts
<1>3. created[Server(c)] = 1
  BY <1>1, <1>2 DEF ConnInv, ServerInv, Fresh
<1>4. closed[e] = 0
  BY <1>1 DEF ConnInv, ClientInv, ServerInv
<1>5. CASE e = Client(c)
  BY <1>1, <1>3, <1>4, <1>5 DEF ConnInv, ClientInv, Before
<1> QED
  BY <1>1, <1>3, <1>4, <1>5

-----------------------------------------------------------------------------
(* The end of a session.                                                   *)

(* endSession calls the close-callback, or nobody sees anything of it.     *)
LEMMA EndSeen ==
    ASSUME SafeInv, SafeInv', NEW c \in Conns, NEW e \in {Client(c), Server(c)}, NEW map,
           EndSession(e, map), UNCHANGED <<created, sessionId, handler>>, Call' = Call
    PROVE  UNCHANGED Seen \/ Promise!Close(e)
<1>0. e \in Ends /\ e[1] = c /\ (e = Client(c) => e[2] = "client") /\ Told' = Told
  BY ConnFacts, ConnLemma, DistinctEnds, ToldSame
<1>1. CASE phase[e] # "Ready"
  <2>1. UNCHANGED <<phase, closed>>
    BY <1>1 DEF EndSession
  <2> QED
    BY <1>0, <2>1 DEF Seen, Deleted
<1>2. CASE phase[e] = "Ready"
  <2>1. /\ closed[e] = 0 /\ created[Server(c)] = 1
        /\ created[e] = 1 \/ (e = Client(c) /\ handler[e] # "idle")
    BY <1>2, ReadyFacts
  <2>2. closed' = [closed EXCEPT ![e] = 1] /\ phase' = [phase EXCEPT ![e] = "NotConnected"]
    BY <1>2, <2>1 DEF EndSession
  <2>3. Deleted' = Deleted /\ e \notin Deleted
    BY <1>0, <1>2, <2>2, DeletedStays DEF Deleted
  <2>4. CASE created[e] = 1
    BY <1>0, <2>1, <2>2, <2>3, <2>4 DEF Promise!Close
  <2>5. CASE created[e] # 1
    <3>1. e = Client(c) /\ ConnInv(c)'
      BY <2>1, <2>5 DEF SafeInv, AllConnInv
    <3>2. closed'[e] = 1 /\ created'[e] = created[e] /\ created[e] \in Nat
      BY <1>0, <2>2 DEF SafeInv, TypeInv, BaseTypes
    <3>3. created'[e] <= 1
      BY <3>1 DEF ConnInv, ClientInv
    <3>4. starter'[c] = "failing"
      BY <2>5, <3>1, <3>2, <3>3 DEF ConnInv, ClientInv
    <3>5. Call[c] = "waiting"
      BY <3>4 DEF Call
    <3>6. Promise!GivenUp(e)
      BY <1>0, <2>1, <3>1, <3>5, SameNames DEF Promise!GivenUp
    <3> QED
      BY <1>0, <2>1, <2>2, <2>3, <3>6 DEF Promise!Close
  <2> QED
    BY <2>4, <2>5
<1> QED
  BY <1>1, <1>2

(* The destructor closes a session that is still ready.                    *)
LEMMA DeleteSeen ==
    ASSUME SafeInv, NEW c \in Conns, NEW e \in {Client(c), Server(c)}, handler[e] = "idle",
           DeleteSession(e), UNCHANGED <<created, sessionId>>
    PROVE  Promise!Drop(e)
<1>0. e \in Ends /\ closed \in [Ends -> Nat] /\ Told' = Told
  BY ConnFacts, ToldSame DEF SafeInv, TypeInv, BaseTypes
<1>1. Deleted' = Deleted \cup {e}
  BY <1>0, DeletedGrows DEF DeleteSession
<1>2. closed' = [closed EXCEPT ![e] = IF phase[e] = "Ready" THEN closed[e] + 1 ELSE closed[e]]
  BY DEF DeleteSession
<1>3. CASE phase[e] = "Ready"
  <2>1. closed[e] = 0 /\ created[e] = 1
    BY <1>3, ReadyFacts
  <2>2. closed' = [closed EXCEPT ![e] = 1]
    BY <1>2, <1>3, <2>1
  <2> QED
    BY <1>0, <1>1, <2>1, <2>2 DEF Promise!Drop
<1>4. CASE phase[e] # "Ready"
  <2>1. closed' = closed
    BY <1>0, <1>2, <1>4
  <2> QED
    BY <1>0, <1>1, <2>1 DEF Promise!Drop
<1> QED
  BY <1>3, <1>4

-----------------------------------------------------------------------------
(* The steps.                                                              *)

(* startSession begins, or cannot connect.                                 *)
LEMMA StartSeen ==
    ASSUME SafeInv, NEW c \in Conns, Start(c)
    PROVE  Promise!Connect(c) \/ Promise!Refuse(c)
<1> DEFINE e == Client(c)
<1>0. /\ e \in Ends /\ starter[c] = "none" /\ ConnInv(c) /\ Call[c] = "none"
      /\ UNCHANGED <<created, closed>>
  BY ConnFacts DEF Start, StartSession, StartSessionRefused, Call, callbackVars
<1>1. created[e] = 0 /\ phase[e] = "none"
  BY <1>0 DEF ConnInv, StartInv, Unstarted, Before
<1>2. sessionId \in [Ends -> Ids]
  BY DEF SafeInv, TypeInv, BaseTypes
<1>3. CASE StartSession(c)
  <2>1. /\ starter' = [starter EXCEPT ![c] = "waiting"]
        /\ phase' = [phase EXCEPT ![e] = "NotReady"]
        /\ sessionId' = [sessionId EXCEPT ![e] = InitialId(counter[ClientOf[c]] + 1)]
    BY <1>3 DEF StartSession
  <2>2. Call' = [Call EXCEPT ![c] = "waiting"]
    BY <2>1, CallMoves
  <2>3. Deleted' = Deleted
    BY <1>0, <1>1, <2>1, DeletedStays
  <2>4. \A f \in Ends : created[f] > 0 => sessionId'[f] = sessionId[f]
    BY <1>0, <1>1, <1>2, <2>1
  <2>5. Told' = Told
    BY <1>0, <2>4, ToldSame
  <2> QED
    BY <1>0, <2>2, <2>3, <2>5 DEF Promise!Connect
<1>4. CASE StartSessionRefused(c)
  <2>1. /\ starter' = [starter EXCEPT ![c] = "refused"]
        /\ phase' = [phase EXCEPT ![e] = "deleted"]
        /\ UNCHANGED sessionId
    BY <1>4 DEF StartSessionRefused
  <2>2. Call' = [Call EXCEPT ![c] = "refused"]
    BY <2>1, CallMoves
  <2>3. Deleted' = Deleted \cup {e}
    BY <1>0, <2>1, DeletedGrows
  <2>4. Told' = Told
    BY <1>0, <2>1, ToldSame
  <2> QED
    BY <1>0, <2>2, <2>3, <2>4, SameNames DEF Promise!Refuse
<1> QED
  BY <1>3, <1>4 DEF Start

(* It returns a session whose create-callback has come, or gives it up.    *)
LEMMA PollSeen ==
    ASSUME SeenInv, SafeInv', NEW c \in Conns, Poll(c)
    PROVE  \/ UNCHANGED Seen
           \/ Promise!Return(c) \/ Promise!Close(Client(c)) \/ Promise!Fail(c)
<1> DEFINE e == Client(c)
<1>0. SafeInv /\ e \in Ends /\ e \in {Client(c), Server(c)} /\ ConnInv(c)
  BY ConnFacts DEF SeenInv
<1>1. CASE StartSessionReturns(c)
  <2>1. /\ starter[c] = "waiting" /\ initState[e] = 1
        /\ starter' = [starter EXCEPT ![c] = "returned"]
        /\ UNCHANGED <<created, closed, sessionId, phase>>
    BY <1>1 DEF StartSessionReturns, objVars, callbackVars
  <2>2. created[e] = 1
    <3>1. created[e] \in Nat /\ created[e] > 0 /\ created[e] <= 1
      BY <1>0, <2>1, ConnFacts DEF SeenInv, ReleaseInv, ConnInv, ClientInv
    <3> QED
      BY <3>1
  <2>3. Call[c] = "waiting" /\ Call' = [Call EXCEPT ![c] = "returned"]
    BY <1>0, <2>1, CallMoves DEF Call
  <2>4. Told' = Told /\ Deleted' = Deleted
    BY <2>1 DEF Told, Deleted
  <2> QED
    BY <2>1, <2>2, <2>3, <2>4, SameNames DEF Promise!Return
<1>2. CASE StartSessionGivesUp(c)
  <2>1. /\ starter[c] = "waiting" /\ starter' = [starter EXCEPT ![c] = "failing"]
        /\ EndSession(e, sessions[Owner(e)])
        /\ UNCHANGED <<created, sessionId, handler>>
    BY <1>2 DEF StartSessionGivesUp
  <2>2. Call' = Call
    <3>1. Call' = [Call EXCEPT ![c] = "waiting"] /\ Call[c] = "waiting"
      BY <1>0, <2>1, CallMoves DEF Call
    <3>2. Call = [d \in Conns |-> Call[d]]
      BY DEF Call
    <3> QED
      BY <3>1, <3>2
  <2> QED
    BY <1>0, <2>1, <2>2, EndSeen
<1>3. CASE StartSessionFails(c)
  <2>1. /\ starter[c] = "failing" /\ handler[e] = "idle" /\ DeleteSession(e)
        /\ starter' = [starter EXCEPT ![c] = "failed"]
        /\ UNCHANGED <<created, sessionId>>
    BY <1>3 DEF StartSessionFails
  <2>2. Call[c] = "waiting" /\ Call' = [Call EXCEPT ![c] = "failed"]
    BY <1>0, <2>1, CallMoves DEF Call
  <2>3. Promise!Drop(e)
    BY <1>0, <2>1, DeleteSeen
  <2>4. e \notin Deleted
    BY <2>1 DEF SeenInv, PolledInv, Deleted
  <2> QED
    BY <2>2, <2>3, <2>4, SameNames DEF Promise!Fail
<1> QED
  BY <1>1, <1>2, <1>3 DEF Poll

-----------------------------------------------------------------------------
(* The invariant of the steps that are seen.                               *)

Polled == {"waiting", "failing"}

(* What a step of any kind does to an end.                                 *)
Tidy(e) ==
    /\ phase[e] # "deleted" /\ phase'[e] = "deleted" =>
          handler'[e] = "idle" /\ (e[2] = "client" => starter'[e[1]] \notin Polled)
    /\ handler[e] = "idle" /\ handler'[e] # "idle" => phase'[e] = "Ready"
    /\ e[2] = "client" /\ starter[e[1]] \notin Polled /\ starter'[e[1]] \in Polled =>
          phase'[e] = "NotReady"
    /\ created'[e] >= created[e]
    /\ initState'[e] = 1 => initState[e] = 1 \/ created'[e] > 0

(* The types of what Tidy is about.                                        *)
LEMMA SeenTypes ==
    ASSUME SafeInv
    PROVE  /\ phase \in [Ends -> {"none", "NotConnected", "NotReady", "Ready", "deleted"}]
           /\ handler \in [Ends -> {"idle", "initStart", "initReply"}]
           /\ starter \in [Conns -> {"none", "waiting", "returned", "failing", "failed", "refused"}]
           /\ created \in [Ends -> Nat]
           /\ initState \in [Ends -> {-1, 0, 1}]
BY DEF SafeInv, TypeInv, BaseTypes

(* Steps that do nothing of the kind, or end a session.                    *)
LEMMA TidyEnd ==
    ASSUME SafeInv, NEW f \in Ends, NEW map, UNCHANGED phase \/ EndSession(f, map),
           UNCHANGED <<handler, starter, created, initState>>,
           NEW e \in Ends
    PROVE  Tidy(e)
<1>0. /\ phase \in [Ends -> {"none", "NotConnected", "NotReady", "Ready", "deleted"}]
      /\ created[e] \in Nat
  BY SeenTypes
<1>1. UNCHANGED phase \/ phase' = [phase EXCEPT ![f] = "NotConnected"]
  BY DEF EndSession
<1>2. phase'[e] = "deleted" => phase[e] = "deleted"
  BY <1>0, <1>1
<1> QED
  BY <1>0, <1>2 DEF Tidy

(* The thread in startSession, and the server that accepts the socket.     *)
LEMMA TidyStarter ==
    ASSUME SafeInv, NEW c \in Conns, Start(c) \/ Poll(c) \/ ProcessConnection(c), NEW e \in Ends
    PROVE  Tidy(e)
<1> DEFINE k == Client(c)
<1>0. /\ phase \in [Ends -> {"none", "NotConnected", "NotReady", "Ready", "deleted"}]
      /\ starter \in [Conns -> {"none", "waiting", "returned", "failing", "failed", "refused"}]
      /\ initState \in [Ends -> {-1, 0, 1}]
      /\ created[e] \in Nat /\ k \in Ends /\ Server(c) \in Ends /\ e[1] \in Conns
      /\ ConnInv(c)
  BY SeenTypes, ConnLemma, EndsLemma, ConnFacts
<1>1. k[1] = c /\ (e[2] = "client" /\ e[1] = c => e = k)
  BY EndsLemma, DistinctEnds
<1>2. CASE StartSession(c)
  <2>1. /\ starter' = [starter EXCEPT ![c] = "waiting"]
        /\ phase' = [phase EXCEPT ![k] = "NotReady"]
        /\ UNCHANGED <<handler, created, initState>>
    BY <1>2 DEF StartSession, callbackVars
  <2>2. phase'[k] = "NotReady" /\ (e # k => phase'[e] = phase[e])
        /\ \A d \in Conns : d # c => starter'[d] = starter[d]
    BY <1>0, <2>1
  <2> QED
    BY <1>0, <1>1, <2>1, <2>2 DEF Tidy
<1>3. CASE StartSessionRefused(c)
  <2>1. /\ starter' = [starter EXCEPT ![c] = "refused"]
        /\ phase' = [phase EXCEPT ![k] = "deleted"]
        /\ initState' = [initState EXCEPT ![k] = -1]
        /\ UNCHANGED <<handler, created>>
    BY <1>3 DEF StartSessionRefused, callbackVars
  <2>2. handler[k] = "idle"
    BY <1>0, <1>3 DEF StartSessionRefused, ConnInv, StartInv, Unstarted, Before
  <2>3. /\ e # k => phase'[e] = phase[e]
        /\ initState'[e] = initState[e] \/ initState'[e] = -1
        /\ starter'[c] = "refused"
        /\ \A d \in Conns : d # c => starter'[d] = starter[d]
    BY <1>0, <2>1
  <2> QED
    BY <1>0, <1>1, <2>1, <2>2, <2>3 DEF Tidy, Polled
<1>4. CASE StartSessionReturns(c)
  <2>1. /\ starter' = [starter EXCEPT ![c] = "returned"]
        /\ UNCHANGED <<phase, handler, created, initState>>
    BY <1>4 DEF StartSessionReturns, objVars, callbackVars
  <2>2. starter'[c] = "returned" /\ \A d \in Conns : d # c => starter'[d] = starter[d]
    BY <1>0, <2>1
  <2> QED
    BY <1>0, <2>1, <2>2 DEF Tidy, Polled
<1>5. CASE StartSessionGivesUp(c)
  <2>1. /\ starter[c] = "waiting" /\ starter' = [starter EXCEPT ![c] = "failing"]
        /\ UNCHANGED phase \/ phase' = [phase EXCEPT ![k] = "NotConnected"]
        /\ UNCHANGED <<handler, created, initState>>
    BY <1>5 DEF StartSessionGivesUp, EndSession
  <2>2. \A d \in Conns : d # c => starter'[d] = starter[d]
    BY <1>0, <2>1
  <2>3. phase'[e] = "deleted" => phase[e] = "deleted"
    BY <1>0, <2>1
  <2> QED
    BY <1>0, <2>1, <2>2, <2>3 DEF Tidy, Polled
<1>6. CASE StartSessionFails(c)
  <2>1. /\ handler[k] = "idle" /\ starter' = [starter EXCEPT ![c] = "failed"]
        /\ phase' = [phase EXCEPT ![k] = "deleted"]
        /\ initState' = [initState EXCEPT ![k] = -1]
        /\ UNCHANGED <<handler, created>>
    BY <1>6 DEF StartSessionFails, DeleteSession
  <2>2. /\ e # k => phase'[e] = phase[e]
        /\ initState'[e] = initState[e] \/ initState'[e] = -1
        /\ starter'[c] = "failed"
        /\ \A d \in Conns : d # c => starter'[d] = starter[d]
    BY <1>0, <2>1
  <2> QED
    BY <1>0, <1>1, <2>1, <2>2 DEF Tidy, Polled
<1>7. CASE ProcessConnection(c)
  <2>1. /\ phase' = [phase EXCEPT ![Server(c)] = "NotConnected"]
        /\ UNCHANGED <<handler, starter, created, initState>>
    BY <1>7 DEF ProcessConnection, threadVars, callbackVars
  <2>2. phase'[e] = "deleted" => phase[e] = "deleted"
    BY <1>0, <2>1
  <2> QED
    BY <1>0, <2>1, <2>2 DEF Tidy
<1> QED
  BY <1>2, <1>3, <1>4, <1>5, <1>6, <1>7 DEF Start, Poll

(* The receive thread.                                                     *)
LEMMA TidyReceive ==
    ASSUME SafeInv, NEW f \in Ends, Receive(f), NEW e \in Ends
    PROVE  Tidy(e)
<1>0. /\ phase \in [Ends -> {"none", "NotConnected", "NotReady", "Ready", "deleted"}]
      /\ handler \in [Ends -> {"idle", "initStart", "initReply"}]
      /\ initState \in [Ends -> {-1, 0, 1}]
      /\ created \in [Ends -> Nat]
  BY SeenTypes
<1>1. CASE ProcessInitStart(f) \/ ProcessInitReply(f)
  <2>1. /\ phase' = [phase EXCEPT ![f] = "Ready"]
        /\ \E h \in {"initStart", "initReply"} : handler' = [handler EXCEPT ![f] = h]
        /\ \/ UNCHANGED <<created, initState>>
           \/ /\ created' = [created EXCEPT ![f] = @ + 1]
              /\ initState' = [initState EXCEPT ![f] = 1]
        /\ UNCHANGED starter
    BY <1>1 DEF ProcessInitStart, ProcessInitReply, callbackVars
  <2>2. /\ e = f => phase'[e] = "Ready"
        /\ e # f => phase'[e] = phase[e] /\ handler'[e] = handler[e]
    BY <1>0, <2>1
  <2>3. /\ created'[e] >= created[e]
        /\ initState'[e] = 1 => initState[e] = 1 \/ created'[e] > 0
    BY <1>0, <2>1
  <2> QED
    BY <2>1, <2>2, <2>3 DEF Tidy
<1>2. CASE SendInitReply(f) \/ FinishSessionReady(f)
  <2>1. /\ handler' = [handler EXCEPT ![f] = "idle"]
        /\ \/ UNCHANGED <<created, initState>>
           \/ /\ created' = [created EXCEPT ![f] = @ + 1]
              /\ initState' = [initState EXCEPT ![f] = 1]
        /\ UNCHANGED <<phase, starter>>
    BY <1>2 DEF SendInitReply, FinishSessionReady, objVars, callbackVars
  <2>2. handler'[e] = handler[e] \/ handler'[e] = "idle"
    BY <1>0, <2>1
  <2>3. /\ created'[e] >= created[e]
        /\ initState'[e] = 1 => initState[e] = 1 \/ created'[e] > 0
    BY <1>0, <2>1
  <2> QED
    BY <2>1, <2>2, <2>3 DEF Tidy
<1>3. CASE ProcessCloseReply(f)
  <2>1. /\ phase' = [phase EXCEPT ![f] = "NotConnected"]
        /\ UNCHANGED <<handler, starter, created, initState>>
    BY <1>3 DEF ProcessCloseReply, threadVars, callbackVars
  <2>2. phase'[e] = "deleted" => phase[e] = "deleted"
    BY <1>0, <2>1
  <2> QED
    BY <1>0, <2>1, <2>2 DEF Tidy
<1>4. CASE ProcessCloseStart(f)
  <2>1. /\ EndSession(f, RemoveSession(sessions[Owner(f)], Head(inbox[f]).arg))
        /\ UNCHANGED <<handler, starter, created, initState>>
    BY <1>4 DEF ProcessCloseStart, threadVars
  <2> QED
    BY <2>1, TidyEnd
<1>5. CASE ProcessHeartbeatStart(f) \/ ProcessHeartbeatReply(f)
  <2>1. UNCHANGED <<phase, handler, starter, created, initState>>
    BY <1>5 DEF ProcessHeartbeatStart, ProcessHeartbeatReply, objVars, threadVars, callbackVars
  <2> QED
    BY <2>1, TidyEnd
<1> QED
  BY <1>1, <1>2, <1>3, <1>4, <1>5 DEF Receive

(* The timer thread and the application.                                   *)
LEMMA TidyOwnSide ==
    ASSUME SafeInv, NEW f \in Ends, SendHeartbeat(f) \/ Application(f) \/ CutLink(f), NEW e \in Ends
    PROVE  Tidy(e)
<1>1. CASE FinishClose(f)
  <2>1. EndSession(f, sessions[Owner(f)]) /\ UNCHANGED <<handler, starter, created, initState>>
    BY <1>1 DEF FinishClose
  <2> QED
    BY <2>1, TidyEnd
<1>2. CASE AppDeletes(f)
  <2>1. /\ phase' = [phase EXCEPT ![f] = "deleted"]
        /\ initState' = [initState EXCEPT ![f] = -1]
        /\ handler[f] = "idle"
        /\ f[2] = "client" => starter[f[1]] = "returned"
        /\ UNCHANGED <<handler, starter, created>>
    BY <1>2 DEF AppDeletes, DeleteSession, threadVars
  <2>2. /\ phase \in [Ends -> {"none", "NotConnected", "NotReady", "Ready", "deleted"}]
        /\ initState \in [Ends -> {-1, 0, 1}]
        /\ created[e] \in Nat
    BY SeenTypes
  <2>3. /\ e # f => phase'[e] = phase[e]
        /\ initState'[e] = initState[e] \/ initState'[e] = -1
    BY <2>1, <2>2
  <2> QED
    BY <2>1, <2>2, <2>3 DEF Tidy, Polled
<1>3. CASE SendHeartbeat(f) \/ CutLink(f) \/ SendCloseStart(f)
           \/ \E replyExpected \in BOOLEAN : CloseSession(f, replyExpected)
  <2>1. UNCHANGED <<phase, handler, starter, created, initState>>
    BY <1>3 DEF SendHeartbeat, CutLink, SendCloseStart, CloseSession, objVars, threadVars, callbackVars
  <2> QED
    BY <2>1, TidyEnd
<1> QED
  BY <1>1, <1>2, <1>3 DEF Application

(* The timer.                                                              *)
LEMMA TidyTimer ==
    ASSUME SafeInv, NEW p \in Procs, Timer(p), NEW e \in Ends
    PROVE  Tidy(e)
<1>1. /\ UNCHANGED <<phase, handler, starter, created>>
      /\ UNCHANGED initState \/ \E f : initState' = [initState EXCEPT ![f] = -1]
  BY TimerLeaves DEF Timer, MakeTimerStep, RemoveDue, ReportDue, Timeout, objVars
<1>2. initState \in [Ends -> {-1, 0, 1}] /\ created[e] \in Nat
  BY SeenTypes
<1>3. initState'[e] = 1 => initState[e] = 1
  BY <1>1, <1>2
<1> QED
  BY <1>1, <1>2, <1>3 DEF Tidy

(* Every step is tidy, so the invariant is inductive.                      *)
LEMMA TidyStep ==
    ASSUME SafeInv, [Next]_vars, NEW e \in Ends
    PROVE  Tidy(e)
<1>1. CASE UNCHANGED vars
  <2>1. UNCHANGED <<phase, handler, starter, created, initState>>
    BY <1>1 DEF vars, objVars, threadVars, callbackVars
  <2> QED
    BY <2>1, TidyEnd
<1> QED
  BY <1>1, TidyStarter, TidyReceive, TidyOwnSide, TidyTimer DEF Next

(* In the beginning nothing was released or deleted.                       *)
LEMMA SeenInit == Init => SeenInv
<1> SUFFICES ASSUME Init
             PROVE  SeenInv
  OBVIOUS
<1>1. SafeInv
  BY SafeInit
<1>2. ReleaseInv /\ UnusedInv /\ PolledInv
  BY ConnLemma DEF Init, ReleaseInv, UnusedInv, PolledInv
<1> QED
  BY <1>1, <1>2 DEF SeenInv

(* A session is not used again once it is deleted, nor polled for.         *)
LEMMA SeenStep == SeenInv /\ [Next]_vars => SeenInv'
<1> SUFFICES ASSUME SeenInv, [Next]_vars
             PROVE  SeenInv'
  OBVIOUS
<1>1. SafeInv /\ SafeInv' /\ \A e \in Ends : Tidy(e)
  BY SafeStep, TidyStep DEF SeenInv
<1>2. /\ created \in [Ends -> Nat] /\ created' \in [Ends -> Nat]
      /\ handler' \in [Ends -> {"idle", "initStart", "initReply"}]
  BY <1>1, SeenTypes DEF SafeInv, TypeInv, BaseTypes
<1>3. ReleaseInv'
  <2> SUFFICES ASSUME NEW c \in Conns, initState'[Client(c)] = 1
               PROVE  created'[Client(c)] > 0
    BY DEF ReleaseInv
  <2>1. Client(c) \in Ends
    BY ConnLemma
  <2>2. created'[Client(c)] \in Nat /\ created[Client(c)] \in Nat
    BY <1>2, <2>1
  <2> QED
    BY <1>1, <2>1, <2>2 DEF SeenInv, ReleaseInv, Tidy
<1>4. UnusedInv'
  <2> SUFFICES ASSUME NEW e \in Ends, phase'[e] = "deleted", handler'[e] # "idle"
               PROVE  FALSE
    BY DEF UnusedInv
  <2> QED
    BY <1>1 DEF SeenInv, UnusedInv, Tidy
<1>5. PolledInv'
  <2> SUFFICES ASSUME NEW c \in Conns, starter'[c] \in Polled, phase'[Client(c)] = "deleted"
               PROVE  FALSE
    BY DEF PolledInv, Polled
  <2>1. Client(c) \in Ends /\ Client(c)[1] = c /\ Client(c)[2] = "client"
    BY ConnLemma, DistinctEnds
  <2>2. starter[c] \in Polled => phase[Client(c)] # "deleted"
    BY DEF SeenInv, PolledInv, Polled
  <2> QED
    BY <1>1, <2>1, <2>2 DEF Tidy
<1> QED
  BY <1>1, <1>3, <1>4, <1>5 DEF SeenInv

-----------------------------------------------------------------------------
(* The steps, continued.                                                   *)

(* The create-callback of the server.                                      *)
LEMMA CreateServerSeen ==
    ASSUME SafeInv, NEW c \in Conns, NEW e \in {Client(c), Server(c)}, ProcessInitStart(e)
    PROVE  Promise!CreateServer(c)
<1> DEFINE m == Head(inbox[e])
           id == CompleteId(m.arg, counter[Owner(e)] + 1)
<1>0. /\ e \in Ends /\ inbox[e] # <<>> /\ inbox[e] \in Seq(Msgs) /\ m.type = "InitStart"
      /\ handler[e] = "idle" /\ phase[e] = "NotConnected"
      /\ ConnInv(c) /\ Owner(e) \in Procs /\ counter \in [Procs -> Nat]
  <2>1. e \in Ends /\ Owner(e) \in Procs /\ ConnInv(c)
    BY ConnFacts
  <2>2. inbox \in [Ends -> Seq(Msgs)] /\ counter \in [Procs -> Nat]
    BY DEF SafeInv, TypeInv, BaseTypes
  <2> QED
    BY <2>1, <2>2 DEF ProcessInitStart, Receives
<1>1. m \in Msgs /\ 1 \in DOMAIN inbox[e] /\ inbox[e][1] = m
  BY <1>0
<1>2. e = Server(c)
  BY <1>0, <1>1 DEF ConnInv, Wire
<1>3. created[e] = 0
  BY <1>0, <1>1, <1>2 DEF ConnInv, Wire, Fresh
<1>4. starter[c] \notin {"none", "refused"}
  BY <1>0, <1>2 DEF ConnInv, StartInv, Unstarted
<1>5. /\ created' = [created EXCEPT ![e] = @ + 1]
      /\ sessionId' = [sessionId EXCEPT ![e] = id]
      /\ phase' = [phase EXCEPT ![e] = "Ready"]
      /\ UNCHANGED <<starter, closed>>
  BY DEF ProcessInitStart
<1>6. id \in Ids
  <2>1. m.arg \in Ids /\ counter[Owner(e)] + 1 \in Nat
    BY <1>0, <1>1 DEF Msgs
  <2> QED
    BY <2>1, CompleteIdLemma
<1> HIDE DEF id, m
<1>7. /\ created' = [created EXCEPT ![e] = 1]
      /\ Told' = [Told EXCEPT ![e] = id]
  BY <1>0, <1>3, <1>5, <1>6, ToldOne
<1>8. Deleted' = Deleted /\ e \notin Deleted
  BY <1>0, <1>5, DeletedStays DEF Deleted
<1>9. Call' = Call /\ Call[c] \notin {"none", "refused"}
  BY <1>4, <1>5 DEF Call
<1> QED
  BY <1>2, <1>3, <1>5, <1>6, <1>7, <1>8, <1>9, SameNames DEF Promise!CreateServer

(* The create-callback of the client, with the id the server has.          *)
LEMMA CreateClientSeen ==
    ASSUME SafeInv, SafeInv', UnusedInv, NEW c \in Conns, NEW e \in {Client(c), Server(c)},
           FinishSessionReady(e)
    PROVE  Promise!CreateClient(c)
<1> DEFINE s == Server(c)
<1>0. /\ e \in Ends /\ s \in Ends /\ ConnInv(c) /\ ConnInv(c)' /\ s # Client(c)
      /\ inbox[e] # <<>> /\ inbox[e] \in Seq(Msgs) /\ handler[e] = "initReply"
  BY ConnFacts, ConnLemma
  DEF FinishSessionReady, SafeInv, AllConnInv, TypeInv, BaseTypes, HandlerHasMessage
<1>1. e = Client(c)
  BY <1>0 DEF ConnInv, Wire
<1>2. created \in [Ends -> Nat] /\ sessionId \in [Ends -> Ids]
  BY DEF SafeInv, TypeInv, BaseTypes
<1>3. /\ created' = [created EXCEPT ![e] = @ + 1]
      /\ sessionId' = [sessionId EXCEPT ![e] = Head(inbox[e]).arg]
      /\ UNCHANGED <<starter, closed, phase>>
  BY DEF FinishSessionReady
<1>4. created[e] = 0
  <2>1. created'[e] <= 1 /\ created'[e] = created[e] + 1 /\ created[e] \in Nat
    BY <1>0, <1>1, <1>2, <1>3 DEF ConnInv, ClientInv
  <2> QED
    BY <2>1
<1>5. created[s] = 1
  <2>1. ~Fresh(c) /\ created[s] <= 1 /\ created[s] \in Nat
    BY <1>0, <1>1, <1>2, ConnFacts DEF ConnInv, ServerInv, Before
  <2> QED
    BY <2>1 DEF Fresh
<1>6. Head(inbox[e]).arg \in Ids
  <2>1. Head(inbox[e]) \in Msgs
    BY <1>0
  <2> QED
    BY <2>1 DEF Msgs
<1>7. Head(inbox[e]).arg = sessionId[s]
  <2>1. sessionId'[e] = Head(inbox[e]).arg /\ sessionId'[s] = sessionId[s]
    BY <1>0, <1>1, <1>2, <1>3, <1>6
  <2>2. created'[e] > 0
    BY <1>0, <1>2, <1>3, <1>4
  <2> QED
    BY <1>0, <1>1, <2>1, <2>2 DEF ConnInv, IdInv
<1>8. Told[s] = sessionId[s]
  BY <1>0, <1>5 DEF Told
<1>9. /\ created' = [created EXCEPT ![e] = 1]
      /\ Told' = [Told EXCEPT ![e] = Told[s]]
  <2> DEFINE i == Head(inbox[e]).arg
  <2>1. i \in Ids /\ i = Told[s] /\ sessionId' = [sessionId EXCEPT ![e] = i]
    BY <1>3, <1>6, <1>7, <1>8
  <2> HIDE DEF i
  <2>2. created' = [created EXCEPT ![e] = 1] /\ Told' = [Told EXCEPT ![e] = i]
    BY <1>0, <1>3, <1>4, <2>1, ToldOne
  <2> QED
    BY <2>1, <2>2
<1>10. Call' = Call /\ Deleted' = Deleted /\ e \notin Deleted
  BY <1>0, <1>3 DEF Call, Deleted, UnusedInv
<1> QED
  BY <1>1, <1>3, <1>4, <1>5, <1>9, <1>10, SameNames DEF Promise!CreateClient

(* The receive thread.                                                     *)
LEMMA ReceiveSeen ==
    ASSUME SafeInv, SafeInv', UnusedInv, NEW c \in Conns, NEW e \in {Client(c), Server(c)},
           Receive(e)
    PROVE  \/ UNCHANGED Seen
           \/ Promise!CreateServer(c) \/ Promise!CreateClient(c) \/ Promise!Close(e)
<1>0. e \in Ends
  BY ConnFacts
<1>1. CASE ProcessInitStart(e) \/ FinishSessionReady(e)
  BY <1>1, CreateServerSeen, CreateClientSeen
<1>2. CASE SendInitReply(e) \/ ProcessHeartbeatStart(e) \/ ProcessHeartbeatReply(e)
  <2>1. UNCHANGED <<starter, created, closed, sessionId, phase>>
    BY <1>2 DEF SendInitReply, ProcessHeartbeatStart, ProcessHeartbeatReply, objVars, threadVars,
                callbackVars
  <2> QED
    BY <2>1, NothingSeen
<1>3. CASE ProcessInitReply(e) \/ ProcessCloseReply(e)
  <2>1. /\ phase[e] # "deleted"
        /\ \E v \in {"Ready", "NotConnected"} : phase' = [phase EXCEPT ![e] = v]
        /\ UNCHANGED <<starter, created, closed, sessionId>>
    BY <1>3 DEF ProcessInitReply, ProcessCloseReply, Receives, threadVars, callbackVars
  <2>2. Deleted' = Deleted
    BY <1>0, <2>1, DeletedStays
  <2> QED
    BY <2>1, <2>2 DEF Seen, Call, Told
<1>4. CASE ProcessCloseStart(e)
  <2>1. /\ EndSession(e, RemoveSession(sessions[Owner(e)], Head(inbox[e]).arg))
        /\ UNCHANGED <<created, sessionId, handler, starter>>
    BY <1>4 DEF ProcessCloseStart, threadVars
  <2>2. Call' = Call
    BY <2>1 DEF Call
  <2> QED
    BY <2>1, <2>2, EndSeen
<1> QED
  BY <1>1, <1>2, <1>3, <1>4 DEF Receive

(* The application closes or deletes a session.                            *)
LEMMA ApplicationSeen ==
    ASSUME SafeInv, SafeInv', NEW c \in Conns, NEW e \in {Client(c), Server(c)}, Application(e)
    PROVE  UNCHANGED Seen \/ Promise!Close(e) \/ Promise!Delete(e)
<1>0. e \in Ends /\ e[1] \in Conns /\ ConnInv(c) /\ created[e] \in Nat
  BY ConnFacts, EndsLemma
<1>1. CASE SendCloseStart(e) \/ \E replyExpected \in BOOLEAN : CloseSession(e, replyExpected)
  <2>1. UNCHANGED <<starter, created, closed, sessionId, phase>>
    BY <1>1 DEF SendCloseStart, CloseSession, objVars, callbackVars
  <2> QED
    BY <2>1, NothingSeen
<1>2. CASE FinishClose(e)
  <2>1. EndSession(e, sessions[Owner(e)]) /\ UNCHANGED <<created, sessionId, handler, starter>>
    BY <1>2 DEF FinishClose
  <2>2. Call' = Call
    BY <2>1 DEF Call
  <2> QED
    BY <2>1, <2>2, EndSeen
<1>3. CASE AppDeletes(e)
  <2>1. /\ created[e] > 0 /\ phase[e] # "deleted" /\ handler[e] = "idle"
        /\ e[2] = "client" => starter[e[1]] = "returned"
        /\ DeleteSession(e) /\ UNCHANGED <<starter, sessionId, created>>
    BY <1>3 DEF AppDeletes, AppHolds, threadVars
  <2>2. Promise!Drop(e)
    BY <2>1, DeleteSeen
  <2>3. created[e] = 1
    <3>1. created[e] <= 1
      BY <1>0 DEF ConnInv, ClientInv, ServerInv
    <3> QED
      BY <1>0, <2>1, <3>1
  <2>4. e \notin Deleted /\ Call' = Call /\ (e[2] = "client" => Call[e[1]] = "returned")
    BY <1>0, <2>1 DEF Deleted, Call
  <2> QED
    BY <2>2, <2>3, <2>4 DEF Promise!Delete
<1> QED
  BY <1>1, <1>2, <1>3 DEF Application

(* What the applications see of any step is a step of the promise.         *)
LEMMA SeenNext == SeenInv /\ SafeInv' /\ [Next]_vars => [Promise!Next]_Seen
<1> SUFFICES ASSUME SeenInv, SafeInv', [Next]_vars
             PROVE  Promise!Next \/ UNCHANGED Seen
  OBVIOUS
<1>0. SafeInv /\ UnusedInv
  BY DEF SeenInv
<1>1. ASSUME NEW c \in Conns, Start(c) \/ Poll(c) \/ ProcessConnection(c)
      PROVE  Promise!Next \/ UNCHANGED Seen
  <2>1. Client(c) \in Ends /\ Server(c) \in Ends
    BY ConnLemma
  <2>2. CASE Start(c)
    BY <1>0, <2>2, StartSeen DEF Promise!Next
  <2>3. CASE Poll(c)
    BY <2>1, <2>3, PollSeen, SameNames DEF Promise!Next
  <2>4. CASE ProcessConnection(c)
    <3>1. /\ phase[Server(c)] = "none" /\ phase' = [phase EXCEPT ![Server(c)] = "NotConnected"]
          /\ UNCHANGED <<starter, created, closed, sessionId>>
      BY <2>4 DEF ProcessConnection, threadVars, callbackVars
    <3>2. Deleted' = Deleted
      BY <1>0, <2>1, <3>1, DeletedStays
    <3> QED
      BY <3>1, <3>2 DEF Seen, Call, Told
  <2> QED
    BY <1>1, <2>2, <2>3, <2>4
<1>2. ASSUME NEW e \in Ends, Receive(e) \/ SendHeartbeat(e) \/ Application(e) \/ CutLink(e)
      PROVE  Promise!Next \/ UNCHANGED Seen
  <2>1. PICK c \in Conns : e \in {Client(c), Server(c)}
    BY EndsLemma
  <2>2. CASE Receive(e)
    BY <1>0, <1>2, <2>1, <2>2, ReceiveSeen, SameNames DEF Promise!Next
  <2>3. CASE Application(e)
    BY <1>0, <1>2, <2>1, <2>3, ApplicationSeen, SameNames DEF Promise!Next
  <2>4. CASE SendHeartbeat(e) \/ CutLink(e)
    <3>1. UNCHANGED <<starter, created, closed, sessionId, phase>>
      BY <2>4 DEF SendHeartbeat, CutLink, objVars, threadVars, callbackVars
    <3> QED
      BY <3>1, NothingSeen
  <2> QED
    BY <1>2, <2>2, <2>3, <2>4
<1>3. ASSUME NEW p \in Procs, Timer(p)
      PROVE  Promise!Next \/ UNCHANGED Seen
  <2>1. UNCHANGED <<starter, created, closed, sessionId, phase>>
    BY <1>3, TimerLeaves
  <2> QED
    BY <2>1, NothingSeen
<1>4. CASE UNCHANGED vars
  <2>1. UNCHANGED <<starter, created, closed, sessionId, phase>>
    BY <1>4 DEF vars, objVars, threadVars, callbackVars
  <2> QED
    BY <2>1, NothingSeen
<1> QED
  BY <1>1, <1>2, <1>3, <1>4 DEF Next

(* The first state of the code is the first state of the promise.          *)
LEMMA PromiseInit == Init => Promise!Init
<1> SUFFICES ASSUME Init
             PROVE  Promise!Init
  OBVIOUS
<1>1. Call = [c \in Conns |-> "none"]
  BY DEF Init, Call
<1>2. Told = [e \in Ends |-> ZeroId]
  BY DEF Init, Told
<1>3. Deleted = {}
  BY DEF Init, Deleted
<1> QED
  BY <1>1, <1>2, <1>3, SameNames DEF Init, Promise!Init

(* Each connection keeps the promise of SessionPromise, for any number of  *)
(* processes and connections that share their maps, counters and lists:    *)
(* whatever handshakes, heartbeats, timeouts, closes and deletes overlap,  *)
(* what the applications see is what an undisturbed session could show.    *)
THEOREM SessionsKeepPromise == Spec => ImplementsSession
<1>1. SeenInv /\ SeenInv' /\ [Next]_vars => [Promise!Next]_Seen
  BY SeenNext DEF SeenInv
<1> QED
  BY <1>1, PromiseInit, SeenInit, SeenStep, PTL
  DEF Spec, ImplementsSession, Promise!Spec, Promise!vars, Seen
=============================================================================
