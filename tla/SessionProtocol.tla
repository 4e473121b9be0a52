--------------------------- MODULE SessionProtocol ---------------------------
(***************************************************************************)
(* The life of sessions between processes that link libKitsunemimiSakura-  *)
(* Network: startSession, the INIT handshake, heartbeats, the reply timer, *)
(* closeSession and ~Session, for any number of processes, each with one   *)
(* SessionHandler (map of sessions, id counter) and one ReplyHandler (list *)
(* of messages that wait for a reply).                                     *)
(*                                                                         *)
(* A connection is one call of SessionController::startSession.  It has    *)
(* two ends: the session object of the client and the one the server       *)
(* creates when it accepts the socket.  Four kinds of threads act:         *)
(*   - the receive thread of each end (processMessage, one message after   *)
(*     another);                                                           *)
(*   - the timer thread of each process (ReplyHandler::run);               *)
(*   - the thread that is inside startSession (`starter');                 *)
(*   - one application thread per end that may close or delete it (`app'). *)
(* A handler is one step, except where another thread sees a difference:   *)
(* the INIT handlers, closeSession and makeTimerStep of the ReplyHandler,  *)
(* which unlocks its list in the middle, are split at those places.        *)
(*                                                                         *)
(* The vector of the ReplyHandler is taken to stay where it is: it does    *)
(* for the 10 entries it reserves; DataExchange lets it move.              *)
(***************************************************************************)
EXTENDS Integers, Sequences

CONSTANTS
    Procs,         \* the processes
    Conns,         \* the connections: calls of startSession
    ClientOf,      \* [Conns -> Procs] the process that calls startSession
    ServerOf,      \* [Conns -> Procs] the process that accepts the socket
    IdBase,        \* 2^16 in the code: range of m_sessionIdCounter
    TimeoutTicks,  \* 2 in the code: m_timeoutValue in steps of the timer
    MaxBeat,       \* bound on the message-ids of heartbeats, per end
    MaxClose,      \* bound on the message-ids of closeSession, per end
    Cuttable       \* the ends whose outgoing direction may break

Ends == Conns \X {"client", "server"}

ASSUME ConstantsAssumption ==
    /\ ClientOf \in [Conns -> Procs]
    /\ ServerOf \in [Conns -> Procs]
    /\ IdBase \in Nat \ {0}
    /\ TimeoutTicks \in Nat \ {0}
    /\ MaxBeat \in [Ends -> Nat]
    /\ MaxClose \in [Ends -> Nat]
    /\ Cuttable \subseteq Ends

Client(c) == <<c, "client">>
Server(c) == <<c, "server">>
Peer(e) == IF e[2] = "client" THEN Server(e[1]) ELSE Client(e[1])
Owner(e) == IF e[2] = "client" THEN ClientOf[e[1]] ELSE ServerOf[e[1]]

(***************************************************************************)
(* A session-id is a 32-bit word; it is the pair of its high and its low   *)
(* half.  The client's initial id has only the low half, the server adds   *)
(* its own number to the high half.                                        *)
(***************************************************************************)
Word == 0 .. IdBase - 1
Ids == Word \X Word
ZeroId == <<0, 0>>
InitialId(n) == <<0, n % IdBase>>
(* Mutations of CompleteId: the number reaches beyond the high half; the   *)
(* number is added without being shifted to the high half.                 *)
CompleteIdOverflows(id, n) == <<id[1] + n * IdBase, id[2]>>
CompleteIdUnshifted(id, n) == <<id[1], (id[2] + n) % IdBase>>
CompleteId(id, n) == <<(id[1] + n) % IdBase, id[2]>>

(***************************************************************************)
(* Messages: type, sessionId and messageId of the common header, and the   *)
(* id in the body (clientSessionId or completeSessionId of the INIT        *)
(* messages; the sessionId of the CLOSE messages, which no sender sets).   *)
(***************************************************************************)
MsgTypes == {"InitStart", "InitReply", "CloseStart", "CloseReply",
             "HeartbeatStart", "HeartbeatReply"}
Msgs == [type : MsgTypes, sid : Ids, mid : Nat, arg : Ids]
Msg(type, sid, mid, arg) == [type |-> type, sid |-> sid, mid |-> mid, arg |-> arg]
(* Mutation: the header of INIT_REPLY lacks the reply flag.                *)
IsReplyButInit(m) == m.type \in {"CloseReply", "HeartbeatReply"}
IsReply(m) == m.type \in {"InitReply", "CloseReply", "HeartbeatReply"}

(* An entry of ReplyHandler::m_messageList.                                *)
Entries == [sid : Ids, mid : Nat, session : Ends, ignore : BOOLEAN, timer : Nat]

VARIABLES
    \* per process
    counter,      \* m_sessionIdCounter, before the reduction to 16 bits
    sessions,     \* m_sessions: set of <<id, end>>
    messageList,  \* ReplyHandler::m_messageList
    \* per process: makeTimerStep, while the list is unlocked
    walk,         \* "due": an entry is due; "removed": removeMessage has returned
    temp,         \* the position of its pointer into the vector; 0 while idle
    behind,       \* what pop_back left there, when that is behind the end: <<entry>>
    \* per end: the session object and its socket
    phase,        \* state of m_statemachine; "none" before `new', "deleted" after
    sessionId,    \* m_sessionId
    initState,    \* m_initState
    lastMid,      \* m_messageIdCounter
    open,         \* the socket is connected
    \* the network
    inbox,        \* messages sent to this end and not yet processed
    cut,          \* ends whose outgoing direction is broken
    \* threads
    handler,      \* receive thread of an end: inside which INIT handler
    app,          \* application thread of an end: inside closeSession
    starter,      \* per connection: where startSession is
    \* history of callbacks, per end
    created,      \* number of create-callbacks
    closed,       \* number of close-callbacks
    timedOut      \* an error-callback MESSAGE_TIMEOUT has been triggered

timerVars == <<walk, temp, behind>>
procVars == <<counter, sessions, messageList, timerVars>>
objVars == <<phase, sessionId, initState, lastMid, open>>
netVars == <<inbox, cut>>
threadVars == <<handler, app, starter>>
callbackVars == <<created, closed, timedOut>>
vars == <<procVars, objVars, netVars, threadVars, callbackVars>>

TypeOK ==
    /\ counter \in [Procs -> Nat]
    /\ sessions \in [Procs -> SUBSET (Ids \X Ends)]
    /\ messageList \in [Procs -> Seq(Entries)]
    /\ walk \in [Procs -> {"idle", "due", "removed"}]
    /\ temp \in [Procs -> Nat]
    /\ behind \in [Procs -> Seq(Entries)]
    /\ phase \in [Ends -> {"none", "NotConnected", "NotReady", "Ready", "deleted"}]
    /\ sessionId \in [Ends -> Ids]
    /\ initState \in [Ends -> {-1, 0, 1}]
    /\ lastMid \in [Ends -> Nat]
    /\ open \in [Ends -> BOOLEAN]
    /\ inbox \in [Ends -> Seq(Msgs)]
    /\ cut \in [Ends -> BOOLEAN]
    /\ handler \in [Ends -> {"idle", "initStart", "initReply"}]
    /\ app \in [Ends -> {"idle", "marked", "markedReply", "sent"}]
    /\ starter \in [Conns -> {"none", "waiting", "returned", "failing", "failed", "refused"}]
    /\ created \in [Ends -> Nat]
    /\ closed \in [Ends -> Nat]
    /\ timedOut \in [Ends -> BOOLEAN]

Init ==
    /\ counter = [p \in Procs |-> 0]
    /\ sessions = [p \in Procs |-> {}]
    /\ messageList = [p \in Procs |-> <<>>]
    /\ walk = [p \in Procs |-> "idle"]
    /\ temp = [p \in Procs |-> 0]
    /\ behind = [p \in Procs |-> <<>>]
    /\ phase = [e \in Ends |-> "none"]
    /\ sessionId = [e \in Ends |-> ZeroId]
    /\ initState = [e \in Ends |-> 0]
    /\ lastMid = [e \in Ends |-> 0]
    /\ open = [e \in Ends |-> FALSE]
    /\ inbox = [e \in Ends |-> <<>>]
    /\ cut = [e \in Ends |-> FALSE]
    /\ handler = [e \in Ends |-> "idle"]
    /\ app = [e \in Ends |-> "idle"]
    /\ starter = [c \in Conns |-> "none"]
    /\ created = [e \in Ends |-> 0]
    /\ closed = [e \in Ends |-> 0]
    /\ timedOut = [e \in Ends |-> FALSE]

-----------------------------------------------------------------------------
(* SessionHandler: the map of sessions.                                    *)

(* std::map::insert keeps the entry that is already there.                 *)
AddSession(map, id, e) ==
    IF \E x \in map : x[1] = id THEN map ELSE map \cup {<<id, e>>}

RemoveSession(map, id) == {x \in map : x[1] # id}

(* ReplyHandler: the list of messages that wait for a reply.               *)

Entry(sid, mid, e) ==
    [sid |-> sid, mid |-> mid, session |-> e, ignore |-> FALSE, timer |-> 0]

Matches(l, sid, mid) == {i \in DOMAIN l : l[i].sid = sid /\ l[i].mid = mid}

First(S) == CHOOSE i \in S : \A j \in S : i <= j

(* The content of the vector after std::iter_swap of position i and the    *)
(* last position; pop_back then only forgets the last position.            *)
SwapLast(l, i) == [l EXCEPT ![i] = l[Len(l)], ![Len(l)] = l[i]]

RemoveMessage(l, sid, mid) ==
    LET found == Matches(l, sid, mid)
    IN  IF found = {} THEN l
        ELSE SubSeq(SwapLast(l, First(found)), 1, Len(l) - 1)

IgnoreAllOf(l, sid) ==
    [i \in DOMAIN l |-> IF l[i].sid = sid THEN [l[i] EXCEPT !.ignore = TRUE] ELSE l[i]]

(* A message reaches the other side if the direction works, the sender's   *)
(* socket is open and the receiver has not closed its own.                 *)
Transmits(e) ==
    /\ open[e]
    /\ ~cut[e]
    /\ phase[Peer(e)] # "none" => open[Peer(e)]

Sent(box, e, m) ==
    IF Transmits(e) THEN [box EXCEPT ![Peer(e)] = Append(@, m)] ELSE box

(* The receive thread has taken the first message of e out of the buffer.  *)
Consumed(e) == [inbox EXCEPT ![e] = Tail(@)]

(* An arriving reply takes its request out of the list (flags & 0x2).      *)
Answered(e, m) ==
    IF IsReply(m)
    THEN [messageList EXCEPT ![Owner(e)] = RemoveMessage(@, m.sid, m.mid)]
    ELSE messageList

(* The removed entry, swapped to the last position, stays in the memory    *)
(* behind the new end; a pointer to that position still leads to it.       *)
LeftBehind(p, sid, mid) ==
    LET l == messageList[p]
        found == Matches(l, sid, mid)
    IN  IF found # {} /\ temp[p] = Len(l)
        THEN [behind EXCEPT ![p] = <<l[First(found)]>>] ELSE behind

LeftBy(e, m) == IF IsReply(m) THEN LeftBehind(Owner(e), m.sid, m.mid) ELSE behind

(* The next message of an idle receive thread.  The bytes that were read   *)
(* before the socket was closed are still processed.                       *)
Receives(e, type) ==
    /\ phase[e] \notin {"none", "deleted"}
    /\ handler[e] = "idle"
    /\ inbox[e] # <<>>
    /\ Head(inbox[e]).type = type

-----------------------------------------------------------------------------
(* Closing a session.                                                      *)

CloseStart(e) == Msg("CloseStart", sessionId[e], lastMid[e] + 1, ZeroId)

(* The first half of closeSession, for callers whose own steps between the *)
(* two halves nobody observes: ignore the open replies and tell the peer.  *)
AnnounceClose(e) ==
    IF phase[e] = "Ready"
    THEN /\ messageList' = [messageList EXCEPT ![Owner(e)] = IgnoreAllOf(@, sessionId[e])]
         /\ lastMid' = [lastMid EXCEPT ![e] = @ + 1]
         /\ inbox' = Sent(inbox, e, CloseStart(e))
    ELSE UNCHANGED <<messageList, lastMid, inbox>>

(* Mutation: the result of the state-change is not checked.                *)
EndSessionUnchecked(e, map) ==
    /\ phase' = [phase EXCEPT ![e] = "NotConnected"]
    /\ open' = [open EXCEPT ![e] = FALSE]
    /\ closed' = [closed EXCEPT ![e] = @ + 1]
    /\ sessions' = [sessions EXCEPT ![Owner(e)] = RemoveSession(map, sessionId[e])]

(* endSession, when the caller left `map' as the sessions of the process:  *)
(* STOP_SESSION is possible in the ready-state only.                       *)
EndSession(e, map) ==
    IF phase[e] = "Ready"
    THEN /\ phase' = [phase EXCEPT ![e] = "NotConnected"]
         /\ open' = [open EXCEPT ![e] = FALSE]
         /\ closed' = [closed EXCEPT ![e] = @ + 1]
         /\ sessions' = [sessions EXCEPT ![Owner(e)] = RemoveSession(map, sessionId[e])]
    ELSE /\ sessions' = [sessions EXCEPT ![Owner(e)] = map]
         /\ UNCHANGED <<phase, open, closed>>

(* Mutation: the destructor relies on endSession to clear the map.         *)
DeleteSessionKeepsEntry(e) ==
    /\ AnnounceClose(e)
    /\ initState' = [initState EXCEPT ![e] = -1]
    /\ sessions' = [sessions EXCEPT ![Owner(e)] =
                        IF phase[e] = "Ready" THEN RemoveSession(@, sessionId[e]) ELSE @]
    /\ phase' = [phase EXCEPT ![e] = "deleted"]
    /\ open' = [open EXCEPT ![e] = FALSE]
    /\ closed' = [closed EXCEPT ![e] = IF phase[e] = "Ready" THEN @ + 1 ELSE @]

(* ~Session: take the session out of the map, close it, drop the socket.   *)
DeleteSession(e) ==
    /\ AnnounceClose(e)
    /\ initState' = [initState EXCEPT ![e] = -1]
    /\ sessions' = [sessions EXCEPT ![Owner(e)] = RemoveSession(@, sessionId[e])]
    /\ phase' = [phase EXCEPT ![e] = "deleted"]
    /\ open' = [open EXCEPT ![e] = FALSE]
    /\ closed' = [closed EXCEPT ![e] = IF phase[e] = "Ready" THEN @ + 1 ELSE @]

-----------------------------------------------------------------------------
(* SessionController::startSession on the client.                          *)

(* Until INIT_START is sent only the caller knows the new session, so the  *)
(* steps up to there are one.                                              *)
StartSession(c) ==
    LET e == Client(c)
        p == ClientOf[c]
        id == InitialId(counter[p] + 1)
    IN  /\ starter[c] = "none"
        /\ counter' = [counter EXCEPT ![p] = @ + 1]
        /\ sessionId' = [sessionId EXCEPT ![e] = id]
        /\ phase' = [phase EXCEPT ![e] = "NotReady"]
        /\ open' = [open EXCEPT ![e] = TRUE]
        /\ sessions' = [sessions EXCEPT ![p] = AddSession(@, id, e)]
        /\ lastMid' = [lastMid EXCEPT ![e] = @ + 1]
        /\ messageList' = [messageList EXCEPT ![p] = Append(@, Entry(id, lastMid[e] + 1, e))]
        /\ inbox' = IF cut[e] THEN inbox
                    ELSE [inbox EXCEPT ![Peer(e)] =
                             Append(@, Msg("InitStart", id, lastMid[e] + 1, id))]
        /\ starter' = [starter EXCEPT ![c] = "waiting"]
        /\ UNCHANGED <<timerVars, initState, cut, handler, app, callbackVars>>

(* The identifier is too long, so that no session is created and no id is  *)
(* used, or initConnection failed and the session is deleted again.        *)
StartSessionRefused(c) ==
    /\ starter[c] = "none"
    /\ counter' \in {counter, [counter EXCEPT ![ClientOf[c]] = @ + 1]}
    /\ starter' = [starter EXCEPT ![c] = "refused"]
    /\ phase' = [phase EXCEPT ![Client(c)] = "deleted"]
    /\ initState' = [initState EXCEPT ![Client(c)] = -1]
    /\ sessions' = [sessions EXCEPT ![ClientOf[c]] = RemoveSession(@, ZeroId)]
    /\ UNCHANGED <<messageList, timerVars, sessionId, lastMid, open, netVars, handler, app,
                   callbackVars>>

(* The polling loop sees m_initState = 1.                                  *)
StartSessionReturns(c) ==
    /\ starter[c] = "waiting"
    /\ initState[Client(c)] = 1
    /\ starter' = [starter EXCEPT ![c] = "returned"]
    /\ UNCHANGED <<procVars, objVars, netVars, handler, app, callbackVars>>

(* The polling loop sees m_initState = -1: closeSession, then sleep(1).    *)
StartSessionGivesUp(c) ==
    LET e == Client(c)
    IN  /\ starter[c] = "waiting"
        /\ initState[e] = -1
        /\ AnnounceClose(e)
        /\ EndSession(e, sessions[Owner(e)])
        /\ starter' = [starter EXCEPT ![c] = "failing"]
        /\ UNCHANGED <<counter, timerVars, sessionId, initState, cut, handler, app, created,
                       timedOut>>

(* After the sleep the session is deleted and startSession returns nullptr.*)
(* The sleep is taken to outlast a handler or a closeSession under way.    *)
StartSessionFails(c) ==
    LET e == Client(c)
    IN  /\ starter[c] = "failing"
        /\ handler[e] = "idle"
        /\ app[e] = "idle"
        /\ DeleteSession(e)
        /\ starter' = [starter EXCEPT ![c] = "failed"]
        /\ UNCHANGED <<counter, timerVars, sessionId, cut, handler, app, created, timedOut>>

-----------------------------------------------------------------------------
(* The receive thread.                                                     *)

(* The server accepts the socket and creates the session for it.           *)
ProcessConnection(c) ==
    LET e == Server(c)
    IN  /\ starter[c] \notin {"none", "refused"}
        /\ phase[e] = "none"
        /\ phase' = [phase EXCEPT ![e] = "NotConnected"]
        /\ open' = [open EXCEPT ![e] = TRUE]
        /\ UNCHANGED <<procVars, sessionId, initState, lastMid, netVars, threadVars, callbackVars>>

(* INIT_START on the server, up to the reply: new id, addSession,          *)
(* connectiSession, makeSessionReady.  From here on the timer thread sends *)
(* heartbeats and the application holds the session.                       *)
ProcessInitStart(e) ==
    LET m == Head(inbox[e])
        p == Owner(e)
        id == CompleteId(m.arg, counter[p] + 1)
    IN  /\ Receives(e, "InitStart")
        /\ phase[e] = "NotConnected"
        /\ counter' = [counter EXCEPT ![p] = @ + 1]
        /\ sessions' = [sessions EXCEPT ![p] = AddSession(@, id, e)]
        /\ sessionId' = [sessionId EXCEPT ![e] = id]
        /\ phase' = [phase EXCEPT ![e] = "Ready"]
        /\ created' = [created EXCEPT ![e] = @ + 1]
        /\ initState' = [initState EXCEPT ![e] = 1]
        /\ handler' = [handler EXCEPT ![e] = "initStart"]
        /\ UNCHANGED <<messageList, timerVars, lastMid, open, netVars, app, starter, closed,
                       timedOut>>

(* Mutation: the reply is built from the counter as it is now.             *)
SendInitReplyRereads(e) ==
    LET m == Head(inbox[e])
        id == CompleteId(m.arg, counter[Owner(e)])
    IN  /\ handler[e] = "initStart"
        /\ inbox' = Sent(Consumed(e), e, Msg("InitReply", m.arg, m.mid, id))
        /\ handler' = [handler EXCEPT ![e] = "idle"]
        /\ UNCHANGED <<procVars, objVars, cut, app, starter, callbackVars>>

(* ... and the reply.                                                      *)
SendInitReply(e) ==
    LET m == Head(inbox[e])
    IN  /\ handler[e] = "initStart"
        /\ inbox' = Sent(Consumed(e), e, Msg("InitReply", m.arg, m.mid, sessionId[e]))
        /\ handler' = [handler EXCEPT ![e] = "idle"]
        /\ UNCHANGED <<procVars, objVars, cut, app, starter, callbackVars>>

(* Mutation: the session is not entered again under its final id.          *)
ProcessInitReplyUnlisted(e) ==
    LET m == Head(inbox[e])
    IN  /\ Receives(e, "InitReply")
        /\ phase[e] = "NotReady"
        /\ messageList' = Answered(e, m)
        /\ behind' = LeftBy(e, m)
        /\ sessions' = [sessions EXCEPT ![Owner(e)] = RemoveSession(@, m.sid)]
        /\ phase' = [phase EXCEPT ![e] = "Ready"]
        /\ handler' = [handler EXCEPT ![e] = "initReply"]
        /\ UNCHANGED <<counter, walk, temp, sessionId, initState, lastMid, open, netVars, app,
                       starter, callbackVars>>

(* Mutation: startSession is released before the create-callback.          *)
ProcessInitReplyReleases(e) ==
    LET m == Head(inbox[e])
        p == Owner(e)
    IN  /\ Receives(e, "InitReply")
        /\ phase[e] = "NotReady"
        /\ messageList' = Answered(e, m)
        /\ behind' = LeftBy(e, m)
        /\ sessions' = [sessions EXCEPT ![p] = AddSession(RemoveSession(@, m.sid), m.arg, e)]
        /\ phase' = [phase EXCEPT ![e] = "Ready"]
        /\ initState' = [initState EXCEPT ![e] = 1]
        /\ handler' = [handler EXCEPT ![e] = "initReply"]
        /\ UNCHANGED <<counter, walk, temp, sessionId, lastMid, open, netVars, app, starter,
                       callbackVars>>

(* INIT_REPLY on the client, up to the state-change of makeSessionReady:   *)
(* the session is ready and registered under its final id, but m_sessionId *)
(* is still the initial one.                                               *)
ProcessInitReply(e) ==
    LET m == Head(inbox[e])
        p == Owner(e)
    IN  /\ Receives(e, "InitReply")
        /\ phase[e] = "NotReady"
        /\ messageList' = Answered(e, m)
        /\ behind' = LeftBy(e, m)
        /\ sessions' = [sessions EXCEPT ![p] = AddSession(RemoveSession(@, m.sid), m.arg, e)]
        /\ phase' = [phase EXCEPT ![e] = "Ready"]
        /\ handler' = [handler EXCEPT ![e] = "initReply"]
        /\ UNCHANGED <<counter, walk, temp, sessionId, initState, lastMid, open, netVars, app,
                       starter, callbackVars>>

(* Mutation: the client keeps its initial id.                              *)
FinishSessionReadyKeepsId(e) ==
    /\ handler[e] = "initReply"
    /\ created' = [created EXCEPT ![e] = @ + 1]
    /\ initState' = [initState EXCEPT ![e] = 1]
    /\ inbox' = Consumed(e)
    /\ handler' = [handler EXCEPT ![e] = "idle"]
    /\ UNCHANGED <<procVars, sessionId, phase, lastMid, open, cut, app, starter, closed, timedOut>>

(* ... and the rest of makeSessionReady: the final id, the create-callback *)
(* and the release of the thread that polls in startSession.               *)
FinishSessionReady(e) ==
    /\ handler[e] = "initReply"
    /\ sessionId' = [sessionId EXCEPT ![e] = Head(inbox[e]).arg]
    /\ created' = [created EXCEPT ![e] = @ + 1]
    /\ initState' = [initState EXCEPT ![e] = 1]
    /\ inbox' = Consumed(e)
    /\ handler' = [handler EXCEPT ![e] = "idle"]
    /\ UNCHANGED <<procVars, phase, lastMid, open, cut, app, starter, closed, timedOut>>

(* Mutation: the close is answered but not carried out.                    *)
ProcessCloseStartAnswersOnly(e) ==
    LET m == Head(inbox[e])
    IN  /\ Receives(e, "CloseStart")
        /\ inbox' = Sent(Consumed(e), e, Msg("CloseReply", sessionId[e], m.mid, ZeroId))
        /\ sessions' = [sessions EXCEPT ![Owner(e)] = RemoveSession(@, m.arg)]
        /\ UNCHANGED <<counter, messageList, timerVars, sessionId, initState, lastMid, cut,
                       threadVars,
                       phase, open, callbackVars>>

ProcessCloseStart(e) ==
    LET m == Head(inbox[e])
    IN  /\ Receives(e, "CloseStart")
        /\ inbox' = Sent(Consumed(e), e, Msg("CloseReply", sessionId[e], m.mid, ZeroId))
        /\ EndSession(e, RemoveSession(sessions[Owner(e)], m.arg))
        /\ UNCHANGED <<counter, messageList, timerVars, sessionId, initState, lastMid, cut,
                       threadVars,
                       created, timedOut>>

(* disconnectSession: DISCONNECT is possible while the socket is connected.*)
ProcessCloseReply(e) ==
    LET m == Head(inbox[e])
    IN  /\ Receives(e, "CloseReply")
        /\ inbox' = Consumed(e)
        /\ messageList' = Answered(e, m)
        /\ behind' = LeftBy(e, m)
        /\ sessions' = [sessions EXCEPT ![Owner(e)] = RemoveSession(@, m.arg)]
        /\ phase' = [phase EXCEPT ![e] = "NotConnected"]
        /\ open' = [open EXCEPT ![e] = FALSE]
        /\ UNCHANGED <<counter, walk, temp, sessionId, initState, lastMid, cut, threadVars,
                       callbackVars>>

ProcessHeartbeatStart(e) ==
    LET m == Head(inbox[e])
    IN  /\ Receives(e, "HeartbeatStart")
        /\ inbox' = Sent(Consumed(e), e, Msg("HeartbeatReply", sessionId[e], m.mid, ZeroId))
        /\ UNCHANGED <<procVars, objVars, cut, threadVars, callbackVars>>

ProcessHeartbeatReply(e) ==
    LET m == Head(inbox[e])
    IN  /\ Receives(e, "HeartbeatReply")
        /\ inbox' = Consumed(e)
        /\ messageList' = Answered(e, m)
        /\ behind' = LeftBy(e, m)
        /\ UNCHANGED <<counter, sessions, walk, temp, objVars, cut, threadVars, callbackVars>>

-----------------------------------------------------------------------------
(* The timer thread: ReplyHandler::run.                                    *)

(* sendHeartBeats reaches every registered session; ready ones send.  It   *)
(* runs after makeTimerStep in the same thread.                            *)
SendHeartbeat(e) ==
    /\ walk[Owner(e)] = "idle"
    /\ \E x \in sessions[Owner(e)] : x[2] = e
    /\ phase[e] = "Ready"
    /\ lastMid[e] < MaxBeat[e]
    /\ lastMid' = [lastMid EXCEPT ![e] = @ + 1]
    /\ messageList' = [messageList EXCEPT ![Owner(e)] =
                          Append(@, Entry(sessionId[e], lastMid[e] + 1, e))]
    /\ inbox' = Sent(inbox, e, Msg("HeartbeatStart", sessionId[e], lastMid[e] + 1, ZeroId))
    /\ UNCHANGED <<counter, sessions, timerVars, phase, sessionId, initState, open, cut, threadVars,
                   callbackVars>>

(* The positions whose timer reaches the timeout with the next increment.  *)
Due(l) == {i \in DOMAIN l : l[i].timer + 1 >= TimeoutTicks}

(* The loop increments the timers up to the first due entry and stops.     *)
Ticked(l, last) ==
    [i \in DOMAIN l |-> IF i <= last THEN [l[i] EXCEPT !.timer = @ + 1] ELSE l[i]]

(* If an entry is due, the loop keeps a pointer to it and unlocks the list.*)
MakeTimerStep(p) ==
    LET l == messageList[p]
    IN  /\ walk[p] = "idle"
        /\ l # <<>>
        /\ \/ /\ Due(l) = {}
              /\ messageList' = [messageList EXCEPT ![p] = Ticked(l, Len(l))]
              /\ UNCHANGED timerVars
           \/ /\ Due(l) # {}
              /\ messageList' = [messageList EXCEPT ![p] = Ticked(l, First(Due(l)))]
              /\ walk' = [walk EXCEPT ![p] = "due"]
              /\ temp' = [temp EXCEPT ![p] = First(Due(l))]
              /\ UNCHANGED behind
        /\ UNCHANGED <<counter, sessions, objVars, netVars, threadVars, callbackVars>>

(* What the pointer leads to by now: the due entry, the one that has been  *)
(* swapped into its place, or what is left behind the end of the vector.   *)
Pointed(p) ==
    IF temp[p] <= Len(messageList[p]) THEN messageList[p][temp[p]] ELSE Head(behind[p])

(* removeMessage of the id found there, which may not be in the list (any  *)
(* more); the result is not looked at.                                     *)
RemoveDue(p) ==
    LET v == Pointed(p)
    IN  /\ walk[p] = "due"
        /\ messageList' = [messageList EXCEPT ![p] = RemoveMessage(@, v.sid, v.mid)]
        /\ behind' = LeftBehind(p, v.sid, v.mid)
        /\ walk' = [walk EXCEPT ![p] = "removed"]
        /\ UNCHANGED <<counter, sessions, temp, objVars, netVars, threadVars, callbackVars>>

(* Mutation: the thread in startSession is not released.                   *)
TimeoutKeepsWaiting(v) ==
    IF v.ignore
    THEN UNCHANGED <<initState, timedOut>>
    ELSE /\ timedOut' = [timedOut EXCEPT ![v.session] = TRUE]
         /\ UNCHANGED initState

(* A timeout releases startSession and calls the error-callback.           *)
Timeout(v) ==
    IF v.ignore
    THEN UNCHANGED <<initState, timedOut>>
    ELSE /\ initState' = [initState EXCEPT ![v.session] = -1]
         /\ timedOut' = [timedOut EXCEPT ![v.session] = TRUE]

(* The pointer is followed once more: in place of the removed entry there  *)
(* is now the one that was the last.                                       *)
ReportDue(p) ==
    /\ walk[p] = "removed"
    /\ Timeout(Pointed(p))
    /\ walk' = [walk EXCEPT ![p] = "idle"]
    /\ temp' = [temp EXCEPT ![p] = 0]
    /\ behind' = [behind EXCEPT ![p] = <<>>]
    /\ UNCHANGED <<counter, sessions, messageList, phase, sessionId, lastMid, open, netVars,
                   threadVars, created, closed>>

Timer(p) == MakeTimerStep(p) \/ RemoveDue(p) \/ ReportDue(p)

-----------------------------------------------------------------------------
(* The application: closeSession and `delete' on a session it was given.   *)

(* The application knows the session from its create-callback on.          *)
AppHolds(e) == created[e] > 0 /\ phase[e] # "deleted" /\ app[e] = "idle"

(* closeSession(replyExpected), first lock: the open replies are ignored.  *)
CloseSession(e, replyExpected) ==
    /\ AppHolds(e)
    /\ phase[e] = "Ready"
    /\ lastMid[e] < MaxClose[e]
    /\ messageList' = [messageList EXCEPT ![Owner(e)] = IgnoreAllOf(@, sessionId[e])]
    /\ app' = [app EXCEPT ![e] = IF replyExpected THEN "markedReply" ELSE "marked"]
    /\ UNCHANGED <<counter, sessions, timerVars, objVars, netVars, handler, starter, callbackVars>>

(* ... CLOSE_START is sent, with an entry in the list if a reply is        *)
(* expected; in that case closeSession returns.                            *)
SendCloseStart(e) ==
    /\ app[e] \in {"marked", "markedReply"}
    /\ lastMid' = [lastMid EXCEPT ![e] = @ + 1]
    /\ inbox' = Sent(inbox, e, CloseStart(e))
    /\ \/ /\ app[e] = "marked"
          /\ app' = [app EXCEPT ![e] = "sent"]
          /\ UNCHANGED messageList
       \/ /\ app[e] = "markedReply"
          /\ app' = [app EXCEPT ![e] = "idle"]
          /\ messageList' = [messageList EXCEPT ![Owner(e)] =
                                Append(@, Entry(sessionId[e], lastMid[e] + 1, e))]
    /\ UNCHANGED <<counter, sessions, timerVars, phase, sessionId, initState, open, cut, handler,
                   starter,
                   callbackVars>>

(* ... and endSession.                                                     *)
FinishClose(e) ==
    /\ app[e] = "sent"
    /\ EndSession(e, sessions[Owner(e)])
    /\ app' = [app EXCEPT ![e] = "idle"]
    /\ UNCHANGED <<counter, messageList, timerVars, sessionId, initState, lastMid, netVars,
                   handler, starter,
                   created, timedOut>>

(* The application deletes the session; it does not do so while startSes-  *)
(* sion still works on it or while the receive thread is inside a handler. *)
AppDeletes(e) ==
    /\ AppHolds(e)
    /\ handler[e] = "idle"
    /\ e[2] = "client" => starter[e[1]] = "returned"
    /\ DeleteSession(e)
    /\ UNCHANGED <<counter, timerVars, sessionId, cut, threadVars, created, timedOut>>

-----------------------------------------------------------------------------
(* The network breaks: nothing this end sends arrives any more.            *)
CutLink(e) ==
    /\ e \in Cuttable
    /\ ~cut[e]
    /\ cut' = [cut EXCEPT ![e] = TRUE]
    /\ UNCHANGED <<procVars, objVars, inbox, threadVars, callbackVars>>

Start(c) ==
    \/ StartSession(c)
    \/ StartSessionRefused(c)

Poll(c) ==
    \/ StartSessionReturns(c)
    \/ StartSessionGivesUp(c)
    \/ StartSessionFails(c)

Receive(e) ==
    \/ ProcessInitStart(e)
    \/ SendInitReply(e)
    \/ ProcessInitReply(e)
    \/ FinishSessionReady(e)
    \/ ProcessCloseStart(e)
    \/ ProcessCloseReply(e)
    \/ ProcessHeartbeatStart(e)
    \/ ProcessHeartbeatReply(e)

Application(e) ==
    \/ \E replyExpected \in BOOLEAN : CloseSession(e, replyExpected)
    \/ SendCloseStart(e)
    \/ FinishClose(e)
    \/ AppDeletes(e)

Next ==
    \/ \E c \in Conns : Start(c) \/ Poll(c) \/ ProcessConnection(c)
    \/ \E e \in Ends : Receive(e) \/ SendHeartbeat(e) \/ Application(e) \/ CutLink(e)
    \/ \E p \in Procs : Timer(p)

Spec == Init /\ [][Next]_vars

(* Every thread of the library that has something to do does it; nothing   *)
(* obliges the application to start, close or delete a session, the timer  *)
(* thread to find the session ready, or the network to break, and a        *)
(* receive thread need not read on after its socket was closed.            *)
Fairness ==
    /\ \A c \in Conns : WF_vars(Poll(c)) /\ WF_vars(ProcessConnection(c))
    /\ \A e \in Ends : /\ WF_vars((open[e] \/ handler[e] # "idle") /\ Receive(e))
                       /\ WF_vars(SendCloseStart(e))
                       /\ WF_vars(FinishClose(e))
    /\ \A p \in Procs : WF_vars(Timer(p))

FairSpec == Spec /\ Fairness

-----------------------------------------------------------------------------
(* Correctness.                                                            *)

(* The id under which a session is in the map of its process.              *)
RegisteredId(e) ==
    IF handler[e] = "initReply" THEN Head(inbox[e]).arg ELSE sessionId[e]

(* The map of a process, which sendHeartBeats walks through, never leads   *)
(* to a session that is not there, not its own, or filed under an id its   *)
(* destructor will not look for (~Session removes m_sessionId only), what- *)
(* ever the handshake, timeouts, closing and giving up do in between.      *)
NoDanglingRegistration ==
    \A p \in Procs : \A x \in sessions[p] :
        /\ Owner(x[2]) = p
        /\ phase[x[2]] \notin {"none", "deleted"}
        /\ x[1] = RegisteredId(x[2])

(* An INIT message finds its session in the state it is made for, so that  *)
(* connectiSession and makeSessionReady cannot fail: no timeout, close or  *)
(* giving up on either side puts a second handshake into the session.      *)
HandshakeFindsItsState ==
    \A e \in Ends : \A i \in DOMAIN inbox[e] :
        /\ inbox[e][i].type = "InitStart" /\ ~(i = 1 /\ handler[e] = "initStart")
              => phase[e] \in {"none", "NotConnected"} /\ created[e] = 0
        /\ inbox[e][i].type = "InitReply" /\ ~(i = 1 /\ handler[e] = "initReply")
              => phase[e] \in {"NotReady", "deleted"} /\ created[e] = 0

(* Both ends of an established session name it by the same id, although    *)
(* each half of the id is made in another process.                         *)
IdAgreement ==
    \A c \in Conns : created[Client(c)] > 0 /\ created[Server(c)] > 0
                        => sessionId[Client(c)] = sessionId[Server(c)]

(* Two sessions a process has on the same side have different ids, as long *)
(* as no m_sessionIdCounter has wrapped around at 16 bits.                 *)
UniqueIdsPerSide ==
    (\A p \in Procs : counter[p] < IdBase) =>
        \A e, f \in Ends :
            /\ e # f /\ e[2] = f[2] /\ Owner(e) = Owner(f)
            /\ created[e] > 0 /\ created[f] > 0
            => sessionId[e] # sessionId[f]

(* A process that only connects, or only accepts.                          *)
OneSided(p) == \A c, d \in Conns : ~(ClientOf[c] = p /\ ServerOf[d] = p)

(* A session that is ready can be found in the map under its id: only then *)
(* it gets heartbeats.  A process that connects and accepts as well may    *)
(* make the same id twice, as may a counter that has wrapped around, and   *)
(* map::insert drops the second session.                                   *)
ReadyIsRegistered ==
    \A e \in Ends :
        phase[e] = "Ready" /\ OneSided(Owner(e)) /\ counter[Owner(e)] < IdBase
            => <<RegisteredId(e), e>> \in sessions[Owner(e)]

(* The application gets each callback of a session at most once, and the   *)
(* close-callback after the create-callback, unless startSession gives the *)
(* session up itself; a closed session never becomes ready again.  Up to   *)
(* four parties may try to close: both applications, startSession and the  *)
(* destructor.                                                             *)
CallbackOrder ==
    \A e \in Ends :
        /\ created[e] <= 1
        /\ closed[e] <= 1
        /\ closed[e] > 0 => phase[e] \in {"NotConnected", "deleted"}
        /\ closed[e] > created[e] => e[2] = "client" /\ starter[e[1]] = "failing"

(* Once the create-callback of a client was called, INIT_START is not in   *)
(* the list any more, whatever the timer, which removes what its pointer   *)
(* leads to, and the replies, heartbeats and closes of other sessions do   *)
(* to the list: the timer cannot find it due any more.  That it was found  *)
(* due before the reply came is possible (GivenUpWasNotCreated).  When the *)
(* counter has wrapped around, the reply may find the entry of another     *)
(* session with the same initial id.                                       *)
InitIsAnswered ==
    \A c \in Conns : created[Client(c)] > 0 /\ counter[ClientOf[c]] < IdBase =>
        \A i \in DOMAIN messageList[ClientOf[c]] :
            LET m == messageList[ClientOf[c]][i]
            IN  ~(m.session = Client(c) /\ m.mid = 1)

(* What the applications see: the call of startSession, the id they were   *)
(* given in the create-callback, and which sessions were deleted.          *)
Call ==
    [c \in Conns |-> IF starter[c] = "failing" THEN "waiting" ELSE starter[c]]
Told == [e \in Ends |-> IF created[e] > 0 THEN sessionId[e] ELSE ZeroId]
Deleted == {e \in Ends : phase[e] = "deleted"}

(* Every connection behaves as SessionPromise says, whatever the messages, *)
(* the timer, both applications and startSession do to it at once.         *)
Promise == INSTANCE SessionPromise
               WITH NoId <- ZeroId, call <- Call, id <- Told, gone <- Deleted

ImplementsSession == Promise!Spec

(* startSession never blocks for ever: if the reply to INIT_START is lost, *)
(* the timer releases it.                                                  *)
StartSessionTerminates ==
    \A c \in Conns : starter[c] = "waiting" ~> starter[c] \in {"returned", "failed"}

Gone(e) == phase[e] \in {"NotConnected", "deleted"}

(* Whatever way a client closes a session that was ready - closeSession    *)
(* with or without a reply, the destructor, startSession giving it up, or  *)
(* because the server asked - the server does not stay ready, even when a  *)
(* close of its own, a heartbeat or a timeout crosses the CLOSE_START.  A  *)
(* startSession that gives up and deletes its session before it processed  *)
(* INIT_REPLY is not meant: closeSession sends nothing then, and a server  *)
(* that is ready already stays so.                                         *)
ClientCloseReachesServer ==
    \A c \in Conns : closed[Client(c)] > 0 \/ app[Client(c)] # "idle" ~> Gone(Server(c))

-----------------------------------------------------------------------------
(* What the documentation says and the code does not do.                   *)

(* CHANGELOG 0.4.0: "timeout-error-callbacks in an already closed session  *)
(* are not triggered anymore".                                             *)
NoTimeoutOnClosed ==
    [][\A e \in Ends : closed[e] > 0 /\ timedOut'[e] => timedOut[e]]_vars

(* session.cpp, makeSessionReady: with m_initState = 1 it is to "release   *)
(* blocked session on client-side"; session_controller.cpp, startSession:  *)
(* "true, if session was successfully created and connected, else false".  *)
(* So startSession does not give up a session whose create-callback was    *)
(* called.                                                                 *)
GivenUpWasNotCreated ==
    [][\A c \in Conns :
          starter[c] = "waiting" /\ starter'[c] = "failing" => created[Client(c)] = 0]_vars

=============================================================================
