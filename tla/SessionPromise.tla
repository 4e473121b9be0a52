---------------------------- MODULE SessionPromise ----------------------------
(***************************************************************************)
(* What the two applications at the ends of a connection may rely on,      *)
(* without the messages, the map, the reply list and the threads behind    *)
(* it.  They see the call of startSession with its result, the callbacks   *)
(* of a session and its id; and they delete sessions.                      *)
(*                                                                         *)
(* The server hears of a session first and the client, who gets the same   *)
(* id, afterwards; the id of a session never changes; each callback comes  *)
(* at most once, none for a session that was deleted or whose startSession *)
(* could not connect; startSession returns only sessions whose create-     *)
(* callback has come; the close-callback comes after the create-callback,  *)
(* unless startSession itself gives the session up.                        *)
(***************************************************************************)
EXTENDS Naturals

CONSTANTS
    Conns,  \* the calls of startSession
    Ids,    \* the ids of sessions
    NoId    \* stands for the id of a session that nobody was told of

Client(c) == <<c, "client">>
Server(c) == <<c, "server">>
Ends == Conns \X {"client", "server"}

VARIABLES
    call,     \* startSession: "none", "waiting", "returned", "failed", "refused"
    created,  \* number of create-callbacks of an end
    closed,   \* number of close-callbacks of an end
    id,       \* the id the application of an end was given
    gone      \* the ends whose session was deleted

vars == <<call, created, closed, id, gone>>

Init ==
    /\ call = [c \in Conns |-> "none"]
    /\ created = [e \in Ends |-> 0]
    /\ closed = [e \in Ends |-> 0]
    /\ id = [e \in Ends |-> NoId]
    /\ gone = {}

(* startSession begins to wait for the server ...                          *)
Connect(c) ==
    /\ call[c] = "none"
    /\ call' = [call EXCEPT ![c] = "waiting"]
    /\ UNCHANGED <<created, closed, id, gone>>

(* ... or finds nobody to connect to.                                      *)
Refuse(c) ==
    /\ call[c] = "none"
    /\ call' = [call EXCEPT ![c] = "refused"]
    /\ gone' = gone \cup {Client(c)}
    /\ UNCHANGED <<created, closed, id>>

CreateServer(c) ==
    /\ call[c] \notin {"none", "refused"}
    /\ created[Server(c)] = 0
    /\ Server(c) \notin gone
    /\ created' = [created EXCEPT ![Server(c)] = 1]
    /\ \E i \in Ids : id' = [id EXCEPT ![Server(c)] = i]
    /\ UNCHANGED <<call, closed, gone>>

CreateClient(c) ==
    /\ created[Server(c)] = 1
    /\ created[Client(c)] = 0
    /\ Client(c) \notin gone
    /\ created' = [created EXCEPT ![Client(c)] = 1]
    /\ id' = [id EXCEPT ![Client(c)] = id[Server(c)]]
    /\ UNCHANGED <<call, closed, gone>>

(* startSession gives up a session of which the server has heard already.  *)
GivenUp(e) == e[2] = "client" /\ call[e[1]] = "waiting" /\ created[Server(e[1])] = 1

Close(e) ==
    /\ closed[e] = 0
    /\ e \notin gone
    /\ created[e] = 1 \/ GivenUp(e)
    /\ closed' = [closed EXCEPT ![e] = 1]
    /\ UNCHANGED <<call, created, id, gone>>

(* Deleting a session closes it, if it is still there to be closed.        *)
Drop(e) ==
    /\ gone' = gone \cup {e}
    /\ \/ closed' = closed
       \/ /\ created[e] = 1 /\ closed[e] = 0
          /\ closed' = [closed EXCEPT ![e] = 1]
    /\ UNCHANGED <<created, id>>

(* The application deletes a session it was given.                         *)
Delete(e) ==
    /\ created[e] = 1
    /\ e \notin gone
    /\ e[2] = "client" => call[e[1]] = "returned"
    /\ Drop(e)
    /\ UNCHANGED call

Return(c) ==
    /\ call[c] = "waiting"
    /\ created[Client(c)] = 1
    /\ call' = [call EXCEPT ![c] = "returned"]
    /\ UNCHANGED <<created, closed, id, gone>>

Fail(c) ==
    /\ call[c] = "waiting"
    /\ Client(c) \notin gone
    /\ Drop(Client(c))
    /\ call' = [call EXCEPT ![c] = "failed"]

Next ==
    \/ \E c \in Conns : \/ Connect(c) \/ Refuse(c) \/ Return(c) \/ Fail(c)
                        \/ CreateServer(c) \/ CreateClient(c)
    \/ \E e \in Ends : Close(e) \/ Delete(e)

Spec == Init /\ [][Next]_vars
=============================================================================
