--------------------------- MODULE RequestPromise ---------------------------
(***************************************************************************)
(* What Session::sendRequest promises its callers, without the list, the   *)
(* lock and the condition variables behind it: a call returns once, with   *)
(* the response to its own request or with nullptr; with nullptr only if   *)
(* nothing was sent or its timeout was reported; and a reported timeout is *)
(* never followed by the response.                                         *)
(***************************************************************************)
CONSTANTS
    Requests,        \* the calls of sendRequest
    SpuriousWakeups  \* cv.wait may return without a notification

VARIABLES
    call,      \* "idle", "blocked", "response" or "nullptr"
    answered,  \* the other side has called sendResponse for it
    timedOut   \* MESSAGE_TIMEOUT was reported for it

vars == <<call, answered, timedOut>>

Init ==
    /\ call = [r \in Requests |-> "idle"]
    /\ answered = [r \in Requests |-> FALSE]
    /\ timedOut = [r \in Requests |-> FALSE]

(* The request is sent and the caller blocks, or it is not sent at all.    *)
Ask(r) ==
    /\ call[r] = "idle"
    /\ \E now \in {"blocked", "nullptr"} : call' = [call EXCEPT ![r] = now]
    /\ UNCHANGED <<answered, timedOut>>

Answer(r) ==
    /\ call[r] # "idle"
    /\ answered' = [answered EXCEPT ![r] = TRUE]
    /\ UNCHANGED <<call, timedOut>>

TimeOut(r) ==
    /\ call[r] = "blocked"
    /\ timedOut' = [timedOut EXCEPT ![r] = TRUE]
    /\ UNCHANGED <<call, answered>>

ReturnResponse(r) ==
    /\ call[r] = "blocked"
    /\ answered[r]
    /\ ~timedOut[r]
    /\ call' = [call EXCEPT ![r] = "response"]
    /\ UNCHANGED <<answered, timedOut>>

ReturnNothing(r) ==
    /\ call[r] = "blocked"
    /\ timedOut[r] \/ SpuriousWakeups
    /\ call' = [call EXCEPT ![r] = "nullptr"]
    /\ UNCHANGED <<answered, timedOut>>

Next ==
    \E r \in Requests :
        Ask(r) \/ Answer(r) \/ TimeOut(r) \/ ReturnResponse(r) \/ ReturnNothing(r)

Spec == Init /\ [][Next]_vars
=============================================================================
