--------------------------- MODULE MessageBlocker ---------------------------
(***************************************************************************)
(* Session::sendRequest and the MessageBlockerHandler of a process: threads*)
(* that send a request and block, the receive threads that release them    *)
(* with the response, and the timer thread that gives a blocked thread up. *)
(*                                                                         *)
(* A thread in sendRequest sends, then enters a MessageBlocker into the    *)
(* list (under the spin-lock), then waits on the blocker's condition vari- *)
(* able (without the spin-lock), then takes the blocker out of the list.   *)
(* Each of these is a step, because a response or the timer may come in    *)
(* between.  The timer holds the spin-lock while it walks through the list,*)
(* one step per entry: the threads that need no lock go on meanwhile.      *)
(***************************************************************************)
EXTENDS Integers, Sequences

CONSTANTS
    Requests,        \* the calls of sendRequest; each has its own random id
    TimeoutOf,       \* [Requests -> Nat]: parameter `timeout', in seconds
    TimerRange,      \* 2^64 in the code: range of MessageBlocker::timer
    SpuriousWakeups, \* cv.wait may return without a notification
    NoData           \* responseData = nullptr

ASSUME BlockerAssumption ==
    /\ TimerRange \in Nat \ {0}
    /\ TimeoutOf \in [Requests -> 0 .. TimerRange - 1]
    /\ SpuriousWakeups \in BOOLEAN
    /\ NoData \notin Requests

VARIABLES
    pc,       \* where the thread of a request is
    list,     \* m_messageList: sequence of blockers
    at,       \* position of the timer in the list; 0 when it sleeps
    hung,     \* the timer waits for ever in ~condition_variable
    answer,   \* the response of a request, on its way from the other side
    result,   \* what sendRequest returned
    reported, \* the error-callback MESSAGE_TIMEOUT was called
    age       \* timer steps the request's blocker has seen, up to timeout + 1

vars == <<pc, list, at, hung, answer, result, reported, age>>

(* A blocker; its data is named by the request the response belongs to.    *)
Blockers == [id : Requests, timer : 0 .. TimerRange - 1, data : Requests \cup {NoData}]
Blocker(r) == [id |-> r, timer |-> TimeoutOf[r], data |-> NoData]

TypeOK ==
    /\ pc \in [Requests -> {"idle", "sent", "listed", "waiting", "woken", "done"}]
    /\ list \in Seq(Blockers)
    /\ at \in Nat
    /\ hung \in BOOLEAN
    /\ answer \in [Requests -> {"none", "open", "sent", "arrived", "lost"}]
    /\ result \in [Requests -> Requests \cup {NoData}]
    /\ reported \in [Requests -> BOOLEAN]
    /\ age \in [Requests -> Nat]

Init ==
    /\ pc = [r \in Requests |-> "idle"]
    /\ list = <<>>
    /\ at = 0
    /\ hung = FALSE
    /\ answer = [r \in Requests |-> "none"]
    /\ result = [r \in Requests |-> NoData]
    /\ reported = [r \in Requests |-> FALSE]
    /\ age = [r \in Requests |-> 0]

-----------------------------------------------------------------------------
(* The spin-lock is free: the timer is not inside its loop.                *)
Unlocked == at = 0

Listed(l, id) == \E i \in DOMAIN l : l[i].id = id

Position(l, id) == CHOOSE i \in DOMAIN l : l[i].id = id

(* Mutation: the last blocker is dropped without the swap.                 *)
RemoveWithoutSwap(l, id) ==
    IF Listed(l, id) THEN SubSeq(l, 1, Len(l) - 1) ELSE l

(* removeMessageFromList: swap with the last position, then pop_back.      *)
RemoveMessage(l, id) ==
    IF Listed(l, id)
    THEN SubSeq([l EXCEPT ![Position(l, id)] = l[Len(l)]], 1, Len(l) - 1)
    ELSE l

(* What removeMessageFromList returns.                                     *)
ResponseData(l, id) ==
    IF Listed(l, id) THEN l[Position(l, id)].data ELSE NoData

-----------------------------------------------------------------------------
(* The thread of a request.                                                *)

(* The session is ready and the request is sent.                           *)
SendRequest(r) ==
    /\ pc[r] = "idle"
    /\ pc' = [pc EXCEPT ![r] = "sent"]
    /\ answer' = [answer EXCEPT ![r] = "open"]
    /\ UNCHANGED <<list, at, hung, result, reported, age>>

(* The session is not ready or sending fails.                              *)
SendRequestFails(r) ==
    /\ pc[r] = "idle"
    /\ pc' = [pc EXCEPT ![r] = "done"]
    /\ UNCHANGED <<list, at, hung, answer, result, reported, age>>

BlockMessage(r) ==
    /\ pc[r] = "sent"
    /\ Unlocked
    /\ list' = Append(list, Blocker(r))
    /\ pc' = [pc EXCEPT ![r] = "listed"]
    /\ UNCHANGED <<at, hung, answer, result, reported, age>>

(* cv.wait takes no notice of earlier notifications.  When the timer has   *)
(* deleted the blocker before, nobody will notify it.                      *)
Wait(r) ==
    /\ pc[r] = "listed"
    /\ pc' = [pc EXCEPT ![r] = "waiting"]
    /\ UNCHANGED <<list, at, hung, answer, result, reported, age>>

WakeUp(r) ==
    /\ SpuriousWakeups
    /\ pc[r] = "waiting"
    /\ pc' = [pc EXCEPT ![r] = "woken"]
    /\ UNCHANGED <<list, at, hung, answer, result, reported, age>>

(* Mutation: the caller leaves its blocker in the list.                    *)
ReturnLeavesBlocker(r) ==
    /\ pc[r] = "woken"
    /\ Unlocked
    /\ result' = [result EXCEPT ![r] = ResponseData(list, r)]
    /\ pc' = [pc EXCEPT ![r] = "done"]
    /\ UNCHANGED <<list, at, hung, answer, reported, age>>

(* The end of blockMessage.                                                *)
Return(r) ==
    /\ pc[r] = "woken"
    /\ Unlocked
    /\ result' = [result EXCEPT ![r] = ResponseData(list, r)]
    /\ list' = RemoveMessage(list, r)
    /\ pc' = [pc EXCEPT ![r] = "done"]
    /\ UNCHANGED <<at, hung, answer, reported, age>>

-----------------------------------------------------------------------------
(* The other side and the receive threads.                                 *)

(* The application of the other side calls sendResponse.                   *)
SendResponse(r) ==
    /\ answer[r] = "open"
    /\ answer' = [answer EXCEPT ![r] = "sent"]
    /\ UNCHANGED <<pc, list, at, hung, result, reported, age>>

(* Mutation: whichever blocker is first gets the response.                 *)
ReleaseMessageFirst(r) ==
    /\ answer[r] = "sent"
    /\ Unlocked
    /\ IF list # <<>>
       THEN /\ list' = [list EXCEPT ![1].data = r]
            /\ pc' = [pc EXCEPT ![list[1].id] = IF @ = "waiting" THEN "woken" ELSE @]
            /\ answer' = [answer EXCEPT ![r] = "arrived"]
       ELSE /\ answer' = [answer EXCEPT ![r] = "lost"]
            /\ UNCHANGED <<pc, list>>
    /\ UNCHANGED <<at, hung, result, reported, age>>

(* Mutation: the data is stored but the thread is not notified.            *)
ReleaseMessageSilently(r) ==
    /\ answer[r] = "sent"
    /\ Unlocked
    /\ IF Listed(list, r)
       THEN /\ list' = [list EXCEPT ![Position(list, r)].data = r]
            /\ answer' = [answer EXCEPT ![r] = "arrived"]
       ELSE /\ answer' = [answer EXCEPT ![r] = "lost"]
            /\ UNCHANGED list
    /\ UNCHANGED <<pc, at, hung, result, reported, age>>

(* releaseMessage hands the response over and notifies the thread, if it   *)
(* waits already; without a blocker in the list nobody gets the response.  *)
ReleaseMessage(r) ==
    /\ answer[r] = "sent"
    /\ Unlocked
    /\ IF Listed(list, r)
       THEN /\ list' = [list EXCEPT ![Position(list, r)].data = r]
            /\ pc' = [pc EXCEPT ![r] = IF @ = "waiting" THEN "woken" ELSE @]
            /\ answer' = [answer EXCEPT ![r] = "arrived"]
       ELSE /\ answer' = [answer EXCEPT ![r] = "lost"]
            /\ UNCHANGED <<pc, list>>
    /\ UNCHANGED <<at, hung, result, reported, age>>

-----------------------------------------------------------------------------
(* The timer thread.                                                       *)

(* run: the loop over the list starts.                                     *)
StartTimerStep ==
    /\ Unlocked
    /\ at' = 1
    /\ age' = [r \in Requests |->
                  IF Listed(list, r) /\ age[r] <= TimeoutOf[r] THEN age[r] + 1 ELSE age[r]]
    /\ UNCHANGED <<pc, list, hung, answer, result, reported>>

(* Mutation: the timer of an entry is a signed number.                     *)
DecrementedSigned(l, i) == [l EXCEPT ![i].timer = @ - 1]

(* The timer of an entry is an unsigned number.                            *)
Decremented(l, i) == [l EXCEPT ![i].timer = (@ - 1) % TimerRange]

CountDown ==
    LET l == Decremented(list, at)
    IN  /\ at \in DOMAIN list
        /\ ~hung
        /\ l[at].timer # 0
        /\ list' = l
        /\ at' = at + 1
        /\ UNCHANGED <<pc, hung, answer, result, reported, age>>

(* Mutation: the timeout comes one step too early.                         *)
TimeoutEarly ==
    LET l == Decremented(list, at)
        r == l[at].id
    IN  /\ at \in DOMAIN list
        /\ ~hung
        /\ l[at].timer <= 1
        /\ list' = RemoveMessage(l, r)
        /\ reported' = [reported EXCEPT ![r] = TRUE]
        /\ at' = at + 1
        /\ UNCHANGED <<pc, hung, answer, result, age>>

(* Mutation: the timeout is reported, the blocker stays in the list.       *)
TimeoutKeepsBlocker ==
    LET l == Decremented(list, at)
        r == l[at].id
    IN  /\ at \in DOMAIN list
        /\ ~hung
        /\ l[at].timer = 0
        /\ list' = l
        /\ reported' = [reported EXCEPT ![r] = TRUE]
        /\ at' = at + 1
        /\ UNCHANGED <<pc, hung, answer, result, age>>

(* The blocker is removed and deleted first, so that the release that fol- *)
(* lows finds nothing to notify.  To delete a condition variable somebody  *)
(* waits on is undefined: the waiter sleeps on, and the destructor either  *)
(* returns or waits, with the spin-lock held, for the waiter to leave.     *)
(* The position is not read again: the entry swapped in is left out.       *)
Timeout ==
    LET l == Decremented(list, at)
        r == l[at].id
    IN  /\ at \in DOMAIN list
        /\ ~hung
        /\ l[at].timer = 0
        /\ list' = RemoveMessage(l, r)
        /\ \/ /\ reported' = [reported EXCEPT ![r] = TRUE]
              /\ at' = at + 1
              /\ UNCHANGED hung
           \/ /\ pc[r] = "waiting"
              /\ hung' = TRUE
              /\ UNCHANGED <<at, reported>>
        /\ UNCHANGED <<pc, answer, result, age>>

EndTimerStep ==
    /\ at > Len(list)
    /\ ~hung
    /\ at' = 0
    /\ UNCHANGED <<pc, list, hung, answer, result, reported, age>>

Caller(r) ==
    \/ SendRequest(r)
    \/ SendRequestFails(r)
    \/ BlockMessage(r)
    \/ Wait(r)
    \/ WakeUp(r)
    \/ Return(r)

MakeTimerStep ==
    \/ StartTimerStep
    \/ CountDown
    \/ Timeout
    \/ EndTimerStep

Next ==
    \/ \E r \in Requests : Caller(r) \/ SendResponse(r) \/ ReleaseMessage(r)
    \/ MakeTimerStep

Spec == Init /\ [][Next]_vars

(* The threads go on.  Strong fairness where the spin-lock is needed: the  *)
(* timer takes it once a second and for a moment only.  Nobody has to ask, *)
(* to answer, or to wake up without a reason.                              *)
Fairness ==
    /\ WF_vars(MakeTimerStep)
    /\ \A r \in Requests : /\ WF_vars(Wait(r))
                           /\ SF_vars(BlockMessage(r))
                           /\ SF_vars(Return(r))
                           /\ SF_vars(ReleaseMessage(r))

FairSpec == Spec /\ Fairness

-----------------------------------------------------------------------------
(* Correctness.                                                            *)

(* A caller gets the response to its own request, never that of another    *)
(* one, however the list is reordered and whichever blocker is gone.       *)
OwnResponse == \A r \in Requests : result[r] \in {r, NoData}

(* A timeout that was reported is final: the request does not return a     *)
(* response, although it may arrive at any moment around the timeout.      *)
TimeoutIsFinal == \A r \in Requests : reported[r] => result[r] = NoData

(* Every blocker belongs to one thread that is still inside blockMessage   *)
(* and has not timed out, so the timer and late responses never find the   *)
(* blocker of a call that is over.                                         *)
BlockersHaveCallers ==
    /\ \A i \in DOMAIN list : /\ pc[list[i].id] \in {"listed", "waiting", "woken"}
                              /\ ~reported[list[i].id]
    /\ \A i, j \in DOMAIN list : list[i].id = list[j].id => i = j

(* Without spurious wake-ups a request that was sent returns nullptr only  *)
(* when its timeout was reported: no response gets lost between a notifi-  *)
(* cation and the return, and no timer gives up in silence.                *)
NothingMeansTimeout ==
    ~SpuriousWakeups =>
        \A r \in Requests : pc[r] = "done" /\ result[r] = NoData /\ answer[r] # "none"
                                => reported[r]

(* The timeout is never reported before the timer has made `timeout' steps *)
(* since the request was entered into the list.                            *)
TimeoutNotEarly == \A r \in Requests : reported[r] => age[r] >= TimeoutOf[r]

(* A response that is sent to a waiting thread releases it, and the thread *)
(* returns, unless the timer was faster and the response finds no blocker  *)
(* any more, or the timer thread hangs with the spin-lock.                 *)
ArrivedReleases ==
    \A r \in Requests :
        pc[r] = "waiting" /\ answer[r] = "sent" ~> pc[r] = "done" \/ answer[r] = "lost" \/ hung

(* Every call of sendRequest behaves as RequestPromise says.               *)
Call ==
    [r \in Requests |->
        CASE pc[r] = "idle" -> "idle"
          [] pc[r] = "done" -> IF result[r] = NoData THEN "nullptr" ELSE "response"
          [] OTHER -> "blocked"]

Answered == [r \in Requests |-> answer[r] \in {"sent", "arrived", "lost"}]

Promise == INSTANCE RequestPromise WITH call <- Call, answered <- Answered, timedOut <- reported

ImplementsPromise == Promise!Spec

-----------------------------------------------------------------------------
(* What the documentation says and the code does not do.                   *)

(* session.cpp, sendRequest: "blocks until the other side had send a       *)
(* response-message or a timeout appeared".                                *)
RequestReturns == \A r \in Requests : pc[r] = "sent" ~> pc[r] = "done"

(* message_blocker_handler.cpp, releaseMessage: the data "comes from the   *)
(* other side and should be returned by the blocked thread, which called   *)
(* the request-method", so no response arrives in vain before the timeout. *)
ResponseIsReturned == \A r \in Requests : answer[r] = "lost" => reported[r]

=============================================================================
