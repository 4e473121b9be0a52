---------------------------- MODULE DataExchange ----------------------------
(***************************************************************************)
(* The messages of an established session: stream messages, normal         *)
(* messages, requests and responses that fit into one message, with the    *)
(* replies the receiver sends for them and the list of the ReplyHandler    *)
(* that waits for these replies.                                           *)
(*                                                                         *)
(* Each end has one receive thread.  It takes one message after another    *)
(* out of the ring buffer and runs the callbacks of the application; what  *)
(* a callback calls runs in that thread (`inside'), and a message is       *)
(* answered with a reply only after its callback.  All other calls run in  *)
(* threads of the application.  The two ends are in two processes.         *)
(*                                                                         *)
(* blockMessage is taken as MessageBlocker shows it, without the positions *)
(* in its list: a thread that waits is released by the response, or sleeps *)
(* on for ever when the timer gives it up; the timer may then hang with    *)
(* the spin-lock.                                                          *)
(*                                                                         *)
(* The timer of the ReplyHandler unlocks the list when it has chosen an    *)
(* entry that is due, and follows a pointer to it twice after that: for    *)
(* the id to remove and for the report to the application.                 *)
(***************************************************************************)
EXTENDS Integers, Sequences

CONSTANTS
    Calls,         \* the calls of a send-method of the session
    At,            \* [Calls -> Ends] the end whose session is called
    Kind,          \* [Calls -> Kinds]
    MadeBy,        \* [Calls -> SUBSET {"thread", "callback"}] who may make a call
    TimeoutTicks,  \* 2 in the code: m_timeoutValue in steps of the timer
    Reserved,      \* 10 in the code: entries the list takes before it may move
    Breakable,     \* the connection may break or be closed
    Nobody         \* no message is in a callback; a call answers no request

Ends == {"client", "server"}
Peer(e) == IF e = "client" THEN "server" ELSE "client"

(* sendStreamData without and with replyExpected, sendNormalMessage,       *)
(* sendRequest, sendResponse.                                              *)
Kinds == {"stream", "streamReply", "normal", "request", "response"}

ASSUME ExchangeAssumption ==
    /\ At \in [Calls -> Ends]
    /\ Kind \in [Calls -> Kinds]
    /\ MadeBy \in [Calls -> SUBSET {"thread", "callback"}]
    /\ TimeoutTicks \in Nat \ {0}
    /\ Reserved \in Nat
    /\ Breakable \in BOOLEAN
    /\ Nobody \notin Calls

VARIABLES
    pc,        \* where a call is
    result,    \* what it returned: "ok" = true or an id, "failed" = false or nullptr
    inside,    \* the calls made in a callback, in the receive thread of their end
    about,     \* blockerId: the message a response answers
    list,      \* ReplyHandler::m_messageList of each process
    walk,      \* makeTimerStep of each process: "due" when an entry is due,
               \* "removed" when removeMessage has returned
    temp,      \* the position its pointer leads to, Dangling when the vector has
               \* moved, 0 while idle
    behind,    \* the message left there when that position is behind the end
    wire,      \* messages sent to an end whose processing is not finished
    current,   \* the message whose callback the receive thread of an end runs
    linkUp,    \* the sockets are connected
    hung,      \* ends whose MessageBlockerHandler is locked for ever
    handled,   \* history: messages whose callback or release is over
    answered,  \* history: messages whose reply was processed
    late,      \* history: those of them answered since the timer chose an entry
    reported,  \* history: messages whose timeout was reported to the application
    received   \* messages whose id the application of an end knows

callVars == <<pc, result, inside, about>>
timerVars == <<walk, temp, behind, late, reported>>
historyVars == <<handled, answered, received>>
networkVars == <<wire, linkUp>>
listVars == <<list, timerVars>>
vars == <<callVars, listVars, current, hung, networkVars, historyVars>>

(* An entry is due in the step after its timer reached TimeoutTicks - 1,   *)
(* so later values of it need not be told apart.                           *)
Entries == [call : Calls, timer : 0 .. (TimeoutTicks - 1)]
NewEntryUnset(c) == [call |-> c, timer |-> TimeoutTicks]  \* Mutation: not initialised
NewEntry(c) == [call |-> c, timer |-> 0]
Dangling == -1

Messages == [type : {"data", "reply"}, call : Calls]
Data(c) == [type |-> "data", call |-> c]
Reply(c) == [type |-> "reply", call |-> c]

TypeOK ==
    /\ pc \in [Calls -> {"idle", "listed", "sent", "blocked", "woken", "asleep", "done"}]
    /\ result \in [Calls -> {"none", "ok", "failed", "response"}]
    /\ inside \in SUBSET Calls
    /\ about \in [Calls -> Calls \cup {Nobody}]
    /\ list \in [Ends -> Seq(Entries)]
    /\ walk \in [Ends -> {"idle", "due", "removed"}]
    /\ temp \in [Ends -> Nat \cup {Dangling}]
    /\ behind \in [Ends -> Calls \cup {Nobody}]
    /\ late \in [Ends -> SUBSET Calls]
    /\ reported \in SUBSET Calls
    /\ wire \in [Ends -> Seq(Messages)]
    /\ current \in [Ends -> Calls \cup {Nobody}]
    /\ linkUp \in BOOLEAN
    /\ hung \in SUBSET Ends
    /\ handled \in SUBSET Calls
    /\ answered \in SUBSET Calls
    /\ received \in [Ends -> SUBSET Calls]

Init ==
    /\ pc = [c \in Calls |-> "idle"]
    /\ result = [c \in Calls |-> "none"]
    /\ inside = {}
    /\ about = [c \in Calls |-> Nobody]
    /\ list = [e \in Ends |-> <<>>]
    /\ walk = [e \in Ends |-> "idle"]
    /\ temp = [e \in Ends |-> 0]
    /\ behind = [e \in Ends |-> Nobody]
    /\ late = [e \in Ends |-> {}]
    /\ reported = {}
    /\ wire = [e \in Ends |-> <<>>]
    /\ current = [e \in Ends |-> Nobody]
    /\ linkUp = TRUE
    /\ hung = {}
    /\ handled = {}
    /\ answered = {}
    /\ received = [e \in Ends |-> {}]

-----------------------------------------------------------------------------
(* The header flag 0x1: stream messages have it on demand, single-block    *)
(* messages always.                                                        *)
ExpectsReply(c) == Kind[c] # "stream"

(* A receive thread is inside a call its callback made.                    *)
Busy(c) == pc[c] \notin {"idle", "done"}
InnerCall(e) == \E c \in inside : At[c] = e /\ Busy(c)

(* A call is made by a thread of the application or by a running callback. *)
MakeCall(c) ==
    \/ /\ "thread" \in MadeBy[c]
       /\ UNCHANGED inside
    \/ /\ "callback" \in MadeBy[c]
       /\ current[At[c]] # Nobody
       /\ ~InnerCall(At[c])
       /\ inside' = inside \cup {c}

(* A response names a message its application was given with an id.        *)
Names(c, m) ==
    IF Kind[c] = "response" THEN m \in received[At[c]] ELSE m = Nobody

(* The blocker of a request is in the list of the MessageBlockerHandler.   *)
HasBlocker(c) == pc[c] = "blocked" \/ (pc[c] = "woken" /\ result[c] # "failed")

Listed(l, c) == \E i \in DOMAIN l : l[i].call = c
Positions(l, c) == {i \in DOMAIN l : l[i].call = c}
First(S) == CHOOSE i \in S : \A j \in S : i <= j

(* The last entry takes the place of the removed one.                      *)
RemoveAt(l, i) == SubSeq([l EXCEPT ![i] = l[Len(l)]], 1, Len(l) - 1)

(* Mutation: the last entry is dropped, but was not swapped before.        *)
RemoveMessageUnswapped(l, c) == IF Listed(l, c) THEN SubSeq(l, 1, Len(l) - 1) ELSE l

RemoveMessage(l, c) ==
    IF Listed(l, c) THEN RemoveAt(l, First(Positions(l, c))) ELSE l

(* The removed message, swapped to the last position, stays in the memory  *)
(* behind the new end, where a pointer to that position still finds it.    *)
LeftBehind(e, c) ==
    IF Listed(list[e], c) /\ temp[e] = Len(list[e]) THEN [behind EXCEPT ![e] = c] ELSE behind

Sent(box, e, m) == IF linkUp THEN [box EXCEPT ![e] = Append(@, m)] ELSE box

(* The message at the front of the ring buffer is finished.                *)
Consumed(e) == [wire EXCEPT ![e] = Tail(@)]

Receives(e, type) ==
    /\ current[e] = Nobody
    /\ wire[e] # <<>>
    /\ Head(wire[e]).type = type

-----------------------------------------------------------------------------
(* The calls.                                                              *)

(* A new message-id, and an entry in the list if a reply is expected.  The *)
(* vector may grow then, and move away from the pointer of the timer.      *)
Begin(c, m) ==
    /\ pc[c] = "idle"
    /\ MakeCall(c)
    /\ Names(c, m)
    /\ about' = [about EXCEPT ![c] = m]
    /\ IF ExpectsReply(c)
       THEN /\ list' = [list EXCEPT ![At[c]] = Append(@, NewEntry(c))]
            /\ \/ UNCHANGED temp
               \/ /\ temp[At[c]] # 0 /\ Len(list[At[c]]) >= Reserved
                  /\ temp' = [temp EXCEPT ![At[c]] = Dangling]
            /\ UNCHANGED <<walk, behind, late, reported>>
       ELSE UNCHANGED listVars
    /\ pc' = [pc EXCEPT ![c] = "listed"]
    /\ UNCHANGED <<result, current, hung, networkVars, historyVars>>

(* The session is not ready any more.                                      *)
Refused(c) ==
    /\ pc[c] = "idle"
    /\ ~linkUp
    /\ Kind[c] = "response" => received[At[c]] # {}
    /\ pc' = [pc EXCEPT ![c] = "done"]
    /\ result' = [result EXCEPT ![c] = "failed"]
    /\ UNCHANGED <<inside, about, listVars, current, hung, networkVars, historyVars>>

(* The socket takes the message or fails.  A request goes on to            *)
(* blockMessage, sendResponse ignores a failure, everything else returns.  *)
Transmit(c) ==
    /\ pc[c] = "listed"
    /\ wire' = Sent(wire, Peer(At[c]), Data(c))
    /\ \/ /\ Kind[c] = "request" /\ linkUp
          /\ pc' = [pc EXCEPT ![c] = "sent"]
          /\ UNCHANGED result
       \/ /\ ~(Kind[c] = "request" /\ linkUp)
          /\ pc' = [pc EXCEPT ![c] = "done"]
          /\ result' = [result EXCEPT ![c] =
                           IF linkUp \/ Kind[c] = "response" THEN "ok" ELSE "failed"]
    /\ UNCHANGED <<inside, about, listVars, current, linkUp, hung, historyVars>>

(* blockMessage puts a blocker into its list and waits.                    *)
Block(c) ==
    /\ pc[c] = "sent"
    /\ At[c] \notin hung
    /\ pc' = [pc EXCEPT ![c] = "blocked"]
    /\ UNCHANGED <<result, inside, about, listVars, current, hung, networkVars, historyVars>>

(* The timer of the MessageBlockerHandler gives a request up and deletes   *)
(* its blocker: a waiting thread is not woken, a woken one gets nullptr.   *)
RequestTimeout(c) ==
    /\ HasBlocker(c)
    /\ At[c] \notin hung
    /\ \/ /\ pc[c] = "blocked"
          /\ pc' = [pc EXCEPT ![c] = "asleep"]
          /\ hung' \in {hung, hung \cup {At[c]}}
          /\ UNCHANGED result
       \/ /\ pc[c] = "woken"
          /\ result' = [result EXCEPT ![c] = "failed"]
          /\ UNCHANGED <<pc, hung>>
    /\ UNCHANGED <<inside, about, listVars, current, networkVars, historyVars>>

(* Mutation: a thread that was woken without a response waits again.       *)
ReturnResponse(c) ==
    /\ pc[c] = "woken"
    /\ result[c] = "response"
    /\ At[c] \notin hung
    /\ pc' = [pc EXCEPT ![c] = "done"]
    /\ UNCHANGED <<result, inside, about, listVars, current, hung, networkVars, historyVars>>

(* A woken thread returns.                                                 *)
Return(c) ==
    /\ pc[c] = "woken"
    /\ At[c] \notin hung
    /\ pc' = [pc EXCEPT ![c] = "done"]
    /\ UNCHANGED <<result, inside, about, listVars, current, hung, networkVars, historyVars>>

-----------------------------------------------------------------------------
(* The receive thread.                                                     *)

(* A reply takes its message out of the list.                              *)
ClearAnswered(e, c) ==
    /\ list' = [list EXCEPT ![e] = RemoveMessage(@, c)]
    /\ behind' = LeftBehind(e, c)
    /\ answered' = answered \cup {c}
    /\ late' = IF walk[e] = "idle" THEN late ELSE [late EXCEPT ![e] = @ \cup {c}]
    /\ UNCHANGED <<walk, temp, reported>>

(* Mutation: the reply releases the request as well.                       *)
ReceiveReplyReleases(e) ==
    LET c == Head(wire[e]).call
    IN  /\ Receives(e, "reply")
        /\ ClearAnswered(e, c)
        /\ wire' = Consumed(e)
        /\ pc' = [pc EXCEPT ![c] = IF @ = "blocked" THEN "woken" ELSE @]
        /\ result' = [result EXCEPT ![c] = IF pc[c] = "blocked" THEN "response" ELSE @]
        /\ UNCHANGED <<inside, about, current, linkUp, hung, handled, received>>

(* A reply (flag 0x2) has no other effect than to clear the list.          *)
ReceiveReply(e) ==
    LET c == Head(wire[e]).call
    IN  /\ Receives(e, "reply")
        /\ ClearAnswered(e, c)
        /\ wire' = Consumed(e)
        /\ UNCHANGED <<callVars, current, linkUp, hung, handled, received>>

(* A response (flag 0x8) releases the thread that waits for it, if there   *)
(* is one, and is answered with a reply.                                   *)
ReceiveResponse(e) ==
    LET c == Head(wire[e]).call
        r == about[c]
    IN  /\ Receives(e, "data")
        /\ Kind[c] = "response"
        /\ e \notin hung
        /\ \/ /\ HasBlocker(r)
              /\ pc' = [pc EXCEPT ![r] = "woken"]
              /\ result' = [result EXCEPT ![r] = "response"]
           \/ /\ ~HasBlocker(r)
              /\ UNCHANGED <<pc, result>>
        /\ wire' = Sent(Consumed(e), Peer(e), Reply(c))
        /\ handled' = handled \cup {c}
        /\ UNCHANGED <<inside, about, listVars, current, linkUp, hung, answered, received>>

(* Mutation: the reply is sent before the callback.                        *)
ReceiveDataReplies(e) ==
    LET c == Head(wire[e]).call
    IN  /\ Receives(e, "data")
        /\ Kind[c] # "response"
        /\ current' = [current EXCEPT ![e] = c]
        /\ wire' = IF ExpectsReply(c) THEN Sent(wire, Peer(e), Reply(c)) ELSE wire
        /\ received' = [received EXCEPT ![e] =
                           IF Kind[c] \in {"normal", "request"} THEN @ \cup {c} ELSE @]
        /\ UNCHANGED <<callVars, listVars, linkUp, hung, handled, answered>>

(* All other messages go to a callback; that of a single-block message     *)
(* gets the id a response has to name.                                     *)
ReceiveData(e) ==
    LET c == Head(wire[e]).call
    IN  /\ Receives(e, "data")
        /\ Kind[c] # "response"
        /\ current' = [current EXCEPT ![e] = c]
        /\ received' = [received EXCEPT ![e] =
                           IF Kind[c] \in {"normal", "request"} THEN @ \cup {c} ELSE @]
        /\ UNCHANGED <<callVars, listVars, hung, networkVars, handled, answered>>

(* Mutation: only stream messages are replied to.                          *)
CallbackReturnsSilently(e) ==
    LET c == current[e]
    IN  /\ c # Nobody
        /\ ~InnerCall(e)
        /\ wire' = IF Kind[c] = "streamReply" THEN Sent(Consumed(e), Peer(e), Reply(c))
                   ELSE Consumed(e)
        /\ handled' = handled \cup {c}
        /\ current' = [current EXCEPT ![e] = Nobody]
        /\ UNCHANGED <<callVars, listVars, linkUp, hung, answered, received>>

(* Mutation: the callback goes on in a thread of its own.                  *)
CallbackReturnsEarly(e) ==
    LET c == current[e]
    IN  /\ c # Nobody
        /\ wire' = IF ExpectsReply(c) THEN Sent(Consumed(e), Peer(e), Reply(c)) ELSE Consumed(e)
        /\ handled' = handled \cup {c}
        /\ current' = [current EXCEPT ![e] = Nobody]
        /\ UNCHANGED <<callVars, listVars, linkUp, hung, answered, received>>

(* After the callback the reply, if the sender expects one.                *)
CallbackReturns(e) ==
    LET c == current[e]
    IN  /\ c # Nobody
        /\ ~InnerCall(e)
        /\ wire' = IF ExpectsReply(c) THEN Sent(Consumed(e), Peer(e), Reply(c)) ELSE Consumed(e)
        /\ handled' = handled \cup {c}
        /\ current' = [current EXCEPT ![e] = Nobody]
        /\ UNCHANGED <<callVars, listVars, linkUp, hung, answered, received>>

-----------------------------------------------------------------------------
(* The timer of the ReplyHandler: the timers count up to the first entry   *)
(* that is due; the rest of the list waits for the next step.              *)
Due(l) == {i \in DOMAIN l : l[i].timer + 1 >= TimeoutTicks}
Older(entry) == [entry EXCEPT !.timer = IF @ + 1 < TimeoutTicks THEN @ + 1 ELSE @]
TickedBefore(l, last) ==  \* Mutation: the last one is left out
    [i \in DOMAIN l |-> IF i < last THEN Older(l[i]) ELSE l[i]]
Ticked(l, last) ==
    [i \in DOMAIN l |-> IF i <= last THEN Older(l[i]) ELSE l[i]]

(* If an entry is due, the pointer to it is kept and the list unlocked.    *)
MakeTimerStep(e) ==
    LET l == list[e]
    IN  /\ walk[e] = "idle"
        /\ l # <<>>
        /\ \/ /\ Due(l) = {}
              /\ list' = [list EXCEPT ![e] = Ticked(l, Len(l))]
              /\ UNCHANGED <<walk, temp>>
           \/ /\ Due(l) # {}
              /\ list' = [list EXCEPT ![e] = Ticked(l, First(Due(l)))]
              /\ walk' = [walk EXCEPT ![e] = "due"]
              /\ temp' = [temp EXCEPT ![e] = First(Due(l))]
        /\ UNCHANGED <<callVars, behind, late, reported, current, hung, networkVars, historyVars>>

(* What the pointer leads to by now: the entry, another one that was put   *)
(* into its place, what is left behind the end of the vector, or, in       *)
(* memory that was freed, anything.                                        *)
Pointed(e) ==
    IF temp[e] = Dangling THEN Calls \cup {Nobody}
    ELSE IF temp[e] \in DOMAIN list[e] THEN {list[e][temp[e]].call} ELSE {behind[e]}

(* removeMessage of the id found there, which may not be in the list (any  *)
(* more); the result is not looked at.                                     *)
RemoveDue(e) ==
    /\ walk[e] = "due"
    /\ \E c \in Pointed(e) : /\ list' = [list EXCEPT ![e] = RemoveMessage(@, c)]
                            /\ behind' = LeftBehind(e, c)
    /\ walk' = [walk EXCEPT ![e] = "removed"]
    /\ UNCHANGED <<callVars, temp, late, reported, current, hung, networkVars, historyVars>>

(* The pointer is followed once more and the timeout of the message found  *)
(* there is reported, unless closeSession has marked its entry.  The step  *)
(* of the timer is over.                                                   *)
ReportDue(e) ==
    /\ walk[e] = "removed"
    /\ \/ \E c \in Pointed(e) : reported' = reported \cup ({c} \ {Nobody})
       \/ ~linkUp /\ UNCHANGED reported
    /\ walk' = [walk EXCEPT ![e] = "idle"]
    /\ temp' = [temp EXCEPT ![e] = 0]
    /\ behind' = [behind EXCEPT ![e] = Nobody]
    /\ late' = [late EXCEPT ![e] = {}]
    /\ UNCHANGED <<callVars, list, current, hung, networkVars, historyVars>>

Timer(e) == MakeTimerStep(e) \/ RemoveDue(e) \/ ReportDue(e)

(* The network breaks, or one side closes the session.                     *)
Break ==
    /\ Breakable
    /\ linkUp
    /\ linkUp' = FALSE
    /\ UNCHANGED <<callVars, listVars, wire, current, hung, historyVars>>

Receive(e) == ReceiveReply(e) \/ ReceiveResponse(e) \/ ReceiveData(e)

Sends(c) == Transmit(c) \/ Block(c) \/ Return(c)

Next ==
    \/ \E c \in Calls, m \in Calls \cup {Nobody} : Begin(c, m)
    \/ \E c \in Calls : Refused(c) \/ Sends(c) \/ RequestTimeout(c)
    \/ \E e \in Ends : Receive(e) \/ CallbackReturns(e) \/ Timer(e)
    \/ Break

Spec == Init /\ [][Next]_vars

(* The threads inside a call go on, the two timer threads run, a callback  *)
(* comes to its end, and the receive thread reads while the socket is con- *)
(* nected.  Nobody has to call anything, and the link need not break.      *)
Fairness ==
    /\ \A c \in Calls : WF_vars(Sends(c)) /\ WF_vars(RequestTimeout(c))
    /\ \A e \in Ends : /\ WF_vars(linkUp /\ Receive(e))
                       /\ WF_vars(CallbackReturns(e))
                       /\ WF_vars(Timer(e))

FairSpec == Spec /\ Fairness

-----------------------------------------------------------------------------
(* Correctness.                                                            *)

(* A reply tells the sender that the other application is done with the    *)
(* message: the callback comes before the reply, in process_Data_Stream    *)
(* and process_Data_SingleBlock.                                           *)
ReplyAfterCallback == answered \subseteq handled

(* The reply clears the list: a message was in the list before it was on   *)
(* the wire (Session::sendMessage), so its reply cannot come before its    *)
(* entry, and the timer, which removes what its pointer leads to, does not *)
(* put another entry in its way.  An entry the timer has chosen already is *)
(* reported all the same (AnsweredNotReported).                            *)
AnsweredLeavesList == \A e \in Ends : \A c \in answered : ~Listed(list[e], c)

(* Although the timer follows its pointer after replies and calls have     *)
(* rearranged the list, it does not report a message that was answered     *)
(* before it chose an entry: only a reply that comes while the list is     *)
(* unlocked is too late.  When the vector was moved meanwhile, the pointer *)
(* leads to freed memory.                                                  *)
AnsweredNotReported ==
    [][\A e \in Ends : walk[e] = "removed" /\ walk'[e] = "idle" /\ temp[e] # Dangling
          => (reported' \ reported) \cap (answered \ late[e]) = {}]_vars

(* Only its own reply takes an entry out of the list, whatever the order   *)
(* of the replies, or the timer that found it where its pointer leads to:  *)
(* a message that is not answered does not escape its timeout.             *)
UnansweredStays ==
    [][\A e \in Ends, c \in Calls : Listed(list[e], c) /\ ~Listed(list'[e], c)
          => c \in answered' \/ (walk[e] = "due" /\ c \in Pointed(e))]_vars

(* A request that is made inside a callback never gets its response, what- *)
(* ever the other application does: the only thread that could read it is  *)
(* the one that waits (message_blocker_handler.cpp:71).                    *)
InnerRequestStarves ==
    \A c \in inside : Kind[c] = "request" => pc[c] # "woken" /\ result[c] # "response"

(* A request returns a response only if the other application answered     *)
(* just this request, after it was given to its callback.                  *)
ResponseWasSent ==
    \A c \in Calls : result[c] = "response" =>
        \E r \in handled : Kind[r] = "response" /\ about[r] = c /\ c \in received[At[r]]

(* Every call returns unless the timer gave it up, or hangs: neither a     *)
(* lost connection, nor callbacks that send, nor receive threads that wait *)
(* for each other block anybody else.                                      *)
CallsReturn == <>[](\A c \in Calls : Busy(c) => pc[c] = "asleep" \/ At[c] \in hung)

(* No entry stays in the list of the ReplyHandler, although its loop stops *)
(* at the first timeout of a step: neither a lost connection nor receive   *)
(* threads that sleep for ever keep it.                                    *)
EntriesLeave == <>[](\A e \in Ends : list[e] = <<>>)

(* The receive thread of an end will not read again.                       *)
Stuck(e) == e \in hung \/ \E c \in inside : At[c] = e /\ pc[c] = "asleep"

(* On a connection that stays up each message is processed and answered in *)
(* the end, unless a request made in a callback stopped a receive thread.  *)
RepliesCome ==
    <>[](linkUp /\ (\A e \in Ends : ~Stuck(e)) =>
            \A c \in Calls : result[c] \in {"ok", "response"}
                => c \in handled /\ (ExpectsReply(c) => c \in answered))
=============================================================================
