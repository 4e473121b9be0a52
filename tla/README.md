# Verification of libKitsunemimiSakuraNetwork

TLA+ models of the library's session layer, TLC configurations that check them on
small instances, and TLAPS proofs of the most important facts for every instance.
Paths below are relative to the repository (`src/`, `include/`, `tests/`).

## 1. Inventory of the system

The library gives a process *sessions* over stream sockets (unix domain, TCP, TLS).
A process has one `SessionController`, which owns one `SessionHandler`; this has, as
static members, one `ReplyHandler` and one `MessageBlockerHandler`, each a thread of
its own. Every session has a socket with a receive thread.

| Component | State | Operations | Correct when |
|---|---|---|---|
| `SessionController` (`session_controller.cpp`) | `m_serverIdCounter`; its servers are `m_servers` of the handler | `addXServer`, `closeServer`, `cloesAllServers`, `startXSession` -> `startSession` | `startSession` always returns, and what it returns agrees with what the application was told by callbacks |
| `Session` (`session.cpp`) | state machine, `m_sessionId`, `m_initState`, `m_messageIdCounter`, socket, callbacks | `connectiSession`, `makeSessionReady`, `closeSession`, `endSession`, `disconnectSession`, `sendMessage`, `sendHeartbeat`, `sendStreamData`, `sendNormalMessage`, `sendRequest`, `sendResponse`, destructor | each callback once and in order; both ends agree on the id; closing one end closes the other |
| `SessionHandler` (`session_handler.cpp`) | `m_sessions` (id -> pointer), `m_servers` (id -> pointer), 16-bit `m_sessionIdCounter`, spin-locks | `addSession`, `removeSession`, `increaseSessionIdCounter`, `sendHeartBeats`, constructor, destructor | no entry for a deleted session, every ready session has one, ids do not collide |
| `ReplyHandler` (`reply_handler.cpp`) | `m_messageList` (vector of message ids with timers), spin-lock | `addMessage`, `removeMessage`, `removeAllOfSession`, `makeTimerStep` (each second), `run` (also heartbeats) | a timeout hits the message that timed out, and none that was answered or ignored before it was chosen |
| Session and heartbeat messages (`session_processing.h`, `heartbeat_processing.h`) | none | one `send_` and one `process_` function per message | handshake, close and heartbeat work whatever crosses |
| Reception (`callbacks.h`) | ring buffer of the socket | `processMessage`, `processConnection_Callback` | a message is consumed once, replies release their entry |
| `MessageBlockerHandler` (`message_blocker_handler.cpp`) | `m_messageList` (vector of pointers to blockers with condition variables), spin-lock | `blockMessage`, `releaseMessage`, `makeTimerStep`, `clearList` | a blocked thread gets its own response or a timeout, once, and returns |
| `MultiblockIO` (`multiblock_io.cpp`, `multiblock_data_processing.h`) | `m_incomingBuffer` (id -> buffer), `m_abort` | `sendOutgoingData`, `createIncomingBuffer`, `writeIntoIncomingBuffer`, `getIncomingBuffer`, `removeMultiblockBuffer` | a message is put together from all its parts in order or not delivered |
| Single-block, stream, error messages | none | `send_` / `process_` functions | sizes, delimiters and replies fit |
| Layout (`message_definitions.h`) | none | structs and constructors | every message is a multiple of 8 bytes |

**Interaction.** `startSession` creates a session, registers it under its initial id,
sends INIT_START and polls `m_initState`. The server's receive thread registers the
session under the complete id, makes it ready (create-callback) and answers; the
client's receive thread re-registers the session and makes it ready, which ends the
poll. Every message with flag `0x1` leaves an entry in the reply list of its process;
a message with flag `0x2` removes one; the timer thread turns an old entry into
`m_initState = -1` and the error-callback. `closeSession` marks the entries of the
session as ignored, sends CLOSE_START and, unless a reply is expected, ends the
session; the other side answers and ends its session. `sendRequest` sends a data
message and blocks in the MessageBlockerHandler, whose entry is released by a
receive thread (a message with flag `0x8`) or by its timer thread.

**What is hard here.** Threads share the session map, the two lists and the session
objects with small critical sections: between any two of them another thread may act.
The state of a session is read before a send and used after it. Messages of the two
sides cross. The reply timer races with late replies, and the two lists are reordered
(swap with the last, pop) while a timer walks through them. Ids are put together from
counters of two processes. `PROJECT.json` lists these hazards line by line.

## 2. Modules

| Module | Content |
|---|---|
| `SessionPromise` | abstract: what the two applications may rely on when they start, use and delete a session |
| `SessionProtocol` | detailed: sessions of any number of processes: `startSession`, handshake, heartbeats, reply list and timer, close, delete |
| `MCSessionProtocol` | instances of it: one connection, or two between the same processes |
| `SessionProtocolProofs` | proof of its type invariant |
| `SessionHandshakeProofs` | inductive invariant and safety theorems of the handshake, the ids, the session map and the callbacks |
| `SessionRegistryProofs` | goes on from it: ready sessions are in the map, and INIT_START leaves the reply list |
| `SessionPromiseProofs` | refinement of `SessionPromise` |
| `DataExchange` | the messages of an established session between two applications: calls inside and outside of callbacks, replies, reply list with its timer, requests and responses |
| `MCDataExchange` | instance of it: a request in each direction, a response, a stream message |
| `DataExchangeProofs` | inductive invariant and safety theorems of it |
| `ServerRegistry` | the servers of a process: add-methods, `closeServer`, `cloesAllServers`, the controller and its successor |
| `MCServerRegistry` | instance of it: two servers, two calls of `closeServer`, two controllers |
| `ServerRegistryProofs` | inductive invariant and safety theorems of it |
| `RequestPromise` | abstract: what `sendRequest` promises its callers |
| `MessageBlocker` | detailed: `sendRequest`, `sendResponse` and the MessageBlockerHandler |
| `MCMessageBlocker` | instances of it: one to three requests with equal or different timeouts |
| `MessageBlockerProofs` | inductive invariant, safety theorems and refinement of `RequestPromise` |
| `MultiblockIO` | multi-block messages of one direction of one connection: sender, receiver, destructors |
| `MultiblockIOProofs` | inductive invariant and safety theorems of it |
| `MCMultiblockIO` | instance of it: two messages that are sent at once |

### 2.1 SessionProtocol

State per process: `counter` (`m_sessionIdCounter`), `sessions` (`m_sessions`, a set of
pairs; `AddSession` is `map::insert`, which keeps an existing entry), `messageList`
(`ReplyHandler::m_messageList`), `walk` (where `makeTimerStep` is: "idle", "due" = an entry
is chosen and the list unlocked, "removed" = to be reported), `temp` (its pointer, as a
position) and `behind` (an entry that left the list and is still in the memory `temp`
leads to). State per end of a connection: `phase` (the state
machine of `initStatemachine`, with "none" before `new` and "deleted"), `sessionId`,
`initState`, `lastMid` (`m_messageIdCounter`), `open` (the socket). Network: `inbox`
(bytes sent and not processed yet, FIFO) and `cut`. Threads: `handler` (the receive
thread inside an INIT handler), `app` (an application thread inside `closeSession`),
`starter` (the thread inside `startSession`). `created`, `closed` and `timedOut` record
the callbacks.

Actions and code:

| Action | Code |
|---|---|
| `StartSession`, `StartSessionRefused` | `startSession` up to the poll; an identifier that is too long or a connection that cannot be made |
| `StartSessionReturns`, `...GivesUp`, `...Fails` | the poll ends with 1 or -1; closing, `sleep(1)`, deletion |
| `ProcessConnection` | `processConnection_Callback` |
| `ProcessInitStart`, `SendInitReply` | `process_Session_Init_Start` up to the create-callback, then the reply |
| `ProcessInitReply`, `FinishSessionReady` | `process_Session_Init_Reply`: the map, then the state of the session |
| `ProcessCloseStart`, `ProcessCloseReply` | `process_Session_Close_Start/Reply` |
| `ProcessHeartbeatStart`, `ProcessHeartbeatReply`, `SendHeartbeat` | heartbeats |
| `MakeTimerStep` | `ReplyHandler::makeTimerStep` up to `spinUnlock` |
| `RemoveDue` | its `removeMessage` of the id the pointer leads to by now, the result of which is not looked at |
| `ReportDue` | `m_initState = -1` and the error-callback for what the pointer leads to after that |
| `CloseSession`, `SendCloseStart`, `FinishClose` | the three parts of `closeSession` |
| `AppDeletes` | `Session::~Session` called by the application |
| `CutLink` | the network |

Modelling choices.
- A handler is one step unless another thread can see a difference that matters:
  the INIT handlers are split at the create-callback and at the change of the id,
  `closeSession` between its locks. Consecutive locked sections that no other thread
  tells apart are merged.
- A step sends at once; a connected socket delivers in order (`Transmits` is external).
  Bytes that arrived before a socket was closed may still be processed, as the receive
  thread drains its ring buffer.
- `sleep(1)` in the failing paths of `startSession` is taken as long enough for the
  receive thread to leave its handler before the session is deleted.
- The application closes or deletes only sessions it was given by the create-callback,
  and deletes none while `startSession` or a handler is inside it.
- `message->sessionId` of the CLOSE messages is never set by a sender and is 0
  (`ZeroId`), so the `removeSession` of the CLOSE handlers removes nothing unless an id
  is 0.
- In `makeTimerStep` the list is unlocked between the choice of an entry, its removal and
  its report, so these are three steps, and a reply, a heartbeat or a close may come
  between them. Each reads the entry anew through its pointer (`Pointed`): it may be the
  chosen one, the one that was swapped into its place, or the one that was popped last
  from behind the end. The vector is taken not to move meanwhile (10 entries are
  reserved); in `DataExchange` it may. The three reads of the report (`ignoreResult`,
  `session`, the callback) are one.

`SessionPromise` knows of a connection only what its applications see: the call of
`startSession` and its result, the number of create- and close-callbacks of each end, the
id that came with the create-callback, and which sessions were deleted. Its actions are
these events: `Connect`, `Refuse`, `Return` and `Fail` of `startSession`; `CreateServer`
and `CreateClient`, in this order and with the same id; `Close`, once, after the
create-callback or when `startSession` gives the session up (`GivenUp`); `Delete`, which
closes a session that is still open. `ImplementsSession` maps the detailed state to it:
`Call` takes the second that `startSession` sleeps before it fails as part of the waiting,
`Told` is `m_sessionId` from the create-callback on, `Deleted` the phase. That a session
may fail although its create-callback was called is part of the promise, because the code
does so (`SessionFailedStart`).

### 2.2 MessageBlocker

`pc` says where the thread of a request is ("sent", "listed" = in the list but not in
`cv.wait` yet, "waiting", "woken", "done"); `list` is `m_messageList`; `at` is the
position of the timer inside its loop, and the spin-lock is held by the timer while
`at # 0`; `answer` follows the response; `result` is what `sendRequest` returned;
`reported` records the MESSAGE_TIMEOUT callback; `age` counts the timer steps a blocker
has seen (a history variable, kept up to timeout + 1).

`BlockMessage`, `Wait` and `Return` are the three parts of `blockMessage`;
`ReleaseMessage` is `releaseMessage`; `StartTimerStep`, `CountDown`, `Timeout` and
`EndTimerStep` are the parts of `makeTimerStep`, one step per entry of the list because
threads that need no lock go on meanwhile. The timer of a blocker is unsigned
(`% TimerRange`, 2^64 in the code). A notification before `cv.wait` is not remembered.
Destroying a condition variable somebody waits on is undefined: the model allows that
the destructor returns and the waiter sleeps on, and that the destructor waits for the
waiter with the lock held (`hung`), which is what current glibc does. `SpuriousWakeups`
switches wake-ups without a reason on and off. The random ids of requests are taken as
different.

`RequestPromise` knows only whether a call is idle, blocked or has returned, whether it
was answered and whether its timeout was reported. `ImplementsPromise` maps the detailed
state to it (`Call`, `Answered`, `reported`).

### 2.3 MultiblockIO

State of the sending session: `sender` (where a call of `sendOutgoingData` is), `rest`
(`totalSize`), `part` (`partCounter`), `abort` (`m_abort`). Network: `linkUp`, `inbox`.
State of the receiving session: `buffers` (`m_incomingBuffer` with the content), `memory`
(the outcome of the allocation in `createIncomingBuffer`), `current` (the receive thread
is between the hand-over and `removeMultiblockBuffer`), `receiver` (alive, in its
destructor, deleted). `handed`, `content` and `freed` record who got a buffer, with which
bytes, `overtaken` which message was being handed over when the destructor deleted the
buffers. A byte is the pair of its message and its position in the payload, so bytes that
are missing, repeated, out of order or of another message are told apart.

| Action | Code |
|---|---|
| `SendOutgoingData`, `SendPart`, `SendFinish` | start, one pass of the loop and end of `sendOutgoingData` |
| `SendFails`, `GiveUp` | a send fails; the loop or the check behind it sees `m_abort` |
| `ProcessPart` | `process_Data_Multiblock`, with `createIncomingBuffer`, `writeIntoIncomingBuffer` |
| `ProcessFinish`, `RemoveMultiblockBuffer` | `process_Data_Multi_Finish`: the hand-over, then the removal |
| `DeleteSender`, `DeleteReceiver`, `FreeBuffers` | `~Session` and `~MultiblockIO` of each side |
| `CutLink` | the network, or a closed socket |

Modelling choices.
- The random ids of messages are taken as different. `totalPartNumber` is left out: no
  receiver reads it.
- The offset of a part is the product of two 32-bit numbers (`OffsetRange`, 2^32 in the
  code): the payload of a message of more than 4 GiB is read from its start again.
  `WholeMessage` is stated up to that size.
- Whether the thread that asked still waits for a response is a choice (`handed` =
  "lost"): the result of `releaseMessage` is not looked at.
- The `usleep(10000)` of `~MultiblockIO` is no guarantee of anything: the request-callback
  of the application runs between the hand-over and the removal and may last longer, so
  `FreeBuffers` may come while a message is handed over. What `removeMultiblockBuffer`
  does afterwards is undefined, as the map is gone; it is taken to find nothing.
- For `SentArrives` callbacks come to an end (`Fairness` of the receive thread).
- The receiver may be deleted at any time, also with parts in its ring buffer.

### 2.4 DataExchange

A *call* is one call of a send-method (`Kind`: stream message without or with reply,
normal message, request, response) at one end. State of a call: `pc` ("listed" = its entry
is made, "sent", "blocked" = in `cv.wait`, "woken", "asleep" = waiting for a notification
that never comes, "done"), `result`, `about` (the `blockerId` of a response), and whether
it runs inside a callback (`inside`). State of an end: `list`
(`ReplyHandler::m_messageList`), `walk`, `temp` and `behind` (`makeTimerStep` and the pointer
it keeps while the list is unlocked, as in `SessionProtocol`), `wire` (the ring buffer and the socket in front of it), `current` (the
message whose callback the receive thread runs), `hung` (the MessageBlockerHandler waits
for ever in a destructor of a condition variable). `handled`, `answered` and `received`
record which messages were processed, were answered and became known, `late` which
replies came while the timer had chosen an entry, `reported` which messages the
error-callback named.

| Action | Code |
|---|---|
| `Begin`, `Refused` | a send-method up to `ReplyHandler::addMessage`; a session that is not ready |
| `Transmit` | `send_Data_Stream`, `send_Data_SingleBlock`: the socket takes the message or not |
| `Block`, `RequestTimeout`, `Return` | `blockMessage` and the timer of its handler |
| `ReceiveReply` | `processMessage`: the reply clears its entry, nothing else |
| `ReceiveResponse` | `process_Data_SingleBlock` with flag `0x8`: release, then the reply |
| `ReceiveData`, `CallbackReturns` | `process_Data_Stream` / `process_Data_SingleBlock`: the callback begins; it ends, and the reply is sent |
| `MakeTimerStep` | `ReplyHandler::makeTimerStep` up to `spinUnlock` |
| `RemoveDue` | its `removeMessage` of what the pointer leads to by now |
| `ReportDue` | the error-callback for what the pointer leads to after that |
| `Break` | the network, or the other side closes |

Modelling choices.
- One receive thread per end: while a callback runs, nothing else is read; a call made in
  the callback runs in this thread (`InnerCall`).
- The spin-lock is free between `MakeTimerStep`, `RemoveDue` and `ReportDue`. Meanwhile the
  entry may have been answered and swapped away (`Pointed` finds another one, or memory
  behind the end that still holds an id that left the list), and when the vector has grown
  beyond the `Reserved` entries it may have moved: the read of freed memory finds any id
  or none, at each of the two steps. That a report also sets `m_initState` of the session
  it finds matters during the handshake only, and is in `SessionProtocol`.
- `blockMessage` is one step up to `cv.wait`, and the timers of its handler strike at any
  time; `MessageBlocker` has the details. A request whose response comes before `Block`
  is not woken, like there.
- Timer values from `TimeoutTicks - 1` on are not told apart: an entry is due in the next
  step then.
- Closing and deleting a session are in `SessionProtocol`; here a broken link makes
  further calls fail and loses what is sent.

### 2.5 ServerRegistry

`adding[s]` says where the call that creates server `s` is, `loaded` is the value it has
read of `m_serverIdCounter` (`counter`), `id` what it returned; `map` is `m_servers`, a
set of pairs of which `Inserted` keeps an existing one as `map::insert` does; `lock` is
the call that returned without unlocking `m_serverMap_lock`; `server` says what became of
the object; `closing`, `target` and `hit` belong to the calls of `closeServer`; `life` and
`lives` to the controllers. `raced` records the controllers on which two calls counted at
the same time, `refused` the servers that could not be closed.

| Action | Code |
|---|---|
| `InitServer` | `initServer`, `startThread` (a failed one returns 0 and forgets the object) |
| `LoadCounter`, `StoreCounter` | `m_serverIdCounter++` without a lock |
| `InsertServer`, `ReturnId` | the insertion under the lock; the return, which reads the counter again |
| `CallCloseServer`, `CloseServer`, `CloseNothing`, `CloseFails` | `closeServer` and its three ends |
| `CloseAllServers` | `cloesAllServers` |
| `BeginDestruction`, `DestructorClosesAll`, `DeleteHandler` | `~SessionController`, `~SessionHandler` |
| `NewController` | the constructors |

Modelling choices. A critical section is one step. One controller lives at a time: the
constructor accepts a second one, which shares the handler and the map of the first
(`session_controller.cpp:60`) and counts its ids from 0 again, but `m_sessionController` can
name only one, and the destructor of either deletes the handler of both. `cloesAllServers`
walks through the whole map (`Entered`). The application deletes the controller
when no call is in progress and uses only ids of the living one. The three socket types
share their code but for the type. Whether `closeServer` of the socket library succeeds is
a choice. `TemplateServer`s that the destructor has closed stay allocated ("closed").

## 3. Runs

All runs disable the deadlock check: sessions may all be closed, the bounds on messages
may be used up, and a blocked thread may wait for a timer that hangs.

Passing:

| Run | Instance | Shows |
|---|---|---|
| `SessionSafety` | 2 processes; 1 connection with a heartbeat or a close of the application on each end, also both at once, besides the closes of `startSession` and of the replies, or 2 connections with their handshakes, timeouts and failing starts | types, map, handshake, ids, callbacks, reply list, also with two handshakes on the same map and list |
| `SessionLive` | closes of both sides, a heartbeat of the client; INIT_REPLY and all that follows may be lost | refinement of `SessionPromise`; `startSession` returns; the close of a client that was ready reaches the server |
| `BlockerSafety` | 3 requests, timeouts 1, 2, 0, spurious wake-ups | own response, final timeout, nothing early, list consistent |
| `BlockerLive` | 2 requests, no spurious wake-ups | refinement of `RequestPromise`; nothing is lost in silence; a response releases the thread that waits for it, which returns |
| `Multiblock` | 2 messages at once, a request of 3 and a response of 6 bytes in parts of 2 | whole messages only; nullptr only without memory; every buffer has one owner but the one that is handed over when the destructor comes; what was sent arrives |
| `Exchange` | 4 calls: a request of the client, a request of the server inside a callback, a response, a stream message; calls in threads and callbacks, both timers, a link that may break | replies follow callbacks; answered messages leave the list, unanswered ones stay for their timeout, and an answered one is reported only if its reply came after the timer had chosen, although the pointer may go astray; inner requests starve; responses are right; calls return, entries leave, replies come |
| `Servers` | 2 calls of add-methods, 2 of `closeServer`, 2 controllers | ids lead to their servers; no deleted server is found; none is closed twice; calls return unless a failed `closeServer` kept the lock |

Runs that show where the code and what is written about it differ (`findings` in
`PROJECT.json` has the quotations):

| Run | What happens |
|---|---|
| `SessionClosedTimeout` | a heartbeat inside `closeSession` times out on the closed session |
| `SessionFailedStart` | the timer has chosen INIT_START when its reply comes; the create-callback is called, the timeout is reported all the same, and `startSession` gives up |
| `SessionHangingStart` | with two starts the timeout of one is charged to the other and one never returns |
| `BlockerHang` | a timeout never releases its waiting thread |
| `BlockerLost` | a fast response finds no blocker |

Smaller divergences that the models contain and that have no run of their own:
- A server that closes a session between its create-callback and INIT_REPLY sends
  CLOSE_START first. The client has no complete id and no ready state then; the
  INIT_REPLY makes it ready afterwards and it stays so (`ProcessCloseStart`,
  `FinishSessionReady`).
- A buffer that belongs to a response nobody waits for any more is removed from the map
  and deleted by nobody (`ProcessFinish`, "lost").
- For a size that is a multiple of the part size `totalPartNumber` is one too high.
- A request made inside a callback blocks the receive thread that would have to read its
  response: it never gets one (`InnerRequestStarves`), and when its timeout passes, the
  thread sleeps on and the session reads nothing any more (`Stuck`).
- Two add-methods that run at once may lose a server, or one may return the id of the
  other's server (`raced`). `closeServer` returns with the lock of the server map when the
  server cannot be closed: every later call that needs it spins for ever (`CloseFails`).
- While `makeTimerStep` of the ReplyHandler has unlocked its list, an answered entry may
  leave it. If it was the last one, it is still found behind the end and its timeout is
  reported although it was answered (`ReportDue`; `late` in `DataExchange`); otherwise the
  pointer leads to another entry, which is removed and reported although it is not due.
- A `startSession` that gives up before INIT_REPLY was processed is not ready yet, so its
  `closeSession` does nothing: no CLOSE_START, no callback. If the server has made its
  session ready by then, it keeps it for as long as nobody closes it there, without any
  cut of the connection. And an INIT_REPLY that comes in the second before the session is
  deleted still calls the create-callback. Therefore `ClientCloseReachesServer` asks for a
  client that was ready, and `CallbackOrder` excepts a start that gives up.
- The destructor of a session deletes a buffer that the receive thread has just handed
  to the request-callback of the application, if the callback takes longer than 10 ms
  (`FreeBuffers`; `BufferHasOneOwner` says that it is this buffer only).
- Two processes that connect to each other can give two of their sessions the same
  complete id, the sum of their counters in two halves that both ends fill. `map::insert`
  drops the second session: it is ready and gets no heartbeats. The same happens when both
  ends are in one process, and when `m_sessionIdCounter` has wrapped around: then even the
  initial id of a new session may be that of another one, whose entry its handshake
  removes. This is why `ReadyIsRegistered` speaks of processes that only connect or only
  accept (`OneSided`) and of counters below `IdBase`.
- After a wrap-around the INIT_REPLY of one session may take the entry of another one with
  the same initial id and message-id out of the reply list; the one that stays behind
  times out in an established session. `InitIsAnswered` has the same bound therefore.
- The comment "bring message-size to a multiple of 8" (`singleblock_data_processing.h:56`)
  does not hold: `Data_SingleBlock_Header` has 52 bytes, and the assertions of
  `SessionHandler` do not list it.
- A message with another version is answered with an error and not consumed, so it is
  answered again with each packet; the error message has the sender's version and is
  rejected there too, so `errorCodes::FALSE_VERSION` reaches no callback.
- A close that expects a reply ends in `process_Session_Close_Reply` ->
  `disconnectSession`, without close-callback (`ProcessCloseReply` leaves `closed` alone).
- A heartbeat-reply carries the replying side's current id (`ProcessHeartbeatStart`): one
  that is answered before the client has taken the complete id finds no entry.
- `makeTimerStep` of the MessageBlockerHandler passes over the blocker that was swapped
  into the place of a removed one: its timeout comes a second late (`Timeout`).
- `cv.wait` has no predicate: a spurious wake-up ends `sendRequest` with nullptr, which
  is why `NothingMeansTimeout` and the promise distinguish `SpuriousWakeups`.

**Bounds.** `IdBase` is 8 instead of 2^16: no instance starts enough sessions to wrap
around, so nothing depends on it but `TypeOK`, which its mutant needs. `TimeoutTicks` is 1 or 2 (2 in the code; 1 lets the
timer strike earlier and gives more behaviours). `MaxBeat` and `MaxClose` bound the
message ids of the application's and the timer's messages per end: a message of an end
races with at most the handshake, one close and one message of the other end, and all of
these are present. A longer history of one connection is covered by the theorems. Two connections are enough for every pair of entries in a list or map.
In `SessionLive` the server's direction breaks, if it does, before its first message has
arrived (`CutEarly`). With both connections
started `SessionSafety` leaves out application closes and heartbeats (`OneOrTwo`), which keeps the state space small enough; that several clients of one
server get different ids, and the other safety properties for any number of connections,
is what the theorems say. Three requests are needed for the swap of a list entry that is not the last. `TimerRange`
4 lets a timer of 0 wrap to 3 and then expire. In `Multiblock` one message has a last part
that is not full and the other is an exact multiple; `OffsetRange` 6 makes 4 the last
offset that fits. Two messages are enough for every interleaving of parts, since a part
touches no buffer but that of its message. In `Exchange` `ask` and `back` are requests in
opposite directions, so that each receive thread may wait for the other (with the stream
message, `ask` is made inside a callback only, and without it the link does not break
while `back` waits: `AskedInside` and `BrokenWithNote` constrain only what nothing obliges the
applications and the network to do); `answer` is made in
a thread, which may run during the callback that was asked or long after it; the two entries
of one end are what the swap and the pointer of the timer need; `Reserved` is 1 instead of
10, so that the vector may move at its second entry. In `Servers` two servers and two
closes are enough for every pair of calls that race, and two controllers for an id of the
old one that is used again; the theorems cover any number.

**Fairness.** Weak fairness for the threads the library runs: the receive thread while
its socket is open or it is inside a handler, the timer thread, the poll of
`startSession`, and the rest of a `closeSession` that was begun. None for the
application, for heartbeats, for the network or for a receive thread after its socket was
closed. In `MessageBlocker` strong fairness for steps that take the spin-lock: the timer
frees it after every walk and sleeps a second, and a spinning thread gets it then. None
for sending, answering or waking up without a reason. In `MultiblockIO` weak fairness for a
thread inside `sendOutgoingData` and for the receive thread, none for the application,
the network or the destructors. In `DataExchange` weak fairness for a thread inside a call,
for both timers, for the receive thread while the link is up, and for the end of a
callback, as far as it is not inside a call; nobody has to call anything. In
`ServerRegistry` strong fairness for a thread inside a call and for the destructor, since
they take a spin-lock that is held for a moment only.

## 4. Proofs

| Theorem | Says |
|---|---|
| `SessionProtocolProofs!TypeCorrect` | `Spec => []TypeOK` |
| `MessageBlockerProofs!TypeCorrect` | `Spec => []TypeOK` |
| `MessageBlockerProofs!BlockersCorrect` | `Spec => []BlockersHaveCallers` |
| `MessageBlockerProofs!ResponsesCorrect` | `Spec => []OwnResponse` |
| `MessageBlockerProofs!NothingLost` | `Spec => []NothingMeansTimeout` |
| `MessageBlockerProofs!TimeoutsFinal` | `Spec => []TimeoutIsFinal` |
| `MessageBlockerProofs!TimeoutsInTime` | `Spec => []TimeoutNotEarly` |
| `MessageBlockerProofs!PromiseKept` | `Spec => ImplementsPromise` |
| `MultiblockIOProofs!TypeCorrect` | `Spec => []TypeOK` |
| `MultiblockIOProofs!MessagesWhole` | `Spec => []WholeMessage` |
| `MultiblockIOProofs!NullCorrect` | `Spec => []NullOnlyWithoutMemory` |
| `MultiblockIOProofs!BuffersCorrect` | `Spec => []BufferHasOneOwner` |
| `SessionHandshakeProofs!RegistrationsCorrect` | `Spec => []NoDanglingRegistration` |
| `SessionHandshakeProofs!HandshakeCorrect` | `Spec => []HandshakeFindsItsState` |
| `SessionHandshakeProofs!IdsAgree` | `Spec => []IdAgreement` |
| `SessionHandshakeProofs!IdsUnique` | `Spec => []UniqueIdsPerSide` |
| `SessionHandshakeProofs!CallbacksInOrder` | `Spec => []CallbackOrder` |
| `SessionRegistryProofs!InitAnswered` | `Spec => []InitIsAnswered` |
| `SessionRegistryProofs!ReadyRegistered` | `Spec => []ReadyIsRegistered` |
| `SessionPromiseProofs!SessionsKeepPromise` | `Spec => ImplementsSession` |
| `DataExchangeProofs!TypeCorrect` | `Spec => []TypeOK` |
| `DataExchangeProofs!RepliesAfterCallbacks` | `Spec => []ReplyAfterCallback` |
| `DataExchangeProofs!AnsweredLeave` | `Spec => []AnsweredLeavesList` |
| `DataExchangeProofs!AnsweredAreNotReported` | `Spec => AnsweredNotReported` |
| `DataExchangeProofs!UnansweredStay` | `Spec => UnansweredStays` |
| `DataExchangeProofs!InnerRequestsStarve` | `Spec => []InnerRequestStarves` |
| `DataExchangeProofs!ResponsesWereSent` | `Spec => []ResponseWasSent` |
| `ServerRegistryProofs!TypeCorrect` | `Spec => []TypeOK` |
| `ServerRegistryProofs!IdsNameServers` | `Spec => []IdNamesServer` |
| `ServerRegistryProofs!ListedServersLive` | `Spec => []NoDeletedServerListed` |
| `ServerRegistryProofs!ServersClosedOnce` | `Spec => []RightServerClosed` |
| `ServerRegistryProofs!ServersDoNotOutlive` | `Spec => []NobodyListensAfterwards` |

They hold for every value of the constants that satisfies `ConstantsAssumption`,
`BlockerAssumption`, `MultiblockAssumption`, `ExchangeAssumption` or `RegistryAssumption`,
which TLC evaluates in the runs.

*SessionProtocol.* The type invariant is not inductive alone, because the steps read the
head of `inbox`: `TypeInv` adds what the handlers in progress know about it. The lemmas
say what the operators on the list keep (`RemoveMessageLemma`, `TickedLemma`, ...), then
there is one lemma per group of actions.

*The handshake.* `SessionHandshakeProofs` goes on from that type invariant to `SafeInv`.
What happens on a connection is determined by where its two ends are, so most of it is
stated connection by connection (`ConnInv`): `StartInv` relates the thread inside
`startSession` to the client's phase, the `Wire` part lists which handshake messages
may be on the way in which phases, `IdInv` where the two halves of the id have got to,
`ClientInv` and `ServerInv` what each end has done by then. Over all connections
`NumberInv` says that the numbers the counters gave away differ until a counter wraps
around, and `MapInv` that a process files a server session not before its create-callback,
which `NoDanglingRegistration` needs to be inductive.

*The registry.* Both theorems of `SessionRegistryProofs` relate a list or map that all
sessions of a process share to the state of one of them, so a step of any session could
break them. `Forward` says what no step takes back (counters, message-ids, ids once
given). For `InitIsAnswered`, `ReplyInv` follows the requests: INIT messages have
message-id 1 and CLOSE messages no id in their body (`AllPlain`), the numbers of a session
grow (`MidInv`), and each entry of a reply list belongs to a session of the process, under
the id that one had then, no two of them the same (`ListInv`). What closing, replies and
the timer do to a list - mark, tick, swap and pop - keeps some of its requests in some
order: `Thins` says so with an injection of positions, once for all of them. So INIT_REPLY
finds the entry of its own INIT_START or none: initial ids differ in their low half until
the counter wraps around (`ReplyFindsInit`), and nobody adds that request again
(`AnsweredInv`). For `ReadyIsRegistered`, a step removes an entry of the map only with an
id that no ready session has any more (`Drops`, `Leaves`), ids of one process differ
(`IdsDiffer`: the low halves of sessions it started, the high halves of those it
accepted; a process that does both could give the same number on both sides), and the two
steps that make a session ready (`BecomesReady`) enter it, as its id is free.

*The promise of a session.* Besides `SafeInv`, the refinement needs that `m_initState = 1`
means that the create-callback was called (`ReleaseInv`), that no session is deleted under
a handler (`UnusedInv`) or while `startSession` polls it (`PolledInv`). `Tidy` is what
every step does to an end as far as these are concerned. Then each action is one step of
the promise or shows nothing to the applications: `StartSeen`, `PollSeen`, `ReceiveSeen`,
`ApplicationSeen`, with `EndSeen` for the four ways into `endSession` and `DeleteSeen` for
the two into the destructor.

*MessageBlocker.* None of the safety properties is inductive. That a caller gets its own
response needs to know what is in the list (`DataInv`: the data of a blocker is the
arrived response to its id) and that a list has at most one blocker per id, although
entries are swapped (`BlockersHaveCallers`). That a timeout is final needs that a
reported request has no blocker any more; that nothing but a timeout leads to nullptr
needs that a woken thread still has a blocker with data (`CallInv`). `IInv` is the
conjunction; it was checked by TLC before it was proved. `RemoveLemma` is the heart: after
swap and pop the list holds exactly the other blockers, once each. The refinement uses
`IInv`: each action is a step of the promise (`AskStep`, `ReturnsStep`, `AnswerStep`,
`TimerPromise`) or invisible (`InvisibleStep`).

*MultiblockIO.* That a buffer is complete when the finish-message is processed depends on
everything that is on the way. The invariant says of each message that what the receiver
has, what is in the inbox and what the sender has still to send follow each other without
a gap: packets of one message are in the order of their positions (`OrderInv`), each
begins where the one before it ends (`ChainInv`), the first where the buffer ends
(`FirstInv`), and the sender goes on where the last one, or the buffer, ends (`LastInv`,
`EmptyInv`; only while the link is up, for a broken one swallows the rest). A packet of a
message of which the receiver has something is not part 0 (`PacketInv`), so a buffer is
created once and `map::insert` never meets an old one. `BufferInv` says where each buffer
is. `SendStep` (a packet is appended) and `ReceiveLemma` (the first one is taken out)
carry the stream part; `WrittenLemma` says what `process_Data_Multiblock` leaves in the
map. `IInv` was checked by TLC, on sizes with and without overflow of the offset, before
it was proved.

That no timeout comes early relates the timer of a blocker to its age (`TimerInv`): what
the two add up to depends on whether the walk of the timer has passed the blocker, and a
swap puts the last entry, not yet passed, into the place of the removed one (`SwapLemma`).

*DataExchange.* Every message on the wire is right about its sender (`Right`): a reply
belongs to a message of the end it goes to, whose callback is over; a response names a
message its application was given. The receive thread has one message at a time
(`CurrentInv`), and a call made inside a callback is over before the callback
(`InsideInv`), which is why nobody can read the response of an inner request. Each entry
of a list belongs to a call that was made and is not answered, and no call has two
(`ListInv`); this survives the timer whatever its pointer leads to, because
`removeMessage` removes the one entry of an id or none (`RemoveMessageLemma`). What is
reported needs to know what the pointer leads to (`PointerInv`): an entry of the list or,
behind its end, one that left the list while it was unlocked, by the timer itself or by
a late reply (`PointedLemma`, `LeftBehindLemma`). Most steps
need only that nothing is taken back (`Forward`) and that no call is made or woken
(`Calm`).

*ServerRegistry.* `OneToOne`, `MapInv`: an id leads to one server and a server has one id,
even when calls race, since `map::insert` keeps an existing entry. `CountInv`: as long as
no two calls count at once, the ids below the counter are taken, the one of the call in
progress is free. `CloseInv` and `ListenInv` follow a server to its end.

Every invariant, both action properties and both refinements of the passing runs are proved. Only model-checked
are the liveness properties (liveness under fairness is outside the prover's reach):
`StartSessionTerminates` and `ClientCloseReachesServer` of `SessionProtocol`,
`ArrivedReleases` of `MessageBlocker`, `SentArrives` of
`MultiblockIO`, `CallsReturn`, `EntriesLeave` and `RepliesCome` of `DataExchange` and
`CallsReturn` of `ServerRegistry`.

## 5. What is not modelled, and why

- *Error messages and the checks of `processMessage`.* An error message is sent only for
  a message with another version or without delimiter, and no sender of this library
  writes one: what happens then depends on a peer that is not in the repository.
- *The destructors of the handlers with sessions still alive* (`~SessionHandler`,
  `clearList`): sessions and threads go on with deleted objects, the behaviour is
  undefined, and nothing in the library prevents or promises anything. The destructor
  of the controller for its servers is in `ServerRegistry`.
- *Closing a session in the middle of an exchange of data.* `SessionProtocol` has the
  closing, `DataExchange` the data; that the two share the reply list is covered by the
  heartbeats of `SessionProtocol`, which use it like any message.
- *Layout.* Sizes and offsets in bytes, padding, copying of payloads.
- *Wrap-around of `m_messageIdCounter`* (32 bits): messages have fresh ids.
- The socket, thread, ring-buffer and state-machine libraries (outside the repository;
  modelled as far as the code relies on them), logging, the build files and the two test
  programs.
