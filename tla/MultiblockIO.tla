---------------------------- MODULE MultiblockIO ----------------------------
(***************************************************************************)
(* Multi-block messages: payloads that are too big for one message.  The   *)
(* threads of a sending session cut them into parts and a finish-message,  *)
(* interleaved on one socket; the receive thread of the other session puts *)
(* them together in a buffer per message and hands the buffer to the       *)
(* request-callback or, if it is a response, to the thread that waits for  *)
(* it.  Either session may be deleted meanwhile.                           *)
(*                                                                         *)
(* One direction of one connection is modelled: buffers are per session.   *)
(* The random ids of the messages are taken as different.                  *)
(***************************************************************************)
EXTENDS Integers, Sequences

CONSTANTS
    Messages,     \* the calls of sendOutgoingData
    Responses,    \* those that carry a blocker-id (flag 0x8)
    SizeOf,       \* [Messages -> Nat \ {0}]: parameter `size', in bytes
    PartSize,     \* MAX_SINGLE_MESSAGE_SIZE
    OffsetRange,  \* 2^32 in the code: range of the offset of a part
    Nobody        \* the receive thread is not inside process_Data_Multi_Finish

ASSUME MultiblockAssumption ==
    /\ Responses \subseteq Messages
    /\ SizeOf \in [Messages -> Nat \ {0}]
    /\ PartSize \in Nat \ {0}
    /\ OffsetRange \in Nat \ {0}
    /\ Nobody \notin Messages

VARIABLES
    sender,   \* where sendOutgoingData of a message is; "sent" returns its id, "failed" 0
    rest,     \* totalSize: bytes that are not sent yet
    part,     \* partCounter
    abort,    \* m_abort of the sending session: it is being deleted
    linkUp,   \* the sockets are connected
    inbox,    \* packets that were sent and are not processed yet
    buffers,  \* m_incomingBuffer of the receiving session, and the content
    memory,   \* the allocation of the buffer of a message
    current,  \* message that is handed over and not yet removed from the map
    handed,   \* what the callback or the waiting thread got
    content,  \* the bytes in the buffer it got
    freed,    \* messages whose buffer ~MultiblockIO has deleted
    overtaken, \* history: the message that was being handed over then
    receiver  \* the receiving session is there, inside its destructor, deleted

sendVars == <<sender, rest, part, abort>>
recvVars == <<buffers, memory, current, handed, content, freed, overtaken, receiver>>
vars == <<sendVars, linkUp, inbox, recvVars>>

(* A byte is named by its message and its position in the payload.         *)
Bytes == Messages \X Nat
Data(m, from, size) == [i \in 1 .. size |-> <<m, from + i - 1>>]

Packets ==
    [type : {"part"}, id : Messages, partId : Nat, data : Seq(Bytes)]
        \cup [type : {"finish"}, id : Messages]

TypeOK ==
    /\ sender \in [Messages -> {"idle", "sending", "sent", "failed"}]
    /\ rest \in [Messages -> Nat]
    /\ part \in [Messages -> Nat]
    /\ abort \in BOOLEAN
    /\ linkUp \in BOOLEAN
    /\ inbox \in Seq(Packets)
    /\ DOMAIN buffers \subseteq Messages
    /\ \A m \in DOMAIN buffers : buffers[m] \in Seq(Bytes)
    /\ memory \in [Messages -> {"none", "failed", "allocated"}]
    /\ current \in Messages \cup {Nobody}
    /\ handed \in [Messages -> {"no", "buffer", "nullptr", "lost"}]
    /\ content \in [Messages -> Seq(Bytes)]
    /\ freed \in SUBSET Messages
    /\ overtaken \in Messages \cup {Nobody}
    /\ receiver \in {"alive", "deleting", "deleted"}

Init ==
    /\ sender = [m \in Messages |-> "idle"]
    /\ rest = SizeOf
    /\ part = [m \in Messages |-> 0]
    /\ abort = FALSE
    /\ linkUp = TRUE
    /\ inbox = <<>>
    /\ buffers = [m \in {} |-> <<>>]
    /\ memory = [m \in Messages |-> "none"]
    /\ current = Nobody
    /\ handed = [m \in Messages |-> "no"]
    /\ content = [m \in Messages |-> <<>>]
    /\ freed = {}
    /\ overtaken = Nobody
    /\ receiver = "alive"

-----------------------------------------------------------------------------
(* The sending threads.                                                    *)

(* What is sent over a connected socket arrives in order; a broken one     *)
(* swallows it, or the call fails (SendFails).                             *)
Transmit(packet) == inbox' = IF linkUp THEN Append(inbox, packet) ELSE inbox

(* sendNormalMessage, sendRequest, sendResponse: the session is ready.     *)
SendOutgoingData(m) ==
    /\ sender[m] = "idle"
    /\ ~abort
    /\ sender' = [sender EXCEPT ![m] = "sending"]
    /\ UNCHANGED <<rest, part, abort, linkUp, inbox, recvVars>>

(* Mutation: every part is full.                                           *)
PartLengthFull(m) == PartSize

PartLength(m) == IF rest[m] <= PartSize THEN rest[m] ELSE PartSize

(* Mutation: the offset counts the bytes and the parts before.             *)
PartOffsetOfRest(m) == SizeOf[m] - rest[m] + part[m]

(* The product is computed in 32 bits.                                     *)
PartOffset(m) == (PartSize * part[m]) % OffsetRange

(* One pass of the loop.                                                   *)
SendPart(m) ==
    /\ sender[m] = "sending"
    /\ rest[m] # 0
    /\ ~abort
    /\ Transmit([type |-> "part", id |-> m, partId |-> part[m],
                 data |-> Data(m, PartOffset(m), PartLength(m))])
    /\ rest' = [rest EXCEPT ![m] = @ - PartLength(m)]
    /\ part' = [part EXCEPT ![m] = @ + 1]
    /\ UNCHANGED <<sender, abort, linkUp, recvVars>>

(* Mutation: the finish-message does not wait for the last part.           *)
SendFinishEarly(m) ==
    /\ sender[m] = "sending"
    /\ ~abort
    /\ Transmit([type |-> "finish", id |-> m])
    /\ sender' = [sender EXCEPT ![m] = "sent"]
    /\ UNCHANGED <<rest, part, abort, linkUp, recvVars>>

SendFinish(m) ==
    /\ sender[m] = "sending"
    /\ rest[m] = 0
    /\ ~abort
    /\ Transmit([type |-> "finish", id |-> m])
    /\ sender' = [sender EXCEPT ![m] = "sent"]
    /\ UNCHANGED <<rest, part, abort, linkUp, recvVars>>

(* Sending a part or the finish-message fails.                             *)
SendFails(m) ==
    /\ sender[m] = "sending"
    /\ ~linkUp
    /\ sender' = [sender EXCEPT ![m] = "failed"]
    /\ UNCHANGED <<rest, part, abort, linkUp, inbox, recvVars>>

(* The loop or the check behind it sees m_abort.                           *)
GiveUp(m) ==
    /\ sender[m] = "sending"
    /\ abort
    /\ sender' = [sender EXCEPT ![m] = "failed"]
    /\ UNCHANGED <<rest, part, abort, linkUp, inbox, recvVars>>

-----------------------------------------------------------------------------
(* The receive thread.                                                     *)

Receives(type) ==
    /\ receiver # "deleted"
    /\ current = Nobody
    /\ inbox # <<>>
    /\ Head(inbox).type = type

(* map::insert of an empty buffer.                                         *)
CreateIncomingBuffer(map, m) ==
    [x \in DOMAIN map \cup {m} |-> IF x \in DOMAIN map THEN map[x] ELSE <<>>]

(* addData_DataBuffer, if the message has a buffer.                        *)
WriteIntoIncomingBuffer(map, m, data) ==
    IF m \in DOMAIN map THEN [map EXCEPT ![m] = @ \o data] ELSE map

(* The first part creates the buffer, for which there may be no memory;    *)
(* every part is written into it.                                          *)
ProcessPart ==
    LET p == Head(inbox)
    IN  /\ Receives("part")
        /\ \/ /\ p.partId = 0
              /\ memory' = [memory EXCEPT ![p.id] = "allocated"]
              /\ buffers' = WriteIntoIncomingBuffer(CreateIncomingBuffer(buffers, p.id),
                                                    p.id, p.data)
           \/ /\ memory' = IF p.partId = 0 THEN [memory EXCEPT ![p.id] = "failed"] ELSE memory
              /\ buffers' = WriteIntoIncomingBuffer(buffers, p.id, p.data)
        /\ inbox' = Tail(inbox)
        /\ UNCHANGED <<sendVars, linkUp, current, handed, content, freed, overtaken, receiver>>

(* Mutation: a finish-message without buffer is ignored.                   *)
ProcessFinishOfBuffer ==
    LET m == Head(inbox).id
    IN  /\ Receives("finish")
        /\ IF m \in DOMAIN buffers
           THEN /\ handed' = [handed EXCEPT ![m] = "buffer"]
                /\ content' = [content EXCEPT ![m] = buffers[m]]
           ELSE UNCHANGED <<handed, content>>
        /\ current' = m
        /\ inbox' = Tail(inbox)
        /\ UNCHANGED <<sendVars, linkUp, buffers, memory, freed, overtaken, receiver>>

(* process_Data_Multi_Finish: a request goes to the callback, a response   *)
(* to the thread that waits for it, if it still waits; the result of re-   *)
(* leaseMessage is not looked at, so otherwise nobody has the buffer.      *)
ProcessFinish ==
    LET m == Head(inbox).id
    IN  /\ Receives("finish")
        /\ \/ /\ m \in DOMAIN buffers
              /\ handed' = [handed EXCEPT ![m] = "buffer"]
              /\ content' = [content EXCEPT ![m] = buffers[m]]
           \/ /\ m \notin DOMAIN buffers
              /\ handed' = [handed EXCEPT ![m] = "nullptr"]
              /\ UNCHANGED content
           \/ /\ m \in Responses
              /\ handed' = [handed EXCEPT ![m] = "lost"]
              /\ UNCHANGED content
        /\ current' = m
        /\ inbox' = Tail(inbox)
        /\ UNCHANGED <<sendVars, linkUp, buffers, memory, freed, overtaken, receiver>>

(* Mutation: another id is removed, as closeSession does with 0.           *)
RemoveMultiblockBufferZero ==
    /\ current # Nobody
    /\ current' = Nobody
    /\ UNCHANGED <<sendVars, linkUp, inbox, buffers, memory, handed, content>>
    /\ UNCHANGED <<freed, overtaken, receiver>>

(* When the callback is over, removeMultiblockBuffer, which does not delete *)
(* the buffer.  After ~MultiblockIO it finds nothing in the deleted map.   *)
RemoveMultiblockBuffer ==
    /\ current # Nobody
    /\ buffers' = [m \in DOMAIN buffers \ {current} |-> buffers[m]]
    /\ current' = Nobody
    /\ UNCHANGED <<sendVars, linkUp, inbox, memory, handed, content, freed, overtaken, receiver>>

-----------------------------------------------------------------------------
(* The end of the sessions.                                                *)

(* The network breaks or a side closes its socket.                         *)
CutLink ==
    /\ linkUp
    /\ linkUp' = FALSE
    /\ UNCHANGED <<sendVars, inbox, recvVars>>

(* ~Session of the sender: it has closed the socket, then ~MultiblockIO.   *)
DeleteSender ==
    /\ ~linkUp
    /\ ~abort
    /\ abort' = TRUE
    /\ UNCHANGED <<sender, rest, part, linkUp, inbox, recvVars>>

(* ~Session of the receiver, by a thread of the application, at any time:  *)
(* it closes the socket; bytes that were received before may be processed. *)
DeleteReceiver ==
    /\ receiver = "alive"
    /\ receiver' = "deleting"
    /\ linkUp' = FALSE
    /\ UNCHANGED <<sendVars, inbox, buffers, memory, current, handed, content, freed, overtaken>>

(* ~MultiblockIO sleeps 10 ms, which may be shorter than the callback that  *)
(* runs while a buffer is handed over, and deletes what is in the map.     *)
FreeBuffers ==
    /\ receiver = "deleting"
    /\ freed' = DOMAIN buffers
    /\ overtaken' = current
    /\ buffers' = [m \in {} |-> <<>>]
    /\ receiver' = "deleted"
    /\ UNCHANGED <<sendVars, linkUp, inbox, memory, current, handed, content>>

Send(m) ==
    \/ SendPart(m)
    \/ SendFinish(m)
    \/ SendFails(m)
    \/ GiveUp(m)

Receive ==
    \/ ProcessPart
    \/ ProcessFinish
    \/ RemoveMultiblockBuffer

Next ==
    \/ \E m \in Messages : SendOutgoingData(m) \/ Send(m)
    \/ Receive
    \/ CutLink
    \/ DeleteSender
    \/ DeleteReceiver
    \/ FreeBuffers

Spec == Init /\ [][Next]_vars

(* A thread that sends goes on and the receive thread reads on; nobody has *)
(* to send, to delete a session or to break the network.                   *)
Fairness ==
    /\ \A m \in Messages : WF_vars(Send(m))
    /\ WF_vars(Receive)

FairSpec == Spec /\ Fairness

-----------------------------------------------------------------------------
(* Correctness.                                                            *)

(* Whatever is handed over is one whole message, its bytes in order and    *)
(* none of another message, although the parts of several messages and the *)
(* end of a session come in between; up to the size whose offsets fit.     *)
WholeMessage ==
    \A m \in Messages :
        handed[m] = "buffer" /\ SizeOf[m] <= OffsetRange => content[m] = Data(m, 0, SizeOf[m])

(* The callback or the waiting thread gets nullptr only when there was no  *)
(* memory: a finish-message never arrives without the parts before it.     *)
NullOnlyWithoutMemory ==
    \A m \in Messages : handed[m] = "nullptr" => memory[m] = "failed"

(* An allocated buffer has exactly one owner: the map, the one it was      *)
(* handed to (nobody, if a response comes too late), or ~MultiblockIO,     *)
(* which deletes it.  While it is handed over it is also in the map, so    *)
(* that a destructor that does not wait for the callback deletes the       *)
(* buffer the application has: this one, and no other, has two owners.     *)
BufferHasOneOwner ==
    \A m \in Messages :
        LET inMap == m \in DOMAIN buffers /\ m # current
            given == handed[m] \in {"buffer", "lost"}
        IN  /\ memory[m] = "allocated" => inMap \/ given \/ m \in freed
            /\ memory[m] # "allocated" => ~inMap /\ handed[m] # "buffer" /\ m \notin freed
            /\ ~(inMap /\ given) /\ ~(inMap /\ m \in freed)
            /\ given /\ m \in freed => m = overtaken

(* A message for which an id was returned is handed over, unless the       *)
(* connection breaks or the receiver is deleted.                           *)
SentArrives ==
    \A m \in Messages :
        sender[m] = "sent" ~> handed[m] # "no" \/ ~linkUp \/ receiver # "alive"
=============================================================================
