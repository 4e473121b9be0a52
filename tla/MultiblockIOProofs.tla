------------------------- MODULE MultiblockIOProofs -------------------------
(***************************************************************************)
(* Proofs about MultiblockIO, for all messages, sizes and part sizes.      *)
(*                                                                         *)
(* The bytes of a message that the receiver has, those in the inbox and    *)
(* those the sender has still to send follow each other without a gap.     *)
(* While the receiver has nothing of a message, the first packet is its    *)
(* part 0; the finish-message starts where the last byte ends.  Once the   *)
(* allocation of the buffer failed nothing more is known, or needed.       *)
(***************************************************************************)
EXTENDS MultiblockIO, SequenceTheorems, TLAPS

(* Bytes of a message that were sent.                                      *)
SentBytes(m) == SizeOf[m] - rest[m]

(* Position of a packet in the stream of its message.                      *)
Start(p) == IF p.type = "part" THEN PartSize * p.partId ELSE SizeOf[p.id]
End(p) == Start(p) + Len(p.data)

Of(i, m) == inbox[i].id = m

SenderInv ==
    \A m \in Messages :
        /\ rest[m] <= SizeOf[m]
        /\ rest[m] # 0 => SentBytes(m) = PartSize * part[m]
        /\ sender[m] = "idle" => rest[m] = SizeOf[m]
        /\ sender[m] = "sent" => rest[m] = 0

(* A packet is a part of what was sent, or the end of it.                  *)
PacketInv ==
    \A i \in DOMAIN inbox :
        LET p == inbox[i]
        IN  /\ handed[p.id] = "no"
            /\ memory[p.id] # "none" => Start(p) > 0
            /\ p.type = "finish" => sender[p.id] = "sent"
            /\ p.type = "part" => /\ Len(p.data) > 0
                                  /\ End(p) <= SentBytes(p.id)
                                  /\ SizeOf[p.id] <= OffsetRange
                                       => p.data = Data(p.id, Start(p), Len(p.data))

(* The packets of a message are in the order of their positions, and the   *)
(* finish-message is the last.                                             *)
OrderInv ==
    \A i, j \in DOMAIN inbox :
        i < j /\ inbox[i].id = inbox[j].id
            => inbox[i].type = "part" /\ Start(inbox[i]) < Start(inbox[j])

(* ... each begins where the one before it ends,                           *)
ChainInv ==
    \A m \in Messages : \A i, j \in DOMAIN inbox :
        /\ i < j /\ Of(i, m) /\ Of(j, m)
        /\ \A k \in DOMAIN inbox : i < k /\ k < j => ~Of(k, m)
        => End(inbox[i]) = Start(inbox[j])

(* ... the first where the buffer ends,                                    *)
FirstInv ==
    \A m \in Messages : \A j \in DOMAIN inbox :
        /\ Of(j, m)
        /\ \A k \in DOMAIN inbox : k < j => ~Of(k, m)
        => /\ m \in DOMAIN buffers => Start(inbox[j]) = Len(buffers[m])
           /\ memory[m] = "none" => Start(inbox[j]) = 0

(* ... and the sender goes on where the last one ends,                     *)
LastInv ==
    linkUp => \A m \in Messages : \A i \in DOMAIN inbox :
        /\ Of(i, m)
        /\ \A k \in DOMAIN inbox : i < k => ~Of(k, m)
        /\ inbox[i].type = "part"
        => End(inbox[i]) = SentBytes(m)

(* ... or where the buffer ends if nothing is on the way.                  *)
EmptyInv ==
    linkUp => \A m \in Messages :
        /\ handed[m] = "no"
        /\ \A k \in DOMAIN inbox : ~Of(k, m)
        => /\ m \in DOMAIN buffers => Len(buffers[m]) = SentBytes(m)
           /\ memory[m] = "none" => SentBytes(m) = 0

StreamInv == ChainInv /\ FirstInv /\ LastInv /\ EmptyInv

(* Where the buffer of a message is and what is in it.                     *)
BufferInv ==
    /\ \A m \in DOMAIN buffers :
           /\ memory[m] = "allocated"
           /\ handed[m] # "no" => m = current
           /\ SizeOf[m] <= OffsetRange => buffers[m] = Data(m, 0, Len(buffers[m]))
    /\ \A m \in Messages :
           /\ memory[m] = "allocated" /\ handed[m] = "no" /\ m \notin freed => m \in DOMAIN buffers
           /\ m \in freed => memory[m] = "allocated" /\ (handed[m] = "no" \/ m = overtaken)
           /\ handed[m] = "buffer" => memory[m] = "allocated"
           /\ handed[m] = "nullptr" => memory[m] = "failed"
           /\ handed[m] # "no" => sender[m] = "sent"
           /\ memory[m] # "none" => SentBytes(m) > 0
    /\ current # Nobody => handed[current] # "no"
    /\ receiver # "deleted" => freed = {}
    /\ receiver = "deleted" => DOMAIN buffers = {}

IInv ==
    /\ TypeOK
    /\ SenderInv
    /\ PacketInv
    /\ OrderInv
    /\ StreamInv
    /\ BufferInv
    /\ WholeMessage
-----------------------------------------------------------------------------
(* Lemmas about packets and sequences.                                     *)

(* A piece of a payload has the bytes it should have.                      *)
LEMMA DataLemma ==
    ASSUME NEW m \in Messages, NEW from \in Nat, NEW size \in Nat
    PROVE  /\ Data(m, from, size) \in Seq(Bytes)
           /\ Len(Data(m, from, size)) = size
           /\ \A i \in 1..size : Data(m, from, size)[i] = <<m, from + i - 1>>
<1>1. \A i \in 1..size : <<m, from + i - 1>> \in Bytes
  BY DEF Bytes
<1>2. Data(m, from, size) \in [1..size -> Bytes]
  BY <1>1 DEF Data
<1> QED
  BY <1>2 DEF Data

(* The bytes of a part continue those in the buffer.                       *)
LEMMA ConcatLemma ==
    ASSUME NEW m \in Messages, NEW a \in Nat, NEW b \in Nat
    PROVE  Data(m, 0, a) \o Data(m, a, b) = Data(m, 0, a + b)
<1> DEFINE s == Data(m, 0, a) \o Data(m, a, b)
<1>1. /\ Data(m, 0, a) \in Seq(Bytes) /\ Len(Data(m, 0, a)) = a
      /\ Data(m, a, b) \in Seq(Bytes) /\ Len(Data(m, a, b)) = b
      /\ Data(m, 0, a + b) \in Seq(Bytes) /\ Len(Data(m, 0, a + b)) = a + b
  <2>1. a + b \in Nat /\ 0 \in Nat
    OBVIOUS
  <2> QED
    BY <2>1, DataLemma
<1>2. /\ s \in Seq(Bytes) /\ Len(s) = a + b
      /\ \A i \in 1..(a + b) :
            s[i] = IF i <= a THEN Data(m, 0, a)[i] ELSE Data(m, a, b)[i - a]
  <2> DEFINE s1 == Data(m, 0, a)
             s2 == Data(m, a, b)
  <2>1. s1 \in Seq(Bytes) /\ Len(s1) = a /\ s2 \in Seq(Bytes) /\ Len(s2) = b
    BY <1>1
  <2> HIDE DEF s1, s2
  <2>2. /\ s1 \o s2 \in Seq(Bytes)
        /\ Len(s1 \o s2) = Len(s1) + Len(s2)
        /\ \A i \in 1..(Len(s1) + Len(s2)) :
              (s1 \o s2)[i] = IF i <= Len(s1) THEN s1[i] ELSE s2[i - Len(s1)]
    BY <2>1, ConcatProperties
  <2> QED
    BY <2>1, <2>2, Zenon DEF s1, s2
<1> HIDE DEF s
<1>3. ASSUME NEW i \in 1..(a + b)
      PROVE  s[i] = <<m, 0 + i - 1>>
  <2>1. CASE i <= a
    <3>1. i \in 1..a /\ s[i] = Data(m, 0, a)[i]
      BY <1>2, <2>1
    <3> QED
      BY <3>1, DataLemma
  <2>2. CASE i > a
    <3>1. i - a \in 1..b /\ ~(i <= a)
      BY <2>2
    <3>2. s[i] = Data(m, a, b)[i - a]
      BY <1>2, <3>1
    <3>3. s[i] = <<m, a + (i - a) - 1>>
      BY <3>1, <3>2, DataLemma
    <3>4. a + (i - a) - 1 = 0 + i - 1
      OBVIOUS
    <3> QED
      BY <3>3, <3>4
  <2>3. i <= a \/ i > a
    OBVIOUS
  <2> QED
    BY <2>1, <2>2, <2>3
<1>4. \A i \in 1..(a + b) : Data(m, 0, a + b)[i] = <<m, 0 + i - 1>>
  <2>1. a + b \in Nat /\ 0 \in Nat
    OBVIOUS
  <2> QED
    BY <2>1, DataLemma
<1>5. s \in Seq(Bytes) /\ Len(s) = Len(Data(m, 0, a + b))
  BY <1>1, <1>2
<1>6. \A i \in 1..Len(s) : s[i] = Data(m, 0, a + b)[i]
  BY <1>2, <1>3, <1>4
<1>7. s = Data(m, 0, a + b)
  BY <1>1, <1>5, <1>6, SeqEqual
<1> QED
  BY <1>7 DEF s

(* Part 0 and no other packet begins at position 0.                        *)
LEMMA PacketLemma ==
    ASSUME NEW p \in Packets
    PROVE  /\ p.id \in Messages
           /\ p.type \in {"part", "finish"}
           /\ Start(p) \in Nat
           /\ p.type = "part" => /\ p.data \in Seq(Bytes)
                                 /\ p.partId \in Nat
                                 /\ Start(p) = 0 <=> p.partId = 0
           /\ p.type = "finish" => Start(p) = SizeOf[p.id] /\ Start(p) > 0
<1>1. CASE p.type = "part"
  <2>1. p.partId \in Nat /\ p.data \in Seq(Bytes) /\ p.id \in Messages
    BY <1>1 DEF Packets
  <2>2. PartSize * p.partId \in Nat /\ (PartSize * p.partId = 0 <=> p.partId = 0)
    BY <2>1, MultiblockAssumption DEF MultiblockAssumption
  <2> QED
    BY <1>1, <2>1, <2>2 DEF Start
<1>2. CASE p.type = "finish"
  BY <1>2, MultiblockAssumption DEF Packets, Start, MultiblockAssumption
<1> QED
  BY <1>1, <1>2 DEF Packets

(* What Append does to the positions of the inbox.                         *)
LEMMA AppendLemma ==
    ASSUME NEW p \in Packets, NEW s \in Seq(Packets)
    PROVE  /\ Append(s, p) \in Seq(Packets)
           /\ DOMAIN s = 1..Len(s) /\ Len(s) \in Nat
           /\ DOMAIN Append(s, p) = 1..(Len(s) + 1)
           /\ \A i \in DOMAIN s : i \in DOMAIN Append(s, p) /\ Append(s, p)[i] = s[i]
           /\ Append(s, p)[Len(s) + 1] = p
OBVIOUS

(* What Tail does to them.                                                 *)
LEMMA TailLemma ==
    ASSUME NEW s \in Seq(Packets), s # <<>>
    PROVE  /\ Head(s) = s[1] /\ 1 \in DOMAIN s /\ s[1] \in Packets
           /\ Tail(s) \in Seq(Packets)
           /\ DOMAIN s = 1..Len(s) /\ Len(s) \in Nat
           /\ DOMAIN Tail(s) = 1..(Len(s) - 1)
           /\ \A i \in DOMAIN Tail(s) : i + 1 \in DOMAIN s /\ Tail(s)[i] = s[i + 1]
OBVIOUS

-----------------------------------------------------------------------------
(* The invariant holds initially.                                          *)
LEMMA InitLemma == Init => IInv
<1> SUFFICES ASSUME Init
             PROVE  IInv
  OBVIOUS
<1> USE MultiblockAssumption DEF MultiblockAssumption
<1>1. inbox = <<>> /\ DOMAIN inbox = {} /\ DOMAIN buffers = {}
  BY DEF Init
<1>2. TypeOK
  <2>1. SizeOf \in [Messages -> Nat] /\ <<>> \in Seq(Packets) /\ <<>> \in Seq(Bytes)
    OBVIOUS
  <2> QED
    BY <1>1, <2>1 DEF Init, TypeOK
<1>3. SenderInv
  <2>1. ASSUME NEW m \in Messages
        PROVE  /\ rest[m] = SizeOf[m] /\ part[m] = 0 /\ SizeOf[m] \in Nat \ {0}
               /\ sender[m] = "idle"
    BY DEF Init
  <2>2. ASSUME NEW m \in Messages
        PROVE  rest[m] <= SizeOf[m] /\ SentBytes(m) = 0 /\ PartSize * part[m] = 0
    <3>1. PartSize * 0 = 0
      OBVIOUS
    <3> QED
      BY <2>1, <3>1 DEF SentBytes
  <2> QED
    BY <2>1, <2>2 DEF SenderInv
<1>4. PacketInv /\ OrderInv
  BY <1>1 DEF PacketInv, OrderInv
<1>5. StreamInv
  BY <1>1 DEF Init, StreamInv, ChainInv, FirstInv, LastInv, EmptyInv, SentBytes
<1>6. BufferInv
  <2>1. \A m \in Messages : memory[m] = "none" /\ handed[m] = "no"
    BY DEF Init
  <2> QED
    BY <1>1, <2>1 DEF Init, BufferInv
<1>7. WholeMessage
  BY DEF Init, WholeMessage
<1> QED
  BY <1>2, <1>3, <1>4, <1>5, <1>6, <1>7 DEF IInv

(* A part that is sent has the length the loop computes.                   *)
LEMMA PartLengthLemma ==
    ASSUME TypeOK, NEW m \in Messages, rest[m] # 0
    PROVE  PartLength(m) \in Nat /\ PartLength(m) > 0 /\ PartLength(m) <= rest[m]
BY MultiblockAssumption DEF MultiblockAssumption, TypeOK, PartLength

(* What is put into the inbox, if anything.                                *)
LEMMA TransmitType ==
    ASSUME inbox \in Seq(Packets), NEW p \in Packets, Transmit(p)
    PROVE  inbox' \in Seq(Packets)
BY AppendLemma DEF Transmit

(* The part that SendPart sends.                                           *)
PartOf(m) == [type |-> "part", id |-> m, partId |-> part[m],
              data |-> Data(m, PartOffset(m), PartLength(m))]

(* It is a packet that begins behind what was sent, and its bytes are the  *)
(* right ones if the offset does not wrap.                                 *)
LEMMA PartOfLemma ==
    ASSUME TypeOK, SenderInv, NEW m \in Messages, rest[m] # 0
    PROVE  /\ PartOf(m) \in Packets
           /\ PartOf(m).type = "part" /\ PartOf(m).id = m
           /\ Len(PartOf(m).data) = PartLength(m)
           /\ Start(PartOf(m)) = SentBytes(m)
           /\ SizeOf[m] <= OffsetRange => PartOf(m).data = Data(m, SentBytes(m), PartLength(m))
<1> USE MultiblockAssumption DEF MultiblockAssumption
<1>1. PartLength(m) \in Nat
  BY PartLengthLemma
<1>2. part[m] \in Nat /\ rest[m] \in Nat /\ SizeOf[m] \in Nat
  BY DEF TypeOK
<1>3. PartSize * part[m] \in Nat
  BY <1>2
<1>4. PartOffset(m) \in Nat
  <2>1. \A n \in Nat, w \in Nat \ {0} : n % w \in Nat
    OBVIOUS
  <2> QED
    BY <1>3, <2>1 DEF PartOffset
<1>5. SentBytes(m) = PartSize * part[m]
  BY DEF SenderInv
<1>6. SizeOf[m] <= OffsetRange => PartOffset(m) = SentBytes(m)
  <2>1. SentBytes(m) < SizeOf[m]
    BY <1>2 DEF SentBytes
  <2>2. \A n, w \in Nat : n < w => n % w = n
    OBVIOUS
  <2>3. SizeOf[m] <= OffsetRange => PartSize * part[m] < OffsetRange
    BY <1>2, <1>5, <2>1
  <2> QED
    BY <1>3, <1>5, <2>2, <2>3 DEF PartOffset
<1>7. /\ Data(m, PartOffset(m), PartLength(m)) \in Seq(Bytes)
      /\ Len(Data(m, PartOffset(m), PartLength(m))) = PartLength(m)
  BY <1>1, <1>4, DataLemma
<1> QED
  BY <1>2, <1>5, <1>6, <1>7 DEF PartOf, Packets, Start

(* No step leaves the types.                                               *)
LEMMA TypeStep ==
    ASSUME TypeOK, SenderInv, [Next]_vars
    PROVE  TypeOK'
<1> USE MultiblockAssumption DEF MultiblockAssumption
<1>1. ASSUME NEW m \in Messages, SendOutgoingData(m)
      PROVE  TypeOK'
  BY <1>1 DEF TypeOK, SendOutgoingData, recvVars
<1>2. ASSUME NEW m \in Messages, SendPart(m)
      PROVE  TypeOK'
  <2>1. PartOf(m) \in Packets /\ Transmit(PartOf(m))
    BY <1>2, PartOfLemma DEF SendPart, PartOf
  <2>2. inbox' \in Seq(Packets)
    BY <2>1, TransmitType DEF TypeOK
  <2>3. rest' \in [Messages -> Nat] /\ part' \in [Messages -> Nat]
    <3>1. rest[m] - PartLength(m) \in Nat /\ part[m] + 1 \in Nat
      BY <1>2, PartLengthLemma DEF SendPart, TypeOK
    <3> QED
      BY <1>2, <3>1 DEF SendPart, TypeOK
  <2> QED
    BY <1>2, <2>2, <2>3 DEF TypeOK, SendPart, recvVars
<1>3. ASSUME NEW m \in Messages, SendFinish(m)
      PROVE  TypeOK'
  <2>1. [type |-> "finish", id |-> m] \in Packets
    BY DEF Packets
  <2>2. inbox' \in Seq(Packets)
    BY <1>3, <2>1, TransmitType DEF SendFinish, TypeOK
  <2> QED
    BY <1>3, <2>2 DEF TypeOK, SendFinish, recvVars
<1>4. ASSUME NEW m \in Messages, SendFails(m) \/ GiveUp(m)
      PROVE  TypeOK'
  BY <1>4 DEF TypeOK, SendFails, GiveUp, recvVars
<1>5. CASE ProcessPart
  <2> DEFINE p == Head(inbox)
  <2>1. p \in Packets /\ inbox' \in Seq(Packets) /\ p.type = "part"
    BY <1>5, TailLemma DEF ProcessPart, Receives, TypeOK
  <2>2. p.id \in Messages /\ p.data \in Seq(Bytes)
    BY <2>1, PacketLemma
  <2>3. ASSUME NEW map, DOMAIN map \subseteq Messages, \A x \in DOMAIN map : map[x] \in Seq(Bytes)
        PROVE  LET w == WriteIntoIncomingBuffer(map, p.id, p.data)
                   c == CreateIncomingBuffer(map, p.id)
               IN  /\ DOMAIN w \subseteq Messages
                   /\ \A x \in DOMAIN w : w[x] \in Seq(Bytes)
                   /\ DOMAIN c \subseteq Messages
                   /\ \A x \in DOMAIN c : c[x] \in Seq(Bytes)
    <3> HIDE DEF p
    <3>1. p.id \in DOMAIN map => map[p.id] \o p.data \in Seq(Bytes)
      BY <2>2, <2>3
    <3> QED
      BY <2>2, <2>3, <3>1 DEF WriteIntoIncomingBuffer, CreateIncomingBuffer
  <2>4. DOMAIN buffers' \subseteq Messages /\ \A x \in DOMAIN buffers' : buffers'[x] \in Seq(Bytes)
    <3> HIDE DEF p
    <3>1. \/ buffers' = WriteIntoIncomingBuffer(CreateIncomingBuffer(buffers, p.id), p.id, p.data)
          \/ buffers' = WriteIntoIncomingBuffer(buffers, p.id, p.data)
      BY <1>5 DEF ProcessPart, p
    <3>2. DOMAIN buffers \subseteq Messages /\ \A x \in DOMAIN buffers : buffers[x] \in Seq(Bytes)
      BY DEF TypeOK
    <3> QED
      BY <2>3, <3>1, <3>2
  <2>5. memory' \in [Messages -> {"none", "failed", "allocated"}]
    BY <1>5 DEF ProcessPart, TypeOK
  <2> QED
    BY <1>5, <2>1, <2>4, <2>5 DEF TypeOK, ProcessPart, sendVars
<1>6. CASE ProcessFinish
  <2> DEFINE p == Head(inbox)
  <2>1. p \in Packets /\ inbox' \in Seq(Packets) /\ p.type = "finish"
    BY <1>6, TailLemma DEF ProcessFinish, Receives, TypeOK
  <2>2. p.id \in Messages
    BY <2>1, PacketLemma
  <2>3. handed' \in [Messages -> {"no", "buffer", "nullptr", "lost"}]
    BY <1>6 DEF ProcessFinish, TypeOK
  <2>4. content' \in [Messages -> Seq(Bytes)]
    BY <1>6 DEF ProcessFinish, TypeOK
  <2>5. current' \in Messages \cup {Nobody}
    BY <1>6, <2>2 DEF ProcessFinish
  <2> QED
    BY <1>6, <2>1, <2>3, <2>4, <2>5 DEF TypeOK, ProcessFinish, sendVars
<1>7. CASE RemoveMultiblockBuffer
  BY <1>7 DEF TypeOK, RemoveMultiblockBuffer, sendVars
<1>8. CASE CutLink \/ DeleteSender \/ DeleteReceiver
  BY <1>8 DEF TypeOK, CutLink, DeleteSender, DeleteReceiver, sendVars, recvVars
<1>9. CASE FreeBuffers
  <2>1. DOMAIN buffers' = {}
    BY <1>9 DEF FreeBuffers
  <2> QED
    BY <1>9, <2>1 DEF TypeOK, FreeBuffers, sendVars
<1>10. CASE UNCHANGED vars
  BY <1>10 DEF TypeOK, vars, sendVars, recvVars
<1> QED
  BY <1>1, <1>2, <1>3, <1>4, <1>5, <1>6, <1>7, <1>8, <1>9, <1>10 DEF Next, Send, Receive

-----------------------------------------------------------------------------
(* Steps that touch neither the inbox nor a buffer.                        *)
LEMMA QuietStep ==
    ASSUME IInv,
           UNCHANGED <<rest, part, inbox, buffers, memory, handed, content, current>>,
           UNCHANGED <<freed, overtaken>>,
           \A m \in Messages : /\ sender[m] = "sent" <=> sender'[m] = "sent"
                               /\ sender'[m] = "idle" => sender[m] = "idle",
           linkUp' => linkUp,
           receiver' = receiver \/ (receiver # "deleted" /\ receiver' # "deleted")
    PROVE  SenderInv' /\ PacketInv' /\ OrderInv' /\ StreamInv' /\ BufferInv' /\ WholeMessage'
<1>1. SenderInv'
  BY DEF IInv, SenderInv, SentBytes
<1>2. PacketInv'
  <2>1. \A i \in DOMAIN inbox : inbox[i].id \in Messages
    BY PacketLemma DEF IInv, TypeOK
  <2> QED
    BY <2>1 DEF IInv, PacketInv, SentBytes, Start, End
<1>3. OrderInv'
  BY DEF IInv, OrderInv, Start
<1>4. ChainInv' /\ FirstInv'
  BY DEF IInv, StreamInv, ChainInv, FirstInv, Of, Start, End
<1>5. LastInv' /\ EmptyInv'
  BY DEF IInv, StreamInv, LastInv, EmptyInv, Of, Start, End, SentBytes
<1>6. BufferInv'
  BY DEF IInv, BufferInv, SentBytes
<1>7. WholeMessage'
  BY DEF IInv, WholeMessage
<1> QED
  BY <1>1, <1>2, <1>3, <1>4, <1>5, <1>6, <1>7 DEF StreamInv

(* A packet that begins behind what was sent joins the stream of its       *)
(* message, or is swallowed by a broken link.                              *)
LEMMA SendStep ==
    ASSUME IInv, TypeOK', SenderInv', UNCHANGED <<linkUp, recvVars>>,
           NEW m \in Messages, NEW p \in Packets, Transmit(p),
           p.id = m, sender[m] = "sending", Start(p) = SentBytes(m),
           \A x \in Messages \ {m} : rest'[x] = rest[x] /\ sender'[x] = sender[x],
           SentBytes(m) <= SentBytes(m)',
           p.type = "finish" => sender'[m] = "sent",
           p.type = "part" => /\ Len(p.data) > 0
                              /\ End(p) = SentBytes(m)'
                              /\ SizeOf[m] <= OffsetRange
                                   => p.data = Data(m, Start(p), Len(p.data))
    PROVE  PacketInv' /\ OrderInv' /\ StreamInv' /\ BufferInv' /\ WholeMessage'
<1> USE MultiblockAssumption DEF MultiblockAssumption
<1>1. /\ inbox \in Seq(Packets)
      /\ \A x \in Messages : SentBytes(x) \in Int /\ SentBytes(x)' \in Int
      /\ \A x \in Messages : SentBytes(x) <= SentBytes(x)'
  <2>1. /\ inbox \in Seq(Packets)
        /\ \A x \in Messages : rest[x] \in Nat /\ rest'[x] \in Nat /\ SizeOf[x] \in Nat
    BY DEF IInv, TypeOK
  <2>2. \A x \in Messages : SentBytes(x) \in Int /\ SentBytes(x)' \in Int
    BY <2>1 DEF SentBytes
  <2>3. \A x \in Messages \ {m} : SentBytes(x) = SentBytes(x)'
    BY DEF SentBytes
  <2>4. \A x \in Messages : SentBytes(x) <= SentBytes(x)'
    BY <2>2, <2>3
  <2> QED
    BY <2>1, <2>2, <2>4
<1>2. \A i \in DOMAIN inbox :
        /\ inbox[i] \in Packets /\ inbox[i].id \in Messages /\ Start(inbox[i]) \in Nat
        /\ inbox[i].type \in {"part", "finish"}
        /\ inbox[i].type = "part" => Len(inbox[i].data) \in Nat /\ End(inbox[i]) \in Nat
  <2>1. TAKE i \in DOMAIN inbox
  <2>2. inbox[i] \in Packets
    BY <1>1
  <2> QED
    BY <2>2, PacketLemma DEF End
<1>3. handed[m] = "no"
  BY DEF IInv, BufferInv
<1>4. \A i \in DOMAIN inbox : Of(i, m) => inbox[i].type = "part"
  BY <1>2 DEF IInv, PacketInv, Of
<1>5. BufferInv'
  <2>1. \A x \in Messages : memory[x] # "none" => SentBytes(x)' > 0
    BY <1>1 DEF IInv, BufferInv
  <2>2. \A x \in Messages : handed[x] # "no" => sender'[x] = "sent"
    BY <1>3 DEF IInv, BufferInv
  <2> QED
    BY <2>1, <2>2 DEF IInv, BufferInv, recvVars
<1>6. WholeMessage'
  BY DEF IInv, WholeMessage, recvVars
<1>7. ASSUME NEW i \in DOMAIN inbox
      PROVE  LET q == inbox[i]
             IN  /\ handed'[q.id] = "no"
                 /\ memory'[q.id] # "none" => Start(q) > 0
                 /\ q.type = "finish" => sender'[q.id] = "sent"
                 /\ q.type = "part" => /\ Len(q.data) > 0
                                       /\ End(q) <= SizeOf[q.id] - rest'[q.id]
                                       /\ SizeOf[q.id] <= OffsetRange
                                            => q.data = Data(q.id, Start(q), Len(q.data))
  <2> DEFINE q == inbox[i]
  <2>1. /\ handed[q.id] = "no"
        /\ memory[q.id] # "none" => Start(q) > 0
        /\ q.type = "finish" => sender[q.id] = "sent"
        /\ q.type = "part" => /\ Len(q.data) > 0
                              /\ End(q) <= SentBytes(q.id)
                              /\ SizeOf[q.id] <= OffsetRange
                                   => q.data = Data(q.id, Start(q), Len(q.data))
    BY DEF IInv, PacketInv
  <2>2. q.type = "part" => End(q) <= SizeOf[q.id] - rest'[q.id]
    BY <1>1, <1>2, <2>1 DEF SentBytes
  <2>3. q.type = "finish" => sender'[q.id] = "sent"
    BY <1>2, <1>4, <2>1 DEF Of
  <2> QED
    BY <2>1, <2>2, <2>3 DEF recvVars
<1>8. CASE ~linkUp
  <2>1. inbox' = inbox
    BY <1>8 DEF Transmit
  <2>2. PacketInv'
    BY <1>7, <2>1 DEF PacketInv, SentBytes
  <2>3. OrderInv'
    BY <2>1 DEF IInv, OrderInv
  <2>4. StreamInv'
    BY <1>8, <2>1 DEF IInv, StreamInv, ChainInv, FirstInv, LastInv, EmptyInv, Of, recvVars
  <2> QED
    BY <1>5, <1>6, <2>2, <2>3, <2>4
<1>9. CASE linkUp
  <2> DEFINE n == Len(inbox)
  <2>1. inbox' = Append(inbox, p)
    BY <1>9 DEF Transmit
  <2>2. /\ n \in Nat /\ DOMAIN inbox = 1..n /\ DOMAIN inbox' = 1..(n + 1)
        /\ \A i \in 1..n : inbox'[i] = inbox[i]
        /\ inbox'[n + 1] = p
    BY <1>1, <2>1, AppendLemma
  <2> HIDE DEF n
  <2>3. PacketInv'
    <3>1. memory[m] # "none" => Start(p) > 0
      BY DEF IInv, BufferInv
    <3>2. p.type = "part" => End(p) <= SizeOf[m] - rest'[m]
      BY <1>1 DEF SentBytes
    <3>3. /\ handed'[m] = "no"
          /\ memory'[m] # "none" => Start(p) > 0
      BY <1>3, <3>1 DEF recvVars
    <3>4. SUFFICES ASSUME NEW i \in 1..(n + 1)
                   PROVE  LET q == inbox'[i]
                          IN  /\ handed'[q.id] = "no"
                              /\ memory'[q.id] # "none" => Start(q) > 0
                              /\ q.type = "finish" => sender'[q.id] = "sent"
                              /\ q.type = "part" =>
                                   /\ Len(q.data) > 0
                                   /\ End(q) <= SizeOf[q.id] - rest'[q.id]
                                   /\ SizeOf[q.id] <= OffsetRange
                                        => q.data = Data(q.id, Start(q), Len(q.data))
      BY <2>2 DEF PacketInv, SentBytes
    <3>5. i \in 1..n \/ i = n + 1
      BY <2>2
    <3> QED
      BY <1>7, <2>2, <3>2, <3>3, <3>5
  <2>4. \A i \in 1..n : Of(i, m) => Start(inbox[i]) < Start(p)
    <3>1. TAKE i \in 1..n
    <3>2. HAVE Of(i, m)
    <3>3. inbox[i].type = "part" /\ Len(inbox[i].data) > 0 /\ End(inbox[i]) <= SentBytes(m)
      BY <1>4, <2>2, <3>2 DEF IInv, PacketInv, Of
    <3> QED
      BY <1>1, <1>2, <2>2, <3>3 DEF End
  <2>5. OrderInv'
    <3>1. SUFFICES ASSUME NEW i \in 1..(n + 1), NEW j \in 1..(n + 1),
                          i < j, inbox'[i].id = inbox'[j].id
                   PROVE  inbox'[i].type = "part" /\ Start(inbox'[i]) < Start(inbox'[j])
      BY <2>2 DEF OrderInv
    <3>2. i \in 1..n /\ (j \in 1..n \/ j = n + 1)
      BY <2>2, <3>1
    <3>3. CASE j \in 1..n
      BY <2>2, <3>1, <3>2, <3>3 DEF IInv, OrderInv
    <3>4. CASE j = n + 1
      BY <1>4, <2>2, <2>4, <3>1, <3>2, <3>4 DEF Of
    <3> QED
      BY <3>2, <3>3, <3>4
  <2>6. ChainInv'
    <3>0. SUFFICES ASSUME NEW x \in Messages, NEW i \in DOMAIN inbox', NEW j \in DOMAIN inbox',
                          i < j /\ Of(i, x)' /\ Of(j, x)',
                          \A k \in DOMAIN inbox' : i < k /\ k < j => ~Of(k, x)'
                   PROVE  End(inbox'[i]) = Start(inbox'[j])
      BY DEF ChainInv
    <3>1. /\ i \in 1..(n + 1) /\ j \in 1..(n + 1)
          /\ i < j /\ inbox'[i].id = x /\ inbox'[j].id = x
          /\ \A k \in 1..(n + 1) : i < k /\ k < j => inbox'[k].id # x
      BY <2>2, <3>0 DEF Of
    <3>2. i \in 1..n /\ (j \in 1..n \/ j = n + 1) /\ \A k \in 1..n : k \in 1..(n + 1)
      BY <2>2, <3>1
    <3>3. CASE j \in 1..n
      <4>1. Of(i, x) /\ Of(j, x) /\ \A k \in 1..n : i < k /\ k < j => ~Of(k, x)
        BY <2>2, <3>1, <3>2, <3>3 DEF Of
      <4>2. End(inbox[i]) = Start(inbox[j])
        BY <2>2, <3>1, <3>2, <3>3, <4>1 DEF IInv, StreamInv, ChainInv
      <4> QED
        BY <2>2, <3>2, <3>3, <4>2
    <3>4. CASE j = n + 1
      <4>1. x = m /\ Of(i, m)
        BY <2>2, <3>1, <3>2, <3>4 DEF Of
      <4>2. \A k \in 1..n : i < k => ~Of(k, m)
        BY <2>2, <3>1, <3>2, <3>4, <4>1 DEF Of
      <4>3. End(inbox[i]) = SentBytes(m)
        BY <1>4, <1>9, <2>2, <3>2, <4>1, <4>2 DEF IInv, StreamInv, LastInv
      <4> QED
        BY <2>2, <3>2, <3>4, <4>3
    <3> QED
      BY <3>2, <3>3, <3>4
  <2>7. FirstInv'
    <3>0. DOMAIN inbox' = 1..(n + 1) /\ UNCHANGED <<buffers, memory>>
      BY <2>2 DEF recvVars
    <3>1. SUFFICES ASSUME NEW x \in Messages, NEW j \in 1..(n + 1), inbox'[j].id = x,
                          \A k \in 1..(n + 1) : k < j => inbox'[k].id # x
                   PROVE  /\ x \in DOMAIN buffers => Start(inbox'[j]) = Len(buffers[x])
                          /\ memory[x] = "none" => Start(inbox'[j]) = 0
      BY <3>0 DEF FirstInv, Of
    <3>2. (j \in 1..n \/ j = n + 1) /\ \A k \in 1..n : k \in 1..(n + 1)
      BY <2>2
    <3>3. CASE j \in 1..n
      <4>1. Of(j, x) /\ \A k \in 1..n : k < j => ~Of(k, x)
        BY <2>2, <3>1, <3>2, <3>3 DEF Of
      <4>2. /\ x \in DOMAIN buffers => Start(inbox[j]) = Len(buffers[x])
            /\ memory[x] = "none" => Start(inbox[j]) = 0
        BY <2>2, <3>3, <4>1 DEF IInv, StreamInv, FirstInv
      <4> QED
        BY <2>2, <3>3, <4>2
    <3>4. CASE j = n + 1
      <4>1. x = m /\ \A k \in 1..n : ~Of(k, m)
        BY <2>2, <3>1, <3>2, <3>4 DEF Of
      <4>2. /\ m \in DOMAIN buffers => Len(buffers[m]) = SentBytes(m)
            /\ memory[m] = "none" => SentBytes(m) = 0
        BY <1>3, <1>9, <2>2, <4>1 DEF IInv, StreamInv, EmptyInv
      <4> QED
        BY <2>2, <3>4, <4>1, <4>2
    <3> QED
      BY <3>2, <3>3, <3>4
  <2>8. LastInv'
    <3>1. SUFFICES ASSUME NEW x \in Messages, NEW i \in 1..(n + 1), inbox'[i].id = x,
                          \A k \in 1..(n + 1) : i < k => inbox'[k].id # x,
                          inbox'[i].type = "part"
                   PROVE  End(inbox'[i]) = SentBytes(x)'
      BY <2>2 DEF LastInv, Of
    <3>2. (i \in 1..n \/ i = n + 1) /\ n + 1 \in 1..(n + 1) /\ \A k \in 1..n : k \in 1..(n + 1)
      BY <2>2
    <3>3. CASE i \in 1..n
      <4>1. x # m
        BY <2>2, <3>1, <3>2, <3>3
      <4>2. SentBytes(x)' = SentBytes(x)
        BY <4>1 DEF SentBytes
      <4> QED
        BY <1>9, <2>2, <3>1, <3>2, <3>3, <4>2 DEF IInv, StreamInv, LastInv, Of
    <3>4. CASE i = n + 1
      BY <2>2, <3>1, <3>4
    <3> QED
      BY <3>2, <3>3, <3>4
  <2>9. EmptyInv'
    <3>1. SUFFICES ASSUME NEW x \in Messages, handed[x] = "no",
                          \A k \in 1..(n + 1) : inbox'[k].id # x
                   PROVE  /\ x \in DOMAIN buffers => Len(buffers[x]) = SentBytes(x)'
                          /\ memory[x] = "none" => SentBytes(x)' = 0
      BY <2>2 DEF EmptyInv, Of, recvVars
    <3>2. n + 1 \in 1..(n + 1) /\ \A k \in 1..n : k \in 1..(n + 1)
      BY <2>2
    <3>3. x # m /\ \A k \in 1..n : ~Of(k, x)
      BY <2>2, <3>1, <3>2 DEF Of
    <3>4. SentBytes(x)' = SentBytes(x)
      BY <3>3 DEF SentBytes
    <3> QED
      BY <1>9, <2>2, <3>1, <3>3, <3>4 DEF IInv, StreamInv, EmptyInv
  <2> QED
    BY <1>5, <1>6, <2>3, <2>5, <2>6, <2>7, <2>8, <2>9 DEF StreamInv
<1> QED
  BY <1>8, <1>9

(* A part.                                                                 *)
LEMMA SendPartStep ==
    ASSUME IInv, TypeOK', NEW m \in Messages, SendPart(m)
    PROVE  SenderInv' /\ PacketInv' /\ OrderInv' /\ StreamInv' /\ BufferInv' /\ WholeMessage'
<1> USE MultiblockAssumption DEF MultiblockAssumption
<1> DEFINE p == PartOf(m)
<1>1. /\ p \in Packets /\ p.type = "part" /\ p.id = m
      /\ Len(p.data) = PartLength(m)
      /\ Start(p) = SentBytes(m)
      /\ SizeOf[m] <= OffsetRange => p.data = Data(m, SentBytes(m), PartLength(m))
  BY PartOfLemma DEF SendPart, IInv
<1>2. Transmit(p)
  BY DEF SendPart, PartOf
<1> HIDE DEF p
<1>3. PartLength(m) \in Nat /\ PartLength(m) > 0 /\ PartLength(m) <= rest[m]
  BY PartLengthLemma DEF SendPart, IInv
<1>4. /\ rest[m] \in Nat /\ SizeOf[m] \in Nat /\ part[m] \in Nat
      /\ rest'[m] = rest[m] - PartLength(m) /\ part'[m] = part[m] + 1
      /\ \A x \in Messages \ {m} : rest'[x] = rest[x] /\ part'[x] = part[x]
      /\ sender' = sender /\ sender[m] = "sending" /\ rest[m] # 0
      /\ UNCHANGED <<linkUp, recvVars>>
  BY DEF SendPart, IInv, TypeOK
<1>5. SentBytes(m)' = SentBytes(m) + PartLength(m) /\ SentBytes(m) \in Int
  BY <1>3, <1>4 DEF SentBytes
<1>6. rest'[m] # 0 => SentBytes(m)' = PartSize * part'[m]
  <2>1. HAVE rest'[m] # 0
  <2>2. PartLength(m) = PartSize
    BY <1>3, <1>4, <2>1 DEF PartLength
  <2>3. SentBytes(m) = PartSize * part[m]
    BY <1>4 DEF IInv, SenderInv
  <2>4. PartSize * (part[m] + 1) = PartSize * part[m] + PartSize
    BY <1>4
  <2> QED
    BY <1>4, <1>5, <2>2, <2>3, <2>4
<1>7. SenderInv'
  <2>1. ASSUME NEW x \in Messages, x # m
        PROVE  /\ rest'[x] <= SizeOf[x]
               /\ rest'[x] # 0 => SentBytes(x)' = PartSize * part'[x]
               /\ sender'[x] = "idle" => rest'[x] = SizeOf[x]
               /\ sender'[x] = "sent" => rest'[x] = 0
    <3>1. SentBytes(x)' = SentBytes(x)
      BY <1>4, <2>1 DEF SentBytes
    <3> QED
      BY <1>4, <2>1, <3>1 DEF IInv, SenderInv
  <2>2. rest'[m] <= SizeOf[m]
    <3>1. rest[m] <= SizeOf[m]
      BY DEF IInv, SenderInv
    <3> QED
      BY <1>3, <1>4, <3>1
  <2>3. sender'[m] # "idle" /\ sender'[m] # "sent"
    BY <1>4
  <2> QED
    BY <1>6, <2>1, <2>2, <2>3 DEF SenderInv
<1>8. End(p) = SentBytes(m)'
  BY <1>1, <1>5 DEF End
<1>9. SentBytes(m) <= SentBytes(m)'
  BY <1>3, <1>5
<1>10. \A x \in Messages \ {m} : rest'[x] = rest[x] /\ sender'[x] = sender[x]
  BY <1>4
<1>11. Len(p.data) > 0 /\ (SizeOf[m] <= OffsetRange => p.data = Data(m, Start(p), Len(p.data)))
  BY <1>1, <1>3
<1>12. p.type # "finish"
  BY <1>1
<1>13. PacketInv' /\ OrderInv' /\ StreamInv' /\ BufferInv' /\ WholeMessage'
  BY <1>1, <1>2, <1>4, <1>7, <1>8, <1>9, <1>10, <1>11, <1>12, SendStep
<1> QED
  BY <1>7, <1>13

(* The finish-message.                                                     *)
LEMMA SendFinishStep ==
    ASSUME IInv, TypeOK', NEW m \in Messages, SendFinish(m)
    PROVE  SenderInv' /\ PacketInv' /\ OrderInv' /\ StreamInv' /\ BufferInv' /\ WholeMessage'
<1> USE MultiblockAssumption DEF MultiblockAssumption
<1> DEFINE p == [type |-> "finish", id |-> m]
<1>1. p \in Packets /\ p.type = "finish" /\ p.id = m
  BY DEF Packets
<1>2. Transmit(p)
  BY DEF SendFinish
<1> HIDE DEF p
<1>3. /\ rest[m] = 0 /\ rest' = rest /\ part' = part
      /\ sender[m] = "sending" /\ sender'[m] = "sent"
      /\ \A x \in Messages \ {m} : sender'[x] = sender[x]
      /\ UNCHANGED <<linkUp, recvVars>>
  BY DEF SendFinish, IInv, TypeOK
<1>4. SenderInv'
  BY <1>3 DEF IInv, SenderInv, SentBytes
<1>5. Start(p) = SentBytes(m) /\ SentBytes(m)' = SentBytes(m) /\ SentBytes(m) <= SentBytes(m)'
  BY <1>1, <1>3 DEF Start, SentBytes
<1>6. p.type # "part"
  BY <1>1
<1>7. \A x \in Messages \ {m} : rest'[x] = rest[x] /\ sender'[x] = sender[x]
  BY <1>3
<1>8. PacketInv' /\ OrderInv' /\ StreamInv' /\ BufferInv' /\ WholeMessage'
  BY <1>1, <1>2, <1>3, <1>4, <1>5, <1>6, <1>7, SendStep
<1> QED
  BY <1>4, <1>8

(* Taking the first packet out of the inbox keeps the order and the chain  *)
(* of the others; what follows it in its stream begins where it ends.      *)
LEMMA ReceiveLemma ==
    ASSUME IInv, inbox # <<>>, inbox' = Tail(inbox), UNCHANGED <<sendVars, linkUp>>
    PROVE  /\ OrderInv' /\ ChainInv' /\ LastInv'
           /\ inbox[1] \in Packets /\ 1 \in DOMAIN inbox
           /\ \A i \in DOMAIN inbox' :
                /\ inbox'[i] \in Packets
                /\ i + 1 \in DOMAIN inbox /\ inbox'[i] = inbox[i + 1]
                /\ inbox'[i].id = inbox[1].id =>
                     inbox[1].type = "part" /\ Start(inbox[1]) < Start(inbox'[i])
           /\ \A m \in Messages : \A j \in DOMAIN inbox' :
                Of(j, m)' /\ (\A k \in DOMAIN inbox' : k < j => ~Of(k, m)')
                  => IF inbox[1].id = m
                     THEN End(inbox[1]) = Start(inbox'[j])
                     ELSE /\ m \in DOMAIN buffers => Start(inbox'[j]) = Len(buffers[m])
                          /\ memory[m] = "none" => Start(inbox'[j]) = 0
           /\ linkUp => \A m \in Messages :
                handed[m] = "no" /\ (\A k \in DOMAIN inbox' : ~Of(k, m)')
                  => IF inbox[1].id = m
                     THEN inbox[1].type = "part" => End(inbox[1]) = SentBytes(m)
                     ELSE /\ m \in DOMAIN buffers => Len(buffers[m]) = SentBytes(m)
                          /\ memory[m] = "none" => SentBytes(m) = 0
<1> DEFINE n == Len(inbox)
<1>1. /\ n \in Nat /\ DOMAIN inbox = 1..n /\ DOMAIN inbox' = 1..(n - 1)
      /\ 1 \in 1..n /\ inbox[1] \in Packets /\ inbox' \in Seq(Packets)
      /\ \A i \in 1..(n - 1) : i + 1 \in 1..n /\ inbox'[i] = inbox[i + 1]
  BY TailLemma DEF IInv, TypeOK
<1>2. \A i \in 1..n : i = 1 \/ (i - 1 \in 1..(n - 1) /\ inbox[i] = inbox'[i - 1])
  <2>1. TAKE i \in 1..n
  <2>2. i # 1 => i - 1 \in 1..(n - 1) /\ (i - 1) + 1 = i
    BY <1>1
  <2> QED
    BY <1>1, <2>2
<1> HIDE DEF n
<1>3. OrderInv'
  <2>1. SUFFICES ASSUME NEW i \in 1..(n - 1), NEW j \in 1..(n - 1),
                        i < j, inbox'[i].id = inbox'[j].id
                 PROVE  inbox'[i].type = "part" /\ Start(inbox'[i]) < Start(inbox'[j])
    BY <1>1 DEF OrderInv
  <2>2. i + 1 < j + 1
    BY <1>1, <2>1
  <2> QED
    BY <1>1, <2>1, <2>2 DEF IInv, OrderInv
<1>4. ChainInv'
  <2>1. SUFFICES ASSUME NEW x \in Messages, NEW i \in DOMAIN inbox', NEW j \in DOMAIN inbox',
                        i < j /\ Of(i, x)' /\ Of(j, x)',
                        \A k \in DOMAIN inbox' : i < k /\ k < j => ~Of(k, x)'
                 PROVE  End(inbox'[i]) = Start(inbox'[j])
    BY DEF ChainInv
  <2>2. i + 1 \in 1..n /\ j + 1 \in 1..n /\ i + 1 < j + 1 /\ Of(i + 1, x) /\ Of(j + 1, x)
    BY <1>1, <2>1 DEF Of
  <2>3. \A k \in 1..n : i + 1 < k /\ k < j + 1 => ~Of(k, x)
    <3>1. TAKE k \in 1..n
    <3>2. HAVE i + 1 < k /\ k < j + 1
    <3>3. k - 1 \in 1..(n - 1) /\ inbox[k] = inbox'[k - 1] /\ i < k - 1 /\ k - 1 < j
      BY <1>1, <1>2, <3>2
    <3> QED
      BY <1>1, <2>1, <3>3 DEF Of
  <2>4. End(inbox[i + 1]) = Start(inbox[j + 1])
    BY <1>1, <2>2, <2>3 DEF IInv, StreamInv, ChainInv
  <2> QED
    BY <1>1, <2>4
<1>5. LastInv'
  <2>1. SUFFICES ASSUME linkUp, NEW x \in Messages, NEW i \in DOMAIN inbox', Of(i, x)',
                        \A k \in DOMAIN inbox' : i < k => ~Of(k, x)',
                        inbox'[i].type = "part"
                 PROVE  End(inbox'[i]) = SentBytes(x)'
    BY DEF LastInv
  <2>2. i + 1 \in 1..n /\ Of(i + 1, x) /\ inbox[i + 1].type = "part"
    BY <1>1, <2>1 DEF Of
  <2>3. \A k \in 1..n : i + 1 < k => ~Of(k, x)
    <3>1. TAKE k \in 1..n
    <3>2. HAVE i + 1 < k
    <3>3. k - 1 \in 1..(n - 1) /\ inbox[k] = inbox'[k - 1] /\ i < k - 1
      BY <1>1, <1>2, <3>2
    <3> QED
      BY <1>1, <2>1, <3>3 DEF Of
  <2>4. End(inbox[i + 1]) = SentBytes(x)
    BY <1>1, <2>1, <2>2, <2>3 DEF IInv, StreamInv, LastInv
  <2> QED
    BY <1>1, <2>4 DEF SentBytes, sendVars
<1>6. ASSUME NEW i \in DOMAIN inbox'
      PROVE  /\ inbox'[i] \in Packets
             /\ i + 1 \in DOMAIN inbox /\ inbox'[i] = inbox[i + 1]
             /\ inbox'[i].id = inbox[1].id =>
                  inbox[1].type = "part" /\ Start(inbox[1]) < Start(inbox'[i])
  <2>1. inbox'[i] \in Packets /\ i + 1 \in 1..n /\ inbox'[i] = inbox[i + 1] /\ 1 < i + 1
    BY <1>1
  <2> QED
    BY <1>1, <2>1 DEF IInv, OrderInv
<1>7. ASSUME NEW m \in Messages, NEW j \in DOMAIN inbox', Of(j, m)',
             \A k \in DOMAIN inbox' : k < j => ~Of(k, m)'
      PROVE  IF inbox[1].id = m
             THEN End(inbox[1]) = Start(inbox'[j])
             ELSE /\ m \in DOMAIN buffers => Start(inbox'[j]) = Len(buffers[m])
                  /\ memory[m] = "none" => Start(inbox'[j]) = 0
  <2>1. j + 1 \in 1..n /\ 1 < j + 1 /\ inbox'[j] = inbox[j + 1] /\ Of(j + 1, m)
    BY <1>1, <1>7 DEF Of
  <2>2. \A k \in 1..n : 1 < k /\ k < j + 1 => ~Of(k, m)
    <3>1. TAKE k \in 1..n
    <3>2. HAVE 1 < k /\ k < j + 1
    <3>3. k - 1 \in 1..(n - 1) /\ inbox[k] = inbox'[k - 1] /\ k - 1 < j
      BY <1>1, <1>2, <3>2
    <3> QED
      BY <1>1, <1>7, <3>3 DEF Of
  <2>3. CASE inbox[1].id = m
    <3>1. End(inbox[1]) = Start(inbox[j + 1])
      BY <1>1, <2>1, <2>2, <2>3 DEF IInv, StreamInv, ChainInv, Of
    <3> QED
      BY <2>1, <2>3, <3>1
  <2>4. CASE inbox[1].id # m
    <3>1. \A k \in 1..n : k < j + 1 => ~Of(k, m)
      BY <1>1, <2>2, <2>4 DEF Of
    <3> QED
      BY <1>1, <2>1, <2>4, <3>1 DEF IInv, StreamInv, FirstInv
  <2> QED
    BY <2>3, <2>4
<1>8. ASSUME linkUp, NEW m \in Messages, handed[m] = "no", \A k \in DOMAIN inbox' : ~Of(k, m)'
      PROVE  IF inbox[1].id = m
             THEN inbox[1].type = "part" => End(inbox[1]) = SentBytes(m)
             ELSE /\ m \in DOMAIN buffers => Len(buffers[m]) = SentBytes(m)
                  /\ memory[m] = "none" => SentBytes(m) = 0
  <2>1. \A k \in 1..n : 1 < k => ~Of(k, m)
    <3>1. TAKE k \in 1..n
    <3>2. HAVE 1 < k
    <3>3. k - 1 \in 1..(n - 1) /\ inbox[k] = inbox'[k - 1]
      BY <1>1, <1>2, <3>2
    <3> QED
      BY <1>1, <1>8, <3>3 DEF Of
  <2>2. CASE inbox[1].id = m
    BY <1>1, <1>8, <2>1, <2>2 DEF IInv, StreamInv, LastInv, Of
  <2>3. CASE inbox[1].id # m
    <3>1. \A k \in 1..n : ~Of(k, m)
      BY <1>1, <2>1, <2>3 DEF Of
    <3> QED
      BY <1>1, <1>8, <2>3, <3>1 DEF IInv, StreamInv, EmptyInv
  <2> QED
    BY <2>2, <2>3
<1> QED
  BY <1>1, <1>3, <1>4, <1>5, <1>6, <1>7, <1>8

(* A part that is processed: the buffer of its message, if there is one,   *)
(* has all bytes up to the end of the part, and the others are untouched.  *)
LEMMA WrittenLemma ==
    ASSUME IInv, ProcessPart, NEW m \in Messages, m = inbox[1].id
    PROVE  /\ \A x \in Messages \ {m} :
                /\ memory'[x] = memory[x]
                /\ x \in DOMAIN buffers' <=> x \in DOMAIN buffers
                /\ x \in DOMAIN buffers => buffers'[x] = buffers[x]
           /\ memory'[m] \in {"failed", "allocated"}
           /\ memory'[m] = "allocated" <=> m \in DOMAIN buffers'
           /\ m \in DOMAIN buffers' =>
                /\ Len(buffers'[m]) = End(inbox[1])
                /\ SizeOf[m] <= OffsetRange => buffers'[m] = Data(m, 0, Len(buffers'[m]))
<1> USE MultiblockAssumption DEF MultiblockAssumption
<1> DEFINE p == inbox[1]
           L == Len(inbox[1].data)
<1>1. /\ p \in Packets /\ 1 \in DOMAIN inbox /\ Head(inbox) = p /\ p.type = "part"
      /\ receiver # "deleted"
  BY TailLemma DEF IInv, TypeOK, ProcessPart, Receives
<1>2. /\ p.data \in Seq(Bytes) /\ p.partId \in Nat /\ Start(p) \in Nat /\ L \in Nat
      /\ Start(p) = 0 <=> p.partId = 0
  BY <1>1, PacketLemma
<1>3. /\ handed[m] = "no"
      /\ memory[m] # "none" => Start(p) > 0
      /\ SizeOf[m] <= OffsetRange => p.data = Data(m, Start(p), L)
      /\ End(p) = Start(p) + L
  BY <1>1 DEF IInv, PacketInv, End
<1>4. /\ m \in DOMAIN buffers => Start(p) = Len(buffers[m])
      /\ memory[m] = "none" => Start(p) = 0
  <2>1. \A k \in DOMAIN inbox : k < 1 => ~Of(k, m)
    BY DEF IInv, TypeOK
  <2> QED
    BY <1>1, <2>1 DEF IInv, StreamInv, FirstInv, Of
<1>5. /\ m \in DOMAIN buffers => memory[m] = "allocated" /\ buffers[m] \in Seq(Bytes)
      /\ memory[m] = "allocated" => m \in DOMAIN buffers
      /\ SizeOf[m] <= OffsetRange /\ m \in DOMAIN buffers =>
            buffers[m] = Data(m, 0, Len(buffers[m]))
  BY <1>1, <1>3 DEF IInv, BufferInv, TypeOK
<1>6. p.partId = 0 <=> memory[m] = "none"
  BY <1>2, <1>3, <1>4
<1>7. memory \in [Messages -> {"none", "failed", "allocated"}]
  BY DEF IInv, TypeOK
<1>8. \/ /\ p.partId = 0
         /\ memory' = [memory EXCEPT ![m] = "allocated"]
         /\ buffers' = WriteIntoIncomingBuffer(CreateIncomingBuffer(buffers, m), m, p.data)
      \/ /\ memory' = IF p.partId = 0 THEN [memory EXCEPT ![m] = "failed"] ELSE memory
         /\ buffers' = WriteIntoIncomingBuffer(buffers, m, p.data)
  BY <1>1 DEF ProcessPart
<1> HIDE DEF p, L
<1>9. CASE /\ p.partId = 0
           /\ memory' = [memory EXCEPT ![m] = "allocated"]
           /\ buffers' = WriteIntoIncomingBuffer(CreateIncomingBuffer(buffers, m), m, p.data)
  <2>1. m \notin DOMAIN buffers
    BY <1>5, <1>6, <1>9
  <2>2. /\ DOMAIN buffers' = DOMAIN buffers \cup {m}
        /\ buffers'[m] = <<>> \o p.data
        /\ \A x \in DOMAIN buffers : buffers'[x] = buffers[x]
    BY <1>9, <2>1 DEF WriteIntoIncomingBuffer, CreateIncomingBuffer
  <2>3. buffers'[m] = p.data
    BY <1>2, <2>2
  <2>4. Len(buffers'[m]) = L
    BY <2>3 DEF p, L
  <2>5. Start(p) = 0 /\ End(p) = L
    BY <1>2, <1>3, <1>9
  <2>6. SizeOf[m] <= OffsetRange => buffers'[m] = Data(m, 0, L)
    BY <1>3, <2>3, <2>5
  <2>7. memory'[m] = "allocated" /\ \A x \in Messages \ {m} : memory'[x] = memory[x]
    BY <1>7, <1>9
  <2> QED
    BY <2>2, <2>4, <2>5, <2>6, <2>7 DEF p
<1>10. CASE /\ memory' = IF p.partId = 0 THEN [memory EXCEPT ![m] = "failed"] ELSE memory
            /\ buffers' = WriteIntoIncomingBuffer(buffers, m, p.data)
  <2>1. /\ \A x \in Messages \ {m} : memory'[x] = memory[x]
        /\ memory'[m] = IF p.partId = 0 THEN "failed" ELSE memory[m]
    BY <1>7, <1>10
  <2>2. CASE m \notin DOMAIN buffers
    <3>1. buffers' = buffers
      BY <1>10, <2>2 DEF WriteIntoIncomingBuffer
    <3>2. memory[m] # "allocated" /\ memory'[m] = "failed"
      BY <1>5, <1>6, <1>7, <2>1, <2>2
    <3> QED
      BY <2>1, <2>2, <3>1, <3>2
  <2>3. CASE m \in DOMAIN buffers
    <3>1. /\ DOMAIN buffers' = DOMAIN buffers
          /\ buffers'[m] = buffers[m] \o p.data
          /\ \A x \in DOMAIN buffers : x # m => buffers'[x] = buffers[x]
      BY <1>10, <2>3 DEF WriteIntoIncomingBuffer
    <3>2. memory'[m] = "allocated"
      BY <1>5, <1>6, <2>1, <2>3
    <3>3. Len(buffers'[m]) = Start(p) + L
      <4>1. Len(buffers[m] \o p.data) = Len(buffers[m]) + Len(p.data)
        BY <1>2, <1>5, <2>3
      <4> QED
        BY <1>4, <2>3, <3>1, <4>1 DEF p, L
    <3>4. SizeOf[m] <= OffsetRange => buffers'[m] = Data(m, 0, Start(p) + L)
      <4>1. HAVE SizeOf[m] <= OffsetRange
      <4>2. buffers[m] = Data(m, 0, Start(p)) /\ p.data = Data(m, Start(p), L)
        BY <1>3, <1>4, <1>5, <2>3, <4>1
      <4>3. Data(m, 0, Start(p)) \o Data(m, Start(p), L) = Data(m, 0, Start(p) + L)
        BY <1>2, ConcatLemma
      <4> QED
        BY <3>1, <4>2, <4>3, Zenon
    <3> QED
      BY <1>3, <2>1, <2>3, <3>1, <3>2, <3>3, <3>4 DEF p
  <2> QED
    BY <2>2, <2>3
<1> QED
  BY <1>8, <1>9, <1>10

(* Processing a part.                                                      *)
LEMMA ProcessPartStep ==
    ASSUME IInv, ProcessPart
    PROVE  SenderInv' /\ PacketInv' /\ OrderInv' /\ StreamInv' /\ BufferInv' /\ WholeMessage'
<1> USE MultiblockAssumption DEF MultiblockAssumption
<1> DEFINE p == inbox[1]
           m == inbox[1].id
<1>1. /\ inbox # <<>> /\ inbox' = Tail(inbox)
      /\ UNCHANGED <<sendVars, linkUp, current, handed, content, freed, overtaken, receiver>>
      /\ receiver # "deleted" /\ current = Nobody
      /\ Head(inbox) = p /\ p.type = "part" /\ p \in Packets /\ 1 \in DOMAIN inbox
  BY TailLemma DEF IInv, TypeOK, ProcessPart, Receives
<1>2. m \in Messages /\ Start(p) \in Nat /\ Len(p.data) \in Nat
  BY <1>1, PacketLemma
<1>3. /\ handed[m] = "no" /\ Len(p.data) > 0 /\ End(p) <= SentBytes(m)
  BY <1>1 DEF IInv, PacketInv
<1> HIDE DEF p, m
<1>4. SenderInv' /\ WholeMessage'
  BY <1>1 DEF IInv, SenderInv, SentBytes, WholeMessage, sendVars
<1>5. SentBytes(m) \in Int /\ \A x \in Messages : SentBytes(x)' = SentBytes(x)
  BY <1>1, <1>2 DEF IInv, TypeOK, SentBytes, sendVars
<1>6. SentBytes(m) > 0
  BY <1>2, <1>3, <1>5 DEF End
<1>7. /\ OrderInv' /\ ChainInv' /\ LastInv'
      /\ \A i \in DOMAIN inbox' :
           /\ inbox'[i] \in Packets
           /\ i + 1 \in DOMAIN inbox /\ inbox'[i] = inbox[i + 1]
           /\ inbox'[i].id = m => Start(p) < Start(inbox'[i])
  BY <1>1, ReceiveLemma DEF p, m
<1>8. /\ \A x \in Messages \ {m} :
           /\ memory'[x] = memory[x]
           /\ x \in DOMAIN buffers' <=> x \in DOMAIN buffers
           /\ x \in DOMAIN buffers => buffers'[x] = buffers[x]
      /\ memory'[m] \in {"failed", "allocated"}
      /\ memory'[m] = "allocated" <=> m \in DOMAIN buffers'
      /\ m \in DOMAIN buffers' =>
           /\ Len(buffers'[m]) = End(p)
           /\ SizeOf[m] <= OffsetRange => buffers'[m] = Data(m, 0, Len(buffers'[m]))
  BY <1>2, WrittenLemma DEF p, m
<1>9. PacketInv'
  <2>1. SUFFICES ASSUME NEW i \in DOMAIN inbox'
                 PROVE  LET q == inbox[i + 1]
                        IN  /\ handed[q.id] = "no"
                            /\ memory'[q.id] # "none" => Start(q) > 0
                            /\ q.type = "finish" => sender[q.id] = "sent"
                            /\ q.type = "part" =>
                                 /\ Len(q.data) > 0
                                 /\ End(q) <= SizeOf[q.id] - rest[q.id]
                                 /\ SizeOf[q.id] <= OffsetRange
                                      => q.data = Data(q.id, Start(q), Len(q.data))
    BY <1>1, <1>7 DEF PacketInv, SentBytes, sendVars
  <2> DEFINE q == inbox[i + 1]
  <2>2. q \in Packets /\ i + 1 \in DOMAIN inbox /\ (q.id = m => Start(p) < Start(q))
    BY <1>7
  <2>3. q.id \in Messages /\ Start(q) \in Nat
    BY <2>2, PacketLemma
  <2>4. /\ handed[q.id] = "no"
        /\ memory[q.id] # "none" => Start(q) > 0
        /\ q.type = "finish" => sender[q.id] = "sent"
        /\ q.type = "part" =>
             /\ Len(q.data) > 0
             /\ End(q) <= SizeOf[q.id] - rest[q.id]
             /\ SizeOf[q.id] <= OffsetRange => q.data = Data(q.id, Start(q), Len(q.data))
    BY <2>2 DEF IInv, PacketInv, SentBytes
  <2>5. memory'[q.id] # "none" => Start(q) > 0
    <3>1. CASE q.id = m
      BY <1>2, <2>2, <2>3, <3>1
    <3>2. CASE q.id # m
      BY <1>8, <2>3, <2>4, <3>2
    <3> QED
      BY <3>1, <3>2
  <2> QED
    BY <2>4, <2>5
<1>10. FirstInv'
  <2>1. SUFFICES ASSUME NEW x \in Messages, NEW j \in DOMAIN inbox', Of(j, x)',
                        \A k \in DOMAIN inbox' : k < j => ~Of(k, x)'
                 PROVE  /\ x \in DOMAIN buffers' => Start(inbox'[j]) = Len(buffers'[x])
                        /\ memory'[x] = "none" => Start(inbox'[j]) = 0
    BY DEF FirstInv
  <2>2. IF x = m
        THEN End(p) = Start(inbox'[j])
        ELSE /\ x \in DOMAIN buffers => Start(inbox'[j]) = Len(buffers[x])
             /\ memory[x] = "none" => Start(inbox'[j]) = 0
    BY <1>1, <2>1, ReceiveLemma DEF p, m
  <2> QED
    BY <1>8, <2>2
<1>11. EmptyInv'
  <2>1. SUFFICES ASSUME linkUp', NEW x \in Messages, handed'[x] = "no",
                        \A k \in DOMAIN inbox' : ~Of(k, x)'
                 PROVE  /\ x \in DOMAIN buffers' => Len(buffers'[x]) = SentBytes(x)'
                        /\ memory'[x] = "none" => SentBytes(x)' = 0
    BY DEF EmptyInv
  <2>2. IF x = m
        THEN End(p) = SentBytes(m)
        ELSE /\ x \in DOMAIN buffers => Len(buffers[x]) = SentBytes(x)
             /\ memory[x] = "none" => SentBytes(x) = 0
    BY <1>1, <2>1, ReceiveLemma DEF p, m
  <2> QED
    BY <1>5, <1>8, <2>2
<1>12. BufferInv'
  <2>1. freed = {}
    BY <1>1 DEF IInv, BufferInv
  <2>2. DOMAIN buffers \subseteq Messages /\ DOMAIN buffers' \subseteq Messages
    <3>1. IInv => TypeOK /\ SenderInv
      BY DEF IInv
    <3>2. ProcessPart => [Next]_vars
      BY DEF Next, Receive
    <3>3. TypeOK /\ TypeOK'
      BY <3>1, <3>2, TypeStep
    <3> QED
      BY <3>3 DEF TypeOK
  <2>3. \A x \in DOMAIN buffers' :
           /\ memory'[x] = "allocated"
           /\ handed'[x] # "no" => x = current'
           /\ SizeOf[x] <= OffsetRange => buffers'[x] = Data(x, 0, Len(buffers'[x]))
    <3>1. TAKE x \in DOMAIN buffers'
    <3>2. CASE x = m
      BY <1>1, <1>3, <1>8, <3>2
    <3>3. CASE x # m
      <4>1. x \in DOMAIN buffers /\ memory'[x] = memory[x] /\ buffers'[x] = buffers[x]
        BY <1>8, <2>2, <3>3
      <4> QED
        BY <1>1, <4>1 DEF IInv, BufferInv
    <3> QED
      BY <3>2, <3>3
  <2>4. \A x \in Messages :
           /\ memory'[x] = "allocated" /\ handed'[x] = "no" /\ x \notin freed'
                => x \in DOMAIN buffers'
           /\ x \in freed' => memory'[x] = "allocated" /\ handed'[x] = "no"
           /\ handed'[x] = "buffer" => memory'[x] = "allocated"
           /\ handed'[x] = "nullptr" => memory'[x] = "failed"
           /\ handed'[x] # "no" => sender'[x] = "sent"
           /\ memory'[x] # "none" => SentBytes(x)' > 0
    <3>1. TAKE x \in Messages
    <3>2. CASE x = m
      BY <1>1, <1>3, <1>5, <1>6, <1>8, <2>1, <3>2
    <3>3. CASE x # m
      BY <1>1, <1>5, <1>8, <2>1, <3>3 DEF IInv, BufferInv, sendVars
    <3> QED
      BY <3>2, <3>3
  <2> QED
    BY <1>1, <2>1, <2>3, <2>4 DEF BufferInv
<1> QED
  BY <1>4, <1>7, <1>9, <1>10, <1>11, <1>12 DEF StreamInv

(* Handing over a message: its finish-message begins where the last byte   *)
(* ends, so the buffer is complete, and nothing of the message follows.    *)
LEMMA ProcessFinishStep ==
    ASSUME IInv, ProcessFinish
    PROVE  SenderInv' /\ PacketInv' /\ OrderInv' /\ StreamInv' /\ BufferInv' /\ WholeMessage'
<1> USE MultiblockAssumption DEF MultiblockAssumption
<1> DEFINE p == inbox[1]
           m == inbox[1].id
<1>1. /\ inbox # <<>> /\ inbox' = Tail(inbox)
      /\ UNCHANGED <<sendVars, linkUp, buffers, memory, freed, overtaken, receiver>>
      /\ receiver # "deleted" /\ current = Nobody /\ current' = m
      /\ Head(inbox) = p /\ p.type = "finish" /\ p \in Packets /\ 1 \in DOMAIN inbox
  BY TailLemma DEF IInv, TypeOK, ProcessFinish, Receives
<1>2. m \in Messages /\ Start(p) = SizeOf[m] /\ Start(p) > 0
  BY <1>1, PacketLemma
<1>3. handed[m] = "no" /\ sender[m] = "sent"
  BY <1>1 DEF IInv, PacketInv
<1>4. /\ m \in DOMAIN buffers => SizeOf[m] = Len(buffers[m])
      /\ memory[m] # "none"
  <2>1. \A k \in DOMAIN inbox : k < 1 => ~Of(k, m)
    BY DEF IInv, TypeOK
  <2>2. /\ m \in DOMAIN buffers => Start(p) = Len(buffers[m])
        /\ memory[m] = "none" => Start(p) = 0
    BY <1>1, <1>2, <2>1 DEF IInv, StreamInv, FirstInv, Of
  <2> QED
    BY <1>2, <2>2
<1>5. /\ \A x \in Messages \ {m} : handed'[x] = handed[x] /\ content'[x] = content[x]
      /\ \/ m \in DOMAIN buffers /\ handed'[m] = "buffer" /\ content'[m] = buffers[m]
         \/ m \notin DOMAIN buffers /\ handed'[m] = "nullptr"
         \/ handed'[m] = "lost"
  BY <1>1, <1>2 DEF ProcessFinish, IInv, TypeOK
<1>6. /\ OrderInv' /\ ChainInv' /\ LastInv'
      /\ \A i \in DOMAIN inbox' :
           /\ inbox'[i] \in Packets
           /\ i + 1 \in DOMAIN inbox /\ inbox'[i] = inbox[i + 1]
           /\ inbox'[i].id # m
  BY <1>1, ReceiveLemma DEF p, m
<1> HIDE DEF p, m
<1>7. SenderInv'
  BY <1>1 DEF IInv, SenderInv, SentBytes, sendVars
<1>8. WholeMessage'
  <2>1. ASSUME NEW x \in Messages, handed'[x] = "buffer", SizeOf[x] <= OffsetRange
        PROVE  content'[x] = Data(x, 0, SizeOf[x])
    <3>1. CASE x = m
      <4>1. m \in DOMAIN buffers /\ content'[m] = buffers[m]
        BY <1>5, <2>1, <3>1
      <4>2. buffers[m] = Data(m, 0, Len(buffers[m]))
        BY <2>1, <3>1, <4>1 DEF IInv, BufferInv
      <4> QED
        BY <1>4, <3>1, <4>1, <4>2
    <3>2. CASE x # m
      BY <1>5, <2>1, <3>2 DEF IInv, WholeMessage
    <3> QED
      BY <3>1, <3>2
  <2> QED
    BY <2>1 DEF WholeMessage
<1>9. PacketInv'
  <2>1. SUFFICES ASSUME NEW i \in DOMAIN inbox'
                 PROVE  LET q == inbox[i + 1]
                        IN  /\ handed'[q.id] = "no"
                            /\ memory[q.id] # "none" => Start(q) > 0
                            /\ q.type = "finish" => sender[q.id] = "sent"
                            /\ q.type = "part" =>
                                 /\ Len(q.data) > 0
                                 /\ End(q) <= SizeOf[q.id] - rest[q.id]
                                 /\ SizeOf[q.id] <= OffsetRange
                                      => q.data = Data(q.id, Start(q), Len(q.data))
    BY <1>1, <1>6 DEF PacketInv, SentBytes, sendVars
  <2> DEFINE q == inbox[i + 1]
  <2>2. q \in Packets /\ i + 1 \in DOMAIN inbox /\ q.id # m
    BY <1>6
  <2>3. q.id \in Messages
    BY <2>2, PacketLemma
  <2> QED
    BY <1>5, <2>2, <2>3 DEF IInv, PacketInv, SentBytes
<1>10. FirstInv'
  <2>1. SUFFICES ASSUME NEW x \in Messages, NEW j \in DOMAIN inbox', Of(j, x)',
                        \A k \in DOMAIN inbox' : k < j => ~Of(k, x)'
                 PROVE  /\ x \in DOMAIN buffers => Start(inbox'[j]) = Len(buffers[x])
                        /\ memory[x] = "none" => Start(inbox'[j]) = 0
    BY <1>1 DEF FirstInv
  <2>2. x # m
    BY <1>6, <2>1 DEF Of
  <2> QED
    BY <1>1, <2>1, <2>2, ReceiveLemma DEF p, m
<1>11. EmptyInv'
  <2>1. SUFFICES ASSUME linkUp', NEW x \in Messages, handed'[x] = "no",
                        \A k \in DOMAIN inbox' : ~Of(k, x)'
                 PROVE  /\ x \in DOMAIN buffers => Len(buffers[x]) = SentBytes(x)
                        /\ memory[x] = "none" => SentBytes(x) = 0
    BY <1>1 DEF EmptyInv, SentBytes, sendVars
  <2>2. x # m /\ handed[x] = "no" /\ linkUp
    BY <1>1, <1>5, <2>1
  <2> QED
    BY <1>1, <2>1, <2>2, ReceiveLemma DEF p, m
<1>12. BufferInv'
  <2>1. freed = {} /\ memory[m] \in {"none", "failed", "allocated"}
    BY <1>1, <1>2 DEF IInv, BufferInv, TypeOK
  <2>2. m \in DOMAIN buffers <=> memory[m] = "allocated"
    BY <1>2, <1>3, <2>1 DEF IInv, BufferInv
  <2>3. \A x \in DOMAIN buffers :
           /\ memory[x] = "allocated"
           /\ handed'[x] # "no" => x = m
           /\ SizeOf[x] <= OffsetRange => buffers[x] = Data(x, 0, Len(buffers[x]))
    <3>1. TAKE x \in DOMAIN buffers
    <3>2. x \in Messages /\ x # Nobody
      BY DEF IInv, TypeOK
    <3>3. x # m => handed'[x] = "no"
      BY <1>1, <1>5, <3>2 DEF IInv, BufferInv
    <3> QED
      BY <3>3 DEF IInv, BufferInv
  <2>4. \A x \in Messages :
           /\ memory[x] = "allocated" /\ handed'[x] = "no" /\ x \notin freed => x \in DOMAIN buffers
           /\ handed'[x] = "buffer" => memory[x] = "allocated"
           /\ handed'[x] = "nullptr" => memory[x] = "failed"
           /\ handed'[x] # "no" => sender[x] = "sent"
           /\ memory[x] # "none" => SentBytes(x) > 0
    <3>1. TAKE x \in Messages
    <3>2. CASE x = m
      BY <1>3, <1>4, <1>5, <2>1, <2>2, <3>2 DEF IInv, BufferInv
    <3>3. CASE x # m
      BY <1>5, <3>3 DEF IInv, BufferInv
    <3> QED
      BY <3>2, <3>3
  <2>5. handed'[m] # "no"
    BY <1>5
  <2> QED
    BY <1>1, <2>1, <2>3, <2>4, <2>5 DEF BufferInv, SentBytes, sendVars
<1> QED
  BY <1>6, <1>7, <1>8, <1>9, <1>10, <1>11, <1>12 DEF StreamInv

(* The buffer that was handed over leaves the map; the destructor empties  *)
(* it.                                                                     *)
LEMMA MapStep ==
    ASSUME IInv, RemoveMultiblockBuffer \/ FreeBuffers
    PROVE  SenderInv' /\ PacketInv' /\ OrderInv' /\ StreamInv' /\ BufferInv' /\ WholeMessage'
<1> USE MultiblockAssumption DEF MultiblockAssumption
<1>1. /\ UNCHANGED <<sendVars, linkUp, inbox, memory, handed, content>>
      /\ DOMAIN buffers' \subseteq DOMAIN buffers
      /\ \A m \in DOMAIN buffers' : buffers'[m] = buffers[m]
      /\ DOMAIN buffers \subseteq Messages
  BY DEF RemoveMultiblockBuffer, FreeBuffers, IInv, TypeOK
<1>2. SenderInv' /\ WholeMessage' /\ OrderInv'
  BY <1>1 DEF IInv, SenderInv, WholeMessage, OrderInv, SentBytes, sendVars
<1>3. PacketInv'
  BY <1>1 DEF IInv, PacketInv, SentBytes, sendVars
<1>4. ChainInv'
  BY <1>1 DEF IInv, StreamInv, ChainInv, Of
<1>5. FirstInv'
  BY <1>1 DEF IInv, StreamInv, FirstInv, Of
<1>6. LastInv' /\ EmptyInv'
  BY <1>1 DEF IInv, StreamInv, LastInv, EmptyInv, Of, SentBytes, sendVars
<1>7. CASE RemoveMultiblockBuffer
  <2>1. /\ DOMAIN buffers' = DOMAIN buffers \ {current} /\ current' = Nobody
        /\ UNCHANGED <<freed, overtaken, receiver>> /\ current # Nobody
    BY <1>7 DEF RemoveMultiblockBuffer
  <2>2. handed[current] # "no"
    BY <2>1 DEF IInv, BufferInv
  <2> QED
    BY <1>1, <1>2, <1>3, <1>4, <1>5, <1>6, <2>1, <2>2
    DEF IInv, BufferInv, StreamInv, SentBytes, sendVars
<1>8. CASE FreeBuffers
  <2>1. /\ DOMAIN buffers' = {} /\ freed' = DOMAIN buffers /\ current' = current
        /\ overtaken' = current /\ receiver = "deleting" /\ receiver' = "deleted"
    BY <1>8 DEF FreeBuffers
  <2>2. /\ \A m \in DOMAIN buffers :
              memory[m] = "allocated" /\ (handed[m] = "no" \/ m = overtaken')
        /\ freed = {}
    BY <1>1, <2>1 DEF IInv, BufferInv
  <2> QED
    BY <1>1, <1>2, <1>3, <1>4, <1>5, <1>6, <2>1, <2>2
    DEF IInv, BufferInv, StreamInv, SentBytes, sendVars
<1> QED
  BY <1>7, <1>8

-----------------------------------------------------------------------------
(* Theorems.                                                               *)

(* Every step keeps the invariant.                                         *)
LEMMA StepLemma ==
    ASSUME IInv, [Next]_vars
    PROVE  IInv'
<1>1. TypeOK'
  BY TypeStep DEF IInv
<1>2. ASSUME NEW m \in Messages, SendOutgoingData(m) \/ SendFails(m) \/ GiveUp(m)
      PROVE  IInv'
  <2>1. /\ UNCHANGED <<rest, part, inbox, linkUp, recvVars>>
        /\ \A x \in Messages : /\ sender[x] = "sent" <=> sender'[x] = "sent"
                               /\ sender'[x] = "idle" => sender[x] = "idle"
    BY <1>2 DEF SendOutgoingData, SendFails, GiveUp, IInv, TypeOK
  <2> QED
    BY <1>1, <2>1, QuietStep DEF IInv, recvVars
<1>3. ASSUME NEW m \in Messages, SendPart(m)
      PROVE  IInv'
  BY <1>1, <1>3, SendPartStep DEF IInv
<1>4. ASSUME NEW m \in Messages, SendFinish(m)
      PROVE  IInv'
  BY <1>1, <1>4, SendFinishStep DEF IInv
<1>5. CASE ProcessPart
  BY <1>1, <1>5, ProcessPartStep DEF IInv
<1>6. CASE ProcessFinish
  BY <1>1, <1>6, ProcessFinishStep DEF IInv
<1>7. CASE RemoveMultiblockBuffer \/ FreeBuffers
  BY <1>1, <1>7, MapStep DEF IInv
<1>8. CASE CutLink \/ DeleteSender \/ DeleteReceiver \/ UNCHANGED vars
  <2>1. /\ UNCHANGED <<rest, part, sender, inbox, buffers, memory, handed, content, current>>
        /\ UNCHANGED <<freed, overtaken>>
        /\ linkUp' => linkUp
        /\ receiver' = receiver \/ (receiver # "deleted" /\ receiver' # "deleted")
    BY <1>8 DEF CutLink, DeleteSender, DeleteReceiver, vars, sendVars, recvVars
  <2> QED
    BY <1>1, <2>1, QuietStep DEF IInv
<1> QED
  BY <1>2, <1>3, <1>4, <1>5, <1>6, <1>7, <1>8 DEF Next, Send, Receive

(* The invariant holds in every behaviour of sendOutgoingData, the receive *)
(* thread and the destructors.                                             *)
THEOREM Invariance == Spec => []IInv
<1>1. Init => IInv
  BY InitLemma
<1>2. IInv /\ [Next]_vars => IInv'
  BY StepLemma
<1> QED
  BY <1>1, <1>2, PTL DEF Spec

(* The state of MultiblockIO keeps its types.                              *)
THEOREM TypeCorrect == Spec => []TypeOK
<1>1. IInv => TypeOK
  BY DEF IInv
<1> QED
  BY <1>1, Invariance, PTL

(* Whatever process_Data_Multi_Finish hands over is one whole message.     *)
THEOREM MessagesWhole == Spec => []WholeMessage
<1>1. IInv => WholeMessage
  BY DEF IInv
<1> QED
  BY <1>1, Invariance, PTL

(* nullptr is handed over only if createIncomingBuffer had no memory.      *)
THEOREM NullCorrect == Spec => []NullOnlyWithoutMemory
<1>1. IInv => NullOnlyWithoutMemory
  BY DEF IInv, BufferInv, NullOnlyWithoutMemory
<1> QED
  BY <1>1, Invariance, PTL

(* Every buffer that was allocated has exactly one owner, but the one that  *)
(* is being handed over while ~MultiblockIO deletes the buffers.           *)
THEOREM BuffersCorrect == Spec => []BufferHasOneOwner
<1>1. ASSUME IInv
      PROVE  BufferHasOneOwner
  <2>1. ASSUME NEW m \in Messages
        PROVE  LET inMap == m \in DOMAIN buffers /\ m # current
                   given == handed[m] \in {"buffer", "lost"}
               IN  /\ memory[m] = "allocated" => inMap \/ given \/ m \in freed
                   /\ memory[m] # "allocated" => ~inMap /\ handed[m] # "buffer" /\ m \notin freed
                   /\ ~(inMap /\ given) /\ ~(inMap /\ m \in freed)
                   /\ given /\ m \in freed => m = overtaken
    <3>1. handed[m] \in {"no", "buffer", "nullptr", "lost"} /\ m # Nobody
      BY <1>1, MultiblockAssumption DEF IInv, TypeOK, MultiblockAssumption
    <3>2. m \in DOMAIN buffers /\ handed[m] = "no" => m # current
      BY <1>1, <3>1 DEF IInv, BufferInv
    <3>3. m \in freed => m \notin DOMAIN buffers
      BY <1>1 DEF IInv, BufferInv, TypeOK
    <3> QED
      BY <1>1, <3>1, <3>2, <3>3 DEF IInv, BufferInv
  <2> QED
    BY <2>1 DEF BufferHasOneOwner
<1>2. IInv => BufferHasOneOwner
  BY <1>1
<1> QED
  BY <1>2, Invariance, PTL
=============================================================================
