------------------------ MODULE SessionProtocolProofs ------------------------
(* Theorems about SessionProtocol, for every value of its constants.       *)
EXTENDS SessionProtocol, SequenceTheorems, WellFoundedInduction, TLAPS

-----------------------------------------------------------------------------
(* Lemmas about the operators.                                             *)

(* The other end of a connection is another end, and every end belongs to  *)
(* a process.                                                              *)
LEMMA EndsLemma ==
    ASSUME NEW e \in Ends
    PROVE  /\ Peer(e) \in Ends
           /\ Peer(e) # e
           /\ Owner(e) \in Procs
           /\ e = Client(e[1]) \/ e = Server(e[1])
           /\ e[1] \in Conns
BY ConstantsAssumption DEF Ends, Peer, Owner, Client, Server, ConstantsAssumption

(* The two ends of a connection.                                           *)
LEMMA ConnLemma ==
    ASSUME NEW c \in Conns
    PROVE  /\ Client(c) \in Ends
           /\ Server(c) \in Ends
           /\ Client(c) # Server(c)
           /\ Owner(Client(c)) = ClientOf[c]
           /\ Owner(Server(c)) = ServerOf[c]
           /\ Peer(Client(c)) = Server(c)
           /\ Peer(Server(c)) = Client(c)
           /\ ClientOf[c] \in Procs
           /\ ServerOf[c] \in Procs
BY ConstantsAssumption DEF Ends, Peer, Owner, Client, Server, ConstantsAssumption

(* Session-ids stay 32-bit words.                                          *)
LEMMA InitialIdLemma ==
    ASSUME NEW n \in Nat
    PROVE  InitialId(n) \in Ids
<1>1. n % IdBase \in Word /\ 0 \in Word
  BY ConstantsAssumption DEF ConstantsAssumption, Word
<1> QED
  BY <1>1 DEF InitialId, Ids

(* Adding the server's number to the high half stays within 32 bits, for   *)
(* every value of the counter.                                             *)
LEMMA CompleteIdLemma ==
    ASSUME NEW n \in Nat, NEW id \in Ids
    PROVE  CompleteId(id, n) \in Ids
<1>1. id[1] \in Nat /\ id[2] \in Word
  BY ConstantsAssumption DEF ConstantsAssumption, Ids, Word
<1>2. (id[1] + n) % IdBase \in Word
  BY <1>1, ConstantsAssumption DEF ConstantsAssumption, Word
<1> QED
  BY <1>1, <1>2 DEF CompleteId, Ids

(* The id 0 of a session that has none yet is a word.                      *)
LEMMA ZeroIdLemma == ZeroId \in Ids
BY ConstantsAssumption DEF ZeroId, Ids, Word, ConstantsAssumption

(* The least element of a set of numbers.                                  *)
LEMMA FirstLemma ==
    ASSUME NEW S \in SUBSET Nat, S # {}
    PROVE  First(S) \in S /\ \A j \in S : First(S) <= j
<1>1. IsWellFoundedOn(OpToRel(<, Nat), Nat)
  BY NatLessThanWellFounded
<1>2. \A i, j \in Nat : j < i => <<j, i>> \in OpToRel(<, Nat)
  BY DEF OpToRel
<1>3. PICK less : /\ IsWellFoundedOn(less, Nat)
                  /\ \A i, j \in Nat : j < i => <<j, i>> \in less
  BY <1>1, <1>2, Zenon
<1>4. \E i \in S : \A j \in S : ~(<<j, i>> \in less)
  BY <1>3, WFMin
<1>5. PICK i \in S : \A j \in S : ~(<<j, i>> \in less)
  BY <1>4
<1>6. \A j \in S : i <= j
  <2>1. TAKE j \in S
  <2>2. i \in Nat /\ j \in Nat
    OBVIOUS
  <2>3. ~(j < i)
    BY <1>3, <1>5, <2>2
  <2> QED
    BY <2>2, <2>3
<1> QED
  BY <1>6 DEF First

(* A function on 1..n is a sequence.                                       *)
LEMMA SeqLemma ==
    ASSUME NEW S, NEW n \in Nat, NEW f \in [1..n -> S]
    PROVE  f \in Seq(S) /\ Len(f) = n /\ DOMAIN f = 1..n
OBVIOUS

(* The positions of a list that wait for a given reply.                    *)
LEMMA MatchesLemma ==
    ASSUME NEW l \in Seq(Entries), NEW sid, NEW mid, Matches(l, sid, mid) # {}
    PROVE  /\ First(Matches(l, sid, mid)) \in 1..Len(l)
           /\ l[First(Matches(l, sid, mid))].sid = sid
           /\ l[First(Matches(l, sid, mid))].mid = mid
<1>1. Matches(l, sid, mid) \subseteq 1..Len(l)
  BY DEF Matches
<1>2. First(Matches(l, sid, mid)) \in Matches(l, sid, mid)
  BY <1>1, FirstLemma
<1> QED
  BY <1>1, <1>2 DEF Matches

(* Exchanging an entry with the last one gives a list with those entries.  *)
LEMMA SwapLastLemma ==
    ASSUME NEW l \in Seq(Entries), NEW i \in 1..Len(l)
    PROVE  /\ SwapLast(l, i) \in Seq(Entries)
           /\ Len(SwapLast(l, i)) = Len(l)
           /\ \A j \in 1..Len(l) :
                SwapLast(l, i)[j] = IF j = Len(l) THEN l[i] ELSE IF j = i THEN l[Len(l)] ELSE l[j]
<1>1. l \in [1..Len(l) -> Entries] /\ Len(l) \in 1..Len(l)
  OBVIOUS
<1>2. l[i] \in Entries /\ l[Len(l)] \in Entries
  BY <1>1
<1>3. SwapLast(l, i) \in [1..Len(l) -> Entries]
  BY <1>1, <1>2 DEF SwapLast
<1>4. \A j \in 1..Len(l) :
        SwapLast(l, i)[j] = IF j = Len(l) THEN l[i] ELSE IF j = i THEN l[Len(l)] ELSE l[j]
  BY <1>1 DEF SwapLast
<1> QED
  BY <1>3, <1>4, SeqLemma

(* removeMessage keeps the list a list, of entries it had before.          *)
LEMMA RemoveMessageLemma ==
    ASSUME NEW l \in Seq(Entries), NEW sid, NEW mid
    PROVE  /\ RemoveMessage(l, sid, mid) \in Seq(Entries)
           /\ \A i \in 1..Len(RemoveMessage(l, sid, mid)) :
                \E j \in 1..Len(l) : RemoveMessage(l, sid, mid)[i] = l[j]
<1>1. CASE Matches(l, sid, mid) = {}
  BY <1>1 DEF RemoveMessage
<1>2. CASE Matches(l, sid, mid) # {}
  <2> DEFINE f == First(Matches(l, sid, mid))
             t == SwapLast(l, f)
  <2>1. f \in 1..Len(l)
    BY <1>2, MatchesLemma
  <2>2. RemoveMessage(l, sid, mid) = SubSeq(t, 1, Len(l) - 1)
    BY <1>2 DEF RemoveMessage
  <2>3. /\ t \in Seq(Entries)
        /\ Len(t) = Len(l)
        /\ \A j \in 1..Len(l) : t[j] = IF j = Len(l) THEN l[f] ELSE IF j = f THEN l[Len(l)] ELSE l[j]
    BY <2>1, SwapLastLemma
  <2> HIDE DEF f, t
  <2>4. /\ SubSeq(t, 1, Len(l) - 1) \in Seq(Entries)
        /\ Len(SubSeq(t, 1, Len(l) - 1)) = Len(l) - 1
        /\ \A i \in 1..(Len(l) - 1) : SubSeq(t, 1, Len(l) - 1)[i] = t[i]
    BY <2>1, <2>3
  <2>5. \A i \in 1..(Len(l) - 1) : \E j \in 1..Len(l) : SubSeq(t, 1, Len(l) - 1)[i] = l[j]
    BY <2>1, <2>3, <2>4
  <2> QED
    BY <2>2, <2>4, <2>5
<1> QED
  BY <1>1, <1>2

(* So does removeAllOfSession, which marks entries.                        *)
LEMMA IgnoreAllOfLemma ==
    ASSUME NEW l \in Seq(Entries), NEW sid
    PROVE  /\ IgnoreAllOf(l, sid) \in Seq(Entries)
           /\ Len(IgnoreAllOf(l, sid)) = Len(l)
           /\ \A i \in 1..Len(l) : /\ IgnoreAllOf(l, sid)[i].sid = l[i].sid
                                   /\ IgnoreAllOf(l, sid)[i].mid = l[i].mid
                                   /\ IgnoreAllOf(l, sid)[i].session = l[i].session
<1>0. \A x \in Entries : [x EXCEPT !.ignore = TRUE] \in Entries
  BY DEF Entries
<1>1. IgnoreAllOf(l, sid) \in [1..Len(l) -> Entries]
  BY <1>0 DEF IgnoreAllOf
<1>2. \A i \in 1..Len(l) : /\ IgnoreAllOf(l, sid)[i].sid = l[i].sid
                           /\ IgnoreAllOf(l, sid)[i].mid = l[i].mid
                           /\ IgnoreAllOf(l, sid)[i].session = l[i].session
  BY DEF IgnoreAllOf, Entries
<1> QED
  BY <1>1, <1>2, SeqLemma

(* And the increments of the timer.                                        *)
LEMMA TickedLemma ==
    ASSUME NEW l \in Seq(Entries), NEW last
    PROVE  /\ Ticked(l, last) \in Seq(Entries)
           /\ Len(Ticked(l, last)) = Len(l)
           /\ \A i \in 1..Len(l) : /\ Ticked(l, last)[i].sid = l[i].sid
                                   /\ Ticked(l, last)[i].mid = l[i].mid
                                   /\ Ticked(l, last)[i].session = l[i].session
<1>0. \A x \in Entries : [x EXCEPT !.timer = @ + 1] \in Entries
  BY DEF Entries
<1>1. Ticked(l, last) \in [1..Len(l) -> Entries]
  BY <1>0 DEF Ticked
<1>2. \A i \in 1..Len(l) : /\ Ticked(l, last)[i].sid = l[i].sid
                           /\ Ticked(l, last)[i].mid = l[i].mid
                           /\ Ticked(l, last)[i].session = l[i].session
  BY DEF Ticked, Entries
<1> QED
  BY <1>1, <1>2, SeqLemma

(* Sending appends a message to one inbox, or to none.                     *)
LEMMA SentLemma ==
    ASSUME NEW box \in [Ends -> Seq(Msgs)], NEW e \in Ends, NEW m \in Msgs
    PROVE  /\ Sent(box, e, m) \in [Ends -> Seq(Msgs)]
           /\ \A f \in Ends : \/ Sent(box, e, m)[f] = box[f]
                              \/ f = Peer(e) /\ Sent(box, e, m)[f] = Append(box[f], m)
BY EndsLemma DEF Sent

(* An inbox that gets a message is not empty afterwards.                   *)
LEMMA AppendLemma ==
    ASSUME NEW box \in [Ends -> Seq(Msgs)], NEW e \in Ends, NEW m \in Msgs
    PROVE  /\ [box EXCEPT ![e] = Append(@, m)] \in [Ends -> Seq(Msgs)]
           /\ \A f \in Ends : box[f] # <<>> => [box EXCEPT ![e] = Append(@, m)][f] # <<>>
OBVIOUS

(* Taking a message off leaves the other inboxes alone.                    *)
LEMMA ConsumedLemma ==
    ASSUME inbox \in [Ends -> Seq(Msgs)], NEW e \in Ends, inbox[e] # <<>>
    PROVE  /\ Consumed(e) \in [Ends -> Seq(Msgs)]
           /\ Consumed(e)[e] = Tail(inbox[e])
           /\ \A f \in Ends : f # e => Consumed(e)[f] = inbox[f]
           /\ Head(inbox[e]) \in Msgs
BY DEF Consumed

(* The fields of a message.                                                *)
LEMMA MsgLemma ==
    ASSUME NEW type \in MsgTypes, NEW sid \in Ids, NEW mid \in Nat, NEW arg \in Ids
    PROVE  /\ Msg(type, sid, mid, arg) \in Msgs
           /\ Msg(type, sid, mid, arg).type = type
           /\ Msg(type, sid, mid, arg).sid = sid
           /\ Msg(type, sid, mid, arg).mid = mid
           /\ Msg(type, sid, mid, arg).arg = arg
BY DEF Msg, Msgs

(* A new entry of the list.                                                *)
LEMMA EntryLemma ==
    ASSUME NEW sid \in Ids, NEW mid \in Nat, NEW e \in Ends
    PROVE  Entry(sid, mid, e) \in Entries
BY DEF Entry, Entries

(* The maps of sessions stay maps of sessions.                             *)
LEMMA MapLemma ==
    ASSUME NEW map \in SUBSET (Ids \X Ends), NEW id \in Ids, NEW e \in Ends
    PROVE  /\ AddSession(map, id, e) \in SUBSET (Ids \X Ends)
           /\ RemoveSession(map, id) \in SUBSET (Ids \X Ends)
BY DEF AddSession, RemoveSession

-----------------------------------------------------------------------------
(* Type correctness.  A receive thread inside a handler still has the      *)
(* message it works on at the head of the buffer.  The variables of the    *)
(* timer come last: nothing else depends on their types.                   *)
BaseTypes ==
    /\ counter \in [Procs -> Nat]
    /\ sessions \in [Procs -> SUBSET (Ids \X Ends)]
    /\ messageList \in [Procs -> Seq(Entries)]
    /\ phase \in [Ends -> {"none", "NotConnected", "NotReady", "Ready", "deleted"}]
    /\ sessionId \in [Ends -> Ids]
    /\ initState \in [Ends -> {-1, 0, 1}]
    /\ lastMid \in [Ends -> Nat]
    /\ open \in [Ends -> BOOLEAN]
    /\ inbox \in [Ends -> Seq(Msgs)]
    /\ cut \in [Ends -> BOOLEAN]
    /\ handler \in [Ends -> {"idle", "initStart", "initReply"}]
    /\ app \in [Ends -> {"idle", "marked", "markedReply", "sent"}]
    /\ starter \in [Conns -> {"none", "waiting", "returned", "failing", "failed", "refused"}]
    /\ created \in [Ends -> Nat]
    /\ closed \in [Ends -> Nat]
    /\ timedOut \in [Ends -> BOOLEAN]

TimerTypes ==
    /\ walk \in [Procs -> {"idle", "due", "removed"}]
    /\ temp \in [Procs -> Nat]
    /\ behind \in [Procs -> Seq(Entries)]

HandlerHasMessage ==
    \A e \in Ends : handler[e] # "idle" => inbox[e] # <<>>

TypeInv == BaseTypes /\ HandlerHasMessage

(* The first half of closeSession keeps the types.                         *)
LEMMA AnnounceCloseType ==
    ASSUME TypeInv, NEW e \in Ends, AnnounceClose(e)
    PROVE  /\ messageList' \in [Procs -> Seq(Entries)]
           /\ lastMid' \in [Ends -> Nat]
           /\ inbox' \in [Ends -> Seq(Msgs)]
           /\ \A f \in Ends : inbox[f] # <<>> => inbox'[f] # <<>>
<1>0. /\ messageList \in [Procs -> Seq(Entries)]
      /\ lastMid \in [Ends -> Nat]
      /\ inbox \in [Ends -> Seq(Msgs)]
      /\ sessionId[e] \in Ids
  BY DEF TypeInv, BaseTypes
<1>1. CASE phase[e] = "Ready"
  <2>1. IgnoreAllOf(messageList[Owner(e)], sessionId[e]) \in Seq(Entries)
    BY <1>0, EndsLemma, IgnoreAllOfLemma
  <2>2. CloseStart(e) \in Msgs
    <3>1. lastMid[e] + 1 \in Nat /\ "CloseStart" \in MsgTypes
      BY <1>0 DEF MsgTypes
    <3> QED
      BY <1>0, <3>1, MsgLemma, ZeroIdLemma DEF CloseStart
  <2>3. /\ inbox' \in [Ends -> Seq(Msgs)]
        /\ \A f \in Ends : inbox'[f] = inbox[f] \/ inbox'[f] = Append(inbox[f], CloseStart(e))
    <3>1. inbox' = Sent(inbox, e, CloseStart(e))
      BY <1>1 DEF AnnounceClose
    <3>2. /\ Sent(inbox, e, CloseStart(e)) \in [Ends -> Seq(Msgs)]
          /\ \A f \in Ends : \/ Sent(inbox, e, CloseStart(e))[f] = inbox[f]
                             \/ /\ f = Peer(e)
                                /\ Sent(inbox, e, CloseStart(e))[f] = Append(inbox[f], CloseStart(e))
      BY <1>0, <2>2, SentLemma
    <3> QED
      BY <3>1, <3>2
  <2>4. \A f \in Ends : inbox[f] # <<>> => inbox'[f] # <<>>
    BY <1>0, <2>2, <2>3
  <2>5. messageList' \in [Procs -> Seq(Entries)]
    BY <1>0, <1>1, <2>1 DEF AnnounceClose
  <2>6. lastMid' \in [Ends -> Nat]
    BY <1>0, <1>1 DEF AnnounceClose
  <2> QED
    BY <2>3, <2>4, <2>5, <2>6
<1>2. CASE phase[e] # "Ready"
  BY <1>0, <1>2 DEF AnnounceClose
<1> QED
  BY <1>1, <1>2

(* So does endSession.                                                     *)
LEMMA EndSessionType ==
    ASSUME TypeInv, NEW e \in Ends, NEW map \in SUBSET (Ids \X Ends), EndSession(e, map)
    PROVE  /\ phase' \in [Ends -> {"none", "NotConnected", "NotReady", "Ready", "deleted"}]
           /\ open' \in [Ends -> BOOLEAN]
           /\ closed' \in [Ends -> Nat]
           /\ sessions' \in [Procs -> SUBSET (Ids \X Ends)]
<1>1. /\ phase \in [Ends -> {"none", "NotConnected", "NotReady", "Ready", "deleted"}]
      /\ open \in [Ends -> BOOLEAN]
      /\ closed \in [Ends -> Nat]
  BY DEF TypeInv, BaseTypes
<1>2. sessions \in [Procs -> SUBSET (Ids \X Ends)]
  BY DEF TypeInv, BaseTypes
<1>3. RemoveSession(map, sessionId[e]) \in SUBSET (Ids \X Ends)
  BY MapLemma DEF TypeInv, BaseTypes
<1>4. sessions' \in [Procs -> SUBSET (Ids \X Ends)]
  BY <1>2, <1>3, Zenon DEF EndSession
<1>5. CASE phase[e] = "Ready"
  <2>1. /\ phase' = [phase EXCEPT ![e] = "NotConnected"]
        /\ open' = [open EXCEPT ![e] = FALSE]
        /\ closed' = [closed EXCEPT ![e] = @ + 1]
    BY <1>5 DEF EndSession
  <2> QED
    BY <1>1, <1>4, <2>1
<1>6. CASE phase[e] # "Ready"
  BY <1>1, <1>4, <1>6 DEF EndSession
<1> QED
  BY <1>5, <1>6

(* And the destructor.                                                     *)
LEMMA DeleteSessionType ==
    ASSUME TypeInv, NEW e \in Ends, DeleteSession(e)
    PROVE  /\ initState' \in [Ends -> {-1, 0, 1}]
           /\ sessions' \in [Procs -> SUBSET (Ids \X Ends)]
           /\ phase' \in [Ends -> {"none", "NotConnected", "NotReady", "Ready", "deleted"}]
           /\ open' \in [Ends -> BOOLEAN]
           /\ closed' \in [Ends -> Nat]
<1>1. /\ initState \in [Ends -> {-1, 0, 1}]
      /\ phase \in [Ends -> {"none", "NotConnected", "NotReady", "Ready", "deleted"}]
      /\ open \in [Ends -> BOOLEAN]
      /\ closed \in [Ends -> Nat]
  BY DEF TypeInv, BaseTypes
<1>2. sessions \in [Procs -> SUBSET (Ids \X Ends)] /\ sessionId[e] \in Ids
  BY DEF TypeInv, BaseTypes
<1>3. RemoveSession(sessions[Owner(e)], sessionId[e]) \in SUBSET (Ids \X Ends)
  BY <1>2, MapLemma, EndsLemma
<1>4. sessions' \in [Procs -> SUBSET (Ids \X Ends)]
  BY <1>2, <1>3, Zenon DEF DeleteSession
<1> QED
  BY <1>1, <1>4 DEF DeleteSession

(* Taking an answered request out of the list.                             *)
LEMMA AnsweredType ==
    ASSUME TypeInv, NEW e \in Ends, NEW m
    PROVE  Answered(e, m) \in [Procs -> Seq(Entries)]
<1>1. RemoveMessage(messageList[Owner(e)], m.sid, m.mid) \in Seq(Entries)
  BY RemoveMessageLemma, EndsLemma DEF TypeInv, BaseTypes
<1> QED
  BY <1>1, EndsLemma DEF TypeInv, BaseTypes, Answered

(* Handling a message that is answered: the inboxes stay inboxes, and a    *)
(* thread that is inside a handler keeps its message.                      *)
LEMMA ReplyType ==
    ASSUME TypeInv, NEW e \in Ends, inbox[e] # <<>>, NEW m \in Msgs,
           inbox' = Sent(Consumed(e), e, m)
    PROVE  /\ inbox' \in [Ends -> Seq(Msgs)]
           /\ \A f \in Ends : f # e /\ inbox[f] # <<>> => inbox'[f] # <<>>
<1>1. /\ Consumed(e) \in [Ends -> Seq(Msgs)]
      /\ \A f \in Ends : f # e => Consumed(e)[f] = inbox[f]
  BY ConsumedLemma DEF TypeInv, BaseTypes
<1>2. /\ inbox' \in [Ends -> Seq(Msgs)]
      /\ \A f \in Ends : \/ inbox'[f] = Consumed(e)[f]
                         \/ inbox'[f] = Append(Consumed(e)[f], m)
  BY <1>1, SentLemma
<1>3. \A f \in Ends : f # e /\ inbox[f] # <<>> => inbox'[f] # <<>>
  BY <1>1, <1>2
<1> QED
  BY <1>2, <1>3

(* Every step keeps TypeInv: one lemma per thread. First the thread that   *)
(* is inside startSession.                                                 *)
LEMMA StarterType ==
    ASSUME TypeInv, NEW c \in Conns, Start(c) \/ Poll(c) \/ ProcessConnection(c)
    PROVE  TypeInv'
<1> DEFINE e == Client(c)
<1>0. /\ e \in Ends /\ Server(c) \in Ends
      /\ Peer(e) = Server(c) /\ Owner(e) = ClientOf[c] /\ ClientOf[c] \in Procs
  BY ConnLemma
<1> HIDE DEF e
<1>1. CASE StartSession(c)
  <2> DEFINE p == ClientOf[c]
             id == InitialId(counter[p] + 1)
             entry == Entry(id, lastMid[e] + 1, e)
             msg == Msg("InitStart", id, lastMid[e] + 1, id)
  <2>1. /\ counter' = [counter EXCEPT ![p] = @ + 1]
        /\ sessionId' = [sessionId EXCEPT ![e] = id]
        /\ phase' = [phase EXCEPT ![e] = "NotReady"]
        /\ open' = [open EXCEPT ![e] = TRUE]
        /\ lastMid' = [lastMid EXCEPT ![e] = @ + 1]
        /\ starter' = [starter EXCEPT ![c] = "waiting"]
    BY <1>1 DEF StartSession, e
  <2>2. sessions' = [sessions EXCEPT ![p] = AddSession(@, id, e)]
    BY <1>1 DEF StartSession, e
  <2>3. messageList' = [messageList EXCEPT ![p] = Append(@, entry)]
    BY <1>1 DEF StartSession, e
  <2>4. inbox' = IF cut[e] THEN inbox ELSE [inbox EXCEPT ![Peer(e)] = Append(@, msg)]
    BY <1>1 DEF StartSession, e
  <2>5. UNCHANGED <<initState, cut, handler, app, created, closed, timedOut>>
    BY <1>1 DEF StartSession, callbackVars
  <2>6. id \in Ids
    <3>1. counter[p] + 1 \in Nat
      BY <1>0 DEF TypeInv, BaseTypes
    <3> QED
      BY <3>1, InitialIdLemma
  <2> HIDE DEF id
  <2>7. /\ lastMid[e] + 1 \in Nat /\ "InitStart" \in MsgTypes
        /\ sessions[p] \in SUBSET (Ids \X Ends)
    BY <1>0 DEF TypeInv, BaseTypes, MsgTypes
  <2>8. msg \in Msgs
    BY <2>6, <2>7, MsgLemma
  <2>9. entry \in Entries
    BY <1>0, <2>6, <2>7, EntryLemma
  <2>10. AddSession(sessions[p], id, e) \in SUBSET (Ids \X Ends)
    BY <1>0, <2>6, <2>7, MapLemma
  <2> HIDE DEF entry, msg
  <2>11. /\ inbox' \in [Ends -> Seq(Msgs)]
         /\ \A f \in Ends : inbox[f] # <<>> => inbox'[f] # <<>>
    <3>1. inbox \in [Ends -> Seq(Msgs)]
      BY DEF TypeInv, BaseTypes
    <3>2. CASE cut[e]
      BY <2>4, <3>1, <3>2
    <3>3. CASE ~cut[e]
      BY <1>0, <2>4, <2>8, <3>1, <3>3, AppendLemma
    <3> QED
      BY <3>2, <3>3
  <2>12. messageList' \in [Procs -> Seq(Entries)]
    <3>1. messageList \in [Procs -> Seq(Entries)]
      BY DEF TypeInv, BaseTypes
    <3> QED
      BY <1>0, <2>3, <2>9, <3>1
  <2>13. sessions' \in [Procs -> SUBSET (Ids \X Ends)]
    <3>1. sessions \in [Procs -> SUBSET (Ids \X Ends)]
      BY DEF TypeInv, BaseTypes
    <3> QED
      BY <2>2, <2>10, <3>1, Zenon
  <2>14. /\ counter' \in [Procs -> Nat]
         /\ phase' \in [Ends -> {"none", "NotConnected", "NotReady", "Ready", "deleted"}]
         /\ sessionId' \in [Ends -> Ids]
         /\ lastMid' \in [Ends -> Nat]
         /\ open' \in [Ends -> BOOLEAN]
         /\ starter' \in [Conns -> {"none", "waiting", "returned", "failing", "failed", "refused"}]
    <3>1. /\ counter \in [Procs -> Nat]
          /\ phase \in [Ends -> {"none", "NotConnected", "NotReady", "Ready", "deleted"}]
          /\ sessionId \in [Ends -> Ids]
          /\ lastMid \in [Ends -> Nat]
          /\ open \in [Ends -> BOOLEAN]
          /\ starter \in [Conns -> {"none", "waiting", "returned", "failing", "failed", "refused"}]
      BY DEF TypeInv, BaseTypes
    <3> QED
      BY <1>0, <2>1, <2>6, <3>1
  <2> QED
    BY <2>5, <2>11, <2>12, <2>13, <2>14 DEF TypeInv, BaseTypes, HandlerHasMessage
<1>2. CASE StartSessionRefused(c)
  <2>1. RemoveSession(sessions[ClientOf[c]], ZeroId) \in SUBSET (Ids \X Ends)
    BY <1>0, MapLemma, ZeroIdLemma DEF TypeInv, BaseTypes
  <2>2. sessions' \in [Procs -> SUBSET (Ids \X Ends)]
    <3>1. sessions \in [Procs -> SUBSET (Ids \X Ends)]
      BY DEF TypeInv, BaseTypes
    <3> QED
      BY <1>2, <2>1, <3>1, Zenon DEF StartSessionRefused
  <2>3. /\ counter' \in {counter, [counter EXCEPT ![ClientOf[c]] = @ + 1]}
        /\ starter' = [starter EXCEPT ![c] = "refused"]
        /\ phase' = [phase EXCEPT ![e] = "deleted"]
        /\ initState' = [initState EXCEPT ![e] = -1]
        /\ UNCHANGED <<messageList, sessionId, lastMid, open, inbox, cut, handler, app, created,
                       closed, timedOut>>
    BY <1>2 DEF StartSessionRefused, e, netVars, callbackVars
  <2>4. /\ counter' \in [Procs -> Nat]
        /\ phase' \in [Ends -> {"none", "NotConnected", "NotReady", "Ready", "deleted"}]
        /\ initState' \in [Ends -> {-1, 0, 1}]
        /\ starter' \in [Conns -> {"none", "waiting", "returned", "failing", "failed", "refused"}]
    <3>1. counter' \in [Procs -> Nat]
      <4>1. counter \in [Procs -> Nat] /\ ClientOf[c] \in Procs
        BY ConstantsAssumption DEF TypeInv, BaseTypes, ConstantsAssumption
      <4>2. [counter EXCEPT ![ClientOf[c]] = @ + 1] \in [Procs -> Nat]
        BY <4>1
      <4> QED
        BY <2>3, <4>1, <4>2
    <3> QED
      BY <1>0, <2>3, <3>1 DEF TypeInv, BaseTypes
  <2> QED
    BY <2>2, <2>3, <2>4 DEF TypeInv, BaseTypes, HandlerHasMessage
<1>3. CASE StartSessionReturns(c)
  BY <1>3 DEF TypeInv, BaseTypes, HandlerHasMessage, StartSessionReturns, procVars, objVars, netVars,
              callbackVars
<1>4. CASE StartSessionGivesUp(c)
  <2>1. /\ AnnounceClose(e)
        /\ EndSession(e, sessions[Owner(e)])
        /\ starter' = [starter EXCEPT ![c] = "failing"]
        /\ UNCHANGED <<counter, sessionId, initState, cut, handler, app, created, timedOut>>
    BY <1>4 DEF StartSessionGivesUp, e
  <2>2. sessions[Owner(e)] \in SUBSET (Ids \X Ends)
    BY <1>0 DEF TypeInv, BaseTypes
  <2>3. /\ messageList' \in [Procs -> Seq(Entries)]
        /\ lastMid' \in [Ends -> Nat]
        /\ inbox' \in [Ends -> Seq(Msgs)]
        /\ \A f \in Ends : inbox[f] # <<>> => inbox'[f] # <<>>
    BY <1>0, <2>1, AnnounceCloseType
  <2>4. /\ phase' \in [Ends -> {"none", "NotConnected", "NotReady", "Ready", "deleted"}]
        /\ open' \in [Ends -> BOOLEAN]
        /\ closed' \in [Ends -> Nat]
        /\ sessions' \in [Procs -> SUBSET (Ids \X Ends)]
    BY <1>0, <2>1, <2>2, EndSessionType
  <2> QED
    BY <2>1, <2>3, <2>4 DEF TypeInv, BaseTypes, HandlerHasMessage
<1>5. CASE StartSessionFails(c)
  <2>1. /\ DeleteSession(e)
        /\ AnnounceClose(e)
        /\ starter' = [starter EXCEPT ![c] = "failed"]
        /\ UNCHANGED <<counter, sessionId, cut, handler, app, created, timedOut>>
    BY <1>5 DEF StartSessionFails, DeleteSession, e
  <2>2. /\ messageList' \in [Procs -> Seq(Entries)]
        /\ lastMid' \in [Ends -> Nat]
        /\ inbox' \in [Ends -> Seq(Msgs)]
        /\ \A f \in Ends : inbox[f] # <<>> => inbox'[f] # <<>>
    BY <1>0, <2>1, AnnounceCloseType
  <2>3. /\ initState' \in [Ends -> {-1, 0, 1}]
        /\ sessions' \in [Procs -> SUBSET (Ids \X Ends)]
        /\ phase' \in [Ends -> {"none", "NotConnected", "NotReady", "Ready", "deleted"}]
        /\ open' \in [Ends -> BOOLEAN]
        /\ closed' \in [Ends -> Nat]
    BY <1>0, <2>1, DeleteSessionType
  <2> QED
    BY <2>1, <2>2, <2>3 DEF TypeInv, BaseTypes, HandlerHasMessage
<1>6. CASE ProcessConnection(c)
  BY <1>0, <1>6 DEF TypeInv, BaseTypes, HandlerHasMessage, ProcessConnection, procVars, netVars,
                    threadVars, callbackVars
<1> QED
  BY <1>1, <1>2, <1>3, <1>4, <1>5, <1>6 DEF Start, Poll

(* The receive thread of an end: the handlers of all messages.             *)
LEMMA ReceiveType ==
    ASSUME TypeInv, NEW e \in Ends, Receive(e)
    PROVE  TypeInv'
<1> DEFINE m == Head(inbox[e])
<1>0. /\ Owner(e) \in Procs
      /\ inbox \in [Ends -> Seq(Msgs)]
      /\ sessionId[e] \in Ids /\ lastMid[e] \in Nat
      /\ sessions[Owner(e)] \in SUBSET (Ids \X Ends)
      /\ ZeroId \in Ids
  BY EndsLemma, ZeroIdLemma DEF TypeInv, BaseTypes
<1>a. inbox[e] # <<>>
  BY DEF Receive, Receives, ProcessInitStart, SendInitReply, ProcessInitReply, FinishSessionReady,
         ProcessCloseStart, ProcessCloseReply, ProcessHeartbeatStart, ProcessHeartbeatReply,
         TypeInv, HandlerHasMessage
<1>b. m \in Msgs
  BY <1>0, <1>a
<1>c. m.arg \in Ids /\ m.sid \in Ids /\ m.mid \in Nat
  BY <1>b DEF Msgs
<1>d. /\ Consumed(e) \in [Ends -> Seq(Msgs)]
      /\ \A f \in Ends : f # e => Consumed(e)[f] = inbox[f]
  BY <1>0, <1>a, ConsumedLemma
<1>e. Answered(e, m) \in [Procs -> Seq(Entries)]
  BY AnsweredType
<1> HIDE DEF m
<1>1. CASE ProcessInitStart(e)
  <2> DEFINE p == Owner(e)
             id == CompleteId(m.arg, counter[p] + 1)
  <2>1. /\ counter' = [counter EXCEPT ![p] = @ + 1]
        /\ sessionId' = [sessionId EXCEPT ![e] = id]
        /\ phase' = [phase EXCEPT ![e] = "Ready"]
        /\ created' = [created EXCEPT ![e] = @ + 1]
        /\ initState' = [initState EXCEPT ![e] = 1]
        /\ handler' = [handler EXCEPT ![e] = "initStart"]
    BY <1>1 DEF ProcessInitStart, m
  <2>2. sessions' = [sessions EXCEPT ![p] = AddSession(@, id, e)]
    BY <1>1 DEF ProcessInitStart, m
  <2>3. UNCHANGED <<messageList, lastMid, open, inbox, cut, app, starter, closed, timedOut>>
    BY <1>1 DEF ProcessInitStart, netVars
  <2>4. id \in Ids
    <3>1. counter[p] + 1 \in Nat
      BY <1>0 DEF TypeInv, BaseTypes
    <3> QED
      BY <1>c, <3>1, CompleteIdLemma
  <2> HIDE DEF id
  <2>5. AddSession(sessions[p], id, e) \in SUBSET (Ids \X Ends)
    BY <1>0, <2>4, MapLemma
  <2>6. sessions' \in [Procs -> SUBSET (Ids \X Ends)]
    <3>1. sessions \in [Procs -> SUBSET (Ids \X Ends)]
      BY DEF TypeInv, BaseTypes
    <3> QED
      BY <2>2, <2>5, <3>1, Zenon
  <2>7. /\ counter' \in [Procs -> Nat]
        /\ sessionId' \in [Ends -> Ids]
        /\ phase' \in [Ends -> {"none", "NotConnected", "NotReady", "Ready", "deleted"}]
        /\ created' \in [Ends -> Nat]
        /\ initState' \in [Ends -> {-1, 0, 1}]
        /\ handler' \in [Ends -> {"idle", "initStart", "initReply"}]
    BY <1>0, <2>1, <2>4 DEF TypeInv, BaseTypes
  <2>8. HandlerHasMessage'
    BY <1>a, <2>1, <2>3 DEF TypeInv, BaseTypes, HandlerHasMessage
  <2> QED
    BY <2>3, <2>6, <2>7, <2>8 DEF TypeInv, BaseTypes
<1>2. CASE SendInitReply(e)
  <2>1. /\ inbox' = Sent(Consumed(e), e, Msg("InitReply", m.arg, m.mid, sessionId[e]))
        /\ handler' = [handler EXCEPT ![e] = "idle"]
        /\ UNCHANGED <<counter, sessions, messageList, phase, sessionId, initState, lastMid, open,
                       cut, app, starter, created, closed, timedOut>>
    BY <1>2 DEF SendInitReply, m, procVars, objVars, callbackVars
  <2>2. Msg("InitReply", m.arg, m.mid, sessionId[e]) \in Msgs
    BY <1>0, <1>c, MsgLemma DEF MsgTypes
  <2>3. /\ inbox' \in [Ends -> Seq(Msgs)]
        /\ \A f \in Ends : f # e /\ inbox[f] # <<>> => inbox'[f] # <<>>
    BY <1>a, <2>1, <2>2, ReplyType
  <2> QED
    BY <2>1, <2>3 DEF TypeInv, BaseTypes, HandlerHasMessage
<1>3. CASE ProcessInitReply(e)
  <2>1. /\ messageList' = Answered(e, m)
        /\ phase' = [phase EXCEPT ![e] = "Ready"]
        /\ handler' = [handler EXCEPT ![e] = "initReply"]
        /\ UNCHANGED <<counter, sessionId, initState, lastMid, open, inbox, cut, app, starter,
                       created, closed, timedOut>>
    BY <1>3 DEF ProcessInitReply, m, netVars, callbackVars
  <2>2. sessions' = [sessions EXCEPT ![Owner(e)] =
                        AddSession(RemoveSession(@, m.sid), m.arg, e)]
    BY <1>3 DEF ProcessInitReply, m
  <2>3. AddSession(RemoveSession(sessions[Owner(e)], m.sid), m.arg, e) \in SUBSET (Ids \X Ends)
    <3>1. RemoveSession(sessions[Owner(e)], m.sid) \in SUBSET (Ids \X Ends)
      BY <1>0, <1>c, MapLemma
    <3> QED
      BY <1>c, <3>1, MapLemma
  <2>4. sessions' \in [Procs -> SUBSET (Ids \X Ends)]
    <3>1. sessions \in [Procs -> SUBSET (Ids \X Ends)]
      BY DEF TypeInv, BaseTypes
    <3> QED
      BY <2>2, <2>3, <3>1, Zenon
  <2>5. HandlerHasMessage'
    BY <1>a, <2>1 DEF TypeInv, BaseTypes, HandlerHasMessage
  <2>6. /\ messageList' \in [Procs -> Seq(Entries)]
        /\ phase' \in [Ends -> {"none", "NotConnected", "NotReady", "Ready", "deleted"}]
        /\ handler' \in [Ends -> {"idle", "initStart", "initReply"}]
    BY <1>e, <2>1 DEF TypeInv, BaseTypes
  <2> QED
    BY <2>1, <2>4, <2>5, <2>6 DEF TypeInv, BaseTypes
<1>4. CASE FinishSessionReady(e)
  <2>1. /\ sessionId' = [sessionId EXCEPT ![e] = m.arg]
        /\ created' = [created EXCEPT ![e] = @ + 1]
        /\ initState' = [initState EXCEPT ![e] = 1]
        /\ inbox' = Consumed(e)
        /\ handler' = [handler EXCEPT ![e] = "idle"]
        /\ UNCHANGED <<counter, sessions, messageList, phase, lastMid, open, cut, app, starter,
                       closed, timedOut>>
    BY <1>4 DEF FinishSessionReady, m, procVars
  <2>2. /\ sessionId' \in [Ends -> Ids]
        /\ created' \in [Ends -> Nat]
        /\ initState' \in [Ends -> {-1, 0, 1}]
        /\ handler' \in [Ends -> {"idle", "initStart", "initReply"}]
    BY <1>c, <2>1 DEF TypeInv, BaseTypes
  <2>3. HandlerHasMessage'
    BY <1>d, <2>1 DEF TypeInv, BaseTypes, HandlerHasMessage
  <2> QED
    BY <1>d, <2>1, <2>2, <2>3 DEF TypeInv, BaseTypes
<1>5. CASE ProcessCloseStart(e)
  <2>1. /\ handler[e] = "idle"
        /\ inbox' = Sent(Consumed(e), e, Msg("CloseReply", sessionId[e], m.mid, ZeroId))
        /\ EndSession(e, RemoveSession(sessions[Owner(e)], m.arg))
        /\ UNCHANGED <<counter, messageList, sessionId, initState, lastMid, cut, handler, app,
                       starter, created, timedOut>>
    BY <1>5 DEF ProcessCloseStart, Receives, m, threadVars
  <2>2. Msg("CloseReply", sessionId[e], m.mid, ZeroId) \in Msgs
    BY <1>0, <1>c, MsgLemma DEF MsgTypes
  <2>3. /\ inbox' \in [Ends -> Seq(Msgs)]
        /\ \A f \in Ends : f # e /\ inbox[f] # <<>> => inbox'[f] # <<>>
    BY <1>a, <2>1, <2>2, ReplyType
  <2>4. RemoveSession(sessions[Owner(e)], m.arg) \in SUBSET (Ids \X Ends)
    BY <1>0, <1>c, MapLemma
  <2>5. /\ phase' \in [Ends -> {"none", "NotConnected", "NotReady", "Ready", "deleted"}]
        /\ open' \in [Ends -> BOOLEAN]
        /\ closed' \in [Ends -> Nat]
        /\ sessions' \in [Procs -> SUBSET (Ids \X Ends)]
    BY <2>1, <2>4, EndSessionType
  <2> QED
    BY <2>1, <2>3, <2>5 DEF TypeInv, BaseTypes, HandlerHasMessage
<1>6. CASE ProcessCloseReply(e)
  <2>1. /\ handler[e] = "idle"
        /\ inbox' = Consumed(e)
        /\ messageList' = Answered(e, m)
        /\ phase' = [phase EXCEPT ![e] = "NotConnected"]
        /\ open' = [open EXCEPT ![e] = FALSE]
        /\ UNCHANGED <<counter, sessionId, initState, lastMid, cut, handler, app, starter,
                       created, closed, timedOut>>
    BY <1>6 DEF ProcessCloseReply, Receives, m, threadVars, callbackVars
  <2>2. sessions' = [sessions EXCEPT ![Owner(e)] = RemoveSession(@, m.arg)]
    BY <1>6 DEF ProcessCloseReply, m
  <2>3. RemoveSession(sessions[Owner(e)], m.arg) \in SUBSET (Ids \X Ends)
    BY <1>0, <1>c, MapLemma
  <2>4. sessions' \in [Procs -> SUBSET (Ids \X Ends)]
    <3>1. sessions \in [Procs -> SUBSET (Ids \X Ends)]
      BY DEF TypeInv, BaseTypes
    <3> QED
      BY <2>2, <2>3, <3>1, Zenon
  <2>5. /\ phase' \in [Ends -> {"none", "NotConnected", "NotReady", "Ready", "deleted"}]
        /\ open' \in [Ends -> BOOLEAN]
    BY <2>1 DEF TypeInv, BaseTypes
  <2>6. HandlerHasMessage'
    BY <1>d, <2>1 DEF TypeInv, HandlerHasMessage
  <2> QED
    BY <1>d, <1>e, <2>1, <2>4, <2>5, <2>6 DEF TypeInv, BaseTypes
<1>7. CASE ProcessHeartbeatStart(e)
  <2>1. /\ handler[e] = "idle"
        /\ inbox' = Sent(Consumed(e), e, Msg("HeartbeatReply", sessionId[e], m.mid, ZeroId))
        /\ UNCHANGED <<counter, sessions, messageList, phase, sessionId, initState, lastMid, open,
                       cut, handler, app, starter, created, closed, timedOut>>
    BY <1>7 DEF ProcessHeartbeatStart, Receives, m, procVars, objVars, threadVars, callbackVars
  <2>2. Msg("HeartbeatReply", sessionId[e], m.mid, ZeroId) \in Msgs
    BY <1>0, <1>c, MsgLemma DEF MsgTypes
  <2>3. /\ inbox' \in [Ends -> Seq(Msgs)]
        /\ \A f \in Ends : f # e /\ inbox[f] # <<>> => inbox'[f] # <<>>
    BY <1>a, <2>1, <2>2, ReplyType
  <2> QED
    BY <2>1, <2>3 DEF TypeInv, BaseTypes, HandlerHasMessage
<1>8. CASE ProcessHeartbeatReply(e)
  <2>1. /\ handler[e] = "idle"
        /\ inbox' = Consumed(e)
        /\ messageList' = Answered(e, m)
        /\ UNCHANGED <<counter, sessions, phase, sessionId, initState, lastMid, open, cut, handler,
                       app, starter, created, closed, timedOut>>
    BY <1>8 DEF ProcessHeartbeatReply, Receives, m, objVars, threadVars, callbackVars
  <2> QED
    BY <1>d, <1>e, <2>1 DEF TypeInv, BaseTypes, HandlerHasMessage
<1> QED
  BY <1>1, <1>2, <1>3, <1>4, <1>5, <1>6, <1>7, <1>8 DEF Receive

(* The timer thread, sending a heartbeat.                                  *)
LEMMA HeartbeatType ==
    ASSUME TypeInv, NEW e \in Ends, SendHeartbeat(e)
    PROVE  TypeInv'
<1> DEFINE entry == Entry(sessionId[e], lastMid[e] + 1, e)
           msg == Msg("HeartbeatStart", sessionId[e], lastMid[e] + 1, ZeroId)
<1>0. /\ Owner(e) \in Procs
      /\ inbox \in [Ends -> Seq(Msgs)]
      /\ messageList \in [Procs -> Seq(Entries)]
      /\ sessionId[e] \in Ids /\ lastMid[e] + 1 \in Nat
      /\ ZeroId \in Ids
  BY EndsLemma, ZeroIdLemma DEF TypeInv, BaseTypes
<1>1. /\ lastMid' = [lastMid EXCEPT ![e] = @ + 1]
      /\ messageList' = [messageList EXCEPT ![Owner(e)] = Append(@, entry)]
      /\ inbox' = Sent(inbox, e, msg)
      /\ UNCHANGED <<counter, sessions, phase, sessionId, initState, open, cut, handler, app,
                     starter, created, closed, timedOut>>
  BY DEF SendHeartbeat, threadVars, callbackVars
<1>2. entry \in Entries
  BY <1>0, EntryLemma
<1>3. msg \in Msgs
  BY <1>0, MsgLemma DEF MsgTypes
<1> HIDE DEF entry, msg
<1>4. /\ inbox' \in [Ends -> Seq(Msgs)]
      /\ \A f \in Ends : inbox[f] # <<>> => inbox'[f] # <<>>
  <2>1. /\ Sent(inbox, e, msg) \in [Ends -> Seq(Msgs)]
        /\ \A f \in Ends : \/ Sent(inbox, e, msg)[f] = inbox[f]
                           \/ /\ f = Peer(e)
                              /\ Sent(inbox, e, msg)[f] = Append(inbox[f], msg)
    BY <1>0, <1>3, SentLemma
  <2> QED
    BY <1>0, <1>1, <1>3, <2>1
<1>5. messageList' \in [Procs -> Seq(Entries)]
  BY <1>0, <1>1, <1>2
<1>6. lastMid' \in [Ends -> Nat]
  BY <1>1 DEF TypeInv, BaseTypes
<1> QED
  BY <1>1, <1>4, <1>5, <1>6 DEF TypeInv, BaseTypes, HandlerHasMessage

(* What the timer never touches.                                           *)
LEMMA TimerLeaves ==
    ASSUME NEW p \in Procs, Timer(p)
    PROVE  UNCHANGED <<counter, sessions, phase, sessionId, lastMid, open, inbox, cut, handler, app,
                       starter, created, closed>>
BY DEF Timer, MakeTimerStep, RemoveDue, ReportDue, objVars, netVars, threadVars, callbackVars

(* The timer thread: counting the open replies and choosing one, removing  *)
(* what its pointer leads to, reporting what it leads to after that.       *)
LEMMA TimerType ==
    ASSUME TypeInv, NEW p \in Procs, Timer(p)
    PROVE  TypeInv'
<1>0. messageList \in [Procs -> Seq(Entries)]
  BY DEF TypeInv, BaseTypes
<1>1. UNCHANGED <<counter, sessions, phase, sessionId, lastMid, open, inbox, cut, handler, app,
                  starter, created, closed>>
  BY TimerLeaves
<1>2. ASSUME messageList' \in [Procs -> Seq(Entries)], UNCHANGED <<initState, timedOut>>
      PROVE  TypeInv'
  BY <1>1, <1>2 DEF TypeInv, BaseTypes, HandlerHasMessage
<1>3. CASE MakeTimerStep(p)
  <2>1. UNCHANGED <<initState, timedOut>>
    BY <1>3 DEF MakeTimerStep, objVars, callbackVars
  <2>2. PICK last : messageList' = [messageList EXCEPT ![p] = Ticked(messageList[p], last)]
    BY <1>3 DEF MakeTimerStep
  <2>3. Ticked(messageList[p], last) \in Seq(Entries)
    BY <1>0, TickedLemma
  <2> QED
    BY <1>0, <1>2, <2>1, <2>2, <2>3
<1>4. CASE RemoveDue(p)
  <2> DEFINE v == Pointed(p)
  <2>1. UNCHANGED <<initState, timedOut>>
    BY <1>4 DEF RemoveDue, objVars, callbackVars
  <2>2. messageList' = [messageList EXCEPT ![p] = RemoveMessage(@, v.sid, v.mid)]
    BY <1>4 DEF RemoveDue
  <2>3. RemoveMessage(messageList[p], v.sid, v.mid) \in Seq(Entries)
    BY <1>0, RemoveMessageLemma
  <2> QED
    BY <1>0, <1>2, <2>1, <2>2, <2>3
<1>5. CASE ReportDue(p)
  <2>1. messageList' = messageList /\ Timeout(Pointed(p))
    BY <1>5 DEF ReportDue
  <2>2. initState' \in [Ends -> {-1, 0, 1}] /\ timedOut' \in [Ends -> BOOLEAN]
    BY <2>1 DEF Timeout, TypeInv, BaseTypes
  <2> QED
    BY <1>1, <2>1, <2>2 DEF TypeInv, BaseTypes, HandlerHasMessage
<1> QED
  BY <1>3, <1>4, <1>5 DEF Timer

(* The application that closes or deletes a session.                       *)
LEMMA ApplicationType ==
    ASSUME TypeInv, NEW e \in Ends, Application(e)
    PROVE  TypeInv'
<1>0. /\ Owner(e) \in Procs
      /\ inbox \in [Ends -> Seq(Msgs)]
      /\ messageList \in [Procs -> Seq(Entries)]
      /\ sessionId[e] \in Ids /\ lastMid[e] + 1 \in Nat
      /\ ZeroId \in Ids
      /\ sessions[Owner(e)] \in SUBSET (Ids \X Ends)
  BY EndsLemma, ZeroIdLemma DEF TypeInv, BaseTypes
<1>1. ASSUME NEW replyExpected \in BOOLEAN, CloseSession(e, replyExpected)
      PROVE  TypeInv'
  <2>1. /\ messageList' = [messageList EXCEPT ![Owner(e)] = IgnoreAllOf(@, sessionId[e])]
        /\ app' = [app EXCEPT ![e] = IF replyExpected THEN "markedReply" ELSE "marked"]
        /\ UNCHANGED <<counter, sessions, phase, sessionId, initState, lastMid, open, inbox, cut,
                       handler, starter, created, closed, timedOut>>
    BY <1>1 DEF CloseSession, objVars, netVars, callbackVars
  <2>2. IgnoreAllOf(messageList[Owner(e)], sessionId[e]) \in Seq(Entries)
    BY <1>0, IgnoreAllOfLemma
  <2>3. messageList' \in [Procs -> Seq(Entries)]
    BY <1>0, <2>1, <2>2
  <2>4. app' \in [Ends -> {"idle", "marked", "markedReply", "sent"}]
    BY <2>1 DEF TypeInv, BaseTypes
  <2> QED
    BY <2>1, <2>3, <2>4 DEF TypeInv, BaseTypes, HandlerHasMessage
<1>2. CASE SendCloseStart(e)
  <2> DEFINE entry == Entry(sessionId[e], lastMid[e] + 1, e)
  <2>1. /\ lastMid' = [lastMid EXCEPT ![e] = @ + 1]
        /\ inbox' = Sent(inbox, e, CloseStart(e))
        /\ UNCHANGED <<counter, sessions, phase, sessionId, initState, open, cut, handler,
                       starter, created, closed, timedOut>>
    BY <1>2 DEF SendCloseStart, callbackVars
  <2>2. \/ app' = [app EXCEPT ![e] = "sent"] /\ messageList' = messageList
        \/ /\ app' = [app EXCEPT ![e] = "idle"]
           /\ messageList' = [messageList EXCEPT ![Owner(e)] = Append(@, entry)]
    BY <1>2 DEF SendCloseStart
  <2>3. CloseStart(e) \in Msgs
    BY <1>0, MsgLemma DEF CloseStart, MsgTypes
  <2>4. entry \in Entries
    BY <1>0, EntryLemma
  <2> HIDE DEF entry
  <2>5. /\ inbox' \in [Ends -> Seq(Msgs)]
        /\ \A f \in Ends : inbox[f] # <<>> => inbox'[f] # <<>>
    <3>1. /\ Sent(inbox, e, CloseStart(e)) \in [Ends -> Seq(Msgs)]
          /\ \A f \in Ends : \/ Sent(inbox, e, CloseStart(e))[f] = inbox[f]
                             \/ /\ f = Peer(e)
                                /\ Sent(inbox, e, CloseStart(e))[f] = Append(inbox[f], CloseStart(e))
      BY <1>0, <2>3, SentLemma
    <3> QED
      BY <1>0, <2>1, <2>3, <3>1
  <2>6. messageList' \in [Procs -> Seq(Entries)]
    <3>1. CASE messageList' = messageList
      BY <1>0, <3>1
    <3>2. CASE messageList' = [messageList EXCEPT ![Owner(e)] = Append(@, entry)]
      BY <1>0, <2>4, <3>2
    <3> QED
      BY <2>2, <3>1, <3>2
  <2>7. app' \in [Ends -> {"idle", "marked", "markedReply", "sent"}]
    BY <2>2 DEF TypeInv, BaseTypes
  <2>8. lastMid' \in [Ends -> Nat]
    BY <2>1 DEF TypeInv, BaseTypes
  <2> QED
    BY <2>1, <2>5, <2>6, <2>7, <2>8 DEF TypeInv, BaseTypes, HandlerHasMessage
<1>3. CASE FinishClose(e)
  <2>1. /\ EndSession(e, sessions[Owner(e)])
        /\ app' = [app EXCEPT ![e] = "idle"]
        /\ UNCHANGED <<counter, messageList, sessionId, initState, lastMid, inbox, cut, handler,
                       starter, created, timedOut>>
    BY <1>3 DEF FinishClose, netVars
  <2>2. /\ phase' \in [Ends -> {"none", "NotConnected", "NotReady", "Ready", "deleted"}]
        /\ open' \in [Ends -> BOOLEAN]
        /\ closed' \in [Ends -> Nat]
        /\ sessions' \in [Procs -> SUBSET (Ids \X Ends)]
    BY <1>0, <2>1, EndSessionType
  <2> QED
    BY <2>1, <2>2 DEF TypeInv, BaseTypes, HandlerHasMessage
<1>4. CASE AppDeletes(e)
  <2>1. /\ DeleteSession(e)
        /\ AnnounceClose(e)
        /\ UNCHANGED <<counter, sessionId, cut, handler, app, starter, created, timedOut>>
    BY <1>4 DEF AppDeletes, DeleteSession, threadVars
  <2>2. /\ messageList' \in [Procs -> Seq(Entries)]
        /\ lastMid' \in [Ends -> Nat]
        /\ inbox' \in [Ends -> Seq(Msgs)]
        /\ \A f \in Ends : inbox[f] # <<>> => inbox'[f] # <<>>
    BY <2>1, AnnounceCloseType
  <2>3. /\ initState' \in [Ends -> {-1, 0, 1}]
        /\ sessions' \in [Procs -> SUBSET (Ids \X Ends)]
        /\ phase' \in [Ends -> {"none", "NotConnected", "NotReady", "Ready", "deleted"}]
        /\ open' \in [Ends -> BOOLEAN]
        /\ closed' \in [Ends -> Nat]
    BY <2>1, DeleteSessionType
  <2> QED
    BY <2>1, <2>2, <2>3 DEF TypeInv, BaseTypes, HandlerHasMessage
<1> QED
  BY <1>1, <1>2, <1>3, <1>4 DEF Application

(* The network, when a direction breaks.                                   *)
LEMMA CutType ==
    ASSUME TypeInv, NEW e \in Ends, CutLink(e)
    PROVE  TypeInv'
BY DEF TypeInv, BaseTypes, HandlerHasMessage, CutLink, procVars, objVars, threadVars, callbackVars

(* Every initial state satisfies TypeInv.                                  *)
LEMMA TypeInit == Init => TypeInv
<1>1. ZeroId \in Ids
  BY ZeroIdLemma
<1> QED
  BY <1>1 DEF Init, TypeInv, BaseTypes, HandlerHasMessage

(* Every step preserves TypeInv: the lemmas on the threads, put together.  *)
LEMMA TypeStep == TypeInv /\ [Next]_vars => TypeInv'
<1> SUFFICES ASSUME TypeInv, [Next]_vars
             PROVE  TypeInv'
  OBVIOUS
<1>1. ASSUME NEW c \in Conns, Start(c) \/ Poll(c) \/ ProcessConnection(c)
      PROVE  TypeInv'
  BY <1>1, StarterType
<1>2. ASSUME NEW e \in Ends, Receive(e)
      PROVE  TypeInv'
  BY <1>2, ReceiveType
<1>3. ASSUME NEW e \in Ends, SendHeartbeat(e)
      PROVE  TypeInv'
  BY <1>3, HeartbeatType
<1>4. ASSUME NEW e \in Ends, Application(e)
      PROVE  TypeInv'
  BY <1>4, ApplicationType
<1>5. ASSUME NEW e \in Ends, CutLink(e)
      PROVE  TypeInv'
  BY <1>5, CutType
<1>6. ASSUME NEW p \in Procs, Timer(p)
      PROVE  TypeInv'
  BY <1>6, TimerType
<1>7. CASE UNCHANGED vars
  BY <1>7 DEF TypeInv, BaseTypes, HandlerHasMessage, vars, procVars, objVars, netVars, threadVars,
              callbackVars
<1> QED
  BY <1>1, <1>2, <1>3, <1>4, <1>5, <1>6, <1>7 DEF Next

(* What an arriving reply or the timer leaves behind the end of a vector   *)
(* is an entry.                                                            *)
LEMMA LeftBehindType ==
    ASSUME TypeInv, TimerTypes, NEW p \in Procs, NEW sid, NEW mid
    PROVE  LeftBehind(p, sid, mid) \in [Procs -> Seq(Entries)]
<1> DEFINE l == messageList[p]
           found == Matches(l, sid, mid)
<1>0. l \in Seq(Entries) /\ behind \in [Procs -> Seq(Entries)]
  BY DEF TypeInv, BaseTypes, TimerTypes
<1> HIDE DEF l
<1>1. CASE found # {}
  <2>1. First(found) \in 1..Len(l)
    BY <1>0, <1>1, MatchesLemma
  <2>2. l[First(found)] \in Entries
    BY <1>0, <2>1
  <2>3. <<l[First(found)]>> \in Seq(Entries)
    BY <2>2
  <2>4. [behind EXCEPT ![p] = <<l[First(found)]>>] \in [Procs -> Seq(Entries)]
    BY <1>0, <2>3
  <2> QED
    BY <1>0, <1>1, <2>4 DEF LeftBehind, l
<1>2. CASE found = {}
  BY <1>0, <1>2 DEF LeftBehind, l
<1> QED
  BY <1>1, <1>2

(* The handlers of replies are the only other threads that write there.    *)
LEMMA OthersLeaveTimer ==
    ASSUME [Next]_vars, ~\E p \in Procs : Timer(p)
    PROVE  /\ UNCHANGED <<walk, temp>>
           /\ behind' = behind \/ \E e \in Ends : behind' = LeftBy(e, Head(inbox[e]))
<1>1. ASSUME NEW c \in Conns, Start(c) \/ Poll(c) \/ ProcessConnection(c)
      PROVE  UNCHANGED timerVars
  BY <1>1 DEF Start, Poll, StartSession, StartSessionRefused, StartSessionReturns,
              StartSessionGivesUp, StartSessionFails, ProcessConnection, procVars
<1>2. ASSUME NEW e \in Ends, Receive(e)
      PROVE  UNCHANGED <<walk, temp>> /\ (behind' = behind \/ behind' = LeftBy(e, Head(inbox[e])))
  BY <1>2 DEF Receive, ProcessInitStart, SendInitReply, ProcessInitReply, FinishSessionReady,
              ProcessCloseStart, ProcessCloseReply, ProcessHeartbeatStart, ProcessHeartbeatReply,
              procVars, timerVars
<1>3. ASSUME NEW e \in Ends, SendHeartbeat(e) \/ Application(e) \/ CutLink(e)
      PROVE  UNCHANGED timerVars
  BY <1>3 DEF SendHeartbeat, Application, CloseSession, SendCloseStart, FinishClose, AppDeletes,
              CutLink, procVars
<1>4. CASE UNCHANGED vars
  BY <1>4 DEF vars, procVars, timerVars
<1> QED
  BY <1>1, <1>2, <1>3, <1>4 DEF Next, timerVars

(* So the variables of the timer keep their types.                         *)
LEMMA TimerStep == TypeInv /\ TimerTypes /\ [Next]_vars => TimerTypes'
<1> SUFFICES ASSUME TypeInv, TimerTypes, [Next]_vars
             PROVE  TimerTypes'
  OBVIOUS
<1>0. /\ walk \in [Procs -> {"idle", "due", "removed"}]
      /\ temp \in [Procs -> Nat]
      /\ behind \in [Procs -> Seq(Entries)]
  BY DEF TimerTypes
<1>1. CASE ~\E p \in Procs : Timer(p)
  <2>1. \A e \in Ends : LeftBy(e, Head(inbox[e])) \in [Procs -> Seq(Entries)]
    BY <1>0, EndsLemma, LeftBehindType DEF LeftBy
  <2> QED
    BY <1>0, <1>1, <2>1, OthersLeaveTimer DEF TimerTypes
<1>2. ASSUME NEW p \in Procs, MakeTimerStep(p)
      PROVE  TimerTypes'
  <2> DEFINE due == Due(messageList[p])
  <2>1. due # {} => First(due) \in Nat
    <3>1. due \subseteq Nat
      BY DEF Due, TypeInv, BaseTypes
    <3> QED
      BY <3>1, FirstLemma
  <2> HIDE DEF due
  <2>2. \/ UNCHANGED <<walk, temp, behind>>
        \/ /\ due # {}
           /\ walk' = [walk EXCEPT ![p] = "due"]
           /\ temp' = [temp EXCEPT ![p] = First(due)]
           /\ behind' = behind
    BY <1>2 DEF MakeTimerStep, timerVars, due
  <2> QED
    BY <1>0, <2>1, <2>2 DEF TimerTypes
<1>3. ASSUME NEW p \in Procs, RemoveDue(p)
      PROVE  TimerTypes'
  <2>1. LeftBehind(p, Pointed(p).sid, Pointed(p).mid) \in [Procs -> Seq(Entries)]
    BY LeftBehindType
  <2> QED
    BY <1>0, <1>3, <2>1 DEF RemoveDue, TimerTypes
<1>4. ASSUME NEW p \in Procs, ReportDue(p)
      PROVE  TimerTypes'
  BY <1>0, <1>4 DEF ReportDue, TimerTypes
<1> QED
  BY <1>1, <1>2, <1>3, <1>4 DEF Timer

(* Every variable keeps the values its declaration allows, whatever the    *)
(* topology, the message-ids and the timing: in particular every id in a   *)
(* map, a message or a list is a 32-bit word, every entry of a list leads  *)
(* to a session, and no receive thread loses the message it works on.      *)
THEOREM TypeCorrect == Spec => []TypeOK
<1>1. Init => TypeInv /\ TimerTypes
  <2>1. Init => TimerTypes
    BY DEF Init, TimerTypes
  <2> QED
    BY <2>1, TypeInit
<1>2. TypeInv /\ TimerTypes /\ [Next]_vars => TypeInv' /\ TimerTypes'
  BY TypeStep, TimerStep
<1>3. TypeInv /\ TimerTypes => TypeOK
  BY DEF TypeInv, BaseTypes, TimerTypes, TypeOK
<1> QED
  BY <1>1, <1>2, <1>3, PTL DEF Spec

=============================================================================
