------------------------- MODULE DataExchangeProofs -------------------------
(* The safety of DataExchange, for every set of calls of every kind, by    *)
(* threads and by callbacks, on a connection that breaks or not.           *)
EXTENDS DataExchange, NaturalsInduction, WellFoundedInduction, TLAPS

-----------------------------------------------------------------------------
(* The inductive invariant.                                                *)

In(q, m) == \E i \in DOMAIN q : q[i] = m

(* What a message on its way to e tells.                                   *)
Right(e, m) ==
    /\ m.type = "reply" => At[m.call] = e /\ m.call \in handled
    /\ m.type = "data" =>
          /\ At[m.call] = Peer(e)
          /\ pc[m.call] \notin {"idle", "listed"}
          /\ Kind[m.call] = "response" => about[m.call] \in received[Peer(e)]

WireInv ==
    /\ \A e \in Ends, m \in Messages : In(wire[e], m) => Right(e, m)
    /\ \A c \in handled : pc[c] \notin {"idle", "listed"}

(* The message in a callback is still the first in the ring buffer.        *)
CurrentInv ==
    \A e \in Ends : current[e] # Nobody =>
        wire[e] # <<>> /\ Head(wire[e]) = Data(current[e])

(* Responses name messages that came from the other side.                  *)
KnownInv ==
    /\ \A e \in Ends : \A m \in received[e] : At[m] = Peer(e)
    /\ \A c \in Calls :
          /\ pc[c] = "listed" /\ Kind[c] = "response" => about[c] \in received[At[c]]
          /\ result[c] = "response" => pc[c] # "idle"

(* An entry belongs to one call that was made and is not yet answered.     *)
Distinct(l) == \A i, j \in DOMAIN l : l[i].call = l[j].call => i = j
Waits(e, c) == At[c] = e /\ pc[c] # "idle" /\ c \notin answered

ListInv ==
    \A e \in Ends : /\ Distinct(list[e])
                    /\ \A c \in Calls : Listed(list[e], c) => Waits(e, c)

(* A callback that called does not return before the call.                 *)
InsideInv ==
    \A c \in inside :
        /\ pc[c] # "idle"
        /\ Busy(c) => current[At[c]] # Nobody

(* The types of all but the variables of the timer.                        *)
BaseTypes ==
    /\ pc \in [Calls -> {"idle", "listed", "sent", "blocked", "woken", "asleep", "done"}]
    /\ result \in [Calls -> {"none", "ok", "failed", "response"}]
    /\ inside \in SUBSET Calls
    /\ about \in [Calls -> Calls \cup {Nobody}]
    /\ list \in [Ends -> Seq(Entries)]
    /\ wire \in [Ends -> Seq(Messages)]
    /\ current \in [Ends -> Calls \cup {Nobody}]
    /\ linkUp \in BOOLEAN
    /\ hung \in SUBSET Ends
    /\ handled \in SUBSET Calls
    /\ answered \in SUBSET Calls
    /\ received \in [Ends -> SUBSET Calls]

IInv ==
    /\ BaseTypes
    /\ WireInv
    /\ CurrentInv
    /\ KnownInv
    /\ ListInv
    /\ InsideInv
    /\ ReplyAfterCallback
    /\ InnerRequestStarves
    /\ ResponseWasSent

-----------------------------------------------------------------------------
(* Lists and messages.                                                     *)

(* The least element of a set of numbers.                                  *)
LEMMA FirstLemma ==
    ASSUME NEW S \in SUBSET Nat, S # {}
    PROVE  First(S) \in S /\ \A j \in S : First(S) <= j
<1>1. IsWellFoundedOn(OpToRel(<, Nat), Nat)
  BY NatLessThanWellFounded
<1>2. \A i, j \in Nat : j < i => <<j, i>> \in OpToRel(<, Nat)
  BY DEF OpToRel
<1>3. PICK less : /\ IsWellFoundedOn(less, Nat)
                  /\ \A i, j \in Nat : j < i => <<j, i>> \in less
  BY <1>1, <1>2, Zenon
<1>4. PICK i \in S : \A j \in S : ~(<<j, i>> \in less)
  BY <1>3, WFMin
<1>5. \A j \in S : i <= j
  <2>1. TAKE j \in S
  <2>2. i \in Nat /\ j \in Nat
    OBVIOUS
  <2>3. ~(j < i)
    BY <1>3, <1>4, <2>2
  <2> QED
    BY <2>2, <2>3
<1> QED
  BY <1>5 DEF First

(* What RemoveAt does: the last entry takes the place of the removed one.  *)
LEMMA RemoveAtLemma ==
    ASSUME NEW S, NEW l \in Seq(S), NEW i \in 1 .. Len(l)
    PROVE  /\ RemoveAt(l, i) \in Seq(S)
           /\ DOMAIN RemoveAt(l, i) = 1 .. (Len(l) - 1)
           /\ \A k \in 1 .. (Len(l) - 1) : RemoveAt(l, i)[k] = l[IF k = i THEN Len(l) ELSE k]
<1> DEFINE t == [l EXCEPT ![i] = l[Len(l)]]
<1>1. /\ t \in Seq(S) /\ Len(t) = Len(l) /\ Len(l) \in Nat \ {0}
      /\ \A k \in 1 .. Len(l) : t[k] = IF k = i THEN l[Len(l)] ELSE l[k]
  OBVIOUS
<1> HIDE DEF t
<1>2. /\ SubSeq(t, 1, Len(l) - 1) \in Seq(S)
      /\ DOMAIN SubSeq(t, 1, Len(l) - 1) = 1 .. (Len(l) - 1)
      /\ \A k \in 1 .. (Len(l) - 1) : SubSeq(t, 1, Len(l) - 1)[k] = t[k]
  BY <1>1
<1>3. RemoveAt(l, i) = SubSeq(t, 1, Len(l) - 1)
  BY DEF RemoveAt, t
<1> QED
  BY <1>1, <1>2, <1>3

(* So the entries that stay are others than the removed one.               *)
LEMMA RemovedLemma ==
    ASSUME NEW S, NEW l \in Seq(S), NEW i \in 1 .. Len(l), Distinct(l)
    PROVE  /\ Distinct(RemoveAt(l, i))
           /\ \A k \in DOMAIN RemoveAt(l, i) :
                 \E j \in DOMAIN l : /\ j # i
                                     /\ RemoveAt(l, i)[k] = l[j]
                                     /\ l[j].call # l[i].call
<1>1. /\ DOMAIN RemoveAt(l, i) = 1 .. (Len(l) - 1)
      /\ \A k \in 1 .. (Len(l) - 1) : RemoveAt(l, i)[k] = l[IF k = i THEN Len(l) ELSE k]
  BY RemoveAtLemma
<1>2. DOMAIN l = 1 .. Len(l) /\ Len(l) \in Nat
  OBVIOUS
<1>3. ASSUME NEW k \in 1 .. (Len(l) - 1)
      PROVE  \E j \in DOMAIN l : /\ j # i
                                /\ RemoveAt(l, i)[k] = l[j]
                                /\ l[j].call # l[i].call
                                /\ j = IF k = i THEN Len(l) ELSE k
  BY <1>1, <1>2 DEF Distinct
<1>4. Distinct(RemoveAt(l, i))
  BY <1>1, <1>2, <1>3 DEF Distinct
<1> QED
  BY <1>1, <1>3, <1>4

(* removeMessage removes the entry of a call, and no other.                *)
LEMMA RemoveMessageLemma ==
    ASSUME NEW l \in Seq(Entries), Distinct(l), NEW c
    PROVE  /\ RemoveMessage(l, c) \in Seq(Entries)
           /\ Distinct(RemoveMessage(l, c))
           /\ \A d : Listed(RemoveMessage(l, c), d) => d # c /\ Listed(l, d)
           /\ \A d : Listed(l, d) /\ d # c => Listed(RemoveMessage(l, c), d)
<1>1. CASE Listed(l, c)
  <2> DEFINE i == First(Positions(l, c))
  <2>1. i \in 1 .. Len(l) /\ l[i].call = c
    <3>1. Positions(l, c) # {} /\ Positions(l, c) \subseteq 1 .. Len(l)
      BY <1>1 DEF Listed, Positions
    <3>2. i \in Positions(l, c)
      BY <3>1, FirstLemma
    <3> QED
      BY <3>1, <3>2 DEF Positions
  <2>2. RemoveMessage(l, c) = RemoveAt(l, i)
    BY <1>1 DEF RemoveMessage
  <2> HIDE DEF i
  <2>3. /\ RemoveAt(l, i) \in Seq(Entries)
        /\ Distinct(RemoveAt(l, i))
        /\ \A k \in DOMAIN RemoveAt(l, i) : \E j \in DOMAIN l :
              RemoveAt(l, i)[k] = l[j] /\ l[j].call # c
    BY <2>1, RemoveAtLemma, RemovedLemma
  <2>4. ASSUME NEW d, Listed(l, d), d # c
        PROVE  Listed(RemoveAt(l, i), d)
    <3>1. PICK j \in 1 .. Len(l) : l[j].call = d
      BY <2>4 DEF Listed
    <3>2. j # i /\ Len(l) \in Nat
      BY <2>1, <2>4, <3>1
    <3>3. /\ DOMAIN RemoveAt(l, i) = 1 .. (Len(l) - 1)
          /\ \A k \in 1 .. (Len(l) - 1) : RemoveAt(l, i)[k] = l[IF k = i THEN Len(l) ELSE k]
      BY <2>1, RemoveAtLemma
    <3>4. CASE j = Len(l)
      <4>1. i \in 1 .. (Len(l) - 1)
        BY <2>1, <3>2, <3>4
      <4>2. RemoveAt(l, i)[i] = l[Len(l)]
        BY <3>3, <4>1
      <4> QED
        BY <3>1, <3>3, <3>4, <4>1, <4>2 DEF Listed
    <3>5. CASE j # Len(l)
      <4>1. j \in 1 .. (Len(l) - 1)
        BY <3>1, <3>2, <3>5
      <4>2. RemoveAt(l, i)[j] = l[j]
        BY <3>2, <3>3, <4>1
      <4> QED
        BY <3>1, <3>3, <4>1, <4>2 DEF Listed
    <3> QED
      BY <3>4, <3>5
  <2> QED
    BY <2>2, <2>3, <2>4 DEF Listed
<1>2. CASE ~Listed(l, c)
  BY <1>2 DEF RemoveMessage
<1> QED
  BY <1>1, <1>2

(* A new entry of a call that has none.                                    *)
LEMMA AppendLemma ==
    ASSUME NEW l \in Seq(Entries), Distinct(l), NEW x \in Entries, ~Listed(l, x.call)
    PROVE  /\ Append(l, x) \in Seq(Entries)
           /\ Distinct(Append(l, x))
           /\ \A d : Listed(Append(l, x), d) => Listed(l, d) \/ d = x.call
           /\ \A d : Listed(l, d) => Listed(Append(l, x), d)
<1>1. /\ Append(l, x) \in Seq(Entries)
      /\ \A i \in DOMAIN Append(l, x) : \/ i \in DOMAIN l /\ Append(l, x)[i] = l[i]
                                        \/ i = Len(l) + 1 /\ Append(l, x)[i] = x
      /\ \A i \in DOMAIN l : i \in DOMAIN Append(l, x) /\ Append(l, x)[i] = l[i]
  OBVIOUS
<1> QED
  BY <1>1 DEF Listed, Distinct

(* Counting up keeps the calls.                                            *)
LEMMA TickedLemma ==
    ASSUME NEW l \in Seq(Entries), Distinct(l), NEW last
    PROVE  /\ Ticked(l, last) \in Seq(Entries)
           /\ Distinct(Ticked(l, last))
           /\ \A d : Listed(Ticked(l, last), d) <=> Listed(l, d)
<1>0. TimeoutTicks \in Nat \ {0} /\ Len(l) \in Nat /\ DOMAIN l = 1 .. Len(l)
  BY ExchangeAssumption DEF ExchangeAssumption
<1>1. ASSUME NEW x \in Entries
      PROVE  Older(x) \in Entries /\ Older(x).call = x.call
  BY <1>0 DEF Older, Entries
<1>2. \A i \in 1 .. Len(l) : l[i] \in Entries
  OBVIOUS
<1>3. \A i \in 1 .. Len(l) : Ticked(l, last)[i] \in {Older(l[i]), l[i]}
  BY <1>0 DEF Ticked
<1>4. \A i \in 1 .. Len(l) :
         Ticked(l, last)[i] \in Entries /\ Ticked(l, last)[i].call = l[i].call
  BY <1>1, <1>2, <1>3
<1>5. Ticked(l, last) \in [1 .. Len(l) -> Entries]
  BY <1>0, <1>4 DEF Ticked
<1>6. Ticked(l, last) \in Seq(Entries) /\ DOMAIN Ticked(l, last) = DOMAIN l
  BY <1>0, <1>5
<1> QED
  BY <1>0, <1>4, <1>6 DEF Distinct, Listed

(* Sending appends a message to one wire, or to none.                      *)
LEMMA SentLemma ==
    ASSUME NEW box \in [Ends -> Seq(Messages)], NEW e \in Ends, NEW m \in Messages
    PROVE  /\ Sent(box, e, m) \in [Ends -> Seq(Messages)]
           /\ \A f \in Ends, x \in Messages :
                 In(Sent(box, e, m)[f], x) => In(box[f], x) \/ (f = e /\ x = m)
           /\ \A f \in Ends : box[f] # <<>> =>
                 Sent(box, e, m)[f] # <<>> /\ Head(Sent(box, e, m)[f]) = Head(box[f])
<1>1. ASSUME NEW q \in Seq(Messages)
      PROVE  /\ Append(q, m) \in Seq(Messages)
             /\ \A i \in DOMAIN Append(q, m) : \/ i \in DOMAIN q /\ Append(q, m)[i] = q[i]
                                               \/ Append(q, m)[i] = m
             /\ q # <<>> => Append(q, m) # <<>> /\ Head(Append(q, m)) = Head(q)
  OBVIOUS
<1>2. CASE Sent(box, e, m) = box
  BY <1>2
<1>3. CASE Sent(box, e, m) = [box EXCEPT ![e] = Append(@, m)]
  <2>1. /\ Sent(box, e, m)[e] = Append(box[e], m)
        /\ \A f \in Ends : f # e => Sent(box, e, m)[f] = box[f]
    BY <1>3
  <2>2. box[e] \in Seq(Messages) /\ Append(box[e], m) \in Seq(Messages)
    BY <1>1
  <2>3. Sent(box, e, m) \in [Ends -> Seq(Messages)]
    BY <1>3, <2>2
  <2>4. \A x : In(Append(box[e], m), x) => In(box[e], x) \/ x = m
    BY <1>1, <2>2 DEF In
  <2>5. box[e] # <<>> => Append(box[e], m) # <<>> /\ Head(Append(box[e], m)) = Head(box[e])
    BY <1>1, <2>2
  <2> QED
    BY <2>1, <2>3, <2>4, <2>5
<1> QED
  BY <1>2, <1>3 DEF Sent

(* The receive thread is done with the first message of an end.            *)
LEMMA ConsumedLemma ==
    ASSUME wire \in [Ends -> Seq(Messages)], NEW e \in Ends, wire[e] # <<>>
    PROVE  /\ Consumed(e) \in [Ends -> Seq(Messages)]
           /\ \A f \in Ends, x \in Messages : In(Consumed(e)[f], x) => In(wire[f], x)
           /\ \A f \in Ends : f # e => Consumed(e)[f] = wire[f]
<1>1. /\ Tail(wire[e]) \in Seq(Messages)
      /\ \A i \in DOMAIN Tail(wire[e]) : i + 1 \in DOMAIN wire[e] /\ Tail(wire[e])[i] = wire[e][i + 1]
  OBVIOUS
<1>2. /\ Consumed(e)[e] = Tail(wire[e])
      /\ \A f \in Ends : f # e => Consumed(e)[f] = wire[f]
      /\ Consumed(e) \in [Ends -> Seq(Messages)]
  BY <1>1 DEF Consumed
<1>3. \A x : In(Tail(wire[e]), x) => In(wire[e], x)
  BY <1>1 DEF In
<1> QED
  BY <1>2, <1>3

(* The first message of an end is one of its messages.                     *)
LEMMA HeadLemma ==
    ASSUME wire \in [Ends -> Seq(Messages)], NEW e \in Ends, wire[e] # <<>>
    PROVE  Head(wire[e]) \in Messages /\ In(wire[e], Head(wire[e]))
<1>1. wire[e] \in Seq(Messages)
  OBVIOUS
<1>2. 1 \in DOMAIN wire[e] /\ Head(wire[e]) = wire[e][1] /\ Head(wire[e]) \in Messages
  BY <1>1
<1> QED
  BY <1>2 DEF In

-----------------------------------------------------------------------------
(* What the steps have in common.                                          *)

(* The two ends.                                                           *)
LEMMA EndsLemma ==
    /\ \A e \in Ends : Peer(e) \in Ends /\ Peer(e) # e /\ Peer(Peer(e)) = e
    /\ \A c \in Calls : At[c] \in Ends /\ Kind[c] \in Kinds
    /\ \A c \in Calls : c # Nobody
BY ExchangeAssumption DEF Ends, Peer, ExchangeAssumption

(* What no step takes back.                                                *)
Forward ==
    /\ \A c \in Calls :
          /\ pc[c] # "idle" => pc'[c] # "idle" /\ about'[c] = about[c]
          /\ pc[c] \notin {"idle", "listed"} => pc'[c] \notin {"idle", "listed"}
    /\ handled \subseteq handled'
    /\ \A e \in Ends : received[e] \subseteq received'[e]

(* A message on its way stays right.                                       *)
LEMMA RightForward ==
    ASSUME IInv, Forward, NEW e \in Ends, NEW m \in Messages, Right(e, m)
    PROVE  Right(e, m)'
<1>1. m.call \in Calls /\ Peer(e) \in Ends
  BY EndsLemma DEF Messages
<1>2. m.type = "reply" => At[m.call] = e /\ m.call \in handled'
  BY DEF Right, Forward
<1>3. ASSUME m.type = "data"
      PROVE  /\ At[m.call] = Peer(e)
             /\ pc'[m.call] \notin {"idle", "listed"}
             /\ Kind[m.call] = "response" => about'[m.call] \in received'[Peer(e)]
  <2>1. /\ At[m.call] = Peer(e)
        /\ pc[m.call] \notin {"idle", "listed"}
        /\ Kind[m.call] = "response" => about[m.call] \in received[Peer(e)]
    BY <1>3 DEF Right
  <2>2. about'[m.call] = about[m.call] /\ pc'[m.call] \notin {"idle", "listed"}
    BY <1>1, <2>1 DEF Forward
  <2>3. received[Peer(e)] \subseteq received'[Peer(e)]
    BY <1>1 DEF Forward
  <2> QED
    BY <2>1, <2>2, <2>3
<1> QED
  BY <1>2, <1>3 DEF Right

(* So only the new messages have to be looked at.                          *)
LEMMA WireForward ==
    ASSUME IInv, Forward,
           \A e \in Ends, m \in Messages : In(wire'[e], m) => In(wire[e], m) \/ Right(e, m)',
           \A c \in handled' : c \in handled \/ pc'[c] \notin {"idle", "listed"}
    PROVE  WireInv'
<1>1. ASSUME NEW e \in Ends, NEW m \in Messages, In(wire'[e], m)
      PROVE  Right(e, m)'
  <2>1. In(wire[e], m) => Right(e, m)
    BY DEF IInv, WireInv
  <2> QED
    BY <1>1, <2>1, RightForward
<1>2. \A c \in handled : c \in Calls /\ pc[c] \notin {"idle", "listed"}
  BY DEF IInv, BaseTypes, WireInv
<1>3. \A c \in handled' : pc'[c] \notin {"idle", "listed"}
  BY <1>2 DEF Forward
<1> QED
  BY <1>1, <1>3 DEF WireInv

(* Likewise the new entries and the new answers.                           *)
LEMMA ListForward ==
    ASSUME IInv, Forward,
           \A e \in Ends : Distinct(list'[e]),
           \A e \in Ends, c \in Calls : Listed(list'[e], c) =>
               \/ Listed(list[e], c) /\ (c \in answered' => c \in answered)
               \/ Waits(e, c)'
    PROVE  ListInv'
<1>1. ASSUME NEW e \in Ends, NEW c \in Calls, Listed(list'[e], c)
      PROVE  Waits(e, c)'
  <2>1. CASE Listed(list[e], c) /\ (c \in answered' => c \in answered)
    <3>1. Waits(e, c)
      BY <2>1 DEF IInv, ListInv
    <3> QED
      BY <2>1, <3>1 DEF Waits, Forward
  <2> QED
    BY <1>1, <2>1
<1> QED
  BY <1>1 DEF ListInv

(* The response a request returned is not taken back.                      *)
LEMMA ResponseForward ==
    ASSUME IInv, Forward, NEW c \in Calls, result[c] = "response"
    PROVE  \E r \in handled' : Kind[r] = "response" /\ about'[r] = c /\ c \in received'[At[r]]
<1>1. PICK r \in handled : Kind[r] = "response" /\ about[r] = c /\ c \in received[At[r]]
  BY DEF IInv, ResponseWasSent
<1>2. r \in Calls /\ At[r] \in Ends /\ pc[r] # "idle"
  BY EndsLemma DEF IInv, BaseTypes, WireInv
<1> QED
  BY <1>1, <1>2 DEF Forward

(* Steps that neither make a call nor wake one.                            *)
Calm ==
    /\ inside' = inside
    /\ \A c \in Calls :
          /\ pc'[c] = "idle" => pc[c] = "idle"
          /\ pc'[c] = "listed" => pc[c] = "listed"
          /\ pc'[c] = "woken" => pc[c] = "woken"
          /\ pc[c] = "done" => pc'[c] = "done"
          /\ result'[c] = "response" => result[c] = "response"

(* They keep what the invariant says of the calls.                         *)
LEMMA CalmLemma ==
    ASSUME IInv, Forward, Calm,
           \A e \in Ends : \A m \in received'[e] : At[m] = Peer(e),
           \A c \in inside : Busy(c) /\ current[At[c]] # Nobody => current'[At[c]] # Nobody
    PROVE  KnownInv' /\ InsideInv' /\ InnerRequestStarves' /\ ResponseWasSent'
<1>0. \A c \in inside : c \in Calls
  BY DEF IInv, BaseTypes
<1>1. KnownInv'
  <2>1. ASSUME NEW c \in Calls, pc'[c] = "listed", Kind[c] = "response"
        PROVE  about'[c] \in received'[At[c]]
    <3>1. pc[c] = "listed" /\ At[c] \in Ends
      BY <2>1, EndsLemma DEF Calm
    <3>2. about[c] \in received[At[c]]
      BY <2>1, <3>1 DEF IInv, KnownInv
    <3> QED
      BY <3>1, <3>2 DEF Forward
  <2>2. ASSUME NEW c \in Calls, result'[c] = "response"
        PROVE  pc'[c] # "idle"
    BY <2>2 DEF Calm, IInv, KnownInv
  <2> QED
    BY <2>1, <2>2 DEF KnownInv
<1>2. InsideInv'
  <2>1. ASSUME NEW c \in inside
        PROVE  pc'[c] # "idle" /\ (pc'[c] # "done" => current'[At[c]] # Nobody)
    BY <1>0 DEF Calm, IInv, InsideInv, Busy
  <2> QED
    BY <2>1 DEF Calm, InsideInv, Busy
<1>3. InnerRequestStarves'
  BY <1>0 DEF Calm, IInv, InnerRequestStarves
<1>4. ResponseWasSent'
  BY ResponseForward DEF Calm, ResponseWasSent
<1> QED
  BY <1>1, <1>2, <1>3, <1>4

(* Messages to callbacks and replies.                                      *)
LEMMA MessagesLemma ==
    ASSUME NEW c \in Calls
    PROVE  /\ Data(c) \in Messages /\ Data(c).type = "data" /\ Data(c).call = c
           /\ Reply(c) \in Messages /\ Reply(c).type = "reply" /\ Reply(c).call = c
BY DEF Data, Reply, Messages

(* Steps of calls that neither send nor change the list.                   *)
LEMMA QuietLemma ==
    ASSUME IInv, Forward, Calm, BaseTypes',
           UNCHANGED <<wire, current, list, historyVars>>
    PROVE  IInv'
<1>1. UNCHANGED <<wire, current, list, handled, answered, received>>
  BY DEF historyVars
<1>2. WireInv'
  BY <1>1, WireForward
<1>3. CurrentInv'
  BY <1>1 DEF IInv, CurrentInv
<1>4. ListInv'
  BY <1>1, ListForward DEF IInv, ListInv
<1>5. KnownInv' /\ InsideInv' /\ InnerRequestStarves' /\ ResponseWasSent'
  BY <1>1, CalmLemma DEF IInv, KnownInv
<1>6. ReplyAfterCallback'
  BY <1>1 DEF IInv, ReplyAfterCallback
<1> QED
  BY <1>2, <1>3, <1>4, <1>5, <1>6 DEF IInv

-----------------------------------------------------------------------------
(* The steps.                                                              *)

(* A call is made: its entry is the only one it has.                       *)
LEMMA BeginStep ==
    ASSUME IInv, NEW c \in Calls, NEW m \in Calls \cup {Nobody}, Begin(c, m)
    PROVE  IInv'
<1> DEFINE e == At[c]
           entry == NewEntry(c)
<1>0. e \in Ends /\ entry \in Entries /\ entry.call = c /\ TimeoutTicks \in Nat \ {0}
  BY ExchangeAssumption, EndsLemma DEF Entries, NewEntry, ExchangeAssumption
<1>1. /\ pc[c] = "idle" /\ MakeCall(c) /\ Names(c, m)
      /\ about' = [about EXCEPT ![c] = m]
      /\ list' = [list EXCEPT ![e] = Append(@, entry)] \/ list' = list
      /\ pc' = [pc EXCEPT ![c] = "listed"]
      /\ UNCHANGED <<result, current, hung, wire, linkUp, handled, answered, received>>
  BY DEF Begin, listVars, networkVars, historyVars
<1>2. /\ inside' = inside \/ (inside' = inside \cup {c} /\ current[e] # Nobody)
      /\ c \notin inside
  BY <1>1 DEF MakeCall, IInv, InsideInv
<1>3. /\ list \in [Ends -> Seq(Entries)] /\ DOMAIN pc = Calls /\ DOMAIN about = Calls
      /\ \A f \in Ends : Distinct(list[f])
      /\ inside \subseteq Calls
  BY DEF IInv, BaseTypes, ListInv
<1>4. c \notin handled /\ c \notin answered /\ result[c] # "response"
  BY <1>1 DEF IInv, WireInv, KnownInv, ReplyAfterCallback
<1>5. ~Listed(list[e], c)
  BY <1>0, <1>1 DEF IInv, ListInv, Waits
<1> HIDE DEF entry, e
<1>6. \A f \in Ends :
         \/ list'[f] = list[f]
         \/ f = e /\ list'[f] = Append(list[f], entry)
  BY <1>1, <1>3
<1>7. ASSUME NEW f \in Ends
      PROVE  /\ list'[f] \in Seq(Entries)
             /\ Distinct(list'[f])
             /\ \A d \in Calls : Listed(list'[f], d) => Listed(list[f], d) \/ (f = e /\ d = c)
  <2>1. list[f] \in Seq(Entries) /\ Distinct(list[f])
    BY <1>3
  <2>2. CASE list'[f] = list[f]
    BY <2>1, <2>2
  <2>3. CASE f = e /\ list'[f] = Append(list[f], entry)
    <3>1. ~Listed(list[f], entry.call)
      BY <1>0, <1>5, <2>3
    <3>2. /\ Append(list[f], entry) \in Seq(Entries)
          /\ Distinct(Append(list[f], entry))
          /\ \A d : Listed(Append(list[f], entry), d) => Listed(list[f], d) \/ d = entry.call
      BY <1>0, <2>1, <3>1, AppendLemma
    <3> QED
      BY <1>0, <2>3, <3>2, Zenon
  <2> QED
    BY <1>6, <2>2, <2>3
<1>8. BaseTypes'
  <2>1. list' \in [Ends -> Seq(Entries)]
    BY <1>1, <1>3, <1>7
  <2> QED
    BY <1>1, <1>2, <2>1 DEF IInv, BaseTypes
<1>9. Forward
  BY <1>1, <1>3 DEF Forward
<1>10. WireInv'
  BY <1>1, <1>9, WireForward
<1>11. CurrentInv'
  BY <1>1 DEF IInv, CurrentInv
<1>12. KnownInv'
  BY <1>1, <1>3, <1>4 DEF IInv, KnownInv, Names
<1>13. ListInv'
  <2>1. Waits(e, c)'
    BY <1>1, <1>3, <1>4 DEF Waits, e
  <2> QED
    BY <1>1, <1>7, <1>9, <2>1, ListForward
<1>14. InsideInv'
  BY <1>1, <1>2, <1>3 DEF IInv, InsideInv, Busy, e
<1>15. ReplyAfterCallback'
  BY <1>1 DEF IInv, ReplyAfterCallback
<1>16. InnerRequestStarves'
  BY <1>1, <1>2, <1>3, <1>4 DEF IInv, InnerRequestStarves
<1>17. ResponseWasSent'
  BY <1>1, <1>9, ResponseForward DEF ResponseWasSent
<1> QED
  BY <1>8, <1>10, <1>11, <1>12, <1>13, <1>14, <1>15, <1>16, <1>17 DEF IInv

(* A session that is not ready refuses a call.                             *)
LEMMA RefusedStep ==
    ASSUME IInv, NEW c \in Calls, Refused(c)
    PROVE  IInv'
<1>1. /\ pc[c] = "idle" /\ pc' = [pc EXCEPT ![c] = "done"]
      /\ result' = [result EXCEPT ![c] = "failed"]
      /\ UNCHANGED <<inside, about, list, current, hung, wire, linkUp,
                  handled, answered, received>>
  BY DEF Refused, listVars, networkVars, historyVars
<1>2. BaseTypes'
  BY <1>1 DEF IInv, BaseTypes
<1>3. Forward
  BY <1>1 DEF IInv, BaseTypes, Forward
<1>4. Calm
  BY <1>1 DEF IInv, BaseTypes, Calm
<1> QED
  BY <1>1, <1>2, <1>3, <1>4, QuietLemma DEF historyVars

(* A thread enters blockMessage.                                           *)
LEMMA BlockStep ==
    ASSUME IInv, NEW c \in Calls, Block(c)
    PROVE  IInv'
<1>1. /\ pc[c] = "sent" /\ pc' = [pc EXCEPT ![c] = "blocked"]
      /\ UNCHANGED <<result, inside, about, list, current, hung, wire, linkUp,
                  handled, answered, received>>
  BY DEF Block, listVars, networkVars, historyVars
<1>2. BaseTypes'
  BY <1>1 DEF IInv, BaseTypes
<1>3. Forward
  BY <1>1 DEF IInv, BaseTypes, Forward
<1>4. Calm
  BY <1>1 DEF IInv, BaseTypes, Calm
<1> QED
  BY <1>1, <1>2, <1>3, <1>4, QuietLemma DEF historyVars

(* A request is given up.                                                  *)
LEMMA RequestTimeoutStep ==
    ASSUME IInv, NEW c \in Calls, RequestTimeout(c)
    PROVE  IInv'
<1>1. /\ \/ /\ pc[c] = "blocked" /\ pc' = [pc EXCEPT ![c] = "asleep"] /\ result' = result
         \/ /\ pc[c] = "woken" /\ pc' = pc /\ result' = [result EXCEPT ![c] = "failed"]
      /\ hung' \in {hung, hung \cup {At[c]}} /\ At[c] \in Ends
      /\ UNCHANGED <<inside, about, list, current, wire, linkUp, handled, answered, received>>
  BY EndsLemma DEF RequestTimeout, listVars, networkVars, historyVars
<1>2. BaseTypes'
  BY <1>1 DEF IInv, BaseTypes
<1>3. Forward
  BY <1>1 DEF IInv, BaseTypes, Forward
<1>4. Calm
  BY <1>1 DEF IInv, BaseTypes, Calm
<1> QED
  BY <1>1, <1>2, <1>3, <1>4, QuietLemma DEF historyVars

(* A woken thread returns.                                                 *)
LEMMA ReturnStep ==
    ASSUME IInv, NEW c \in Calls, Return(c)
    PROVE  IInv'
<1>1. /\ pc[c] = "woken" /\ pc' = [pc EXCEPT ![c] = "done"]
      /\ UNCHANGED <<result, inside, about, list, current, hung, wire, linkUp,
                  handled, answered, received>>
  BY DEF Return, listVars, networkVars, historyVars
<1>2. BaseTypes'
  BY <1>1 DEF IInv, BaseTypes
<1>3. Forward
  BY <1>1 DEF IInv, BaseTypes, Forward
<1>4. Calm
  BY <1>1 DEF IInv, BaseTypes, Calm
<1> QED
  BY <1>1, <1>2, <1>3, <1>4, QuietLemma DEF historyVars

(* The connection breaks.                                                  *)
LEMMA BreakStep ==
    ASSUME IInv, Break
    PROVE  IInv'
<1>1. /\ linkUp' = FALSE
      /\ UNCHANGED <<pc, result, inside, about, list, current, hung, wire, handled, answered, received>>
  BY DEF Break, listVars, callVars, historyVars
<1>2. BaseTypes'
  BY <1>1 DEF IInv, BaseTypes
<1>3. Forward
  BY <1>1 DEF IInv, BaseTypes, Forward
<1>4. Calm
  BY <1>1 DEF IInv, BaseTypes, Calm
<1> QED
  BY <1>1, <1>2, <1>3, <1>4, QuietLemma DEF historyVars

(* Nothing happens.                                                        *)
LEMMA StutterStep ==
    ASSUME IInv, UNCHANGED vars
    PROVE  IInv'
<1>1. UNCHANGED <<pc, result, inside, about, list, current, hung, wire, linkUp,
                  handled, answered, received>>
  BY DEF vars, listVars, callVars, networkVars, historyVars
<1>2. BaseTypes'
  BY <1>1 DEF IInv, BaseTypes
<1>3. Forward
  BY <1>1 DEF IInv, BaseTypes, Forward
<1>4. Calm
  BY <1>1 DEF IInv, BaseTypes, Calm
<1> QED
  BY <1>1, <1>2, <1>3, <1>4, QuietLemma DEF historyVars

(* The message goes to the other end, or is lost.                          *)
LEMMA TransmitStep ==
    ASSUME IInv, NEW c \in Calls, Transmit(c)
    PROVE  IInv'
<1> DEFINE to == Peer(At[c])
<1>0. to \in Ends /\ At[c] = Peer(to) /\ At[c] \in Ends
  BY EndsLemma
<1>1. /\ pc[c] = "listed" /\ wire' = Sent(wire, to, Data(c))
      /\ \E p \in {"sent", "done"} : pc' = [pc EXCEPT ![c] = p]
      /\ \/ result' = result
         \/ \E v \in {"ok", "failed"} : result' = [result EXCEPT ![c] = v]
      /\ UNCHANGED <<inside, about, list, current, linkUp, hung, handled, answered, received>>
  BY DEF Transmit, listVars, historyVars
<1> HIDE DEF to
<1>2. wire \in [Ends -> Seq(Messages)]
  BY DEF IInv, BaseTypes
<1>3. /\ wire' \in [Ends -> Seq(Messages)]
      /\ \A f \in Ends, x \in Messages : In(wire'[f], x) => In(wire[f], x) \/ (f = to /\ x = Data(c))
      /\ \A f \in Ends : wire[f] # <<>> => wire'[f] # <<>> /\ Head(wire'[f]) = Head(wire[f])
  <2>1. Data(c) \in Messages
    BY MessagesLemma
  <2>2. /\ Sent(wire, to, Data(c)) \in [Ends -> Seq(Messages)]
        /\ \A f \in Ends, x \in Messages :
              In(Sent(wire, to, Data(c))[f], x) => In(wire[f], x) \/ (f = to /\ x = Data(c))
        /\ \A f \in Ends : wire[f] # <<>> =>
              Sent(wire, to, Data(c))[f] # <<>> /\ Head(Sent(wire, to, Data(c))[f]) = Head(wire[f])
    BY <1>0, <1>2, <2>1, SentLemma
  <2> QED
    BY <1>1, <2>2, Zenon
<1>4. BaseTypes'
  BY <1>1, <1>3 DEF IInv, BaseTypes
<1>5. Forward
  BY <1>1 DEF IInv, BaseTypes, Forward
<1>6. Calm
  BY <1>1 DEF IInv, BaseTypes, Calm
<1>7. Right(to, Data(c))'
  <2>1. pc'[c] \notin {"idle", "listed"}
    BY <1>1 DEF IInv, BaseTypes
  <2>2. Kind[c] = "response" => about'[c] \in received'[At[c]]
    BY <1>1 DEF IInv, KnownInv
  <2> QED
    BY <1>0, <2>1, <2>2, MessagesLemma DEF Right
<1>8. WireInv'
  <2>1. \A f \in Ends, x \in Messages : In(wire'[f], x) => In(wire[f], x) \/ Right(f, x)'
    BY <1>3, <1>7
  <2> QED
    BY <1>1, <1>5, <2>1, WireForward
<1>9. CurrentInv'
  BY <1>1, <1>3 DEF IInv, CurrentInv
<1>10. ListInv'
  BY <1>1, <1>5, ListForward DEF IInv, ListInv
<1>11. KnownInv' /\ InsideInv' /\ InnerRequestStarves' /\ ResponseWasSent'
  BY <1>1, <1>5, <1>6, CalmLemma DEF IInv, KnownInv
<1>12. ReplyAfterCallback'
  BY <1>1 DEF IInv, ReplyAfterCallback
<1> QED
  BY <1>4, <1>8, <1>9, <1>10, <1>11, <1>12 DEF IInv

(* The timer of the ReplyHandler changes the list of its process.          *)
LEMMA TimerLemma ==
    ASSUME IInv, NEW e \in Ends, NEW l \in Seq(Entries),
           Distinct(l), \A d : Listed(l, d) => Listed(list[e], d),
           list' = [list EXCEPT ![e] = l],
           UNCHANGED <<callVars, current, hung, networkVars, historyVars>>
    PROVE  IInv'
<1>1. UNCHANGED <<pc, result, inside, about, current, hung, wire, linkUp,
                  handled, answered, received>>
  BY DEF callVars, networkVars, historyVars
<1>2. \A f \in Ends : list[f] \in Seq(Entries) /\ Distinct(list[f])
  BY DEF IInv, BaseTypes, ListInv
<1>3. \A f \in Ends : /\ list'[f] \in Seq(Entries)
                     /\ Distinct(list'[f])
                     /\ \A d : Listed(list'[f], d) => Listed(list[f], d)
  <2>1. list'[e] = l /\ \A f \in Ends : f # e => list'[f] = list[f]
    BY DEF IInv, BaseTypes
  <2> QED
    BY <1>2, <2>1
<1>4. BaseTypes'
  <2>1. list' \in [Ends -> Seq(Entries)]
    BY <1>3 DEF IInv, BaseTypes
  <2> QED
    BY <1>1, <2>1 DEF IInv, BaseTypes
<1>5. Forward /\ Calm
  BY <1>1 DEF Forward, Calm
<1>6. WireInv'
  BY <1>1, <1>5, WireForward
<1>7. CurrentInv'
  BY <1>1 DEF IInv, CurrentInv
<1>8. ListInv'
  BY <1>1, <1>3, <1>5, ListForward
<1>9. KnownInv' /\ InsideInv' /\ InnerRequestStarves' /\ ResponseWasSent'
  BY <1>1, <1>5, CalmLemma DEF IInv, KnownInv
<1>10. ReplyAfterCallback'
  BY <1>1 DEF IInv, ReplyAfterCallback
<1> QED
  BY <1>4, <1>6, <1>7, <1>8, <1>9, <1>10 DEF IInv

(* It counts the entries up to the first one that is due.                  *)
LEMMA MakeTimerStepStep ==
    ASSUME IInv, NEW e \in Ends, MakeTimerStep(e)
    PROVE  IInv'
<1>1. PICK last : list' = [list EXCEPT ![e] = Ticked(list[e], last)]
  BY DEF MakeTimerStep
<1>2. list[e] \in Seq(Entries) /\ Distinct(list[e])
  BY DEF IInv, BaseTypes, ListInv
<1>3. /\ Ticked(list[e], last) \in Seq(Entries)
      /\ Distinct(Ticked(list[e], last))
      /\ \A d : Listed(Ticked(list[e], last), d) <=> Listed(list[e], d)
  BY <1>2, TickedLemma
<1>4. UNCHANGED <<callVars, current, hung, networkVars, historyVars>>
  BY DEF MakeTimerStep
<1> QED
  BY <1>1, <1>3, <1>4, TimerLemma

(* Whatever the pointer leads to, at most one entry leaves.                *)
LEMMA RemoveDueStep ==
    ASSUME IInv, NEW e \in Ends, RemoveDue(e)
    PROVE  IInv'
<1>1. PICK c : list' = [list EXCEPT ![e] = RemoveMessage(list[e], c)]
  BY DEF RemoveDue, IInv, BaseTypes
<1>2. list[e] \in Seq(Entries) /\ Distinct(list[e])
  BY DEF IInv, BaseTypes, ListInv
<1>3. /\ RemoveMessage(list[e], c) \in Seq(Entries)
      /\ Distinct(RemoveMessage(list[e], c))
      /\ \A d : Listed(RemoveMessage(list[e], c), d) => Listed(list[e], d)
  BY <1>2, RemoveMessageLemma
<1>4. UNCHANGED <<callVars, current, hung, networkVars, historyVars>>
  BY DEF RemoveDue
<1> QED
  BY <1>1, <1>3, <1>4, TimerLemma

(* The report leaves the list alone.                                       *)
LEMMA ReportDueStep ==
    ASSUME IInv, NEW e \in Ends, ReportDue(e)
    PROVE  IInv'
<1>1. /\ list[e] \in Seq(Entries) /\ Distinct(list[e])
      /\ list' = [list EXCEPT ![e] = list[e]]
  BY DEF ReportDue, IInv, BaseTypes, ListInv
<1>2. UNCHANGED <<callVars, current, hung, networkVars, historyVars>>
  BY DEF ReportDue
<1> QED
  BY <1>1, <1>2, TimerLemma

(* The receive thread sends a reply, or not, and takes the next message.   *)
LEMMA AnswerLemma ==
    ASSUME IInv, NEW e \in Ends, NEW c \in Calls, wire[e] # <<>>,
           \/ wire' = Sent(Consumed(e), Peer(e), Reply(c))
           \/ wire' = Consumed(e)
    PROVE  /\ wire' \in [Ends -> Seq(Messages)]
           /\ \A f \in Ends, x \in Messages :
                 In(wire'[f], x) => In(wire[f], x) \/ (f = Peer(e) /\ x = Reply(c))
           /\ \A f \in Ends : f # e /\ wire[f] # <<>> =>
                 wire'[f] # <<>> /\ Head(wire'[f]) = Head(wire[f])
<1> DEFINE box == Consumed(e)
<1>1. /\ box \in [Ends -> Seq(Messages)]
      /\ \A f \in Ends, x \in Messages : In(box[f], x) => In(wire[f], x)
      /\ \A f \in Ends : f # e => box[f] = wire[f]
  BY ConsumedLemma DEF IInv, BaseTypes
<1> HIDE DEF box
<1>2. Peer(e) \in Ends /\ Reply(c) \in Messages
  BY EndsLemma, MessagesLemma
<1>3. /\ Sent(box, Peer(e), Reply(c)) \in [Ends -> Seq(Messages)]
      /\ \A f \in Ends, x \in Messages :
            In(Sent(box, Peer(e), Reply(c))[f], x) => In(box[f], x) \/ (f = Peer(e) /\ x = Reply(c))
      /\ \A f \in Ends : box[f] # <<>> =>
            /\ Sent(box, Peer(e), Reply(c))[f] # <<>>
            /\ Head(Sent(box, Peer(e), Reply(c))[f]) = Head(box[f])
  BY <1>1, <1>2, SentLemma
<1>4. CASE wire' = Sent(box, Peer(e), Reply(c))
  BY <1>1, <1>3, <1>4
<1>5. CASE wire' = box
  BY <1>1, <1>5
<1> QED
  BY <1>4, <1>5 DEF box

(* A reply clears the entry of its message.                                *)
LEMMA ReceiveReplyStep ==
    ASSUME IInv, NEW e \in Ends, ReceiveReply(e)
    PROVE  IInv'
<1> DEFINE m == Head(wire[e])
           c == m.call
<1>1. /\ wire[e] # <<>> /\ current[e] = Nobody /\ m.type = "reply"
      /\ list' = [list EXCEPT ![e] = RemoveMessage(@, c)]
      /\ answered' = answered \cup {c}
      /\ wire' = Consumed(e)
      /\ UNCHANGED <<pc, result, inside, about, current, hung, linkUp, handled, received>>
  BY DEF ReceiveReply, ClearAnswered, Receives, callVars
<1>2. m \in Messages /\ In(wire[e], m)
  BY <1>1, HeadLemma DEF IInv, BaseTypes
<1>3. c \in Calls /\ Right(e, m)
  BY <1>2 DEF IInv, WireInv, Messages
<1>4. At[c] = e /\ c \in handled
  BY <1>1, <1>3 DEF Right
<1> HIDE DEF m, c
<1>5. \A f \in Ends : list[f] \in Seq(Entries) /\ Distinct(list[f])
  BY DEF IInv, BaseTypes, ListInv
<1>6. \A f \in Ends : /\ list'[f] \in Seq(Entries)
                     /\ Distinct(list'[f])
                     /\ \A d : Listed(list'[f], d) => Listed(list[f], d) /\ (f = e => d # c)
  <2>1. list'[e] = RemoveMessage(list[e], c) /\ \A f \in Ends : f # e => list'[f] = list[f]
    BY <1>1 DEF IInv, BaseTypes
  <2>2. /\ RemoveMessage(list[e], c) \in Seq(Entries)
        /\ Distinct(RemoveMessage(list[e], c))
        /\ \A d : Listed(RemoveMessage(list[e], c), d) => d # c /\ Listed(list[e], d)
    BY <1>5, RemoveMessageLemma
  <2> QED
    BY <1>5, <2>1, <2>2
<1>7. /\ wire' \in [Ends -> Seq(Messages)]
      /\ \A f \in Ends, x \in Messages : In(wire'[f], x) => In(wire[f], x)
      /\ \A f \in Ends : f # e => wire'[f] = wire[f]
  BY <1>1, ConsumedLemma, Zenon DEF IInv, BaseTypes
<1>8. BaseTypes'
  <2>1. list' \in [Ends -> Seq(Entries)]
    BY <1>1, <1>6 DEF IInv, BaseTypes
  <2> QED
    BY <1>1, <1>3, <1>7, <2>1 DEF IInv, BaseTypes
<1>9. Forward /\ Calm
  BY <1>1 DEF Forward, Calm
<1>10. WireInv'
  BY <1>1, <1>7, <1>9, WireForward
<1>11. CurrentInv'
  BY <1>1, <1>7 DEF IInv, CurrentInv
<1>12. ListInv'
  <2>1. \A f \in Ends, d \in Calls : Listed(list[f], d) => At[d] = f
    BY DEF IInv, ListInv, Waits
  <2>2. ASSUME NEW f \in Ends, NEW d \in Calls, Listed(list'[f], d)
        PROVE  Listed(list[f], d) /\ (d \in answered' => d \in answered)
    <3>1. Listed(list[f], d) /\ (f = e => d # c)
      BY <1>6, <2>2
    <3>2. d # c
      BY <1>4, <2>1, <3>1
    <3> QED
      BY <1>1, <3>1, <3>2
  <2> QED
    BY <1>6, <1>9, <2>2, ListForward
<1>13. KnownInv' /\ InsideInv' /\ InnerRequestStarves' /\ ResponseWasSent'
  BY <1>1, <1>9, CalmLemma DEF IInv, KnownInv
<1>14. ReplyAfterCallback'
  BY <1>1, <1>4 DEF IInv, ReplyAfterCallback
<1> QED
  BY <1>8, <1>10, <1>11, <1>12, <1>13, <1>14 DEF IInv

(* A message goes to its callback.                                         *)
LEMMA ReceiveDataStep ==
    ASSUME IInv, NEW e \in Ends, ReceiveData(e)
    PROVE  IInv'
<1> DEFINE m == Head(wire[e])
           c == m.call
<1>1. /\ wire[e] # <<>> /\ current[e] = Nobody /\ m.type = "data"
      /\ current' = [current EXCEPT ![e] = c]
      /\ received' = received \/ received' = [received EXCEPT ![e] = @ \cup {c}]
      /\ UNCHANGED <<pc, result, inside, about, list, hung, wire, linkUp, handled, answered>>
  <2>1. received' = [received EXCEPT ![e] =
                        IF Kind[c] \in {"normal", "request"} THEN @ \cup {c} ELSE @]
    BY DEF ReceiveData
  <2>2. received' = received \/ received' = [received EXCEPT ![e] = @ \cup {c}]
    BY <2>1 DEF IInv, BaseTypes
  <2> QED
    BY <2>2 DEF ReceiveData, Receives, listVars, callVars, networkVars
<1>2. m \in Messages /\ In(wire[e], m)
  BY <1>1, HeadLemma DEF IInv, BaseTypes
<1>3. c \in Calls /\ m = Data(c) /\ Right(e, m)
  BY <1>1, <1>2 DEF IInv, WireInv, Messages, Data
<1>4. At[c] = Peer(e)
  BY <1>1, <1>3 DEF Right
<1> HIDE DEF c
<1>5. BaseTypes'
  <2>1. /\ received \in [Ends -> SUBSET Calls] /\ current \in [Ends -> Calls \cup {Nobody}]
        /\ received[e] \cup {c} \in SUBSET Calls
    BY <1>3 DEF IInv, BaseTypes
  <2>2. received' \in [Ends -> SUBSET Calls]
    BY <1>1, <2>1
  <2>3. current' \in [Ends -> Calls \cup {Nobody}]
    BY <1>1, <1>3, <2>1
  <2> QED
    BY <1>1, <2>2, <2>3 DEF IInv, BaseTypes
<1>6. Forward /\ Calm
  BY <1>1 DEF Forward, Calm, IInv, BaseTypes
<1>7. WireInv'
  BY <1>1, <1>6, WireForward
<1>8. CurrentInv'
  BY <1>1, <1>3 DEF IInv, BaseTypes, CurrentInv
<1>9. ListInv'
  BY <1>1, <1>6, ListForward DEF IInv, ListInv
<1>10. \A f \in Ends : \A d \in received'[f] : At[d] = Peer(f)
  <2>1. \A f \in Ends : received'[f] = received[f]
                       \/ (f = e /\ received'[f] = received[f] \cup {c})
    BY <1>1 DEF IInv, BaseTypes
  <2>2. \A f \in Ends : \A d \in received[f] : At[d] = Peer(f)
    BY DEF IInv, KnownInv
  <2> QED
    BY <1>4, <2>1, <2>2
<1>11. \A d \in inside : current[At[d]] # Nobody => current'[At[d]] # Nobody
  BY <1>1, <1>3, EndsLemma DEF IInv, BaseTypes
<1>12. KnownInv' /\ InsideInv' /\ InnerRequestStarves' /\ ResponseWasSent'
  BY <1>6, <1>10, <1>11, CalmLemma
<1>13. ReplyAfterCallback'
  BY <1>1 DEF IInv, ReplyAfterCallback
<1> QED
  BY <1>5, <1>7, <1>8, <1>9, <1>12, <1>13 DEF IInv

(* A callback comes to its end, and the reply is sent.                     *)
LEMMA CallbackReturnsStep ==
    ASSUME IInv, NEW e \in Ends, CallbackReturns(e)
    PROVE  IInv'
<1>0. PICK c \in Calls : c = current[e]
  BY DEF CallbackReturns, IInv, BaseTypes
<1>1. /\ c # Nobody /\ ~InnerCall(e)
      /\ \/ wire' = Sent(Consumed(e), Peer(e), Reply(c))
         \/ wire' = Consumed(e)
      /\ handled' = handled \cup {c}
      /\ current' = [current EXCEPT ![e] = Nobody]
      /\ UNCHANGED <<pc, result, inside, about, list, linkUp, hung, answered, received>>
  BY <1>0 DEF CallbackReturns, listVars, callVars
<1>2. wire[e] # <<>> /\ Head(wire[e]) = Data(c)
  BY <1>0, <1>1 DEF IInv, CurrentInv
<1>3. Right(e, Data(c))
  <2>1. Data(c) \in Messages /\ In(wire[e], Data(c))
    BY <1>2, HeadLemma, MessagesLemma DEF IInv, BaseTypes
  <2> QED
    BY <2>1 DEF IInv, WireInv
<1>4. At[c] = Peer(e) /\ pc[c] \notin {"idle", "listed"}
  BY <1>3, MessagesLemma DEF Right
<1>5. \A d \in inside : Busy(d) => At[d] # e
  BY <1>1 DEF InnerCall
<1>6. /\ wire' \in [Ends -> Seq(Messages)]
      /\ \A f \in Ends, x \in Messages :
            In(wire'[f], x) => In(wire[f], x) \/ (f = Peer(e) /\ x = Reply(c))
      /\ \A f \in Ends : f # e /\ wire[f] # <<>> =>
            wire'[f] # <<>> /\ Head(wire'[f]) = Head(wire[f])
  BY <1>1, <1>2, AnswerLemma
<1>7. BaseTypes'
  BY <1>1, <1>6 DEF IInv, BaseTypes
<1>8. Forward /\ Calm
  BY <1>1 DEF Forward, Calm
<1>9. WireInv'
  <2>1. Right(Peer(e), Reply(c))'
    BY <1>1, <1>4, MessagesLemma DEF Right
  <2>2. \A f \in Ends, x \in Messages : In(wire'[f], x) => In(wire[f], x) \/ Right(f, x)'
    BY <1>6, <2>1
  <2> QED
    BY <1>1, <1>4, <1>8, <2>2, WireForward
<1>10. CurrentInv'
  BY <1>1, <1>6 DEF IInv, BaseTypes, CurrentInv
<1>11. ListInv'
  BY <1>1, <1>8, ListForward DEF IInv, ListInv
<1>12. \A d \in inside : Busy(d) /\ current[At[d]] # Nobody => current'[At[d]] # Nobody
  BY <1>1, <1>5, EndsLemma DEF IInv, BaseTypes
<1>13. KnownInv' /\ InsideInv' /\ InnerRequestStarves' /\ ResponseWasSent'
  BY <1>1, <1>8, <1>12, CalmLemma DEF IInv, KnownInv
<1>14. ReplyAfterCallback'
  BY <1>1 DEF IInv, ReplyAfterCallback
<1> QED
  BY <1>7, <1>9, <1>10, <1>11, <1>13, <1>14 DEF IInv

(* A response wakes the request it answers, and never an inner one: its    *)
(* receive thread would have to read it.                                   *)
LEMMA ReceiveResponseStep ==
    ASSUME IInv, NEW e \in Ends, ReceiveResponse(e)
    PROVE  IInv'
<1>1. wire[e] # <<>> /\ current[e] = Nobody /\ Head(wire[e]).type = "data"
  BY DEF ReceiveResponse, Receives
<1>2. Head(wire[e]) \in Messages /\ In(wire[e], Head(wire[e]))
  BY <1>1, HeadLemma DEF IInv, BaseTypes
<1>3. PICK c \in Calls : c = Head(wire[e]).call
  BY <1>2 DEF Messages
<1>4. /\ Kind[c] = "response" /\ At[c] = Peer(e) /\ pc[c] \notin {"idle", "listed"}
      /\ about[c] \in received[Peer(e)]
  <2>1. Right(e, Head(wire[e]))
    BY <1>2 DEF IInv, WireInv
  <2> QED
    BY <1>1, <1>3, <2>1 DEF Right, ReceiveResponse
<1>5. PICK r \in Calls : r = about[c] /\ At[r] = e /\ r \in received[Peer(e)]
  BY <1>4, EndsLemma DEF IInv, BaseTypes, KnownInv
<1>6. /\ \/ HasBlocker(r) /\ pc' = [pc EXCEPT ![r] = "woken"]
                        /\ result' = [result EXCEPT ![r] = "response"]
         \/ ~HasBlocker(r) /\ UNCHANGED <<pc, result>>
      /\ wire' = Sent(Consumed(e), Peer(e), Reply(c))
      /\ handled' = handled \cup {c}
      /\ UNCHANGED <<inside, about, list, current, linkUp, hung, answered, received>>
  BY <1>3, <1>5 DEF ReceiveResponse, listVars
<1>7. /\ wire' \in [Ends -> Seq(Messages)]
      /\ \A f \in Ends, x \in Messages :
            In(wire'[f], x) => In(wire[f], x) \/ (f = Peer(e) /\ x = Reply(c))
      /\ \A f \in Ends : f # e /\ wire[f] # <<>> =>
            wire'[f] # <<>> /\ Head(wire'[f]) = Head(wire[f])
  BY <1>1, <1>6, AnswerLemma
<1>8. \A d \in Calls :
         \/ pc'[d] = pc[d] /\ result'[d] = result[d]
         \/ /\ d = r /\ pc[d] \in {"blocked", "woken"} /\ pc'[d] = "woken"
            /\ result'[d] = "response"
  BY <1>6 DEF IInv, BaseTypes, HasBlocker
<1>9. BaseTypes'
  <2>1. pc' \in [Calls -> {"idle", "listed", "sent", "blocked", "woken", "asleep", "done"}]
    BY <1>6 DEF IInv, BaseTypes
  <2>2. result' \in [Calls -> {"none", "ok", "failed", "response"}]
    BY <1>6 DEF IInv, BaseTypes
  <2> QED
    BY <1>6, <1>7, <2>1, <2>2 DEF IInv, BaseTypes
<1>10. Forward
  BY <1>6, <1>8 DEF Forward
<1>11. WireInv'
  <2>1. Right(Peer(e), Reply(c))'
    BY <1>4, <1>6, MessagesLemma DEF Right
  <2>2. \A f \in Ends, x \in Messages : In(wire'[f], x) => In(wire[f], x) \/ Right(f, x)'
    BY <1>7, <2>1
  <2>3. pc'[c] \notin {"idle", "listed"}
    BY <1>4, <1>8
  <2> QED
    BY <1>6, <1>10, <2>2, <2>3, WireForward
<1>12. CurrentInv'
  BY <1>1, <1>6, <1>7 DEF IInv, CurrentInv
<1>13. KnownInv'
  <2>1. \A d \in Calls : pc'[d] = "listed" => pc[d] = "listed"
    BY <1>8
  <2>2. \A d \in Calls : result'[d] = "response" => pc'[d] # "idle"
    BY <1>8 DEF IInv, KnownInv
  <2> QED
    BY <1>6, <2>1, <2>2 DEF IInv, KnownInv
<1>14. ListInv'
  BY <1>6, <1>10, ListForward DEF IInv, ListInv
<1>15. \A d \in inside : d \in Calls /\ pc[d] # "idle"
                          /\ (pc[d] # "done" => current[At[d]] # Nobody)
  BY DEF IInv, BaseTypes, InsideInv, Busy
<1>16. InsideInv'
  BY <1>6, <1>8, <1>15 DEF InsideInv, Busy
<1>17. InnerRequestStarves'
  <2>1. ASSUME NEW d \in inside, Kind[d] = "request"
        PROVE  pc'[d] # "woken" /\ result'[d] # "response"
    <3>1. pc[d] # "woken" /\ result[d] # "response"
      BY <2>1 DEF IInv, InnerRequestStarves
    <3>2. CASE d = r /\ pc[d] \in {"blocked", "woken"}
      BY <1>1, <1>5, <1>15, <3>2
    <3> QED
      BY <1>8, <1>15, <3>1, <3>2
  <2> QED
    BY <1>6, <2>1 DEF InnerRequestStarves
<1>18. ReplyAfterCallback'
  BY <1>6 DEF IInv, ReplyAfterCallback
<1>19. ResponseWasSent'
  <2>1. ASSUME NEW d \in Calls, result'[d] = "response"
        PROVE  \E q \in handled' : Kind[q] = "response" /\ about'[q] = d /\ d \in received'[At[q]]
    <3>1. CASE result[d] = "response"
      BY <1>10, <3>1, ResponseForward
    <3>2. CASE d = r
      <4>1. c \in handled' /\ about'[c] = d /\ d \in received'[At[c]]
        BY <1>4, <1>5, <1>6, <3>2
      <4> QED
        BY <1>4, <4>1
    <3> QED
      BY <1>8, <2>1, <3>1, <3>2
  <2> QED
    BY <2>1 DEF ResponseWasSent
<1> QED
  BY <1>9, <1>11, <1>12, <1>13, <1>14, <1>16, <1>17, <1>18, <1>19 DEF IInv

-----------------------------------------------------------------------------
(* The invariant holds in every state.                                     *)

(* Nothing was called and nothing is on its way.                           *)
LEMMA InvInit == Init => IInv
<1> SUFFICES ASSUME Init PROVE IInv
  OBVIOUS
<1> USE DEF Init
<1>1. BaseTypes
  BY DEF BaseTypes
<1>2. WireInv
  BY DEF WireInv, In
<1>3. CurrentInv
  BY DEF CurrentInv
<1>4. KnownInv
  BY DEF KnownInv
<1>5. ListInv
  BY DEF ListInv, Distinct, Listed
<1>6. InsideInv /\ ReplyAfterCallback /\ InnerRequestStarves /\ ResponseWasSent
  BY DEF InsideInv, ReplyAfterCallback, InnerRequestStarves, ResponseWasSent
<1> QED
  BY <1>1, <1>2, <1>3, <1>4, <1>5, <1>6 DEF IInv

(* Every step keeps the invariant.                                         *)
LEMMA InvStep == IInv /\ [Next]_vars => IInv'
<1> SUFFICES ASSUME IInv, [Next]_vars PROVE IInv'
  OBVIOUS
<1>1. CASE UNCHANGED vars
  BY <1>1, StutterStep
<1>2. ASSUME NEW c \in Calls, NEW m \in Calls \cup {Nobody}, Begin(c, m)
      PROVE  IInv'
  BY <1>2, BeginStep
<1>3. ASSUME NEW c \in Calls, Refused(c) \/ Sends(c) \/ RequestTimeout(c)
      PROVE  IInv'
  BY <1>3, RefusedStep, TransmitStep, BlockStep, ReturnStep, RequestTimeoutStep DEF Sends
<1>4. ASSUME NEW e \in Ends, Receive(e) \/ CallbackReturns(e) \/ Timer(e)
      PROVE  IInv'
  BY <1>4, ReceiveReplyStep, ReceiveResponseStep, ReceiveDataStep, CallbackReturnsStep,
     MakeTimerStepStep, RemoveDueStep, ReportDueStep DEF Receive, Timer
<1>5. CASE Break
  BY <1>5, BreakStep
<1> QED
  BY <1>1, <1>2, <1>3, <1>4, <1>5 DEF Next

(* The invariant holds in every state.                                     *)
THEOREM Invariance == Spec => []IInv
BY InvInit, InvStep, PTL DEF Spec

-----------------------------------------------------------------------------
(* The pointer of the timer.                                               *)

TimerTypes ==
    /\ walk \in [Ends -> {"idle", "due", "removed"}]
    /\ temp \in [Ends -> Nat \cup {Dangling}]
    /\ behind \in [Ends -> Calls \cup {Nobody}]
    /\ late \in [Ends -> SUBSET Calls]
    /\ reported \in SUBSET Calls

(* Without a step of the timer there is no pointer.  What is left behind   *)
(* the list was not answered when the timer chose its entry.               *)
PointerInv ==
    \A e \in Ends :
        /\ walk[e] = "idle" => temp[e] = 0 /\ behind[e] = Nobody
        /\ behind[e] # Nobody => At[behind[e]] = e /\ behind[e] \notin answered \ late[e]

(* The pointer leads to a message or to nothing; unless it dangles, that   *)
(* message was not answered before.                                        *)
LEMMA PointedLemma ==
    ASSUME IInv, TimerTypes, PointerInv, NEW e \in Ends, NEW c \in Pointed(e)
    PROVE  /\ c \in Calls \cup {Nobody}
           /\ temp[e] # Dangling => c \notin answered \ late[e]
<1>1. CASE temp[e] = Dangling
  BY <1>1 DEF Pointed
<1>2. CASE temp[e] # Dangling /\ temp[e] \in DOMAIN list[e]
  <2>1. c = list[e][temp[e]].call /\ list[e] \in Seq(Entries)
    BY <1>2 DEF Pointed, IInv, BaseTypes
  <2>2. list[e][temp[e]] \in Entries
    BY <1>2, <2>1
  <2>3. c \in Calls /\ Listed(list[e], c)
    BY <1>2, <2>1, <2>2 DEF Entries, Listed
  <2> QED
    BY <2>3 DEF IInv, ListInv, Waits
<1>3. CASE temp[e] # Dangling /\ temp[e] \notin DOMAIN list[e]
  <2>1. c = behind[e]
    BY <1>3 DEF Pointed
  <2>2. Nobody \notin answered
    BY EndsLemma DEF IInv, BaseTypes
  <2> QED
    BY <2>1, <2>2 DEF TimerTypes, PointerInv
<1> QED
  BY <1>1, <1>2, <1>3

(* A message that leaves the list may stay behind it.                      *)
LEMMA LeftBehindLemma ==
    ASSUME IInv, TimerTypes, PointerInv, NEW e \in Ends, NEW c \in Calls \cup {Nobody}
    PROVE  \/ LeftBehind(e, c) = behind
           \/ /\ LeftBehind(e, c) = [behind EXCEPT ![e] = c]
              /\ c \in Calls /\ At[c] = e /\ c \notin answered /\ walk[e] # "idle"
<1>1. CASE ~(Listed(list[e], c) /\ temp[e] = Len(list[e]))
  BY <1>1 DEF LeftBehind
<1>2. CASE Listed(list[e], c) /\ temp[e] = Len(list[e])
  <2>1. list[e] \in Seq(Entries)
    BY DEF IInv, BaseTypes
  <2>2. PICK i \in 1 .. Len(list[e]) : list[e][i].call = c
    BY <1>2, <2>1 DEF Listed
  <2>3. c \in Calls /\ temp[e] # 0
    <3>1. list[e][i] \in Entries /\ Len(list[e]) # 0
      BY <2>1, <2>2
    <3> QED
      BY <1>2, <2>2, <3>1 DEF Entries
  <2>4. At[c] = e /\ c \notin answered /\ walk[e] # "idle"
    BY <1>2, <2>3 DEF IInv, ListInv, Waits, PointerInv
  <2> QED
    BY <1>2, <2>3, <2>4 DEF LeftBehind
<1> QED
  BY <1>1, <1>2

(* The list may move while it is unlocked, and only then is there a        *)
(* pointer that begins to dangle.                                          *)
LEMMA PointerAtBegin ==
    ASSUME IInv, TimerTypes, PointerInv, NEW c \in Calls, NEW m, Begin(c, m)
    PROVE  TimerTypes' /\ PointerInv'
<1>1. UNCHANGED <<walk, behind, late, reported, answered>>
  BY DEF Begin, listVars, timerVars, historyVars
<1>2. \/ UNCHANGED temp
      \/ temp[At[c]] # 0 /\ temp' = [temp EXCEPT ![At[c]] = Dangling]
  BY DEF Begin, listVars, timerVars
<1>3. TimerTypes'
  BY <1>1, <1>2 DEF TimerTypes
<1>4. \A e \in Ends : temp[e] = 0 => temp'[e] = 0
  BY <1>2, EndsLemma DEF TimerTypes
<1> QED
  BY <1>1, <1>3, <1>4 DEF PointerInv

(* A reply that comes while the list is unlocked is a late one.            *)
LEMMA PointerAtReply ==
    ASSUME IInv, TimerTypes, PointerInv, NEW e \in Ends, ReceiveReply(e)
    PROVE  TimerTypes' /\ PointerInv'
<1>1. PICK c : /\ c = Head(wire[e]).call
               /\ Receives(e, "reply") /\ ClearAnswered(e, c)
  BY DEF ReceiveReply
<1>2. c \in Calls /\ At[c] = e
  <2>1. Head(wire[e]) \in Messages /\ In(wire[e], Head(wire[e])) /\ Head(wire[e]).type = "reply"
    BY <1>1, HeadLemma DEF Receives, IInv, BaseTypes
  <2>2. Right(e, Head(wire[e]))
    BY <2>1 DEF IInv, WireInv
  <2> QED
    BY <1>1, <2>1, <2>2 DEF Right, Messages
<1>3. /\ UNCHANGED <<walk, temp, reported>>
      /\ behind' = LeftBehind(e, c)
      /\ answered' = answered \cup {c}
      /\ late' = IF walk[e] = "idle" THEN late ELSE [late EXCEPT ![e] = @ \cup {c}]
  BY <1>1 DEF ClearAnswered
<1>4. \/ behind' = behind
      \/ behind' = [behind EXCEPT ![e] = c] /\ walk[e] # "idle"
  BY <1>2, <1>3, LeftBehindLemma
<1>5. TimerTypes'
  BY <1>2, <1>3, <1>4 DEF TimerTypes
<1>6. ASSUME NEW f \in Ends
      PROVE  /\ walk'[f] = "idle" => temp'[f] = 0 /\ behind'[f] = Nobody
             /\ behind'[f] # Nobody => At[behind'[f]] = f /\ behind'[f] \notin answered' \ late'[f]
  <2>0. /\ walk[f] = "idle" => temp[f] = 0 /\ behind[f] = Nobody
        /\ behind[f] # Nobody => At[behind[f]] = f /\ behind[f] \notin answered \ late[f]
    BY DEF PointerInv
  <2>1. CASE f # e
    <3>1. behind'[f] = behind[f] /\ late'[f] = late[f]
      BY <1>3, <1>4, <2>1 DEF TimerTypes
    <3> QED
      BY <1>2, <1>3, <2>0, <2>1, <3>1
  <2>2. CASE f = e /\ walk[e] = "idle"
    BY <1>3, <1>4, <2>0, <2>2
  <2>3. CASE f = e /\ walk[e] # "idle"
    <3>1. late'[f] = late[f] \cup {c} /\ behind'[f] \in {behind[f], c}
      BY <1>3, <1>4, <2>3 DEF TimerTypes
    <3> QED
      BY <1>2, <1>3, <2>0, <2>3, <3>1
  <2> QED
    BY <2>1, <2>2, <2>3
<1> QED
  BY <1>5, <1>6 DEF PointerInv

(* The timer itself: it takes the pointer, removes and reports.            *)
LEMMA PointerAtTimer ==
    ASSUME IInv, TimerTypes, PointerInv, NEW e \in Ends, Timer(e)
    PROVE  TimerTypes' /\ PointerInv'
<1>0. UNCHANGED answered
  BY DEF Timer, MakeTimerStep, RemoveDue, ReportDue, historyVars
<1>1. CASE MakeTimerStep(e)
  <2>1. UNCHANGED <<behind, late, reported>>
    BY <1>1 DEF MakeTimerStep
  <2>2. \/ UNCHANGED <<walk, temp>>
        \/ /\ Due(list[e]) # {}
           /\ walk' = [walk EXCEPT ![e] = "due"]
           /\ temp' = [temp EXCEPT ![e] = First(Due(list[e]))]
    BY <1>1 DEF MakeTimerStep
  <2>3. ASSUME Due(list[e]) # {}
        PROVE  First(Due(list[e])) \in Nat
    <3>1. list[e] \in Seq(Entries)
      BY DEF IInv, BaseTypes
    <3>2. Due(list[e]) \in SUBSET Nat
      BY <3>1 DEF Due
    <3> QED
      BY <2>3, <3>2, FirstLemma
  <2>4. TimerTypes'
    BY <2>1, <2>2, <2>3 DEF TimerTypes
  <2>5. \A f \in Ends : walk'[f] = "idle" => walk[f] = "idle" /\ temp'[f] = temp[f]
    BY <2>2 DEF TimerTypes
  <2> QED
    BY <1>0, <2>1, <2>4, <2>5 DEF PointerInv
<1>2. CASE RemoveDue(e)
  <2>1. PICK c \in Pointed(e) : behind' = LeftBehind(e, c)
    BY <1>2 DEF RemoveDue
  <2>2. /\ walk' = [walk EXCEPT ![e] = "removed"]
        /\ UNCHANGED <<temp, late, reported>>
    BY <1>2 DEF RemoveDue
  <2>3. c \in Calls \cup {Nobody}
    BY PointedLemma
  <2>4. \/ behind' = behind
        \/ /\ behind' = [behind EXCEPT ![e] = c]
           /\ c \in Calls /\ At[c] = e /\ c \notin answered /\ walk[e] # "idle"
    BY <2>1, <2>3, LeftBehindLemma
  <2>5. TimerTypes'
    BY <2>2, <2>4 DEF TimerTypes
  <2>6. \A f \in Ends : walk'[f] = "idle" => walk[f] = "idle" /\ f # e
    BY <2>2 DEF TimerTypes
  <2>7. \A f \in Ends : \/ behind'[f] = behind[f]
                        \/ f = e /\ behind'[f] = c /\ At[c] = e /\ c \notin answered
    BY <2>4 DEF TimerTypes
  <2> QED
    BY <1>0, <2>2, <2>5, <2>6, <2>7 DEF PointerInv
<1>3. CASE ReportDue(e)
  <2>1. /\ walk' = [walk EXCEPT ![e] = "idle"]
        /\ temp' = [temp EXCEPT ![e] = 0]
        /\ behind' = [behind EXCEPT ![e] = Nobody]
        /\ late' = [late EXCEPT ![e] = {}]
    BY <1>3 DEF ReportDue
  <2>2. reported' = reported \/ \E c \in Pointed(e) : reported' = reported \cup ({c} \ {Nobody})
    BY <1>3 DEF ReportDue
  <2>3. \A c \in Pointed(e) : {c} \ {Nobody} \subseteq Calls
    BY PointedLemma
  <2>4. reported' \in SUBSET Calls
    BY <2>2, <2>3 DEF TimerTypes
  <2>5. TimerTypes'
    BY <2>1, <2>4 DEF TimerTypes
  <2>6. \A f \in Ends : \/ f = e /\ temp'[f] = 0 /\ behind'[f] = Nobody
                        \/ /\ f # e /\ walk'[f] = walk[f] /\ temp'[f] = temp[f]
                           /\ behind'[f] = behind[f] /\ late'[f] = late[f]
    BY <2>1 DEF TimerTypes
  <2> QED
    BY <1>0, <2>5, <2>6 DEF PointerInv
<1> QED
  BY <1>1, <1>2, <1>3 DEF Timer

(* Nobody else touches the pointer.                                        *)
LEMMA PointerStep ==
    IInv /\ TimerTypes /\ PointerInv /\ [Next]_vars => TimerTypes' /\ PointerInv'
<1> SUFFICES ASSUME IInv, TimerTypes, PointerInv, [Next]_vars
             PROVE  TimerTypes' /\ PointerInv'
  OBVIOUS
<1>1. ASSUME UNCHANGED <<timerVars, answered>>
      PROVE  TimerTypes' /\ PointerInv'
  BY <1>1 DEF timerVars, TimerTypes, PointerInv
<1>2. ASSUME NEW c \in Calls, NEW m, Begin(c, m)
      PROVE  TimerTypes' /\ PointerInv'
  BY <1>2, PointerAtBegin
<1>3. ASSUME NEW c \in Calls, Refused(c) \/ Sends(c) \/ RequestTimeout(c)
      PROVE  UNCHANGED <<timerVars, answered>>
  BY <1>3 DEF Refused, Sends, Transmit, Block, Return, RequestTimeout, listVars, historyVars
<1>4. ASSUME NEW e \in Ends, ReceiveResponse(e) \/ ReceiveData(e) \/ CallbackReturns(e)
      PROVE  UNCHANGED <<timerVars, answered>>
  BY <1>4 DEF ReceiveResponse, ReceiveData, CallbackReturns, listVars
<1>5. CASE Break \/ UNCHANGED vars
  <2>1. UNCHANGED <<timerVars, answered>>
    BY <1>5 DEF Break, vars, listVars, historyVars
  <2> QED
    BY <1>1, <2>1
<1> QED
  BY <1>1, <1>2, <1>3, <1>4, <1>5, PointerAtReply, PointerAtTimer DEF Next, Receive

(* The pointer is what the theorems about it need, in every state.         *)
THEOREM PointerInvariance == Spec => [](IInv /\ TimerTypes /\ PointerInv)
<1>1. Init => TimerTypes /\ PointerInv
  BY DEF Init, TimerTypes, PointerInv
<1> QED
  BY <1>1, InvInit, InvStep, PointerStep, PTL DEF Spec

-----------------------------------------------------------------------------
(* The theorems.                                                           *)

(* Every variable keeps its type, among them the timers of the entries,    *)
(* which start at 0 (ReplyHandler::MessageTime), and the pointer.          *)
THEOREM TypeCorrect == Spec => []TypeOK
<1>1. IInv /\ TimerTypes => TypeOK
  BY DEF IInv, BaseTypes, TimerTypes, TypeOK
<1> QED
  BY <1>1, PointerInvariance, PTL

(* A reply tells the sender that the callback of the other application is  *)
(* over, whatever is sent inside of callbacks.                             *)
THEOREM RepliesAfterCallbacks == Spec => []ReplyAfterCallback
<1>1. IInv => ReplyAfterCallback
  BY DEF IInv
<1> QED
  BY <1>1, Invariance, PTL

(* A reply finds its entry or comes after it was removed: the list of the  *)
(* ReplyHandler never holds a message that was answered.                   *)
THEOREM AnsweredLeave == Spec => []AnsweredLeavesList
<1>1. IInv => AnsweredLeavesList
  BY DEF IInv, BaseTypes, ListInv, Waits, AnsweredLeavesList
<1> QED
  BY <1>1, Invariance, PTL

(* What the timer reports was not answered before it chose its entry,      *)
(* wherever its pointer leads to after the swaps of removeMessage, unless  *)
(* the vector was moved.                                                   *)
THEOREM AnsweredAreNotReported == Spec => AnsweredNotReported
<1>1. ASSUME IInv, TimerTypes, PointerInv, [Next]_vars, NEW e \in Ends,
             walk[e] = "removed", walk'[e] = "idle", temp[e] # Dangling
      PROVE  (reported' \ reported) \cap (answered \ late[e]) = {}
  <2>1. ASSUME NEW f \in Ends, ReportDue(f)
        PROVE  f = e
    BY <1>1, <2>1 DEF ReportDue, TimerTypes
  <2>2. ASSUME NEW f \in Ends, MakeTimerStep(f) \/ RemoveDue(f)
        PROVE  FALSE
    BY <1>1, <2>2 DEF MakeTimerStep, RemoveDue, TimerTypes
  <2>3. CASE UNCHANGED walk
    BY <1>1, <2>3
  <2>4. CASE ReportDue(e)
    <3>1. reported' = reported \/ \E c \in Pointed(e) : reported' = reported \cup ({c} \ {Nobody})
      BY <2>4 DEF ReportDue
    <3>2. \A c \in Pointed(e) : c \notin answered \ late[e]
      BY <1>1, PointedLemma
    <3> QED
      BY <3>1, <3>2
  <2>5. ASSUME NEW c \in Calls, Refused(c) \/ Sends(c) \/ RequestTimeout(c)
        PROVE  UNCHANGED walk
    BY <2>5 DEF Refused, Sends, Transmit, Block, Return, RequestTimeout, listVars, timerVars
  <2>6. ASSUME NEW f \in Ends, Receive(f) \/ CallbackReturns(f)
        PROVE  UNCHANGED walk
    BY <2>6 DEF Receive, ReceiveReply, ClearAnswered, ReceiveResponse, ReceiveData,
        CallbackReturns, listVars, timerVars
  <2>7. ASSUME NEW c \in Calls, NEW m, Begin(c, m)
        PROVE  UNCHANGED walk
    BY <2>7 DEF Begin, listVars, timerVars
  <2>8. CASE Break \/ UNCHANGED vars
    BY <2>3, <2>8 DEF Break, vars, listVars, timerVars
  <2> QED
    BY <1>1, <2>1, <2>2, <2>3, <2>4, <2>5, <2>6, <2>7, <2>8 DEF Next, Timer
<1>2. IInv /\ TimerTypes /\ PointerInv /\ [Next]_vars =>
        \A e \in Ends : walk[e] = "removed" /\ walk'[e] = "idle" /\ temp[e] # Dangling
          => (reported' \ reported) \cap (answered \ late[e]) = {}
  BY <1>1
<1> QED
  BY <1>2, PointerInvariance, PTL DEF Spec, AnsweredNotReported

(* No reply and no call takes another message out of the list: it leaves   *)
(* by its reply or where the pointer of the timer finds it.                *)
THEOREM UnansweredStay == Spec => UnansweredStays
<1>1. ASSUME IInv, [Next]_vars, NEW e \in Ends, NEW d \in Calls,
             Listed(list[e], d), ~Listed(list'[e], d)
      PROVE  d \in answered' \/ (walk[e] = "due" /\ d \in Pointed(e))
  <2>0. \A f \in Ends : list[f] \in Seq(Entries) /\ Distinct(list[f])
    BY <1>1 DEF IInv, BaseTypes, ListInv
  <2>1. list \in [Ends -> Seq(Entries)]
    BY <1>1 DEF IInv, BaseTypes
  <2>2. ASSUME NEW f \in Ends, ReceiveReply(f)
        PROVE  d \in answered'
    <3>1. PICK c : /\ list' = [list EXCEPT ![f] = RemoveMessage(list[f], c)]
                   /\ answered' = answered \cup {c}
      BY <2>1, <2>2 DEF ReceiveReply, ClearAnswered
    <3>2. f = e /\ list'[e] = RemoveMessage(list[e], c)
      BY <1>1, <2>1, <3>1
    <3>3. d = c
      BY <1>1, <2>0, <3>2, RemoveMessageLemma
    <3> QED
      BY <3>1, <3>3
  <2>3. ASSUME NEW f \in Ends, RemoveDue(f)
        PROVE  walk[e] = "due" /\ d \in Pointed(e)
    <3>1. PICK c \in Pointed(f) : list' = [list EXCEPT ![f] = RemoveMessage(list[f], c)]
      BY <2>1, <2>3 DEF RemoveDue
    <3>2. f = e /\ list'[e] = RemoveMessage(list[e], c)
      BY <1>1, <2>1, <3>1
    <3>3. d = c
      BY <1>1, <2>0, <3>2, RemoveMessageLemma
    <3> QED
      BY <2>3, <3>1, <3>2, <3>3 DEF RemoveDue
  <2>4. ASSUME NEW f \in Ends, MakeTimerStep(f)
        PROVE  FALSE
    <3>1. PICK last : list' = [list EXCEPT ![f] = Ticked(list[f], last)]
      BY <2>1, <2>4 DEF MakeTimerStep
    <3>2. f = e /\ list'[e] = Ticked(list[e], last)
      BY <1>1, <2>1, <3>1
    <3> QED
      BY <1>1, <2>0, <3>2, TickedLemma
  <2>5. ASSUME NEW c \in Calls, NEW m, Begin(c, m)
        PROVE  FALSE
    <3>1. \/ list' = list
          \/ list' = [list EXCEPT ![At[c]] = Append(list[At[c]], NewEntry(c))]
      BY <2>1, <2>5 DEF Begin, listVars
    <3>2. \/ list'[e] = list[e]
          \/ At[c] = e /\ list'[e] = Append(list[e], NewEntry(c))
      BY <2>1, <3>1, EndsLemma
    <3>3. \A i \in DOMAIN list[e] : /\ i \in DOMAIN Append(list[e], NewEntry(c))
                                    /\ Append(list[e], NewEntry(c))[i] = list[e][i]
      BY <2>0
    <3> QED
      BY <1>1, <3>2, <3>3 DEF Listed
  <2>6. ASSUME NEW c \in Calls, Refused(c) \/ Sends(c) \/ RequestTimeout(c)
        PROVE  UNCHANGED list
    BY <2>6 DEF Refused, Sends, Transmit, Block, Return, RequestTimeout, listVars
  <2>7. ASSUME NEW f \in Ends, \/ ReceiveResponse(f) \/ ReceiveData(f)
                               \/ CallbackReturns(f) \/ ReportDue(f)
        PROVE  UNCHANGED list
    BY <2>7 DEF ReceiveResponse, ReceiveData, CallbackReturns, ReportDue, listVars
  <2>8. CASE Break \/ UNCHANGED vars
    BY <1>1, <2>8 DEF Break, vars, listVars
  <2> QED
    BY <1>1, <2>2, <2>3, <2>4, <2>5, <2>6, <2>7, <2>8 DEF Next, Receive, Timer
<1>2. IInv /\ [Next]_vars =>
        \A e \in Ends, c \in Calls : Listed(list[e], c) /\ ~Listed(list'[e], c)
          => c \in answered' \/ (walk[e] = "due" /\ c \in Pointed(e))
  BY <1>1
<1> QED
  BY <1>2, Invariance, PTL DEF Spec, UnansweredStays, Pointed, Listed

(* A request made in a callback is never released by a response.           *)
THEOREM InnerRequestsStarve == Spec => []InnerRequestStarves
<1>1. IInv => InnerRequestStarves
  BY DEF IInv
<1> QED
  BY <1>1, Invariance, PTL

(* A request returns the response to just this request.                    *)
THEOREM ResponsesWereSent == Spec => []ResponseWasSent
<1>1. IInv => ResponseWasSent
  BY DEF IInv
<1> QED
  BY <1>1, Invariance, PTL

=============================================================================
