------------------------ MODULE MessageBlockerProofs ------------------------
(* Proofs about MessageBlocker, for any set of requests and any timeouts.  *)
EXTENDS MessageBlocker, TLAPS

-----------------------------------------------------------------------------
(* The inductive invariant.                                                *)

(* The data in a blocker is the response to the request of the blocker.    *)
DataInv ==
    \A i \in DOMAIN list :
        list[i].data # NoData => list[i].data = list[i].id /\ answer[list[i].id] = "arrived"

(* A response is returned by the call it answers, which has not timed out. *)
ResultInv ==
    \A r \in Requests :
        result[r] # NoData => /\ result[r] = r
                              /\ pc[r] = "done"
                              /\ answer[r] = "arrived"
                              /\ ~reported[r]

(* Nothing happens to a request before it is sent, its timeout comes after *)
(* it was entered into the list, and a thread is woken for a reason.       *)
CallInv ==
    \A r \in Requests :
        /\ pc[r] = "idle" => answer[r] = "none"
        /\ reported[r] => pc[r] \in {"listed", "waiting", "woken", "done"}
        /\ ~SpuriousWakeups /\ pc[r] = "woken" /\ ~reported[r]
              => \E i \in DOMAIN list : list[i].id = r /\ list[i].data # NoData

IInv ==
    /\ TypeOK
    /\ BlockersHaveCallers
    /\ DataInv
    /\ ResultInv
    /\ CallInv
    /\ NothingMeansTimeout

-----------------------------------------------------------------------------
(* Lists of blockers.                                                      *)

DistinctIds(l) == \A i, j \in DOMAIN l : l[i].id = l[j].id => i = j

(* The position of a blocker that is in the list.                          *)
LEMMA PositionLemma ==
    ASSUME NEW l \in Seq(Blockers), NEW id, Listed(l, id)
    PROVE  /\ Position(l, id) \in 1..Len(l)
           /\ l[Position(l, id)].id = id
BY DEF Listed, Position

(* A blocker is entered with no data.                                      *)
LEMMA BlockerLemma ==
    ASSUME NEW r \in Requests
    PROVE  /\ Blocker(r) \in Blockers
           /\ Blocker(r).id = r
           /\ Blocker(r).data = NoData
BY BlockerAssumption DEF Blocker, Blockers, BlockerAssumption

(* A function on 1..n is a sequence.                                       *)
LEMMA SeqLemma ==
    ASSUME NEW S, NEW n \in Nat, NEW f \in [1..n -> S]
    PROVE  f \in Seq(S) /\ Len(f) = n /\ DOMAIN f = 1..n
OBVIOUS

(* Overwriting one blocker by one with the same id.                        *)
LEMMA UpdateLemma ==
    ASSUME NEW l \in Seq(Blockers), NEW i \in 1..Len(l), NEW b \in Blockers
    PROVE  /\ [l EXCEPT ![i] = b] \in Seq(Blockers)
           /\ Len([l EXCEPT ![i] = b]) = Len(l)
           /\ \A j \in 1..Len(l) : [l EXCEPT ![i] = b][j] = IF j = i THEN b ELSE l[j]
<1>1. l \in [1..Len(l) -> Blockers]
  OBVIOUS
<1>2. [l EXCEPT ![i] = b] \in [1..Len(l) -> Blockers]
  BY <1>1
<1>3. \A j \in 1..Len(l) : [l EXCEPT ![i] = b][j] = IF j = i THEN b ELSE l[j]
  BY <1>1
<1> QED
  BY <1>2, <1>3, SeqLemma

(* The timer only changes the timer of the entry it has reached, and that  *)
(* stays within its range.                                                 *)
LEMMA DecrementedLemma ==
    ASSUME NEW l \in Seq(Blockers), NEW i \in 1..Len(l)
    PROVE  /\ Decremented(l, i) \in Seq(Blockers)
           /\ Len(Decremented(l, i)) = Len(l)
           /\ \A j \in 1..Len(l) : /\ Decremented(l, i)[j].id = l[j].id
                                   /\ Decremented(l, i)[j].data = l[j].data
                                   /\ j # i => Decremented(l, i)[j] = l[j]
           /\ Decremented(l, i)[i].timer = (l[i].timer - 1) % TimerRange
<1> DEFINE b == [l[i] EXCEPT !.timer = (@ - 1) % TimerRange]
<1>1. l[i] \in Blockers
  OBVIOUS
<1>2. l[i].timer \in Int
  BY <1>1 DEF Blockers
<1>3. (l[i].timer - 1) % TimerRange \in 0 .. TimerRange - 1
  BY <1>2, BlockerAssumption DEF BlockerAssumption
<1>4. /\ b \in Blockers /\ b.id = l[i].id /\ b.data = l[i].data
      /\ b.timer = (l[i].timer - 1) % TimerRange
  BY <1>1, <1>3 DEF Blockers
<1>5. Decremented(l, i) = [l EXCEPT ![i] = b]
  BY DEF Decremented
<1> HIDE DEF b
<1> QED
  BY <1>4, <1>5, UpdateLemma

(* A blocker that gets a response keeps everything else.                   *)
LEMMA ResponseLemma ==
    ASSUME NEW l \in Seq(Blockers), NEW i \in 1..Len(l), NEW r \in Requests
    PROVE  /\ [l EXCEPT ![i].data = r] \in Seq(Blockers)
           /\ Len([l EXCEPT ![i].data = r]) = Len(l)
           /\ \A j \in 1..Len(l) :
                /\ [l EXCEPT ![i].data = r][j].id = l[j].id
                /\ [l EXCEPT ![i].data = r][j].timer = l[j].timer
                /\ [l EXCEPT ![i].data = r][j].data = IF j = i THEN r ELSE l[j].data
<1> DEFINE b == [l[i] EXCEPT !.data = r]
           t == [l EXCEPT ![i].data = r]
<1>1. l[i] \in Blockers
  OBVIOUS
<1>2. b \in Blockers /\ b.id = l[i].id /\ b.timer = l[i].timer /\ b.data = r
  BY <1>1 DEF Blockers
<1>3. t = [l EXCEPT ![i] = b]
  OBVIOUS
<1> HIDE DEF b, t
<1>4. /\ t \in Seq(Blockers)
      /\ Len(t) = Len(l)
      /\ \A j \in 1..Len(l) : /\ t[j].id = l[j].id
                              /\ t[j].timer = l[j].timer
                              /\ t[j].data = IF j = i THEN r ELSE l[j].data
  BY <1>2, <1>3, UpdateLemma
<1> QED
  BY <1>4 DEF t

(* Removing a blocker keeps exactly the others, although their order       *)
(* changes, and no blocker is in the list twice afterwards.                *)
LEMMA RemoveLemma ==
    ASSUME NEW l \in Seq(Blockers), DistinctIds(l), NEW id
    PROVE  /\ RemoveMessage(l, id) \in Seq(Blockers)
           /\ DistinctIds(RemoveMessage(l, id))
           /\ \A i \in DOMAIN RemoveMessage(l, id) :
                \E j \in DOMAIN l : RemoveMessage(l, id)[i] = l[j] /\ l[j].id # id
           /\ \A j \in DOMAIN l :
                l[j].id # id => \E i \in DOMAIN RemoveMessage(l, id) : RemoveMessage(l, id)[i] = l[j]
<1>1. CASE ~Listed(l, id)
  BY <1>1 DEF RemoveMessage, Listed
<1>2. CASE Listed(l, id)
  <2> DEFINE p == Position(l, id)
             t == [l EXCEPT ![p] = l[Len(l)]]
             n == Len(l) - 1
             s == SubSeq(t, 1, n)
  <2>1. p \in 1..Len(l) /\ l[p].id = id
    BY <1>2, PositionLemma
  <2>2. /\ t \in Seq(Blockers)
        /\ Len(t) = Len(l)
        /\ \A j \in 1..Len(l) : t[j] = IF j = p THEN l[Len(l)] ELSE l[j]
    BY <2>1, UpdateLemma
  <2>3. RemoveMessage(l, id) = s
    BY <1>2 DEF RemoveMessage
  <2>4. n \in Nat /\ Len(l) \in 1..Len(l)
    BY <2>1
  <2> HIDE DEF p, t
  <2>5. /\ s \in Seq(Blockers)
        /\ Len(s) = n
        /\ DOMAIN s = 1..n
        /\ \A i \in 1..n : s[i] = t[i]
    BY <2>2, <2>4
  <2> HIDE DEF s
  <2>6. \A i \in 1..n : s[i] = IF i = p THEN l[Len(l)] ELSE l[i]
    BY <2>1, <2>2, <2>5
  <2>7. \A i, j \in 1..Len(l) : l[i].id = l[j].id => i = j
    BY DEF DistinctIds
  <2>8. \A i, j \in 1..n : s[i].id = s[j].id => i = j
    BY <2>1, <2>4, <2>6, <2>7
  <2>9. \A i \in 1..n : \E j \in 1..Len(l) : s[i] = l[j] /\ l[j].id # id
    BY <2>1, <2>4, <2>6, <2>7
  <2>10. \A j \in 1..Len(l) : l[j].id # id => \E i \in 1..n : s[i] = l[j]
    <3>1. TAKE j \in 1..Len(l)
    <3>2. HAVE l[j].id # id
    <3>3. j # p
      BY <2>1, <3>2
    <3>4. CASE j = Len(l)
      <4>1. p \in 1..n
        BY <2>1, <3>3, <3>4
      <4> QED
        BY <2>6, <3>4, <4>1
    <3>5. CASE j # Len(l)
      <4>1. j \in 1..n
        BY <2>4, <3>5
      <4> QED
        BY <2>6, <3>3, <4>1
    <3> QED
      BY <3>4, <3>5
  <2>11. DOMAIN l = 1..Len(l)
    OBVIOUS
  <2>12. DistinctIds(s)
    BY <2>5, <2>8 DEF DistinctIds
  <2> HIDE DEF n
  <2>13. \A i \in DOMAIN s : \E j \in DOMAIN l : s[i] = l[j] /\ l[j].id # id
    BY <2>5, <2>9, <2>11
  <2>14. \A j \in DOMAIN l : l[j].id # id => \E i \in DOMAIN s : s[i] = l[j]
    BY <2>5, <2>10, <2>11
  <2> QED
    BY <2>3, <2>5, <2>12, <2>13, <2>14, Zenon
<1> QED
  BY <1>1, <1>2

(* What a caller takes out of the list is its own response or nothing.     *)
LEMMA ResponseDataLemma ==
    ASSUME IInv, NEW r \in Requests
    PROVE  /\ ResponseData(list, r) \in {r, NoData}
           /\ ResponseData(list, r) = r => answer[r] = "arrived" /\ Listed(list, r)
           /\ ResponseData(list, r) = NoData
                => \A i \in DOMAIN list : list[i].id = r => list[i].data = NoData
<1>1. list \in Seq(Blockers) /\ \A i, j \in DOMAIN list : list[i].id = list[j].id => i = j
  BY DEF IInv, TypeOK, BlockersHaveCallers
<1>2. CASE ~Listed(list, r)
  BY <1>2, BlockerAssumption DEF ResponseData, Listed, BlockerAssumption
<1>3. CASE Listed(list, r)
  <2>1. Position(list, r) \in 1..Len(list) /\ list[Position(list, r)].id = r
    BY <1>1, <1>3, PositionLemma
  <2>2. ResponseData(list, r) = list[Position(list, r)].data
    BY <1>3 DEF ResponseData
  <2>3. list[Position(list, r)].data # NoData
          => list[Position(list, r)].data = r /\ answer[r] = "arrived"
    BY <2>1, <1>1 DEF IInv, DataInv
  <2> QED
    BY <1>1, <1>3, <2>1, <2>2, <2>3, BlockerAssumption DEF BlockerAssumption
<1> QED
  BY <1>2, <1>3

-----------------------------------------------------------------------------
(* Every step keeps the invariant.                                         *)

(* The blockers in the list belong to requests.                            *)
LEMMA ListLemma ==
    ASSUME IInv
    PROVE  /\ list \in Seq(Blockers)
           /\ \A i \in DOMAIN list : list[i] \in Blockers /\ list[i].id \in Requests
           /\ DistinctIds(list)
<1>1. list \in Seq(Blockers)
  BY DEF IInv, TypeOK
<1>2. \A i \in DOMAIN list : list[i] \in Blockers
  BY <1>1
<1>3. \A b \in Blockers : b.id \in Requests
  BY DEF Blockers
<1>4. DistinctIds(list)
  BY DEF IInv, BlockersHaveCallers, DistinctIds
<1> QED
  BY <1>1, <1>2, <1>3, <1>4

(* The invariant holds initially.                                          *)
LEMMA InvInit == Init => IInv
<1> SUFFICES ASSUME Init
             PROVE  IInv
  OBVIOUS
<1>1. TypeOK
  <2>1. list \in Seq(Blockers)
    BY DEF Init
  <2>2. result \in [Requests -> Requests \cup {NoData}]
    BY DEF Init
  <2> QED
    BY <2>1, <2>2 DEF Init, TypeOK
<1>2. BlockersHaveCallers /\ DataInv
  BY DEF Init, BlockersHaveCallers, DataInv
<1>3. ResultInv /\ CallInv /\ NothingMeansTimeout
  BY DEF Init, ResultInv, CallInv, NothingMeansTimeout
<1> QED
  BY <1>1, <1>2, <1>3 DEF IInv

(* The steps of a caller that leave the list alone.                        *)
LEMMA QuietStep ==
    ASSUME IInv, NEW r \in Requests,
           SendRequest(r) \/ SendRequestFails(r) \/ Wait(r) \/ WakeUp(r) \/ SendResponse(r)
    PROVE  IInv'
<1>1. /\ UNCHANGED <<list, at, hung, result, reported, age>>
      /\ \/ /\ pc[r] = "idle"
            /\ pc' = [pc EXCEPT ![r] = "sent"]
            /\ answer' = [answer EXCEPT ![r] = "open"]
         \/ /\ pc[r] = "idle"
            /\ pc' = [pc EXCEPT ![r] = "done"]
            /\ answer' = answer
         \/ /\ pc[r] = "listed"
            /\ pc' = [pc EXCEPT ![r] = "waiting"]
            /\ answer' = answer
         \/ /\ SpuriousWakeups
            /\ pc[r] = "waiting"
            /\ pc' = [pc EXCEPT ![r] = "woken"]
            /\ answer' = answer
         \/ /\ answer[r] = "open"
            /\ answer' = [answer EXCEPT ![r] = "sent"]
            /\ pc' = pc
  BY DEF SendRequest, SendRequestFails, Wait, WakeUp, SendResponse
<1>2. TypeOK'
  BY <1>1 DEF IInv, TypeOK
<1>3. list \in Seq(Blockers) /\ \A i \in DOMAIN list : list[i].id \in Requests
  BY ListLemma
<1>4. BlockersHaveCallers'
  BY <1>1, <1>3 DEF IInv, TypeOK, BlockersHaveCallers
<1>5. DataInv'
  BY <1>1, <1>3 DEF IInv, TypeOK, BlockersHaveCallers, DataInv, CallInv
<1>6. ResultInv'
  BY <1>1 DEF IInv, TypeOK, ResultInv, CallInv
<1>7. CallInv'
  BY <1>1 DEF IInv, TypeOK, CallInv
<1>8. NothingMeansTimeout'
  BY <1>1 DEF IInv, TypeOK, NothingMeansTimeout, CallInv
<1> QED
  BY <1>2, <1>4, <1>5, <1>6, <1>7, <1>8 DEF IInv

(* Entering a blocker into the list.                                       *)
LEMMA BlockMessageStep ==
    ASSUME IInv, NEW r \in Requests, BlockMessage(r)
    PROVE  IInv'
<1> DEFINE b == Blocker(r)
<1>1. /\ pc[r] = "sent"
      /\ list' = Append(list, b)
      /\ pc' = [pc EXCEPT ![r] = "listed"]
      /\ UNCHANGED <<at, hung, answer, result, reported, age>>
  BY DEF BlockMessage
<1>2. b \in Blockers /\ b.id = r /\ b.data = NoData
  BY BlockerLemma
<1> HIDE DEF b
<1>3. list \in Seq(Blockers) /\ \A i \in DOMAIN list : list[i].id \in Requests
  BY ListLemma
<1>4. /\ DOMAIN list = 1..Len(list)
      /\ DOMAIN list' = 1..(Len(list) + 1)
      /\ Len(list) \in Nat
      /\ \A i \in 1..Len(list) : list'[i] = list[i]
      /\ list'[Len(list) + 1] = b
  BY <1>1, <1>2, <1>3
<1>5. TypeOK'
  BY <1>1, <1>2 DEF IInv, TypeOK
<1>6. \A i \in DOMAIN list : list[i].id # r
  BY <1>1 DEF IInv, BlockersHaveCallers
<1>7. ~reported[r]
  BY <1>1 DEF IInv, CallInv
<1>8. \A r2 \in Requests : r2 # r => pc'[r2] = pc[r2]
  BY <1>1 DEF IInv, TypeOK
<1>8a. pc'[r] = "listed"
  BY <1>1 DEF IInv, TypeOK
<1>9. BlockersHaveCallers'
  <2>1. \A i \in 1..Len(list) : /\ pc'[list[i].id] \in {"listed", "waiting", "woken"}
                                /\ ~reported[list[i].id]
    BY <1>3, <1>4, <1>6, <1>8 DEF IInv, BlockersHaveCallers
  <2>2. \A i, j \in 1..Len(list) : list[i].id = list[j].id => i = j
    BY <1>4 DEF IInv, BlockersHaveCallers
  <2> QED
    BY <1>1, <1>2, <1>4, <1>6, <1>7, <1>8a, <2>1, <2>2 DEF BlockersHaveCallers
<1>10. DataInv'
  BY <1>1, <1>2, <1>4 DEF IInv, DataInv
<1>11. ResultInv'
  BY <1>1, <1>8 DEF IInv, TypeOK, ResultInv
<1>12. CallInv'
  <2>1. ASSUME NEW q \in Requests
        PROVE  /\ pc'[q] = "idle" => answer'[q] = "none"
               /\ reported'[q] => pc'[q] \in {"listed", "waiting", "woken", "done"}
               /\ ~SpuriousWakeups /\ pc'[q] = "woken" /\ ~reported'[q]
                     => \E i \in DOMAIN list' : list'[i].id = q /\ list'[i].data # NoData
    <3>1. CASE q = r
      BY <1>1, <1>7, <1>8a, <3>1
    <3>2. CASE q # r
      BY <1>1, <1>4, <1>8, <3>2 DEF IInv, CallInv
    <3> QED
      BY <3>1, <3>2
  <2> QED
    BY <2>1 DEF CallInv
<1>13. NothingMeansTimeout'
  BY <1>1, <1>8, <1>8a DEF IInv, NothingMeansTimeout
<1> QED
  BY <1>5, <1>9, <1>10, <1>11, <1>12, <1>13 DEF IInv

(* The end of blockMessage.                                                *)
LEMMA ReturnStep ==
    ASSUME IInv, NEW r \in Requests, Return(r)
    PROVE  IInv'
<1> DEFINE l == RemoveMessage(list, r)
           d == ResponseData(list, r)
<1>1. /\ pc[r] = "woken"
      /\ result' = [result EXCEPT ![r] = d]
      /\ list' = l
      /\ pc' = [pc EXCEPT ![r] = "done"]
      /\ UNCHANGED <<at, hung, answer, reported, age>>
  BY DEF Return
<1>2. list \in Seq(Blockers) /\ \A i \in DOMAIN list : list[i].id \in Requests
  BY ListLemma
<1>3. /\ l \in Seq(Blockers)
      /\ DistinctIds(l)
      /\ \A i \in DOMAIN l : \E j \in DOMAIN list : l[i] = list[j] /\ list[j].id # r
      /\ \A j \in DOMAIN list : list[j].id # r => \E i \in DOMAIN l : l[i] = list[j]
  BY ListLemma, RemoveLemma
<1>4. /\ d \in {r, NoData}
      /\ d = r => answer[r] = "arrived" /\ Listed(list, r)
      /\ d = NoData => \A i \in DOMAIN list : list[i].id = r => list[i].data = NoData
  BY ResponseDataLemma
<1> HIDE DEF l, d
<1>5. TypeOK'
  BY <1>1, <1>3, <1>4 DEF IInv, TypeOK
<1>6. \A q \in Requests : q # r => pc'[q] = pc[q] /\ result'[q] = result[q]
  BY <1>1 DEF IInv, TypeOK
<1>7. pc'[r] = "done" /\ result'[r] = d
  BY <1>1 DEF IInv, TypeOK
<1>8. BlockersHaveCallers'
  <2>1. \A i \in DOMAIN l : pc'[l[i].id] \in {"listed", "waiting", "woken"} /\ ~reported[l[i].id]
    BY <1>2, <1>3, <1>6 DEF IInv, BlockersHaveCallers
  <2> QED
    BY <1>1, <1>3, <2>1 DEF BlockersHaveCallers, DistinctIds
<1>9. DataInv'
  BY <1>1, <1>3 DEF IInv, DataInv
<1>10. ResultInv'
  <2>1. d = r => ~reported[r]
    BY <1>4 DEF IInv, BlockersHaveCallers, Listed
  <2> QED
    BY <1>1, <1>4, <1>6, <1>7, <2>1 DEF IInv, ResultInv
<1>11. CallInv'
  <2>1. ASSUME NEW q \in Requests
        PROVE  /\ pc'[q] = "idle" => answer'[q] = "none"
               /\ reported'[q] => pc'[q] \in {"listed", "waiting", "woken", "done"}
               /\ ~SpuriousWakeups /\ pc'[q] = "woken" /\ ~reported'[q]
                     => \E i \in DOMAIN list' : list'[i].id = q /\ list'[i].data # NoData
    <3>1. CASE q = r
      BY <1>1, <1>7, <3>1
    <3>2. CASE q # r
      <4>1. \A j \in DOMAIN list : list[j].id = q => \E i \in DOMAIN l : l[i] = list[j]
        BY <1>3, <3>2
      <4> QED
        BY <1>1, <1>6, <3>2, <4>1 DEF IInv, CallInv
    <3> QED
      BY <3>1, <3>2
  <2> QED
    BY <2>1 DEF CallInv
<1>12. NothingMeansTimeout'
  <2>1. ~SpuriousWakeups /\ d = NoData => reported[r]
    BY <1>1, <1>4 DEF IInv, CallInv
  <2> QED
    BY <1>1, <1>6, <1>7, <2>1 DEF IInv, NothingMeansTimeout
<1> QED
  BY <1>5, <1>8, <1>9, <1>10, <1>11, <1>12 DEF IInv

(* A response that arrives.                                                *)
LEMMA ReleaseStep ==
    ASSUME IInv, NEW r \in Requests, ReleaseMessage(r)
    PROVE  IInv'
<1>0. /\ list \in Seq(Blockers)
      /\ DOMAIN list = 1..Len(list)
      /\ \A i \in DOMAIN list : list[i].id \in Requests
      /\ \A i, j \in DOMAIN list : list[i].id = list[j].id => i = j
  BY ListLemma DEF DistinctIds
<1>1. CASE Listed(list, r)
  <2> DEFINE p == Position(list, r)
             l == [list EXCEPT ![p].data = r]
  <2>1. /\ answer[r] = "sent"
        /\ list' = l
        /\ pc' = [pc EXCEPT ![r] = IF @ = "waiting" THEN "woken" ELSE @]
        /\ answer' = [answer EXCEPT ![r] = "arrived"]
        /\ UNCHANGED <<at, hung, result, reported, age>>
    BY <1>1 DEF ReleaseMessage
  <2>2. p \in 1..Len(list) /\ list[p].id = r
    BY <1>0, <1>1, PositionLemma
  <2>3. /\ l \in Seq(Blockers)
        /\ DOMAIN l = 1..Len(list)
        /\ \A j \in 1..Len(list) : /\ l[j].id = list[j].id
                                   /\ l[j].data = IF j = p THEN r ELSE list[j].data
    <3>1. /\ l \in Seq(Blockers)
          /\ Len(l) = Len(list)
          /\ \A j \in 1..Len(list) : /\ l[j].id = list[j].id
                                     /\ l[j].data = IF j = p THEN r ELSE list[j].data
      BY <1>0, <2>2, ResponseLemma
    <3> QED
      BY <3>1
  <2>4. pc[r] \in {"listed", "waiting", "woken"} /\ ~reported[r] /\ r # NoData
    BY <1>0, <2>2, BlockerAssumption DEF IInv, BlockersHaveCallers, BlockerAssumption
  <2> HIDE DEF p, l
  <2>5. /\ \A q \in Requests : q # r => pc'[q] = pc[q] /\ answer'[q] = answer[q]
        /\ answer'[r] = "arrived"
        /\ pc'[r] \in {"listed", "woken"}
    BY <2>1, <2>4 DEF IInv, TypeOK
  <2>6. TypeOK'
    BY <2>1, <2>3 DEF IInv, TypeOK
  <2>7. BlockersHaveCallers'
    <3>1. \A i \in 1..Len(list) : /\ pc'[list[i].id] \in {"listed", "waiting", "woken"}
                                  /\ ~reported[list[i].id]
      BY <1>0, <2>4, <2>5 DEF IInv, BlockersHaveCallers
    <3> QED
      BY <1>0, <2>1, <2>3, <3>1 DEF BlockersHaveCallers
  <2>8. DataInv'
    <3>1. \A i \in 1..Len(list) :
            l[i].data # NoData => l[i].data = l[i].id /\ answer'[l[i].id] = "arrived"
      BY <1>0, <2>2, <2>3, <2>5 DEF IInv, DataInv
    <3> QED
      BY <2>1, <2>3, <3>1 DEF DataInv
  <2>9. ResultInv'
    BY <2>1, <2>4, <2>5 DEF IInv, ResultInv
  <2>10. CallInv'
    <3>1. ASSUME NEW q \in Requests
          PROVE  /\ pc'[q] = "idle" => answer'[q] = "none"
                 /\ reported'[q] => pc'[q] \in {"listed", "waiting", "woken", "done"}
                 /\ ~SpuriousWakeups /\ pc'[q] = "woken" /\ ~reported'[q]
                       => \E i \in DOMAIN list' : list'[i].id = q /\ list'[i].data # NoData
      <4>1. CASE q = r
        <5>1. list'[p].id = r /\ list'[p].data # NoData /\ p \in DOMAIN list'
          BY <2>1, <2>2, <2>3, <2>4
        <5> QED
          BY <2>5, <4>1, <5>1
      <4>2. CASE q # r
        <5>1. \A i \in DOMAIN list : list[i].id = q => list'[i].id = q /\ list'[i].data = list[i].data
          BY <1>0, <2>1, <2>2, <2>3, <4>2
        <5> QED
          BY <1>0, <2>1, <2>3, <2>5, <4>2, <5>1 DEF IInv, CallInv
      <4> QED
        BY <4>1, <4>2
    <3> QED
      BY <3>1 DEF CallInv
  <2>11. NothingMeansTimeout'
    BY <2>1, <2>4, <2>5 DEF IInv, NothingMeansTimeout
  <2> QED
    BY <2>6, <2>7, <2>8, <2>9, <2>10, <2>11 DEF IInv
<1>2. CASE ~Listed(list, r)
  <2>1. /\ answer[r] = "sent"
        /\ answer' = [answer EXCEPT ![r] = "lost"]
        /\ UNCHANGED <<pc, list, at, hung, result, reported, age>>
    BY <1>2 DEF ReleaseMessage
  <2>2. \A q \in Requests : q # r => answer'[q] = answer[q]
    BY <2>1 DEF IInv, TypeOK
  <2>3. \A i \in DOMAIN list : list[i].id # r
    BY <1>2 DEF Listed
  <2>4. TypeOK' /\ BlockersHaveCallers'
    BY <2>1 DEF IInv, TypeOK, BlockersHaveCallers
  <2>5. DataInv'
    BY <1>0, <2>1, <2>2, <2>3 DEF IInv, DataInv
  <2>6. ResultInv'
    BY <2>1, <2>2 DEF IInv, ResultInv
  <2>7. CallInv'
    BY <2>1, <2>2 DEF IInv, CallInv
  <2>8. NothingMeansTimeout'
    BY <2>1, <2>2 DEF IInv, NothingMeansTimeout
  <2> QED
    BY <2>4, <2>5, <2>6, <2>7, <2>8 DEF IInv
<1> QED
  BY <1>1, <1>2

(* A change of the list that keeps ids and data, and of the timer's posi-  *)
(* tion, disturbs nothing.                                                 *)
LEMMA TimerStepKeeps ==
    ASSUME IInv,
           UNCHANGED <<pc, answer, result, reported>>,
           list' \in Seq(Blockers),
           Len(list') = Len(list),
           \A i \in 1..Len(list) : list'[i].id = list[i].id /\ list'[i].data = list[i].data,
           at' \in Nat, hung' \in BOOLEAN, age' \in [Requests -> Nat]
    PROVE  IInv'
<1>0. list \in Seq(Blockers) /\ DOMAIN list = 1..Len(list) /\ DOMAIN list' = 1..Len(list)
  BY ListLemma
<1>1. TypeOK'
  BY DEF IInv, TypeOK
<1>2. BlockersHaveCallers'
  BY <1>0 DEF IInv, BlockersHaveCallers
<1>3. DataInv'
  BY <1>0 DEF IInv, DataInv
<1>4. ResultInv' /\ NothingMeansTimeout'
  BY DEF IInv, ResultInv, NothingMeansTimeout
<1>5. CallInv'
  BY <1>0 DEF IInv, CallInv
<1> QED
  BY <1>1, <1>2, <1>3, <1>4, <1>5 DEF IInv

(* The timer thread.                                                       *)
LEMMA TimerStep ==
    ASSUME IInv, MakeTimerStep
    PROVE  IInv'
<1>0. /\ list \in Seq(Blockers) /\ DOMAIN list = 1..Len(list)
      /\ DistinctIds(list)
      /\ \A i \in DOMAIN list : list[i].id \in Requests
      /\ at \in Nat /\ hung \in BOOLEAN /\ age \in [Requests -> Nat]
  BY ListLemma DEF IInv, TypeOK
<1>1. CASE StartTimerStep
  <2>1. at' = 1 /\ UNCHANGED <<pc, list, hung, answer, result, reported>>
    BY <1>1 DEF StartTimerStep
  <2>2. age' \in [Requests -> Nat]
    BY <1>0, <1>1 DEF StartTimerStep
  <2> QED
    BY <1>0, <2>1, <2>2, TimerStepKeeps
<1>2. CASE CountDown
  <2>1. /\ at \in DOMAIN list
        /\ list' = Decremented(list, at)
        /\ at' = at + 1
        /\ UNCHANGED <<pc, hung, answer, result, reported, age>>
    BY <1>2 DEF CountDown
  <2>2. /\ list' \in Seq(Blockers)
        /\ Len(list') = Len(list)
        /\ \A i \in 1..Len(list) : list'[i].id = list[i].id /\ list'[i].data = list[i].data
    BY <1>0, <2>1, DecrementedLemma
  <2> QED
    BY <1>0, <2>1, <2>2, TimerStepKeeps
<1>3. CASE Timeout
  <2> DEFINE l == Decremented(list, at)
             r == l[at].id
             k == RemoveMessage(l, r)
  <2>1. /\ at \in DOMAIN list
        /\ list' = k
        /\ \/ /\ reported' = [reported EXCEPT ![r] = TRUE]
              /\ at' = at + 1
              /\ UNCHANGED hung
           \/ /\ pc[r] = "waiting"
              /\ hung' = TRUE
              /\ UNCHANGED <<at, reported>>
        /\ UNCHANGED <<pc, answer, result, age>>
    BY <1>3 DEF Timeout
  <2>2. /\ l \in Seq(Blockers)
        /\ DOMAIN l = 1..Len(list)
        /\ \A i \in 1..Len(list) : l[i].id = list[i].id /\ l[i].data = list[i].data
    <3>1. /\ l \in Seq(Blockers)
          /\ Len(l) = Len(list)
          /\ \A i \in 1..Len(list) : l[i].id = list[i].id /\ l[i].data = list[i].data
      BY <1>0, <2>1, DecrementedLemma
    <3> QED
      BY <3>1
  <2> HIDE DEF l
  <2>3. DistinctIds(l)
    BY <1>0, <2>2 DEF DistinctIds
  <2>4. r \in Requests /\ r = list[at].id
    BY <1>0, <2>1, <2>2
  <2> HIDE DEF r
  <2>5. /\ k \in Seq(Blockers)
        /\ DistinctIds(k)
        /\ \A i \in DOMAIN k : \E j \in DOMAIN l : k[i] = l[j] /\ l[j].id # r
        /\ \A j \in DOMAIN l : l[j].id # r => \E i \in DOMAIN k : k[i] = l[j]
    <3>1. l \in Seq(Blockers)
      BY <2>2
    <3> QED
      BY <2>3, <3>1, RemoveLemma
  <2> HIDE DEF k
  <2>6. \A i \in DOMAIN k : \E j \in DOMAIN list : /\ k[i].id = list[j].id
                                                   /\ k[i].data = list[j].data
                                                   /\ list[j].id # r
    <3>1. ASSUME NEW i \in DOMAIN k
          PROVE  \E j \in DOMAIN list : /\ k[i].id = list[j].id
                                        /\ k[i].data = list[j].data
                                        /\ list[j].id # r
      <4>1. PICK j \in DOMAIN l : k[i] = l[j] /\ l[j].id # r
        BY <2>5
      <4>2. j \in DOMAIN list /\ l[j].id = list[j].id /\ l[j].data = list[j].data
        BY <1>0, <2>2
      <4> QED
        BY <4>1, <4>2
    <3> QED
      BY <3>1
  <2>7. \A j \in DOMAIN list : list[j].id # r => \E i \in DOMAIN k : /\ k[i].id = list[j].id
                                                                     /\ k[i].data = list[j].data
    <3>1. ASSUME NEW j \in DOMAIN list, list[j].id # r
          PROVE  \E i \in DOMAIN k : k[i].id = list[j].id /\ k[i].data = list[j].data
      <4>1. j \in DOMAIN l /\ l[j].id = list[j].id /\ l[j].data = list[j].data
        BY <1>0, <2>2
      <4>2. PICK i \in DOMAIN k : k[i] = l[j]
        BY <2>5, <3>1, <4>1
      <4> QED
        BY <4>1, <4>2
    <3> QED
      BY <3>1
  <2>8. pc[r] \in {"listed", "waiting", "woken"}
    BY <2>1, <2>4 DEF IInv, BlockersHaveCallers
  <2>9. /\ reported' \in [Requests -> BOOLEAN]
        /\ \A q \in Requests : q # r => reported'[q] = reported[q]
        /\ \A q \in Requests : reported[q] => reported'[q]
        /\ pc[r] = "woken" => reported'[r]
    BY <2>1, <2>4 DEF IInv, TypeOK
  <2>10. TypeOK'
    <3>1. at' = at + 1 \/ at' = at
      BY <2>1
    <3>2. hung' = hung \/ hung' = TRUE
      BY <2>1
    <3>3. at' \in Nat
      BY <1>0, <3>1
    <3>4. hung' \in BOOLEAN
      BY <1>0, <3>2
    <3> QED
      BY <2>1, <2>5, <2>9, <3>3, <3>4 DEF IInv, TypeOK
  <2>11. BlockersHaveCallers'
    <3>1. \A i \in DOMAIN k : pc[k[i].id] \in {"listed", "waiting", "woken"} /\ ~reported'[k[i].id]
      BY <1>0, <2>6, <2>9 DEF IInv, BlockersHaveCallers
    <3> QED
      BY <2>1, <2>5, <3>1 DEF BlockersHaveCallers, DistinctIds
  <2>12. DataInv'
    BY <2>1, <2>6 DEF IInv, DataInv
  <2>13. ResultInv'
    BY <2>1, <2>8, <2>9 DEF IInv, ResultInv
  <2>14. CallInv'
    <3>1. ASSUME NEW q \in Requests
          PROVE  /\ pc'[q] = "idle" => answer'[q] = "none"
                 /\ reported'[q] => pc'[q] \in {"listed", "waiting", "woken", "done"}
                 /\ ~SpuriousWakeups /\ pc'[q] = "woken" /\ ~reported'[q]
                       => \E i \in DOMAIN list' : list'[i].id = q /\ list'[i].data # NoData
      <4>1. CASE q = r
        BY <2>1, <2>8, <2>9, <4>1
      <4>2. CASE q # r
        <5>1. reported'[q] = reported[q]
          BY <2>9, <4>2
        <5>2. \A j \in DOMAIN list : list[j].id = q /\ list[j].data # NoData
                => \E i \in DOMAIN k : k[i].id = q /\ k[i].data # NoData
          BY <2>7, <4>2
        <5> QED
          BY <2>1, <5>1, <5>2 DEF IInv, CallInv
      <4> QED
        BY <4>1, <4>2
    <3> QED
      BY <3>1 DEF CallInv
  <2>15. NothingMeansTimeout'
    BY <2>1, <2>9 DEF IInv, NothingMeansTimeout
  <2> QED
    BY <2>10, <2>11, <2>12, <2>13, <2>14, <2>15 DEF IInv
<1>4. CASE EndTimerStep
  <2>1. at' = 0 /\ UNCHANGED <<pc, list, hung, answer, result, reported, age>>
    BY <1>4 DEF EndTimerStep
  <2> QED
    BY <1>0, <2>1, TimerStepKeeps
<1> QED
  BY <1>1, <1>2, <1>3, <1>4 DEF MakeTimerStep

(* Every step preserves the invariant.                                     *)
LEMMA InvStep == IInv /\ [Next]_vars => IInv'
<1> SUFFICES ASSUME IInv, [Next]_vars
             PROVE  IInv'
  OBVIOUS
<1>1. ASSUME NEW r \in Requests, Caller(r) \/ SendResponse(r) \/ ReleaseMessage(r)
      PROVE  IInv'
  BY <1>1, QuietStep, BlockMessageStep, ReturnStep, ReleaseStep DEF Caller
<1>2. CASE MakeTimerStep
  BY <1>2, TimerStep
<1>3. CASE UNCHANGED vars
  <2>1. UNCHANGED <<pc, list, at, hung, answer, result, reported, age>>
    BY <1>3 DEF vars
  <2>2. list \in Seq(Blockers) /\ at \in Nat /\ hung \in BOOLEAN /\ age \in [Requests -> Nat]
    BY DEF IInv, TypeOK
  <2> QED
    BY <2>1, <2>2, TimerStepKeeps
<1> QED
  BY <1>1, <1>2, <1>3 DEF Next

-----------------------------------------------------------------------------
(* Every variable keeps the values its declaration allows: no timer leaves *)
(* its unsigned range and every blocker belongs to a request.              *)
THEOREM TypeCorrect == Spec => []TypeOK
<1>1. IInv => TypeOK
  BY DEF IInv
<1> QED
  BY <1>1, InvInit, InvStep, PTL DEF Spec

(* The timer and late responses only meet blockers of calls that go on:    *)
(* swapping and deleting never loses or doubles the entry of another call. *)
THEOREM BlockersCorrect == Spec => []BlockersHaveCallers
<1>1. IInv => BlockersHaveCallers
  BY DEF IInv
<1> QED
  BY <1>1, InvInit, InvStep, PTL DEF Spec

(* sendRequest never returns the response to another request.              *)
THEOREM ResponsesCorrect == Spec => []OwnResponse
<1>1. IInv => OwnResponse
  BY DEF IInv, ResultInv, OwnResponse
<1> QED
  BY <1>1, InvInit, InvStep, PTL DEF Spec

(* Without spurious wake-ups nullptr means that the timeout was reported.  *)
THEOREM NothingLost == Spec => []NothingMeansTimeout
<1>1. IInv => NothingMeansTimeout
  BY DEF IInv
<1> QED
  BY <1>1, InvInit, InvStep, PTL DEF Spec

(* A reported timeout and a returned response exclude each other.          *)
THEOREM TimeoutsFinal == Spec => []TimeoutIsFinal
<1>1. IInv => TimeoutIsFinal
  BY DEF IInv, ResultInv, TimeoutIsFinal
<1> QED
  BY <1>1, InvInit, InvStep, PTL DEF Spec

-----------------------------------------------------------------------------
(* No timeout is early.                                                    *)

(* What a timer was decremented is not more than the steps n its blocker   *)
(* has seen, of which `open' are still to be counted down.                 *)
InTime(b, n, open) ==
    TimeoutOf[b.id] # 0 => b.timer # 0 /\ TimeoutOf[b.id] + open <= n + b.timer

(* The entries the timer has not reached in its walk.                      *)
Open(p, i) == IF p # 0 /\ i >= p THEN 1 ELSE 0

TimerInv ==
    /\ \A i \in DOMAIN list : InTime(list[i], age[list[i].id], Open(at, i))
    /\ TimeoutNotEarly

(* What is known of a blocker and its age.                                 *)
LEMMA NumbersLemma ==
    ASSUME IInv
    PROVE  /\ \A b \in Blockers : /\ b.id \in Requests /\ b.timer \in Nat /\ b.timer < TimerRange
                                 /\ TimeoutOf[b.id] \in Nat /\ age[b.id] \in Nat
           /\ at \in Nat /\ TimerRange \in Nat \ {0}
<1>1. TimerRange \in Nat \ {0} /\ TimeoutOf \in [Requests -> 0 .. TimerRange - 1]
  BY BlockerAssumption DEF BlockerAssumption
<1>2. age \in [Requests -> Nat] /\ at \in Nat
  BY DEF IInv, TypeOK
<1>3. \A b \in Blockers : b.id \in Requests /\ b.timer \in 0 .. TimerRange - 1
  BY DEF Blockers
<1> QED
  BY <1>1, <1>2, <1>3

(* Swap and pop, position by position.                                     *)
LEMMA SwapLemma ==
    ASSUME NEW l \in Seq(Blockers), DistinctIds(l), NEW p \in 1..Len(l)
    PROVE  /\ DOMAIN RemoveMessage(l, l[p].id) = 1..(Len(l) - 1)
           /\ \A i \in 1..(Len(l) - 1) :
                 RemoveMessage(l, l[p].id)[i] = l[IF i = p THEN Len(l) ELSE i]
<1> DEFINE id == l[p].id
<1>1. Listed(l, id)
  BY DEF Listed
<1>2. Position(l, id) = p
  <2>1. Position(l, id) \in 1..Len(l) /\ l[Position(l, id)].id = id
    BY <1>1, PositionLemma
  <2> QED
    BY <2>1 DEF DistinctIds
<1> DEFINE t == [l EXCEPT ![p] = l[Len(l)]]
<1>3. RemoveMessage(l, id) = SubSeq(t, 1, Len(l) - 1)
  BY <1>1, <1>2 DEF RemoveMessage
<1>4. /\ t \in Seq(Blockers) /\ Len(t) = Len(l) /\ Len(l) \in Nat \ {0}
      /\ \A j \in 1..Len(l) : t[j] = IF j = p THEN l[Len(l)] ELSE l[j]
  <2>1. Len(l) \in Nat \ {0} /\ l[Len(l)] \in Blockers
    OBVIOUS
  <2> QED
    BY <2>1, UpdateLemma
<1> HIDE DEF t, id
<1>5. /\ DOMAIN SubSeq(t, 1, Len(l) - 1) = 1..(Len(l) - 1)
      /\ \A j \in 1..(Len(l) - 1) : SubSeq(t, 1, Len(l) - 1)[j] = t[j]
  BY <1>4
<1> QED
  BY <1>3, <1>4, <1>5 DEF id

(* Counting down does not wrap around unless the timer is 0.               *)
LEMMA CountLemma ==
    ASSUME NEW n \in Nat \ {0}, NEW x \in 1..(n - 1)
    PROVE  (x - 1) % n = x - 1
OBVIOUS

(* Steps between the walks of the timer, which keep or enter blockers.     *)
LEMMA BetweenStep ==
    ASSUME IInv, TimerInv, IInv', at' = at, age' = age, reported' = reported,
           \A i \in DOMAIN list' :
               \/ /\ i \in DOMAIN list
                  /\ list'[i].id = list[i].id
                  /\ list'[i].timer = list[i].timer
               \/ /\ at = 0
                  /\ \E j \in DOMAIN list : list'[i] = list[j]
               \/ /\ at = 0
                  /\ list'[i].timer = TimeoutOf[list'[i].id]
    PROVE  TimerInv'
<1>1. \A i \in DOMAIN list' : list'[i] \in Blockers
  BY DEF IInv, TypeOK
<1>2. ASSUME NEW i \in DOMAIN list'
      PROVE  InTime(list'[i], age'[list'[i].id], Open(at', i))
  <2>1. CASE i \in DOMAIN list /\ list'[i].id = list[i].id /\ list'[i].timer = list[i].timer
    BY <2>1 DEF TimerInv, InTime
  <2>2. CASE at = 0 /\ \E j \in DOMAIN list : list'[i] = list[j]
    BY <2>2 DEF TimerInv, InTime, Open
  <2>3. CASE at = 0 /\ list'[i].timer = TimeoutOf[list'[i].id]
    BY <1>1, <2>3, NumbersLemma DEF InTime, Open
  <2> QED
    BY <2>1, <2>2, <2>3
<1>3. TimeoutNotEarly'
  BY DEF TimerInv, TimeoutNotEarly
<1> QED
  BY <1>2, <1>3 DEF TimerInv

(* The walk begins: each blocker has seen one step more.                   *)
LEMMA WalkBegins ==
    ASSUME IInv, TimerInv, StartTimerStep
    PROVE  TimerInv'
<1>1. /\ at = 0 /\ at' = 1 /\ list' = list /\ reported' = reported
      /\ age' = [r \in Requests |->
                    IF Listed(list, r) /\ age[r] <= TimeoutOf[r] THEN age[r] + 1 ELSE age[r]]
  BY DEF StartTimerStep, Unlocked
<1>2. \A i \in DOMAIN list : list[i] \in Blockers
  BY ListLemma
<1>3. ASSUME NEW i \in DOMAIN list
      PROVE  InTime(list[i], age'[list[i].id], 1)
  <2> DEFINE b == list[i]
             r == b.id
  <2>1. /\ r \in Requests /\ b.timer \in Nat /\ TimeoutOf[r] \in Nat /\ age[r] \in Nat
        /\ Listed(list, r)
    BY <1>2, NumbersLemma DEF Listed
  <2>2. TimeoutOf[r] # 0 => b.timer # 0 /\ TimeoutOf[r] <= age[r] + b.timer
    BY <1>1, <2>1 DEF TimerInv, InTime, Open
  <2>3. age'[r] = IF age[r] <= TimeoutOf[r] THEN age[r] + 1 ELSE age[r]
    BY <1>1, <2>1
  <2> HIDE DEF b
  <2>4. TimeoutOf[r] # 0 => b.timer # 0 /\ TimeoutOf[r] + 1 <= age'[r] + b.timer
    BY <2>1, <2>2, <2>3
  <2> QED
    BY <2>4 DEF InTime, b
<1>4. \A r \in Requests : age[r] \in Nat /\ TimeoutOf[r] \in Nat /\ age'[r] >= age[r]
  <2>1. \A r \in Requests : age[r] \in Nat /\ TimeoutOf[r] \in Nat
    BY BlockerAssumption DEF BlockerAssumption, IInv, TypeOK
  <2> QED
    BY <1>1, <2>1
<1>5. TimeoutNotEarly'
  <2>1. ASSUME NEW r \in Requests, reported[r]
        PROVE  age'[r] >= TimeoutOf[r]
    <3>1. age[r] >= TimeoutOf[r]
      BY <2>1 DEF TimerInv, TimeoutNotEarly
    <3>2. age'[r] \in Nat
      BY <1>1, <1>4
    <3> QED
      BY <1>4, <3>1, <3>2
  <2> QED
    BY <1>1, <2>1 DEF TimeoutNotEarly
<1>6. \A i \in DOMAIN list : Open(1, i) = 1
  BY ListLemma DEF Open
<1> QED
  BY <1>1, <1>3, <1>5, <1>6 DEF TimerInv

(* The walk goes on: what it counts down it was owed, and a blocker that   *)
(* takes the place of a removed one is passed over.                        *)
LEMMA WalkGoesOn ==
    ASSUME IInv, TimerInv, CountDown \/ Timeout
    PROVE  TimerInv'
<1> DEFINE l == Decremented(list, at)
           b == list[at]
           r == b.id
<1>1. /\ at \in DOMAIN list /\ age' = age
      /\ \/ /\ l[at].timer # 0 /\ list' = l /\ at' = at + 1
            /\ reported' = reported
         \/ /\ l[at].timer = 0 /\ list' = RemoveMessage(l, l[at].id)
            /\ at' \in {at, at + 1}
            /\ reported' \in {reported, [reported EXCEPT ![l[at].id] = TRUE]}
  BY DEF CountDown, Timeout
<1>2. /\ list \in Seq(Blockers) /\ DistinctIds(list) /\ at \in 1..Len(list)
      /\ \A i \in 1..Len(list) : list[i] \in Blockers
      /\ Len(list) \in Nat
  BY <1>1, ListLemma
<1>3. /\ l \in Seq(Blockers) /\ Len(l) = Len(list)
      /\ \A i \in 1..Len(list) : l[i].id = list[i].id /\ (i # at => l[i] = list[i])
      /\ l[at].timer = (b.timer - 1) % TimerRange
  BY <1>2, DecrementedLemma
<1>4. /\ r \in Requests /\ b.timer \in Nat /\ b.timer < TimerRange /\ TimerRange \in Nat \ {0}
      /\ TimeoutOf[r] \in Nat /\ age[r] \in Nat /\ at \in Nat
  BY <1>2, NumbersLemma
<1>5. TimeoutOf[r] # 0 =>
         b.timer # 0 /\ TimeoutOf[r] + 1 <= age[r] + b.timer /\ l[at].timer = b.timer - 1
  <2>1. TimeoutOf[r] # 0 => b.timer # 0 /\ TimeoutOf[r] + 1 <= age[r] + b.timer
    BY <1>1, <1>2 DEF TimerInv, InTime, Open
  <2>2. b.timer # 0 => (b.timer - 1) % TimerRange = b.timer - 1
    BY <1>4, CountLemma
  <2> QED
    BY <1>3, <2>1, <2>2
<1>6. \A i \in 1..Len(list) : InTime(list[i], age[list[i].id], Open(at, i))
  BY <1>2 DEF TimerInv
<1> HIDE DEF l, b, r
<1>7. ASSUME NEW i \in 1..Len(list)
      PROVE  /\ InTime(list[i], age[list[i].id], Open(at + 1, i))
             /\ Open(at, i) = 1 => \A n \in {0, 1} : InTime(list[i], age[list[i].id], n)
  <2>1. /\ list[i].timer \in Nat /\ TimeoutOf[list[i].id] \in Nat /\ age[list[i].id] \in Nat
    BY <1>2, NumbersLemma
  <2>2. InTime(list[i], age[list[i].id], Open(at, i))
    BY <1>6
  <2>3. \A m, n \in {0, 1} : n <= m /\ InTime(list[i], age[list[i].id], m)
                                => InTime(list[i], age[list[i].id], n)
    BY <2>1 DEF InTime
  <2>4. Open(at + 1, i) <= Open(at, i) /\ Open(at + 1, i) \in {0, 1} /\ Open(at, i) \in {0, 1}
    <3>1. i \in Nat
      BY <1>2
    <3>2. at + 1 # 0 /\ (i >= at + 1 => i >= at)
      BY <1>4, <3>1
    <3>3. at # 0
      BY <1>2
    <3> QED
      BY <3>2, <3>3 DEF Open
  <2>5. Open(at, i) = 1 => \A n \in {0, 1} : InTime(list[i], age[list[i].id], n)
    BY <2>2, <2>3
  <2> QED
    BY <2>2, <2>3, <2>4, <2>5
<1>8. CASE l[at].timer # 0 /\ list' = l /\ at' = at + 1 /\ reported' = reported
  <2>1. ASSUME NEW i \in 1..Len(list)
        PROVE  InTime(l[i], age[l[i].id], Open(at + 1, i))
    <3>1. CASE i = at
      <4>1. l[at].id = r /\ Open(at + 1, at) = 0
        BY <1>2, <1>3, <1>4 DEF Open, r, b
      <4>2. TimeoutOf[r] # 0 => l[at].timer # 0 /\ TimeoutOf[r] + 0 <= age[r] + l[at].timer
        BY <1>4, <1>5, <1>8
      <4> QED
        BY <3>1, <4>1, <4>2 DEF InTime
    <3>2. CASE i # at
      BY <1>3, <1>7, <3>2
    <3> QED
      BY <3>1, <3>2
  <2>2. DOMAIN l = 1..Len(list)
    BY <1>3
  <2> QED
    BY <1>1, <1>8, <2>1, <2>2 DEF TimerInv, TimeoutNotEarly
<1>9. CASE /\ l[at].timer = 0 /\ list' = RemoveMessage(l, l[at].id)
           /\ at' \in {at, at + 1}
           /\ reported' \in {reported, [reported EXCEPT ![l[at].id] = TRUE]}
  <2>1. DistinctIds(l)
    BY <1>2, <1>3 DEF DistinctIds
  <2>2. /\ DOMAIN list' = 1..(Len(list) - 1)
        /\ \A i \in 1..(Len(list) - 1) : list'[i] = l[IF i = at THEN Len(list) ELSE i]
    BY <1>2, <1>3, <1>9, <2>1, SwapLemma
  <2>3. ASSUME NEW i \in 1..(Len(list) - 1)
        PROVE  InTime(list'[i], age[list'[i].id], Open(at', i))
    <3>1. CASE i # at
      <4>1. list'[i] = list[i] /\ i \in 1..Len(list)
        BY <1>2, <1>3, <2>2, <3>1
      <4> QED
        BY <1>6, <1>7, <1>9, <4>1
    <3>2. CASE i = at
      <4>1. list'[i] = list[Len(list)] /\ Len(list) \in 1..Len(list)
        BY <1>2, <1>3, <2>2, <3>2
      <4>2. Open(at, Len(list)) = 1
        BY <1>2, <1>4 DEF Open
      <4>3. \A n \in {0, 1} : InTime(list[Len(list)], age[list[Len(list)].id], n)
        BY <1>7, <4>1, <4>2
      <4>4. Open(at', i) \in {0, 1}
        BY DEF Open
      <4> QED
        BY <4>1, <4>3, <4>4
    <3> QED
      BY <3>1, <3>2
  <2>4. TimeoutNotEarly'
    <3>1. l[at].id = r
      BY <1>2, <1>3 DEF r, b
    <3>2. age[r] >= TimeoutOf[r]
      BY <1>4, <1>5, <1>9
    <3> QED
      BY <1>1, <1>9, <3>1, <3>2 DEF TimerInv, TimeoutNotEarly, IInv, TypeOK
  <2> QED
    BY <1>1, <2>2, <2>3, <2>4 DEF TimerInv
<1> QED
  BY <1>1, <1>8, <1>9

(* The walk ends.                                                          *)
LEMMA WalkEnds ==
    ASSUME IInv, TimerInv, EndTimerStep
    PROVE  TimerInv'
<1>1. /\ at' = 0 /\ UNCHANGED <<list, age, reported>>
  BY DEF EndTimerStep
<1>2. ASSUME NEW i \in DOMAIN list
      PROVE  InTime(list[i], age[list[i].id], 0)
  <2>1. /\ list[i].timer \in Nat /\ TimeoutOf[list[i].id] \in Nat /\ age[list[i].id] \in Nat
    BY ListLemma, NumbersLemma
  <2>2. InTime(list[i], age[list[i].id], 0) \/ InTime(list[i], age[list[i].id], 1)
    BY DEF TimerInv, Open
  <2> QED
    BY <2>1, <2>2 DEF InTime
<1> QED
  BY <1>1, <1>2 DEF TimerInv, TimeoutNotEarly, Open

(* Every step keeps the timers in time.                                    *)
LEMMA TimerInvStep == IInv /\ TimerInv /\ IInv' /\ [Next]_vars => TimerInv'
<1> SUFFICES ASSUME IInv, TimerInv, IInv', [Next]_vars
             PROVE  TimerInv'
  OBVIOUS
<1>1. CASE UNCHANGED vars
  BY <1>1, BetweenStep DEF vars
<1>2. ASSUME NEW r \in Requests,
             SendRequest(r) \/ SendRequestFails(r) \/ Wait(r) \/ WakeUp(r) \/ SendResponse(r)
      PROVE  TimerInv'
  <2>1. UNCHANGED <<list, at, age, reported>>
    BY <1>2 DEF SendRequest, SendRequestFails, Wait, WakeUp, SendResponse
  <2> QED
    BY <2>1, BetweenStep
<1>3. ASSUME NEW r \in Requests, BlockMessage(r)
      PROVE  TimerInv'
  <2>1. at = 0 /\ list' = Append(list, Blocker(r)) /\ UNCHANGED <<at, age, reported>>
    BY <1>3 DEF BlockMessage, Unlocked
  <2>2. /\ Blocker(r) \in Blockers /\ Blocker(r).timer = TimeoutOf[Blocker(r).id]
    BY BlockerLemma DEF Blocker
  <2>3. \A i \in DOMAIN list' : \/ i \in DOMAIN list /\ list'[i] = list[i]
                               \/ list'[i] = Blocker(r)
    BY <2>1, <2>2, ListLemma
  <2> QED
    BY <2>1, <2>2, <2>3, BetweenStep
<1>4. ASSUME NEW r \in Requests, Return(r)
      PROVE  TimerInv'
  <2>1. at = 0 /\ list' = RemoveMessage(list, r) /\ UNCHANGED <<at, age, reported>>
    BY <1>4 DEF Return, Unlocked
  <2>2. \A i \in DOMAIN list' : \E j \in DOMAIN list : list'[i] = list[j]
    BY <2>1, ListLemma, RemoveLemma
  <2> QED
    BY <2>1, <2>2, BetweenStep
<1>5. ASSUME NEW r \in Requests, ReleaseMessage(r)
      PROVE  TimerInv'
  <2>1. /\ UNCHANGED <<at, age, reported>>
        /\ \/ list' = list
           \/ Listed(list, r) /\ list' = [list EXCEPT ![Position(list, r)].data = r]
    BY <1>5 DEF ReleaseMessage
  <2>2. CASE list' = list
    BY <2>1, <2>2, BetweenStep
  <2>3. CASE Listed(list, r) /\ list' = [list EXCEPT ![Position(list, r)].data = r]
    <3>1. Position(list, r) \in 1..Len(list)
      BY <2>3, ListLemma, PositionLemma
    <3>2. /\ Len(list') = Len(list) /\ list' \in Seq(Blockers)
          /\ \A i \in 1..Len(list) : list'[i].id = list[i].id /\ list'[i].timer = list[i].timer
      BY <2>3, <3>1, ListLemma, ResponseLemma
    <3>3. \A i \in DOMAIN list' : /\ i \in DOMAIN list
                                 /\ list'[i].id = list[i].id
                                 /\ list'[i].timer = list[i].timer
      BY <3>2, ListLemma
    <3> QED
      BY <2>1, <3>3, BetweenStep
  <2> QED
    BY <2>1, <2>2, <2>3
<1>6. CASE MakeTimerStep
  BY <1>6, WalkBegins, WalkGoesOn, WalkEnds DEF MakeTimerStep
<1> QED
  BY <1>1, <1>2, <1>3, <1>4, <1>5, <1>6 DEF Next, Caller

(* A timeout is not reported before the timer has made as many steps since *)
(* the request was entered, wherever the swaps put its blocker.            *)
THEOREM TimeoutsInTime == Spec => []TimeoutNotEarly
<1>1. Init => TimerInv
  BY DEF Init, TimerInv, TimeoutNotEarly
<1>2. TimerInv => TimeoutNotEarly
  BY DEF TimerInv
<1> QED
  BY <1>1, <1>2, InvInit, InvStep, TimerInvStep, PTL DEF Spec

-----------------------------------------------------------------------------
(* Refinement.                                                             *)

(* What the state of a thread means for its caller.                        *)
LEMMA CallLemma ==
    ASSUME NEW r \in Requests
    PROVE  /\ pc[r] = "idle" => Call[r] = "idle"
           /\ pc[r] \in {"sent", "listed", "waiting", "woken"} => Call[r] = "blocked"
           /\ pc[r] = "done" => Call[r] = IF result[r] = NoData THEN "nullptr" ELSE "response"
BY DEF Call

(* And after the step.                                                     *)
LEMMA CallPrimeLemma ==
    ASSUME NEW r \in Requests
    PROVE  /\ pc'[r] = "idle" => Call'[r] = "idle"
           /\ pc'[r] \in {"sent", "listed", "waiting", "woken"} => Call'[r] = "blocked"
           /\ pc'[r] = "done" => Call'[r] = IF result'[r] = NoData THEN "nullptr" ELSE "response"
BY DEF Call

(* A step of one thread changes the state of its call only.                *)
LEMMA CallStep ==
    ASSUME NEW r \in Requests,
           \A q \in Requests : q # r => pc'[q] = pc[q] /\ result'[q] = result[q]
    PROVE  Call' = [Call EXCEPT ![r] = Call'[r]]
<1>1. \A q \in Requests : q # r => Call'[q] = Call[q]
  BY DEF Call
<1>2. DOMAIN Call = Requests /\ DOMAIN Call' = Requests
  BY DEF Call
<1>3. Call = [q \in Requests |-> Call[q]] /\ Call' = [q \in Requests |-> Call'[q]]
  BY DEF Call
<1> QED
  BY <1>1, <1>2, <1>3

(* A thread whose call neither starts nor ends.                            *)
LEMMA CallSame ==
    ASSUME NEW r \in Requests,
           \A q \in Requests : q # r => pc'[q] = pc[q],
           result' = result,
           pc[r] \in {"sent", "listed", "waiting", "woken"},
           pc'[r] \in {"sent", "listed", "waiting", "woken"}
    PROVE  Call' = Call
<1>1. Call' = [Call EXCEPT ![r] = Call'[r]]
  BY CallStep
<1>2. Call'[r] = Call[r]
  BY CallLemma, CallPrimeLemma
<1>3. Call = [q \in Requests |-> Call[q]]
  BY DEF Call
<1> QED
  BY <1>1, <1>2, <1>3

(* The first state of the code is the first state of the promise.          *)
LEMMA PromiseInit == Init => Promise!Init
<1> SUFFICES ASSUME Init
             PROVE  Promise!Init
  OBVIOUS
<1>1. Call = [r \in Requests |-> "idle"]
  BY DEF Init, Call
<1>2. Answered = [r \in Requests |-> FALSE]
  <2> DEFINE T == {"sent", "arrived", "lost"}
  <2>1. \A r \in Requests : answer[r] \notin T
    BY DEF Init
  <2>2. Answered = [r \in Requests |-> answer[r] \in T]
    BY DEF Answered
  <2> HIDE DEF T
  <2>3. Answered \in [Requests -> BOOLEAN]
    BY <2>2
  <2>4. \A r \in Requests : ~Answered[r]
    BY <2>1, <2>2
  <2> QED
    BY <2>3, <2>4
<1>3. reported = [r \in Requests |-> FALSE]
  BY DEF Init
<1> QED
  BY <1>1, <1>2, <1>3 DEF Promise!Init

(* What happens to the responses and timeouts when nothing happens to them.*)
LEMMA AnsweredSame ==
    ASSUME answer' = answer
    PROVE  Answered' = Answered
BY DEF Answered

(* Sending is Ask.                                                         *)
LEMMA AskStep ==
    ASSUME IInv, NEW r \in Requests, SendRequest(r) \/ SendRequestFails(r)
    PROVE  Promise!Ask(r)
<1>1. /\ pc[r] = "idle"
      /\ \E now \in {"sent", "done"} : pc' = [pc EXCEPT ![r] = now]
      /\ answer' = answer \/ answer' = [answer EXCEPT ![r] = "open"]
      /\ UNCHANGED <<list, at, hung, result, reported, age>>
  BY DEF SendRequest, SendRequestFails
<1>2. /\ result[r] = NoData
      /\ answer[r] = "none"
  BY <1>1 DEF IInv, ResultInv, CallInv
<1>3. /\ pc'[r] \in {"sent", "done"}
      /\ \A q \in Requests : q # r => pc'[q] = pc[q] /\ result'[q] = result[q]
  BY <1>1 DEF IInv, TypeOK
<1>4. Call' = [Call EXCEPT ![r] = Call'[r]]
  BY <1>3, CallStep
<1>5. Call[r] = "idle" /\ Call'[r] \in {"blocked", "nullptr"}
  BY <1>1, <1>2, <1>3, CallLemma, CallPrimeLemma
<1>6. Answered' = Answered
  <2>1. \A q \in Requests : answer'[q] = answer[q] \/ (q = r /\ answer'[q] = "open")
    BY <1>1 DEF IInv, TypeOK
  <2>2. \A q \in Requests : (answer'[q] \in {"sent", "arrived", "lost"})
                              = (answer[q] \in {"sent", "arrived", "lost"})
    BY <1>2, <2>1
  <2> QED
    BY <2>2 DEF Answered
<1>7. reported' = reported
  BY <1>1
<1> QED
  BY <1>4, <1>5, <1>6, <1>7 DEF Promise!Ask

(* The end of blockMessage is one of the two returns.                      *)
LEMMA ReturnsStep ==
    ASSUME IInv, NEW r \in Requests, Return(r)
    PROVE  Promise!ReturnResponse(r) \/ Promise!ReturnNothing(r)
<1> DEFINE d == ResponseData(list, r)
<1>1. /\ pc[r] = "woken"
      /\ result' = [result EXCEPT ![r] = d]
      /\ pc' = [pc EXCEPT ![r] = "done"]
      /\ UNCHANGED <<answer, reported>>
  BY DEF Return
<1>2. /\ d \in {r, NoData}
      /\ d = r => answer[r] = "arrived" /\ Listed(list, r)
      /\ d = NoData => \A i \in DOMAIN list : list[i].id = r => list[i].data = NoData
  BY ResponseDataLemma
<1> HIDE DEF d
<1>3. /\ pc'[r] = "done" /\ result'[r] = d
      /\ \A q \in Requests : q # r => pc'[q] = pc[q] /\ result'[q] = result[q]
  BY <1>1 DEF IInv, TypeOK
<1>4. Call' = [Call EXCEPT ![r] = Call'[r]]
  BY <1>3, CallStep
<1>5. Call[r] = "blocked" /\ Call'[r] = IF d = NoData THEN "nullptr" ELSE "response"
  BY <1>1, <1>3, CallLemma, CallPrimeLemma
<1>6. Answered' = Answered /\ reported' = reported
  BY <1>1, AnsweredSame
<1>7. CASE d = NoData
  <2>1. ~SpuriousWakeups => reported[r]
    BY <1>1, <1>2, <1>7 DEF IInv, CallInv
  <2>2. reported[r] \/ SpuriousWakeups
    BY <2>1
  <2>3. Call' = [Call EXCEPT ![r] = "nullptr"]
    BY <1>4, <1>5, <1>7
  <2> QED
    BY <1>5, <1>6, <2>2, <2>3 DEF Promise!ReturnNothing
<1>8. CASE d # NoData
  <2>1. answer[r] = "arrived" /\ Listed(list, r)
    BY <1>2, <1>8
  <2>2. ~reported[r]
    BY <2>1 DEF IInv, BlockersHaveCallers, Listed
  <2>3. Answered[r]
    BY <2>1 DEF Answered
  <2>4. Call' = [Call EXCEPT ![r] = "response"]
    BY <1>4, <1>5, <1>8
  <2> QED
    BY <1>5, <1>6, <2>2, <2>3, <2>4 DEF Promise!ReturnResponse
<1> QED
  BY <1>7, <1>8

(* sendResponse on the other side is Answer.                               *)
LEMMA AnswerStep ==
    ASSUME IInv, NEW r \in Requests, SendResponse(r)
    PROVE  Promise!Answer(r)
<1>1. /\ answer[r] = "open"
      /\ answer' = [answer EXCEPT ![r] = "sent"]
      /\ UNCHANGED <<pc, list, at, hung, result, reported, age>>
  BY DEF SendResponse
<1>2. Call' = Call
  BY <1>1 DEF Call
<1>3. Call[r] # "idle"
  <2>1. pc[r] \in {"sent", "listed", "waiting", "woken", "done"}
    BY <1>1 DEF IInv, TypeOK, CallInv
  <2> QED
    BY <2>1, CallLemma
<1>4. Answered' = [Answered EXCEPT ![r] = TRUE]
  <2>1. \A q \in Requests : answer'[q] = IF q = r THEN "sent" ELSE answer[q]
    BY <1>1 DEF IInv, TypeOK
  <2> QED
    BY <2>1 DEF Answered
<1> QED
  BY <1>1, <1>2, <1>3, <1>4 DEF Promise!Answer

(* Waiting, waking and being released are invisible to the caller.         *)
LEMMA InvisibleStep ==
    ASSUME IInv, NEW r \in Requests,
           BlockMessage(r) \/ Wait(r) \/ WakeUp(r) \/ ReleaseMessage(r)
    PROVE  UNCHANGED <<Call, Answered, reported>>
<1>1. CASE BlockMessage(r) \/ Wait(r) \/ WakeUp(r)
  <2>1. /\ pc[r] \in {"sent", "listed", "waiting"}
        /\ \E now \in {"listed", "waiting", "woken"} : pc' = [pc EXCEPT ![r] = now]
        /\ UNCHANGED <<answer, result, reported>>
    BY <1>1 DEF BlockMessage, Wait, WakeUp
  <2>2. /\ pc'[r] \in {"listed", "waiting", "woken"}
        /\ \A q \in Requests : q # r => pc'[q] = pc[q]
    BY <2>1 DEF IInv, TypeOK
  <2> QED
    BY <2>1, <2>2, CallSame, AnsweredSame
<1>2. CASE ReleaseMessage(r)
  <2>1. /\ answer[r] = "sent"
        /\ \E now \in {"arrived", "lost"} : answer' = [answer EXCEPT ![r] = now]
        /\ pc' = pc \/ pc' = [pc EXCEPT ![r] = IF @ = "waiting" THEN "woken" ELSE @]
        /\ UNCHANGED <<result, reported>>
    BY <1>2 DEF ReleaseMessage
  <2>2. Answered' = Answered
    <3>1. \A q \in Requests : answer'[q] = answer[q]
                                \/ (q = r /\ answer'[q] \in {"arrived", "lost"})
      BY <2>1 DEF IInv, TypeOK
    <3>2. \A q \in Requests : (answer'[q] \in {"sent", "arrived", "lost"})
                                = (answer[q] \in {"sent", "arrived", "lost"})
      BY <2>1, <3>1
    <3> QED
      BY <3>2 DEF Answered
  <2>3. CASE pc[r] = "waiting"
    <3>1. pc'[r] \in {"waiting", "woken"} /\ \A q \in Requests : q # r => pc'[q] = pc[q]
      BY <2>1, <2>3 DEF IInv, TypeOK
    <3> QED
      BY <2>1, <2>2, <2>3, <3>1, CallSame
  <2>4. CASE pc[r] # "waiting"
    <3>1. pc' = pc
      BY <2>1, <2>4 DEF IInv, TypeOK
    <3>2. Call' = Call
      BY <2>1, <3>1 DEF Call
    <3> QED
      BY <2>1, <2>2, <3>2
  <2> QED
    BY <2>3, <2>4
<1> QED
  BY <1>1, <1>2

(* The timer is invisible, except for a timeout.                           *)
LEMMA TimerPromise ==
    ASSUME IInv, MakeTimerStep
    PROVE  UNCHANGED <<Call, Answered, reported>> \/ \E r \in Requests : Promise!TimeOut(r)
<1>1. UNCHANGED <<pc, answer, result>>
  BY DEF MakeTimerStep, StartTimerStep, CountDown, Timeout, EndTimerStep
<1>2. Call' = Call /\ Answered' = Answered
  BY <1>1 DEF Call, Answered
<1>3. CASE reported' = reported
  BY <1>2, <1>3
<1>4. CASE reported' # reported
  <2> DEFINE r == Decremented(list, at)[at].id
  <2>1. /\ at \in DOMAIN list
        /\ reported' = [reported EXCEPT ![r] = TRUE]
    BY <1>4 DEF MakeTimerStep, StartTimerStep, CountDown, Timeout, EndTimerStep
  <2>2. r = list[at].id
    BY <2>1, ListLemma, DecrementedLemma
  <2> HIDE DEF r
  <2>3. r \in Requests /\ pc[r] \in {"listed", "waiting", "woken"}
    BY <2>1, <2>2, ListLemma DEF IInv, BlockersHaveCallers
  <2>4. Call[r] = "blocked"
    BY <2>3, CallLemma
  <2>5. Promise!TimeOut(r)
    BY <1>2, <2>1, <2>4 DEF Promise!TimeOut
  <2> QED
    BY <2>3, <2>5
<1> QED
  BY <1>3, <1>4

(* sendRequest keeps its promise: whatever the receive threads, the timer  *)
(* and the other callers do in between, every behaviour of the code is a   *)
(* behaviour of RequestPromise.                                            *)
THEOREM PromiseKept == Spec => ImplementsPromise
<1>1. IInv /\ [Next]_vars => [Promise!Next]_<<Call, Answered, reported>>
  <2> SUFFICES ASSUME IInv, [Next]_vars
               PROVE  [Promise!Next]_<<Call, Answered, reported>>
    OBVIOUS
  <2>1. ASSUME NEW r \in Requests, Caller(r)
        PROVE  [Promise!Next]_<<Call, Answered, reported>>
    BY <2>1, AskStep, ReturnsStep, InvisibleStep DEF Caller, Promise!Next
  <2>2. ASSUME NEW r \in Requests, SendResponse(r) \/ ReleaseMessage(r)
        PROVE  [Promise!Next]_<<Call, Answered, reported>>
    BY <2>2, AnswerStep, InvisibleStep DEF Promise!Next
  <2>3. CASE MakeTimerStep
    BY <2>3, TimerPromise DEF Promise!Next
  <2>4. CASE UNCHANGED vars
    BY <2>4 DEF vars, Call, Answered
  <2> QED
    BY <2>1, <2>2, <2>3, <2>4 DEF Next
<1> QED
  BY <1>1, PromiseInit, InvInit, InvStep, PTL DEF Spec, ImplementsPromise, Promise!Spec,
                                                  Promise!vars
=============================================================================
