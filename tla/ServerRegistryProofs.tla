------------------------ MODULE ServerRegistryProofs ------------------------
(* The safety of ServerRegistry, for every number of servers, of calls of  *)
(* closeServer and of controllers one after the other.                     *)
EXTENDS ServerRegistry, TLAPS

-----------------------------------------------------------------------------
(* The inductive invariant.                                                *)

(* Calls are made on the living controller, and end before it is deleted.  *)
LifeInv ==
    /\ \A s \in Servers :
          /\ bornIn[s] <= lives
          /\ Adding(s) => life = "up" /\ bornIn[s] = lives
          /\ adding[s] = "idle" => bornIn[s] = 0 /\ server[s] = "none"
          /\ adding[s] = "loaded" => loaded[s] < MaxCounter
          /\ adding[s] \in {"stored", "inserted"} => counter > 0
          /\ id[s] # 0 => adding[s] = "done"
          /\ adding[s] \in {"listening", "loaded", "stored"} => server[s] = "listening"
    /\ \A c \in Closes : closing[c] = "locking" => life = "up" /\ bornIn[target[c]] = lives
    /\ raced \subseteq 1 .. lives

(* The map is a function, and so is its inverse.                           *)
OneToOne == \A x, y \in map : x[1] = y[1] <=> x[2] = y[2]

(* Its servers exist, and are those of the living controller.              *)
MapInv ==
    /\ life = "down" => map = {}
    /\ \A i \in 1 .. MaxCounter : \A s \in Found(i) :
          /\ server[s] \in {"listening", "closed"}
          /\ bornIn[s] = lives
          /\ adding[s] \in {"inserted", "done"}
          /\ adding[s] = "done" => id[s] # 0

(* As long as no calls count at once, the counter is what the one call     *)
(* that counts takes it for, and the ids below it are in use.              *)
CountInv ==
    lives \notin raced /\ life # "down" =>
        /\ \A s, t \in Servers : Counting(s) /\ Counting(t) => s = t
        /\ \A s \in Servers :
              /\ adding[s] = "loaded" => loaded[s] = counter
              /\ adding[s] \in {"stored", "inserted"} =>
                    \A t \in Servers : Known(t) => id[t] < counter
              /\ adding[s] = "stored" => Found(counter) = {}
              /\ adding[s] = "inserted" => s \in Found(counter)
              /\ Known(s) => /\ id[s] <= counter
                             /\ Found(id[s]) \subseteq {s}
                             /\ Found(id[s]) = {} => \E c \in Closes : hit[c] = s
        /\ \A i \in 1 .. MaxCounter : \A s \in Found(i) :
              /\ i <= counter
              /\ adding[s] = "done" => id[s] = i
              /\ adding[s] = "inserted" => i = counter

(* What a call of closeServer was asked for and what it has done.          *)
CloseInv ==
    /\ \A c \in Closes :
          /\ closing[c] # "done" => hit[c] = Nobody
          /\ closing[c] # "idle" => target[c] \in Servers /\ id[target[c]] # 0
          /\ hit[c] # Nobody => server[hit[c]] = "scheduled"
    /\ RightServerClosed

(* Where the entry of a server that listens is.                            *)
ListenInv ==
    \A s \in Servers : server[s] = "listening" =>
        \/ s \in refused
        \/ bornIn[s] \in raced
        \/ /\ life \in {"up", "closing"}
           /\ bornIn[s] = lives
           /\ Adding(s) \/ \E i \in 1 .. MaxCounter : s \in Found(i)

IInv == TypeOK /\ LifeInv /\ OneToOne /\ MapInv /\ CountInv /\ CloseInv /\ ListenInv

-----------------------------------------------------------------------------
(* The steps.                                                              *)

(* A server is created; nothing leads to it yet.                           *)
LEMMA InitServerStep ==
    ASSUME IInv, NEW s \in Servers, InitServer(s)
    PROVE  IInv'
<1>1. TypeOK'
  BY RegistryAssumption DEF IInv, TypeOK, InitServer, controllerVars, closeVars
<1>2. LifeInv'
  BY DEF IInv, TypeOK, LifeInv, InitServer, controllerVars, closeVars, Adding
<1>3. OneToOne'
  BY DEF IInv, OneToOne, InitServer, controllerVars
<1>4. MapInv'
  BY DEF IInv, MapInv, InitServer, controllerVars, Found
<1>5. CountInv'
  BY DEF IInv, LifeInv, MapInv, CountInv, InitServer, controllerVars, closeVars, Found,
     Known, Counting
<1>6. CloseInv'
  <2>1. RightServerClosed'
    BY DEF IInv, LifeInv, CloseInv, RightServerClosed, InitServer, closeVars
  <2> QED
    BY <2>1, RegistryAssumption DEF IInv, LifeInv, CloseInv, InitServer, closeVars
<1>7. ListenInv'
  BY DEF IInv, TypeOK, ListenInv, InitServer, controllerVars, Found, Adding
<1> QED
  BY <1>1, <1>2, <1>3, <1>4, <1>5, <1>6, <1>7 DEF IInv

(* From here on the call counts; a second one is a race.                   *)
LEMMA LoadCounterStep ==
    ASSUME IInv, NEW s \in Servers, LoadCounter(s)
    PROVE  IInv'
<1>1. TypeOK'
  BY RegistryAssumption DEF IInv, TypeOK, LoadCounter, controllerVars, closeVars
<1>2. LifeInv'
  BY DEF IInv, TypeOK, LifeInv, LoadCounter, controllerVars, closeVars, Adding
<1>3. OneToOne'
  BY DEF IInv, OneToOne, LoadCounter, controllerVars
<1>4. MapInv'
  BY DEF IInv, MapInv, LoadCounter, controllerVars, Found
<1>5. CountInv'
  BY DEF IInv, TypeOK, CountInv, LoadCounter, controllerVars, closeVars, Found, Known, Counting
<1>6. CloseInv'
  <2>1. RightServerClosed'
    BY DEF IInv, CloseInv, RightServerClosed, LoadCounter, closeVars
  <2> QED
    BY <2>1, RegistryAssumption DEF IInv, CloseInv, LoadCounter, closeVars
<1>7. ListenInv'
  BY DEF IInv, ListenInv, LoadCounter, controllerVars, Found, Adding
<1> QED
  BY <1>1, <1>2, <1>3, <1>4, <1>5, <1>6, <1>7 DEF IInv

(* Without a race the counter becomes an id nobody has.                    *)
LEMMA StoreCounterStep ==
    ASSUME IInv, NEW s \in Servers, StoreCounter(s)
    PROVE  IInv'
<1>1. TypeOK'
  BY RegistryAssumption DEF IInv, TypeOK, LifeInv, StoreCounter, closeVars
<1>2. LifeInv'
  BY DEF IInv, TypeOK, LifeInv, StoreCounter, closeVars, Adding
<1>3. OneToOne'
  BY DEF IInv, OneToOne, StoreCounter
<1>4. MapInv'
  BY DEF IInv, MapInv, StoreCounter, Found
<1>5. CountInv'
  <2> SUFFICES ASSUME lives \notin raced, life # "down"
               PROVE  CountInv'
    BY DEF CountInv, StoreCounter
  <2>1. /\ loaded[s] = counter /\ counter' = counter + 1
        /\ adding' = [adding EXCEPT ![s] = "stored"]
        /\ counter \in 0 .. MaxCounter
        /\ UNCHANGED <<life, lives, raced, loaded, map, id, bornIn, hit>>
        /\ \A t \in Servers : Counting(t) => t = s
    BY DEF IInv, TypeOK, CountInv, StoreCounter, Counting, closeVars
  <2>2. ASSUME NEW i \in 1 .. MaxCounter, NEW t \in Found(i)
        PROVE  i <= counter /\ adding[t] = "done" /\ id[t] = i
    <3>1. adding[s] = "loaded" /\ t \in Servers
      BY DEF StoreCounter, Found
    <3>2. adding[t] \in {"inserted", "done"} /\ i <= counter /\ (adding[t] = "done" => id[t] = i)
      BY DEF IInv, MapInv, CountInv
    <3> QED
      BY <2>1, <3>1, <3>2 DEF Counting
  <2>3. \A i \in 1 .. MaxCounter : Found(i)' = Found(i)
    BY <2>1 DEF Found
  <2>4. \A t \in Servers : Known(t) =>
            /\ id[t] \in 1 .. counter /\ Found(id[t]) \subseteq {t}
            /\ Found(id[t]) = {} => \E c \in Closes : hit[c] = t
    BY DEF IInv, TypeOK, CountInv, Known
  <2>5. Found(counter + 1) = {}
    BY <1>1, <2>1, <2>2 DEF TypeOK
  <2>6. \A t \in Servers : Counting(t)' => t = s
    BY <2>1 DEF Counting
  <2>7. \A t \in Servers : adding'[t] \notin {"loaded", "inserted"} /\ (adding'[t] = "stored" => t = s)
    BY <2>1 DEF Counting, IInv, TypeOK
  <2>8. ASSUME NEW t \in Servers, Known(t)'
        PROVE  /\ id'[t] < counter' /\ id'[t] <= counter'
               /\ Found(id[t])' \subseteq {t}
               /\ Found(id[t])' = {} => \E c \in Closes : hit'[c] = t
    <3>1. /\ id[t] \in 1 .. counter /\ Found(id[t]) \subseteq {t}
          /\ Found(id[t]) = {} => \E c \in Closes : hit[c] = t
      <4>1. Known(t)
        BY <2>1, <2>8 DEF Known
      <4> QED
        BY <2>4, <4>1
    <3>2. Found(id[t])' = Found(id[t])
      BY <2>1 DEF Found
    <3> QED
      BY <2>1, <3>1, <3>2
  <2>9. Found(counter)' = {}
    BY <2>1, <2>5 DEF Found
  <2>10. \A i \in 1 .. MaxCounter : \A t \in Found(i)' :
             i <= counter' /\ id'[t] = i /\ adding'[t] # "inserted"
    BY <2>1, <2>2, <2>3
  <2> QED
    BY <2>6, <2>7, <2>8, <2>9, <2>10 DEF CountInv
<1>6. CloseInv'
  <2>1. RightServerClosed'
    BY DEF IInv, CloseInv, RightServerClosed, StoreCounter, closeVars
  <2> QED
    BY <2>1, RegistryAssumption DEF IInv, CloseInv, StoreCounter, closeVars
<1>7. ListenInv'
  BY DEF IInv, ListenInv, StoreCounter, Found, Adding
<1> QED
  BY <1>1, <1>2, <1>3, <1>4, <1>5, <1>6, <1>7 DEF IInv

(* Without a race that id is free in the map.                              *)
LEMMA InsertServerStep ==
    ASSUME IInv, NEW s \in Servers, InsertServer(s)
    PROVE  IInv'
<1>1. TypeOK'
  BY RegistryAssumption DEF IInv, TypeOK, LifeInv, InsertServer, closeVars, Inserted
<1>2. LifeInv'
  BY DEF IInv, LifeInv, InsertServer, closeVars, Adding
<1>3. OneToOne'
  BY DEF IInv, TypeOK, OneToOne, MapInv, InsertServer, Found, Inserted
<1>4. MapInv'
  <2>1. ASSUME NEW i \in 1 .. MaxCounter, NEW t \in Found(i)'
        PROVE  t \in Found(i) \/ t = s
    BY DEF InsertServer, Inserted, Found
  <2>2. /\ server[s] = "listening" /\ bornIn[s] = lives /\ life = "up"
        /\ adding' = [adding EXCEPT ![s] = "inserted"]
        /\ UNCHANGED <<life, lives, server, id, bornIn>>
    BY DEF IInv, LifeInv, InsertServer, Adding
  <2> QED
    BY <2>1, <2>2 DEF IInv, TypeOK, MapInv
<1>5. CountInv'
  BY DEF IInv, TypeOK, MapInv, CountInv, InsertServer, closeVars, Found, Inserted, Known,
     Counting
<1>6. CloseInv'
  <2>1. RightServerClosed'
    BY DEF IInv, CloseInv, RightServerClosed, InsertServer, closeVars
  <2> QED
    BY <2>1, RegistryAssumption DEF IInv, CloseInv, InsertServer, closeVars
<1>7. ListenInv'
  BY DEF IInv, ListenInv, InsertServer, closeVars, Found, Inserted, Adding
<1> QED
  BY <1>1, <1>2, <1>3, <1>4, <1>5, <1>6, <1>7 DEF IInv

(* Without a race it is the id of the entry.                               *)
LEMMA ReturnIdStep ==
    ASSUME IInv, NEW s \in Servers, ReturnId(s)
    PROVE  IInv'
<1>1. TypeOK'
  BY RegistryAssumption DEF IInv, TypeOK, ReturnId, controllerVars, closeVars
<1>2. LifeInv'
  BY DEF IInv, TypeOK, LifeInv, ReturnId, controllerVars, closeVars, Adding
<1>3. OneToOne'
  BY DEF IInv, OneToOne, ReturnId, controllerVars
<1>4. MapInv'
  BY DEF IInv, TypeOK, LifeInv, MapInv, ReturnId, controllerVars, Found
<1>5. CountInv'
  BY DEF IInv, TypeOK, MapInv, CountInv, ReturnId, controllerVars, closeVars, Found,
     Known, Counting
<1>6. CloseInv'
  <2>1. RightServerClosed'
    BY DEF IInv, CloseInv, RightServerClosed, ReturnId, closeVars
  <2> QED
    BY <2>1, RegistryAssumption DEF IInv, LifeInv, CloseInv, ReturnId, closeVars
<1>7. ListenInv'
  BY DEF IInv, TypeOK, CountInv, ListenInv, ReturnId, controllerVars, Found, Adding
<1> QED
  BY <1>1, <1>2, <1>3, <1>4, <1>5, <1>6, <1>7 DEF IInv

(* closeServer is called with an id that is known.                         *)
LEMMA CallCloseServerStep ==
    ASSUME IInv, NEW c \in Closes, NEW s \in Servers, CallCloseServer(c, s)
    PROVE  IInv'
<1>1. TypeOK'
  BY RegistryAssumption DEF IInv, TypeOK, CallCloseServer, controllerVars, addVars
<1>2. LifeInv'
  BY DEF IInv, TypeOK, LifeInv, CallCloseServer, controllerVars, addVars, Adding, Known
<1>3. OneToOne'
  BY DEF IInv, OneToOne, CallCloseServer, controllerVars
<1>4. MapInv'
  BY DEF IInv, MapInv, CallCloseServer, controllerVars, addVars, Found
<1>5. CountInv'
  BY DEF IInv, CountInv, CallCloseServer, controllerVars, addVars, Found, Known, Counting
<1>6. CloseInv'
  <2>1. RightServerClosed'
    BY DEF IInv, CloseInv, RightServerClosed, CallCloseServer, addVars
  <2> QED
    BY <2>1, RegistryAssumption
       DEF IInv, TypeOK, CloseInv, CallCloseServer, addVars, Known
<1>7. ListenInv'
  BY DEF IInv, ListenInv, CallCloseServer, controllerVars, addVars, Found, Adding
<1> QED
  BY <1>1, <1>2, <1>3, <1>4, <1>5, <1>6, <1>7 DEF IInv

(* The entry and the server go together.                                   *)
LEMMA CloseServerStep ==
    ASSUME IInv, NEW c \in Closes, NEW s \in Servers, CloseServer(c, s)
    PROVE  IInv'
<1> DEFINE i == id[target[c]]
<1>0. /\ closing[c] = "locking" /\ lock = Nobody /\ lock' = Nobody
      /\ i \in 1 .. MaxCounter /\ <<i, s>> \in map
      /\ target[c] \in Servers /\ Known(target[c])
      /\ map' = map \ {<<i, s>>}
      /\ hit' = [hit EXCEPT ![c] = s] /\ hit[c] = Nobody
      /\ closing' = [closing EXCEPT ![c] = "done"]
      /\ server' = [server EXCEPT ![s] = "scheduled"]
      /\ adding[s] \in {"inserted", "done"}
      /\ server[s] \in {"listening", "closed"} /\ bornIn[s] = lives
      /\ \A j \in 1 .. MaxCounter : <<j, s>> \notin map'
      /\ UNCHANGED <<life, lives, counter, lock, adding, loaded, id, bornIn, raced, target, refused>>
  BY DEF IInv, TypeOK, LifeInv, OneToOne, MapInv, CloseInv, CloseServer, Unlocked, Found,
     Known, addVars
<1> HIDE DEF i
<1>1. TypeOK'
  BY RegistryAssumption DEF IInv, TypeOK, CloseServer, addVars
<1>2. LifeInv'
  BY <1>0 DEF IInv, LifeInv, Adding
<1>3. OneToOne'
  BY DEF IInv, OneToOne, CloseServer
<1>4. MapInv'
  BY <1>0 DEF IInv, MapInv, Found
<1>5. CountInv'
  <2> SUFFICES ASSUME lives \notin raced, life # "down"
               PROVE  CountInv'
    BY <1>0 DEF CountInv
  <2>1. \A j \in 1 .. MaxCounter : Found(j)' = Found(j) \ {s}
    <3>1. \A j \in 1 .. MaxCounter : \A t \in Servers :
              <<j, t>> \in map' <=> <<j, t>> \in map /\ t # s
      BY <1>0
    <3> QED
      BY <3>1 DEF Found
  <2>2. ASSUME NEW t \in Servers, Known(t)
        PROVE  /\ id[t] <= counter
               /\ Found(id[t])' \subseteq {t}
               /\ Found(id[t])' = {} => \E k \in Closes : hit'[k] = t
    <3>1. /\ id[t] \in 1 .. MaxCounter /\ id[t] <= counter /\ Found(id[t]) \subseteq {t}
          /\ Found(id[t]) = {} => \E k \in Closes : hit[k] = t
      BY <2>2 DEF IInv, TypeOK, CountInv, Known
    <3>2. Found(id[t])' = Found(id[t]) \ {s}
      BY <1>0, <2>1, <3>1
    <3>3. CASE Found(id[t]) = {}
      <4>1. PICK k \in Closes : hit[k] = t
        BY <3>1, <3>3
      <4>2. k # c /\ hit'[k] = t
        BY <1>0, <4>1, RegistryAssumption
      <4> QED
        BY <3>1, <3>2, <4>2
    <3>4. CASE s \in Found(id[t])
      <4>1. s = t /\ hit'[c] = t
        BY <1>0, <3>1, <3>4 DEF IInv, TypeOK
      <4> QED
        BY <3>1, <3>2, <4>1
    <3> QED
      BY <3>1, <3>2, <3>3, <3>4
  <2>3. ASSUME NEW t \in Servers
        PROVE  /\ adding[t] = "loaded" => loaded[t] = counter
               /\ adding[t] \in {"stored", "inserted"} =>
                     \A u \in Servers : Known(u) => id[u] < counter
               /\ adding[t] = "stored" => Found(counter)' = {}
               /\ adding[t] = "inserted" => t \in Found(counter)'
    <3>1. /\ adding[t] = "loaded" => loaded[t] = counter
          /\ adding[t] \in {"stored", "inserted"} =>
                /\ counter \in 1 .. MaxCounter
                /\ \A u \in Servers : Known(u) => id[u] < counter
          /\ adding[t] = "stored" => Found(counter) = {}
          /\ adding[t] = "inserted" => t \in Found(counter)
      BY DEF IInv, TypeOK, LifeInv, CountInv
    <3>2. adding[t] = "inserted" => t # s
      <4>1. i < counter \/ adding[t] # "inserted"
        BY <1>0, <3>1 DEF i
      <4>2. t = s /\ adding[t] = "inserted" => i = counter
        BY <1>0 DEF IInv, CountInv, Found
      <4> QED
        BY <1>0, <4>1, <4>2
    <3> QED
      BY <1>0, <2>1, <3>1, <3>2
  <2>4. ASSUME NEW j \in 1 .. MaxCounter, NEW t \in Found(j)'
        PROVE  /\ j <= counter
               /\ adding[t] = "done" => id[t] = j
               /\ adding[t] = "inserted" => j = counter
    BY <2>1 DEF IInv, CountInv
  <2>5. \A t, u \in Servers : Counting(t) /\ Counting(u) => t = u
    BY DEF IInv, CountInv
  <2> QED
    BY <1>0, <2>2, <2>3, <2>4, <2>5 DEF CountInv, Known, Counting
<1>6. CloseInv'
  <2>1. RightServerClosed'
    <3>1. lives \in raced \/ s = target[c]
      <4>1. life # "down" /\ s \in Found(i)
        BY <1>0 DEF IInv, LifeInv, Found
      <4>2. lives \notin raced => Found(i) \subseteq {target[c]}
        BY <1>0, <4>1 DEF IInv, CountInv, i
      <4> QED
        BY <4>1, <4>2
    <3>2. \A k \in Closes : hit[k] # s
      BY <1>0, RegistryAssumption DEF IInv, CloseInv
    <3> QED
      BY <1>0, <3>1 DEF IInv, CloseInv, RightServerClosed
  <2> QED
    BY <2>1, RegistryAssumption DEF IInv, TypeOK, CloseInv, CloseServer, addVars
<1>7. ListenInv'
  BY DEF IInv, TypeOK, ListenInv, CloseServer, addVars, Found, Adding
<1> QED
  BY <1>1, <1>2, <1>3, <1>4, <1>5, <1>6, <1>7 DEF IInv

(* closeServer that finds nothing.                                         *)
LEMMA CloseNothingStep ==
    ASSUME IInv, NEW c \in Closes, CloseNothing(c)
    PROVE  IInv'
<1>1. TypeOK'
  BY RegistryAssumption DEF IInv, TypeOK, CloseNothing, controllerVars, addVars
<1>2. LifeInv'
  BY DEF IInv, LifeInv, CloseNothing, controllerVars, addVars, Adding
<1>3. OneToOne'
  BY DEF IInv, OneToOne, CloseNothing, controllerVars
<1>4. MapInv'
  BY DEF IInv, MapInv, CloseNothing, controllerVars, addVars, Found
<1>5. CountInv'
  BY DEF IInv, CountInv, CloseNothing, controllerVars, addVars, Found, Known, Counting
<1>6. CloseInv'
  <2>1. RightServerClosed'
    BY DEF IInv, CloseInv, RightServerClosed, CloseNothing, addVars
  <2> QED
    BY <2>1, RegistryAssumption DEF IInv, CloseInv, CloseNothing, addVars
<1>7. ListenInv'
  BY DEF IInv, ListenInv, CloseNothing, controllerVars, addVars, Found, Adding
<1> QED
  BY <1>1, <1>2, <1>3, <1>4, <1>5, <1>6, <1>7 DEF IInv

(* closeServer that keeps the lock: its entry stays, too.                  *)
LEMMA CloseFailsStep ==
    ASSUME IInv, NEW c \in Closes, NEW s \in Servers, CloseFails(c, s)
    PROVE  IInv'
<1>1. TypeOK'
  BY RegistryAssumption DEF IInv, TypeOK, CloseFails, addVars
<1>2. LifeInv'
  BY DEF IInv, LifeInv, CloseFails, addVars, Adding
<1>3. OneToOne'
  BY DEF IInv, OneToOne, CloseFails
<1>4. MapInv'
  BY DEF IInv, MapInv, CloseFails, addVars, Found
<1>5. CountInv'
  BY DEF IInv, CountInv, CloseFails, addVars, Found, Known, Counting
<1>6. CloseInv'
  <2>1. RightServerClosed'
    BY DEF IInv, CloseInv, RightServerClosed, CloseFails, addVars
  <2> QED
    BY <2>1, RegistryAssumption DEF IInv, CloseInv, CloseFails, addVars
<1>7. ListenInv'
  BY DEF IInv, ListenInv, CloseFails, addVars, Found, Adding
<1> QED
  BY <1>1, <1>2, <1>3, <1>4, <1>5, <1>6, <1>7 DEF IInv

(* cloesAllServers changes no entry.                                       *)
LEMMA CloseAllServersStep ==
    ASSUME IInv, CloseAllServers
    PROVE  IInv'
<1>0. /\ \A s \in Servers : server[s] \in {"none", "leaked", "scheduled"} => server'[s] = server[s]
      /\ \A s \in Servers : server'[s] = server[s] \/ server'[s] = "closed"
      /\ \A s \in Servers : adding[s] \in {"listening", "loaded", "stored"} => server'[s] = server[s]
      /\ UNCHANGED map
  BY DEF IInv, TypeOK, MapInv, CloseAllServers, ClosesAll, Entered, controllerVars, Found
<1>1. TypeOK'
  BY RegistryAssumption DEF IInv, TypeOK, CloseAllServers, ClosesAll, Entered, controllerVars,
     addVars, closeVars
<1>2. LifeInv'
  BY <1>0 DEF IInv, LifeInv, CloseAllServers, controllerVars, addVars, closeVars, Adding
<1>3. OneToOne'
  BY DEF IInv, OneToOne, CloseAllServers, controllerVars
<1>4. MapInv'
  BY DEF IInv, MapInv, CloseAllServers, ClosesAll, Entered, controllerVars, addVars, Found
<1>5. CountInv'
  BY DEF IInv, CountInv, CloseAllServers, controllerVars, addVars, closeVars, Found,
     Known, Counting
<1>6. CloseInv'
  <2>1. RightServerClosed'
    BY DEF IInv, CloseInv, RightServerClosed, CloseAllServers, addVars, closeVars
  <2>2. \A k \in Closes : hit[k] # Nobody => hit[k] \in Servers /\ server'[hit[k]] = "scheduled"
    BY <1>0 DEF IInv, TypeOK, CloseInv
  <2> QED
    BY <2>1, <2>2 DEF IInv, CloseInv, CloseAllServers, addVars, closeVars
<1>7. ListenInv'
  BY DEF IInv, ListenInv, CloseAllServers, ClosesAll, Entered, controllerVars, addVars, Found, Adding
<1> QED
  BY <1>1, <1>2, <1>3, <1>4, <1>5, <1>6, <1>7 DEF IInv

(* The destructor starts when no call is in progress.                      *)
LEMMA BeginDestructionStep ==
    ASSUME IInv, BeginDestruction
    PROVE  IInv'
<1>1. TypeOK'
  BY RegistryAssumption DEF IInv, TypeOK, BeginDestruction, addVars, closeVars
<1>2. LifeInv'
  BY DEF IInv, LifeInv, BeginDestruction, addVars, closeVars, Adding, InUse
<1>3. OneToOne'
  BY DEF IInv, OneToOne, BeginDestruction
<1>4. MapInv'
  BY DEF IInv, MapInv, BeginDestruction, addVars, Found
<1>5. CountInv'
  BY DEF IInv, CountInv, BeginDestruction, addVars, closeVars, Found, Known, Counting
<1>6. CloseInv'
  <2>1. RightServerClosed'
    BY DEF IInv, CloseInv, RightServerClosed, BeginDestruction, addVars, closeVars
  <2> QED
    BY <2>1, RegistryAssumption DEF IInv, CloseInv, BeginDestruction, addVars, closeVars
<1>7. ListenInv'
  BY DEF IInv, ListenInv, BeginDestruction, addVars, Found, Adding
<1> QED
  BY <1>1, <1>2, <1>3, <1>4, <1>5, <1>6, <1>7 DEF IInv

(* Without a race it reaches every entry of the map.                       *)
LEMMA DestructorClosesAllStep ==
    ASSUME IInv, DestructorClosesAll
    PROVE  IInv'
<1>0. /\ \A s \in Servers : server[s] \in {"none", "leaked", "scheduled"} => server'[s] = server[s]
      /\ \A s \in Servers : server'[s] = server[s] \/ server'[s] = "closed"
      /\ \A s \in Servers : adding[s] \in {"listening", "loaded", "stored"} => server'[s] = server[s]
      /\ UNCHANGED map
  BY DEF IInv, TypeOK, MapInv, DestructorClosesAll, Entered, ClosesAll, Entered, Found
<1>1. TypeOK'
  BY RegistryAssumption DEF IInv, TypeOK, DestructorClosesAll, Entered, ClosesAll, Entered, addVars, closeVars
<1>2. LifeInv'
  BY <1>0 DEF IInv, LifeInv, DestructorClosesAll, Entered, addVars, closeVars, Adding
<1>3. OneToOne'
  BY DEF IInv, OneToOne, DestructorClosesAll
<1>4. MapInv'
  BY DEF IInv, MapInv, DestructorClosesAll, Entered, ClosesAll, Entered, addVars, Found
<1>5. CountInv'
  BY DEF IInv, CountInv, DestructorClosesAll, Entered, addVars, closeVars, Found, Known, Counting
<1>6. CloseInv'
  <2>1. RightServerClosed'
    BY DEF IInv, CloseInv, RightServerClosed, DestructorClosesAll, Entered, addVars, closeVars
  <2>2. \A k \in Closes : hit[k] # Nobody => hit[k] \in Servers /\ server'[hit[k]] = "scheduled"
    BY <1>0 DEF IInv, TypeOK, CloseInv
  <2> QED
    BY <2>1, <2>2 DEF IInv, CloseInv, DestructorClosesAll, Entered, addVars, closeVars
<1>7. ListenInv'
  BY DEF IInv, LifeInv, CountInv, ListenInv, DestructorClosesAll, Entered, ClosesAll, Entered, addVars, Found
<1> QED
  BY <1>1, <1>2, <1>3, <1>4, <1>5, <1>6, <1>7 DEF IInv

(* The map is emptied.                                                     *)
LEMMA DeleteHandlerStep ==
    ASSUME IInv, DeleteHandler
    PROVE  IInv'
<1>1. TypeOK'
  BY RegistryAssumption DEF IInv, TypeOK, DeleteHandler, addVars, closeVars
<1>2. LifeInv'
  BY DEF IInv, LifeInv, DeleteHandler, addVars, closeVars, Adding
<1>3. OneToOne'
  BY DEF OneToOne, DeleteHandler
<1>4. MapInv'
  BY DEF MapInv, DeleteHandler, Found
<1>5. CountInv'
  BY DEF CountInv, DeleteHandler
<1>6. CloseInv'
  <2>1. RightServerClosed'
    BY DEF IInv, CloseInv, RightServerClosed, DeleteHandler, addVars, closeVars
  <2> QED
    BY <2>1, RegistryAssumption DEF IInv, CloseInv, DeleteHandler, addVars, closeVars
<1>7. ListenInv'
  BY DEF IInv, ListenInv, DeleteHandler, addVars
<1> QED
  BY <1>1, <1>2, <1>3, <1>4, <1>5, <1>6, <1>7 DEF IInv

(* A new controller starts without races, ids and entries.                 *)
LEMMA NewControllerStep ==
    ASSUME IInv, NewController
    PROVE  IInv'
<1>1. TypeOK'
  BY RegistryAssumption DEF IInv, TypeOK, NewController, addVars, closeVars
<1>2. LifeInv'
  BY DEF IInv, TypeOK, LifeInv, NewController, addVars, closeVars, Adding
<1>3. OneToOne'
  BY DEF IInv, OneToOne, NewController
<1>4. MapInv'
  BY DEF IInv, MapInv, NewController, Found
<1>5. CountInv'
  <2>1. /\ map' = {} /\ UNCHANGED <<adding, id, bornIn>>
        /\ lives' = lives + 1 /\ lives \in Nat
    BY DEF IInv, TypeOK, MapInv, NewController, addVars
  <2>2. \A s \in Servers : ~Counting(s)' /\ ~Known(s)'
    BY <2>1 DEF IInv, LifeInv, NewController, Adding, Counting, Known
  <2>3. \A i \in 1 .. MaxCounter : Found(i)' = {}
    BY <2>1 DEF Found
  <2> QED
    BY <2>2, <2>3 DEF CountInv, Counting
<1>6. CloseInv'
  <2>1. RightServerClosed'
    BY DEF IInv, CloseInv, RightServerClosed, NewController, addVars, closeVars
  <2> QED
    BY <2>1, RegistryAssumption DEF IInv, CloseInv, NewController, addVars, closeVars
<1>7. ListenInv'
  BY DEF IInv, ListenInv, NewController, addVars
<1> QED
  BY <1>1, <1>2, <1>3, <1>4, <1>5, <1>6, <1>7 DEF IInv

(* The first controller, before any call.                                  *)
LEMMA InvInit == Init => IInv
<1> SUFFICES ASSUME Init
             PROVE  IInv
  OBVIOUS
<1>1. TypeOK
  BY RegistryAssumption DEF Init, TypeOK
<1>2. LifeInv /\ OneToOne /\ MapInv
  BY RegistryAssumption DEF Init, LifeInv, OneToOne, MapInv, Adding, Found
<1>3. CountInv
  BY DEF Init, CountInv, Counting, Known, Found
<1>4. CloseInv /\ ListenInv
  BY DEF Init, CloseInv, RightServerClosed, ListenInv
<1> QED
  BY <1>1, <1>2, <1>3, <1>4 DEF IInv

(* Every step preserves the invariant.                                     *)
LEMMA InvStep == IInv /\ [Next]_vars => IInv'
<1> SUFFICES ASSUME IInv, [Next]_vars
             PROVE  IInv'
  OBVIOUS
<1>1. ASSUME NEW s \in Servers, InitServer(s) \/ Add(s)
      PROVE  IInv'
  BY <1>1, InitServerStep, LoadCounterStep, StoreCounterStep, InsertServerStep,
     ReturnIdStep DEF Add
<1>2. ASSUME NEW c \in Closes, Close(c) \/ \E s \in Servers : CallCloseServer(c, s)
      PROVE  IInv'
  BY <1>2, CallCloseServerStep, CloseServerStep, CloseNothingStep, CloseFailsStep DEF Close
<1>3. CASE CloseAllServers \/ BeginDestruction \/ Destructor \/ NewController
  BY <1>3, CloseAllServersStep, BeginDestructionStep, DestructorClosesAllStep,
     DeleteHandlerStep,
     NewControllerStep DEF Destructor
<1>4. CASE UNCHANGED vars
  <2> USE <1>4 DEF vars, controllerVars, addVars, closeVars, IInv
  <2>1. TypeOK' /\ OneToOne'
    BY DEF TypeOK, OneToOne
  <2>2. LifeInv' /\ MapInv' /\ ListenInv'
    BY DEF LifeInv, MapInv, ListenInv, Adding, Found
  <2>3. CountInv'
    BY DEF CountInv, Counting, Known, Found
  <2>4. CloseInv'
    BY DEF CloseInv, RightServerClosed, Found
  <2> QED
    BY <2>1, <2>2, <2>3, <2>4
<1> QED
  BY <1>1, <1>2, <1>3, <1>4 DEF Next

(* The invariant holds in every state.                                     *)
THEOREM Invariance == Spec => []IInv
BY InvInit, InvStep, PTL DEF Spec

-----------------------------------------------------------------------------
(* The theorems.                                                           *)

(* Every variable keeps its type, although two threads may store the same  *)
(* counter: no id is 0 and none is larger than the number of calls.        *)
THEOREM TypeCorrect == Spec => []TypeOK
<1>1. IInv => TypeOK
  BY DEF IInv
<1> QED
  BY <1>1, Invariance, PTL

(* Without a race of add-methods, an id leads to the server it was         *)
(* returned for until this server is closed.                               *)
THEOREM IdsNameServers == Spec => []IdNamesServer
<1>1. IInv => IdNamesServer
  BY DEF IInv, CountInv, IdNamesServer
<1> QED
  BY <1>1, Invariance, PTL

(* The map never leads to a server that was closed by its id, nor to one   *)
(* of an earlier controller.                                               *)
THEOREM ListedServersLive == Spec => []NoDeletedServerListed
<1>1. IInv => NoDeletedServerListed
  BY DEF IInv, MapInv, NoDeletedServerListed
<1> QED
  BY <1>1, Invariance, PTL

(* closeServer closes the server it was meant for, and no server twice,    *)
(* however many threads close and add.                                     *)
THEOREM ServersClosedOnce == Spec => []RightServerClosed
<1>1. IInv => RightServerClosed
  BY DEF IInv, CloseInv
<1> QED
  BY <1>1, Invariance, PTL

(* A deleted controller leaves no listening server behind, except those    *)
(* that could not be closed or that a race took the entry from.            *)
THEOREM ServersDoNotOutlive == Spec => []NobodyListensAfterwards
<1>1. IInv => NobodyListensAfterwards
  BY DEF IInv, ListenInv, NobodyListensAfterwards
<1> QED
  BY <1>1, Invariance, PTL

=============================================================================
