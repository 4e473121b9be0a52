--------------------------- MODULE ServerRegistry ---------------------------
(***************************************************************************)
(* The servers of a process: the add-methods, closeServer and              *)
(* cloesAllServers of the SessionController, the server map of the         *)
(* SessionHandler with its spin-lock, and both objects being deleted and   *)
(* created again.                                                          *)
(*                                                                         *)
(* The application calls from several threads.  It has one controller at a *)
(* time, as m_sessionController is a single pointer: that a second one     *)
(* would share the handler of the first (session_controller.cpp:60) is not *)
(* modelled.  It deletes the controller when no call is in progress, and   *)
(* uses an id only as long as the controller that returned it lives.  A    *)
(* critical section is one step; the counter of the ids is read and        *)
(* written without a lock.                                                 *)
(***************************************************************************)
EXTENDS Integers

CONSTANTS
    Servers,    \* the calls of an add-method; each creates one server object
    Closes,     \* the calls of closeServer
    MaxCounter, \* bound on m_serverIdCounter
    MaxLives,   \* bound on the number of controllers, one after the other
    Nobody      \* the lock is free; a call of closeServer closed no server

ASSUME RegistryAssumption ==
    /\ MaxCounter \in Nat \ {0}
    /\ MaxLives \in Nat \ {0}
    /\ Nobody \notin Servers \cup Closes

VARIABLES
    life,       \* the controller: "up", "closing" (in its destructor), "closed", "down"
    lives,      \* number of controllers so far
    counter,    \* m_serverIdCounter
    map,        \* m_servers: set of <<id, server>>
    lock,       \* m_serverMap_lock: Nobody, or the call that returned with it
    server,     \* the server object
    adding,     \* where a call of an add-method is
    loaded,     \* the value it read when it increments the counter
    id,         \* the id it returned, 0 if it failed or has not returned
    closing,    \* where a call of closeServer is
    target,     \* the call whose id it was given
    hit,        \* the server it closed
    \* history
    bornIn,     \* number of the controller a server was added to
    raced,      \* numbers of the controllers on which two calls counted at once
    refused     \* servers that could not be closed

controllerVars == <<life, lives, counter, map, lock>>
addVars == <<adding, loaded, id, bornIn, raced>>
closeVars == <<closing, target, hit>>
vars == <<controllerVars, server, addVars, closeVars, refused>>

TypeOK ==
    /\ life \in {"up", "closing", "closed", "down"}
    /\ lives \in 1 .. MaxLives
    /\ counter \in 0 .. MaxCounter
    /\ map \in SUBSET ((1 .. MaxCounter) \X Servers)
    /\ lock \in Closes \cup {Nobody}
    /\ server \in [Servers -> {"none", "leaked", "listening", "closed", "scheduled"}]
    /\ adding \in [Servers -> {"idle", "listening", "loaded", "stored", "inserted", "done"}]
    /\ loaded \in [Servers -> 0 .. MaxCounter]
    /\ id \in [Servers -> 0 .. MaxCounter]
    /\ closing \in [Closes -> {"idle", "locking", "done"}]
    /\ target \in [Closes -> Servers \cup {Nobody}]
    /\ hit \in [Closes -> Servers \cup {Nobody}]
    /\ bornIn \in [Servers -> 0 .. MaxLives]
    /\ raced \in SUBSET (1 .. MaxLives)
    /\ refused \in SUBSET Servers

Init ==
    /\ life = "up"
    /\ lives = 1
    /\ counter = 0
    /\ map = {}
    /\ lock = Nobody
    /\ server = [s \in Servers |-> "none"]
    /\ adding = [s \in Servers |-> "idle"]
    /\ loaded = [s \in Servers |-> 0]
    /\ id = [s \in Servers |-> 0]
    /\ closing = [c \in Closes |-> "idle"]
    /\ target = [c \in Closes |-> Nobody]
    /\ hit = [c \in Closes |-> Nobody]
    /\ bornIn = [s \in Servers |-> 0]
    /\ raced = {}
    /\ refused = {}

-----------------------------------------------------------------------------
Unlocked == lock = Nobody
Adding(s) == adding[s] \notin {"idle", "done"}
Counting(s) == adding[s] \in {"loaded", "stored", "inserted"}
InUse == (\E s \in Servers : Adding(s)) \/ (\E c \in Closes : closing[c] = "locking")

(* The server an id names: map::find.                                      *)
Found(i) == {s \in Servers : <<i, s>> \in map}

(* map::insert keeps an entry that is there already.                       *)
Inserted(i, s) == IF Found(i) = {} THEN map \cup {<<i, s>>} ELSE map

(* An id the living controller has returned.                               *)
Known(s) == id[s] # 0 /\ bornIn[s] = lives

-----------------------------------------------------------------------------
(* The add-methods.                                                        *)

(* The server is created and its thread started, or it cannot be: then the *)
(* method returns 0, and the object is forgotten.                          *)
InitServer(s) ==
    /\ life = "up"
    /\ adding[s] = "idle"
    /\ counter < MaxCounter
    /\ bornIn' = [bornIn EXCEPT ![s] = lives]
    /\ \E started \in BOOLEAN :
          /\ adding' = [adding EXCEPT ![s] = IF started THEN "listening" ELSE "done"]
          /\ server' = [server EXCEPT ![s] = IF started THEN "listening" ELSE "leaked"]
    /\ UNCHANGED <<controllerVars, loaded, id, raced, closeVars, refused>>

(* m_serverIdCounter++, which two threads may do at once.                  *)
LoadCounter(s) ==
    /\ adding[s] = "listening"
    /\ counter < MaxCounter
    /\ loaded' = [loaded EXCEPT ![s] = counter]
    /\ adding' = [adding EXCEPT ![s] = "loaded"]
    /\ raced' = IF \E t \in Servers : Counting(t) THEN raced \cup {lives} ELSE raced
    /\ UNCHANGED <<controllerVars, server, id, bornIn, closeVars, refused>>

StoreCounter(s) ==
    /\ adding[s] = "loaded"
    /\ counter' = loaded[s] + 1
    /\ adding' = [adding EXCEPT ![s] = "stored"]
    /\ UNCHANGED <<life, lives, map, lock, server, loaded, id, bornIn, raced, closeVars,
                   refused>>

(* Mutation: the value before the increment is used as id.                 *)
InsertServerEarly(s) ==
    /\ adding[s] = "stored"
    /\ Unlocked
    /\ map' = Inserted(loaded[s], s)
    /\ adding' = [adding EXCEPT ![s] = "inserted"]
    /\ UNCHANGED <<life, lives, counter, lock, server, loaded, id, bornIn, raced, closeVars,
                   refused>>

(* Mutation: the insertion is tried again until the id is free.            *)
InsertServerWaits(s) ==
    /\ adding[s] = "stored"
    /\ Unlocked
    /\ Found(counter) = {}
    /\ map' = Inserted(counter, s)
    /\ adding' = [adding EXCEPT ![s] = "inserted"]
    /\ UNCHANGED <<life, lives, counter, lock, server, loaded, id, bornIn, raced, closeVars,
                   refused>>

(* The counter is read again: now, and once more for the return.           *)
InsertServer(s) ==
    /\ adding[s] = "stored"
    /\ Unlocked
    /\ map' = Inserted(counter, s)
    /\ adding' = [adding EXCEPT ![s] = "inserted"]
    /\ UNCHANGED <<life, lives, counter, lock, server, loaded, id, bornIn, raced, closeVars,
                   refused>>

(* Mutation: the value before the increment is returned.                   *)
ReturnIdEarly(s) ==
    /\ adding[s] = "inserted"
    /\ id' = [id EXCEPT ![s] = loaded[s]]
    /\ adding' = [adding EXCEPT ![s] = "done"]
    /\ UNCHANGED <<controllerVars, server, loaded, bornIn, raced, closeVars, refused>>

ReturnId(s) ==
    /\ adding[s] = "inserted"
    /\ id' = [id EXCEPT ![s] = counter]
    /\ adding' = [adding EXCEPT ![s] = "done"]
    /\ UNCHANGED <<controllerVars, server, loaded, bornIn, raced, closeVars, refused>>

-----------------------------------------------------------------------------
(* closeServer.                                                            *)

CallCloseServer(c, s) ==
    /\ life = "up"
    /\ closing[c] = "idle"
    /\ Known(s)
    /\ closing' = [closing EXCEPT ![c] = "locking"]
    /\ target' = [target EXCEPT ![c] = s]
    /\ UNCHANGED <<controllerVars, server, addVars, hit, refused>>

(* Mutation: the entry of the deleted server stays.                        *)
CloseServerKeepsEntry(c, s) ==
    /\ closing[c] = "locking"
    /\ Unlocked
    /\ s \in Found(id[target[c]])
    /\ server' = [server EXCEPT ![s] = "scheduled"]
    /\ hit' = [hit EXCEPT ![c] = s]
    /\ closing' = [closing EXCEPT ![c] = "done"]
    /\ UNCHANGED <<controllerVars, addVars, target, refused>>

(* Mutation: the first server of the map is closed.                        *)
CloseServerFirst(c, s) ==
    /\ closing[c] = "locking"
    /\ Unlocked
    /\ \E i \in 1 .. MaxCounter : /\ s \in Found(i)
                                  /\ \A j \in 1 .. (i - 1) : Found(j) = {}
                                  /\ map' = map \ {<<i, s>>}
    /\ server' = [server EXCEPT ![s] = "scheduled"]
    /\ hit' = [hit EXCEPT ![c] = s]
    /\ closing' = [closing EXCEPT ![c] = "done"]
    /\ UNCHANGED <<life, lives, counter, lock, addVars, target, refused>>

(* The thread of the server is scheduled for deletion, its entry erased.   *)
CloseServer(c, s) ==
    /\ closing[c] = "locking"
    /\ Unlocked
    /\ s \in Found(id[target[c]])
    /\ server' = [server EXCEPT ![s] = "scheduled"]
    /\ map' = map \ {<<id[target[c]], s>>}
    /\ hit' = [hit EXCEPT ![c] = s]
    /\ closing' = [closing EXCEPT ![c] = "done"]
    /\ UNCHANGED <<life, lives, counter, lock, addVars, target, refused>>

(* The id does not exist (any more).                                       *)
CloseNothing(c) ==
    /\ closing[c] = "locking"
    /\ Unlocked
    /\ Found(id[target[c]]) = {}
    /\ closing' = [closing EXCEPT ![c] = "done"]
    /\ UNCHANGED <<controllerVars, server, addVars, target, hit, refused>>

(* The server cannot be closed: the method returns with the lock.          *)
CloseFails(c, s) ==
    /\ closing[c] = "locking"
    /\ Unlocked
    /\ s \in Found(id[target[c]])
    /\ lock' = c
    /\ refused' = refused \cup {s}
    /\ closing' = [closing EXCEPT ![c] = "done"]
    /\ UNCHANGED <<life, lives, counter, map, server, addVars, target, hit>>

-----------------------------------------------------------------------------
(* The servers the map leads to.                                           *)
Entered == {s \in Servers : \E i \in 1 .. MaxCounter : s \in Found(i)}

(* cloesAllServers closes the servers it can, and erases none.             *)
ClosesAll ==
    \E bad \in SUBSET Entered :
        /\ Unlocked
        /\ server' = [s \in Servers |-> IF s \in Entered \ bad THEN "closed" ELSE server[s]]
        /\ refused' = refused \cup {s \in bad : server[s] = "listening"}

CloseAllServers ==
    /\ life = "up"
    /\ ClosesAll
    /\ UNCHANGED <<controllerVars, addVars, closeVars>>

(* ~SessionController.                                                     *)
BeginDestruction ==
    /\ life = "up"
    /\ ~InUse
    /\ life' = "closing"
    /\ UNCHANGED <<lives, counter, map, lock, server, addVars, closeVars, refused>>

(* Mutation: the servers are left to themselves.                           *)
DestructorClosesNone ==
    /\ life = "closing"
    /\ life' = "closed"
    /\ UNCHANGED <<lives, counter, map, lock, server, addVars, closeVars, refused>>

DestructorClosesAll ==
    /\ life = "closing"
    /\ ClosesAll
    /\ life' = "closed"
    /\ UNCHANGED <<lives, counter, map, lock, addVars, closeVars>>

(* ~SessionHandler clears the map, which deletes no server.                *)
DeleteHandler ==
    /\ life = "closed"
    /\ Unlocked
    /\ map' = {}
    /\ life' = "down"
    /\ UNCHANGED <<lives, counter, lock, server, addVars, closeVars, refused>>

(* Another controller; there is no handler any more, so it creates one.    *)
NewController ==
    /\ life = "down"
    /\ lives < MaxLives
    /\ life' = "up"
    /\ lives' = lives + 1
    /\ counter' = 0
    /\ lock' = Nobody
    /\ UNCHANGED <<map, server, addVars, closeVars, refused>>

Add(s) == LoadCounter(s) \/ StoreCounter(s) \/ InsertServer(s) \/ ReturnId(s)
Close(c) == CloseNothing(c) \/ \E s \in Servers : CloseServer(c, s) \/ CloseFails(c, s)
Destructor == DestructorClosesAll \/ DeleteHandler

Next ==
    \/ \E s \in Servers : InitServer(s) \/ Add(s)
    \/ \E c \in Closes : Close(c) \/ \E s \in Servers : CallCloseServer(c, s)
    \/ CloseAllServers \/ BeginDestruction \/ Destructor \/ NewController

Spec == Init /\ [][Next]_vars

(* A thread inside a call goes on, and gets the spin-lock, which is held   *)
(* for a moment only, when it is freed again and again.                    *)
Fairness ==
    /\ \A s \in Servers : SF_vars(Add(s))
    /\ \A c \in Closes : SF_vars(Close(c))
    /\ SF_vars(Destructor)

FairSpec == Spec /\ Fairness

-----------------------------------------------------------------------------
(* Correctness.                                                            *)

(* The id an add-method returned is the one closeServer finds this server  *)
(* under as long as the controller lives, although the counter is read     *)
(* three times without a lock: unless two calls ever counted at once.      *)
IdNamesServer ==
    \A s \in Servers : Known(s) /\ lives \notin raced /\ life # "down" =>
        /\ Found(id[s]) \subseteq {s}
        /\ Found(id[s]) = {} => \E c \in Closes : hit[c] = s

(* The map leads to servers that exist: none that was closed by its id and *)
(* scheduled for deletion, and none of an earlier controller.              *)
NoDeletedServerListed ==
    \A i \in 1 .. MaxCounter : \A s \in Found(i) :
        server[s] \in {"listening", "closed"} /\ bornIn[s] = lives

(* closeServer closes the server its id was returned for, or none, unless  *)
(* calls of the add-methods raced; and no server is closed by two ids or   *)
(* twice by one.                                                           *)
RightServerClosed ==
    /\ \A c \in Closes : hit[c] = Nobody \/ hit[c] = target[c] \/ bornIn[hit[c]] \in raced
    /\ \A c, d \in Closes : hit[c] = hit[d] /\ hit[c] # Nobody => c = d

(* When the controller is deleted no server of it goes on listening, un-   *)
(* less it could not be closed, or its entry got lost in a race of calls.  *)
NobodyListensAfterwards ==
    life = "down" =>
        \A s \in Servers : server[s] = "listening" => s \in refused \/ bornIn[s] \in raced

(* Every call returns, and the destructor comes to its end, whatever other *)
(* threads do to the map and the counter, unless the lock stayed behind.   *)
CallsReturn == <>[](InUse \/ life \in {"closing", "closed"} => lock # Nobody)
=============================================================================
