------------------------------ MODULE PeerTable ------------------------------
(***************************************************************************)
(* Discovery: how peers enter and leave the users array (users.c) while    *)
(* the socket thread handles pings (threadsocket.c) and the main thread    *)
(* ages, admits and prints users once a second (thread_main).              *)
(*                                                                         *)
(* The socket thread's calls take their locks one at a time, so it is      *)
(* modelled with one action per call; between updateTimeOutUser, isMyAddr  *)
(* and addNewUser the main thread may run.  The main thread holds          *)
(* LockUsersArray while main = "sweep" and LockNewUsersArray while         *)
(* main = "register".                                                      *)
(*                                                                         *)
(* An address stands for sin_addr and sin_port.  Names, and the buffers of *)
(* a user (module JitterBuffer), are left out.                             *)
(***************************************************************************)
EXTENDS Integers, Sequences, FiniteSets

CONSTANTS
  Peers,                      \* addresses of other hosts
  Own,                        \* addresses this host may have
  A_arrayUsersThreshold,      \* 30 in broadcasttalk.h
  A_arrayNewUsersThreshold,   \* 10 in broadcasttalk.h
  A_TimeOutUser,              \* 10 in broadcasttalk.h
  IpCheckPeriod,              \* 9 in thread_main
  MallocFails,                \* whether malloc and realloc may return NULL
  LoadMisses,                 \* whether getAllLocalIP may miss addresses
  Lively,                     \* the peers whose pings keep arriving
  NULL                        \* the null pointer

Addr == Peers \cup Own
User == [addr : Addr, pingTimOut : Nat]

ASSUME AddrAssumption == Peers \cap Own = {} /\ Lively \subseteq Peers
ASSUME ThresholdAssumption ==
  /\ A_arrayUsersThreshold \in Nat
  /\ A_arrayNewUsersThreshold \in Nat
  /\ A_TimeOutUser \in Nat
  /\ IpCheckPeriod \in Nat
ASSUME FailureAssumption == {MallocFails, LoadMisses} \subseteq BOOLEAN
ASSUME NullAssumption == NULL \notin User /\ NULL \notin Addr

VARIABLES
  users,        \* the array of pointers; its length is lenghtArray
  newUsers,     \* slot -> [Waiting, addr]
  myIp,         \* the addresses recorded in selfIP
  ifaces,       \* the addresses this host has now
  main,         \* where the main thread is
  i, t,         \* locals of incrTimeOutAllOrDeleteUsers
  slot,         \* local of registerNewUser
  loadLocalIP,  \* local of registerNewUser
  checkLoclIP,  \* local of thread_main
  sock,         \* where the socket thread is
  from,         \* the address of the ping it handles
  silent        \* auxiliary: ticks since a peer's last ping, up to A_TimeOutUser + 1

userVars == <<users, newUsers>>
ipVars == <<myIp, ifaces>>
mainVars == <<main, i, t, slot, loadLocalIP, checkLoclIP>>
sockVars == <<sock, from>>
vars == <<userVars, ipVars, mainVars, sockVars, silent>>

NewSlot == 1 .. A_arrayNewUsersThreshold
MainStates == {"start", "sleep", "sweep", "swept", "register", "print", "refresh", "crashed"}

Known == {users[k].addr : k \in {n \in DOMAIN users : users[n] # NULL}}

TypeOK ==
  /\ users \in Seq(User \cup {NULL})
  /\ Len(users) <= A_arrayUsersThreshold
  /\ newUsers \in [NewSlot -> [Waiting : {0, 1}, addr : Addr \cup {NULL}]]
  /\ \A k \in NewSlot : newUsers[k].Waiting = 1 => newUsers[k].addr \in Addr
  /\ myIp \subseteq Own
  /\ ifaces \subseteq Own
  /\ main \in MainStates
  /\ i \in Nat \ {0}
  /\ t \in Nat
  /\ slot \in 1 .. A_arrayNewUsersThreshold + 1
  /\ loadLocalIP \in {0, 1}
  /\ checkLoclIP \in 0 .. IpCheckPeriod + 1
  /\ sock \in {"recv", "unknown", "foreign"}
  /\ from \in Addr \cup {NULL}
  /\ sock # "recv" => from \in Addr
  /\ silent \in [Peers -> 0 .. A_TimeOutUser + 1]

Init ==
  /\ users = <<>>
  /\ newUsers = [k \in NewSlot |-> [Waiting |-> 0, addr |-> NULL]]
  /\ myIp = {}
  /\ ifaces \in SUBSET Own
  /\ main = "start"
  /\ i = 1 /\ t = 0 /\ slot = 1 /\ loadLocalIP = 1 /\ checkLoclIP = 0
  /\ sock = "recv" /\ from = NULL
  /\ silent = [a \in Peers |-> A_TimeOutUser + 1]

-----------------------------------------------------------------------------
\* The socket thread: a ping from address a.

\* The index of the user at address a; the empty set for -1.  (The scan stops at
\* the first one.  There is no second: NoDuplicateUsers.)
getIndexOfUser(a) == {k \in DOMAIN users : users[k] # NULL /\ users[k].addr = a}

\* updateTimeOutUser: a known user is alive again; -1 sends the thread on.
ReceivePing(a) ==
  /\ main \notin {"sweep", "crashed"}
  /\ sock = "recv"
  /\ a \in Own => a \in ifaces
  /\ users' = [k \in DOMAIN users |->
                 IF k \in getIndexOfUser(a) THEN [users[k] EXCEPT !.pingTimOut = 0]
                                            ELSE users[k]]
  /\ IF getIndexOfUser(a) = {}
       THEN sock' = "unknown" /\ from' = a
       ELSE UNCHANGED sockVars
  /\ silent' = [b \in Peers |-> IF b = a THEN 0 ELSE silent[b]]
  /\ UNCHANGED <<newUsers, ipVars, mainVars>>

\* Both fields return to their values at rest once the ping is dealt with.
PingDone == sock' = "recv" /\ from' = NULL

\* isMyAddr
CheckMyAddr ==
  /\ main # "crashed"
  /\ sock = "unknown"
  /\ IF from \in myIp THEN PingDone ELSE sock' = "foreign" /\ UNCHANGED from
  /\ UNCHANGED <<userVars, ipVars, mainVars, silent>>

getIndexOfNewUsers(a) == {k \in NewSlot : newUsers[k].Waiting = 1 /\ newUsers[k].addr = a}

\* Faulty variants of addNewUser: no look for a waiting entry, the slot filled
\* but not marked.
addNewUserTwice ==
  /\ main \notin {"register", "crashed"}
  /\ sock = "foreign"
  /\ \/ /\ \A k \in NewSlot : newUsers[k].Waiting = 1
        /\ UNCHANGED newUsers
     \/ \E k \in NewSlot :
          /\ newUsers[k].Waiting = 0
          /\ \A n \in 1 .. k - 1 : newUsers[n].Waiting = 1
          /\ newUsers' = [newUsers EXCEPT ![k] = [Waiting |-> 1, addr |-> from]]
  /\ PingDone
  /\ UNCHANGED <<users, ipVars, mainVars, silent>>

addNewUserUnmarked ==
  /\ main \notin {"register", "crashed"}
  /\ sock = "foreign"
  /\ \E k \in NewSlot :
       newUsers' = [newUsers EXCEPT ![k] = [Waiting |-> 0, addr |-> from]]
  /\ PingDone
  /\ UNCHANGED <<users, ipVars, mainVars, silent>>

\* addNewUser: the first free slot, unless the address waits already or no slot
\* is free.
addNewUser ==
  /\ main \notin {"register", "crashed"}
  /\ sock = "foreign"
  /\ \/ /\ \/ getIndexOfNewUsers(from) # {}
           \/ \A k \in NewSlot : newUsers[k].Waiting = 1
        /\ UNCHANGED newUsers
     \/ /\ getIndexOfNewUsers(from) = {}
        /\ \E k \in NewSlot :
             /\ newUsers[k].Waiting = 0
             /\ \A n \in 1 .. k - 1 : newUsers[n].Waiting = 1
             /\ newUsers' = [newUsers EXCEPT ![k] = [Waiting |-> 1, addr |-> from]]
  /\ PingDone
  /\ UNCHANGED <<users, ipVars, mainVars, silent>>

-----------------------------------------------------------------------------
\* The main thread.

\* getAllLocalIP records the addresses of the moment and forgets none.  It may
\* miss some: a socket or ioctl call fails, or there are more than ten.
getAllLocalIP ==
  \E found \in SUBSET ifaces :
    /\ LoadMisses \/ found = ifaces
    /\ myIp' = myIp \cup found

\* addtoIPArray copies an address through the result of realloc unchecked.
LoadCrash ==
  /\ MallocFails
  /\ ifaces # {}
  /\ \/ main = "start"
     \/ main = "register" /\ slot \in NewSlot /\ newUsers[slot].Waiting = 1 /\ loadLocalIP = 1
     \/ main = "refresh" /\ checkLoclIP > IpCheckPeriod
  /\ main' = "crashed"
  /\ UNCHANGED <<userVars, ipVars, i, t, slot, loadLocalIP, checkLoclIP, sockVars, silent>>

\* Before its loop, when the socket thread runs already.
FirstLoad ==
  /\ main = "start"
  /\ getAllLocalIP
  /\ main' = "sleep"
  /\ UNCHANGED <<userVars, ifaces, i, t, slot, loadLocalIP, checkLoclIP, sockVars, silent>>

\* incrTimeOutAllOrDeleteUsers takes the lock and ages every user.
AgeUsers ==
  /\ main = "sleep"
  /\ users' = [k \in DOMAIN users |->
                 IF users[k] = NULL THEN NULL
                 ELSE [users[k] EXCEPT !.pingTimOut = @ + 1]]
  /\ main' = "sweep"
  /\ silent' = [a \in Peers |->
                  IF silent[a] > A_TimeOutUser THEN silent[a] ELSE silent[a] + 1]
  /\ UNCHANGED <<newUsers, ipVars, i, t, slot, loadLocalIP, checkLoclIP, sockVars>>

\* The array without entry k.
Without(k) == [n \in 1 .. Len(users) - 1 |-> IF n < k THEN users[n] ELSE users[n + 1]]

\* delUser: without memory for the smaller array only its length is reduced.
delUser(k) ==
  \/ users' = Without(k)
  \/ /\ MallocFails
     /\ Len(users) > 1
     /\ users' = [n \in 1 .. Len(users) - 1 |-> users[n]]

\* Faulty variant of TimedOut: one tick too early.
TimedOutEarly(u) == u.pingTimOut >= A_TimeOutUser

TimedOut(u) == u.pingTimOut > A_TimeOutUser

\* The loop starts over after every deletion and gives up after twice as many
\* turns as there are users left.
Sweeping == i <= Len(users) /\ t <= 2 * Len(users)

SweepTurn ==
  /\ main = "sweep"
  /\ Sweeping
  /\ \/ users[i] = NULL /\ UNCHANGED <<users, i>>
     \/ users[i] # NULL /\ ~TimedOut(users[i]) /\ i' = i + 1 /\ UNCHANGED users
     \/ users[i] # NULL /\ TimedOut(users[i]) /\ i' = 1 /\ delUser(i)
  /\ t' = t + 1
  /\ UNCHANGED <<newUsers, ipVars, main, slot, loadLocalIP, checkLoclIP, sockVars, silent>>

\* The lock is released; i and t return to their values at rest.
EndSweep ==
  /\ main = "sweep"
  /\ ~Sweeping
  /\ main' = "swept"
  /\ i' = 1 /\ t' = 0
  /\ UNCHANGED <<userVars, ipVars, slot, loadLocalIP, checkLoclIP, sockVars, silent>>

\* registerNewUser takes LockNewUsersArray.
StartRegister ==
  /\ main = "swept"
  /\ main' = "register"
  /\ UNCHANGED <<userVars, ipVars, i, t, slot, loadLocalIP, checkLoclIP, sockVars, silent>>

\* createUser: NULL without memory.
createUser(a) ==
  {[addr |-> a, pingTimOut |-> 0]} \cup (IF MallocFails THEN {NULL} ELSE {})

\* Faulty variants of addUser: no look for the address, one user too many.
addUserTwice(a) ==
  \/ /\ Len(users) < A_arrayUsersThreshold
     /\ \E u \in createUser(a) : users' = Append(users, u)
  \/ /\ Len(users) >= A_arrayUsersThreshold \/ MallocFails
     /\ UNCHANGED users

addUserOverfull(a) ==
  \/ /\ getIndexOfUser(a) = {}
     /\ Len(users) <= A_arrayUsersThreshold
     /\ \E u \in createUser(a) : users' = Append(users, u)
  \/ /\ getIndexOfUser(a) # {} \/ MallocFails
     /\ UNCHANGED users

\* addUser: not twice, not beyond the threshold, not without memory.
addUser(a) ==
  \/ /\ getIndexOfUser(a) = {}
     /\ Len(users) < A_arrayUsersThreshold
     /\ \E u \in createUser(a) : users' = Append(users, u)
  \/ /\ \/ getIndexOfUser(a) # {}
        \/ Len(users) >= A_arrayUsersThreshold
        \/ MallocFails
     /\ UNCHANGED users

\* Faulty variants of RegisterSlot: the local addresses are not loaded first, the
\* slot is not released.
RegisterSlotUnloaded ==
  /\ main = "register"
  /\ slot \in NewSlot
  /\ newUsers[slot].Waiting = 1
  /\ IF newUsers[slot].addr \in myIp THEN UNCHANGED users ELSE addUser(newUsers[slot].addr)
  /\ newUsers' = [newUsers EXCEPT ![slot] = [Waiting |-> 0, addr |-> NULL]]
  /\ slot' = slot + 1
  /\ UNCHANGED <<ipVars, main, i, t, loadLocalIP, checkLoclIP, sockVars, silent>>

RegisterSlotForever ==
  /\ main = "register"
  /\ slot \in NewSlot
  /\ newUsers[slot].Waiting = 1
  /\ IF loadLocalIP = 1 THEN getAllLocalIP ELSE UNCHANGED myIp
  /\ loadLocalIP' = 0
  /\ IF newUsers[slot].addr \in myIp' THEN UNCHANGED users ELSE addUser(newUsers[slot].addr)
  /\ slot' = slot + 1
  /\ UNCHANGED <<newUsers, ifaces, main, i, t, checkLoclIP, sockVars, silent>>

\* A waiting address becomes a user unless it turns out to be this host's own;
\* the first one found makes the own addresses be loaded again.  (The address of
\* a free slot is never read.)
RegisterSlot ==
  /\ main = "register"
  /\ slot \in NewSlot
  /\ newUsers[slot].Waiting = 1
  /\ IF loadLocalIP = 1 THEN getAllLocalIP ELSE UNCHANGED myIp
  /\ loadLocalIP' = 0
  /\ IF newUsers[slot].addr \in myIp' THEN UNCHANGED users ELSE addUser(newUsers[slot].addr)
  /\ newUsers' = [newUsers EXCEPT ![slot] = [Waiting |-> 0, addr |-> NULL]]
  /\ slot' = slot + 1
  /\ UNCHANGED <<ifaces, main, i, t, checkLoclIP, sockVars, silent>>

SkipSlot ==
  /\ main = "register"
  /\ slot \in NewSlot
  /\ newUsers[slot].Waiting = 0
  /\ slot' = slot + 1
  /\ UNCHANGED <<userVars, ipVars, main, i, t, loadLocalIP, checkLoclIP, sockVars, silent>>

EndRegister ==
  /\ main = "register"
  /\ slot \notin NewSlot
  /\ main' = "print"
  /\ slot' = 1 /\ loadLocalIP' = 1
  /\ UNCHANGED <<userVars, ipVars, i, t, checkLoclIP, sockVars, silent>>

\* printUseBuffForAll reads every user, a null one too: the program ends there.
PrintUsers ==
  /\ main = "print"
  /\ main' = IF \E k \in DOMAIN users : users[k] = NULL THEN "crashed" ELSE "refresh"
  /\ UNCHANGED <<userVars, ipVars, i, t, slot, loadLocalIP, checkLoclIP, sockVars, silent>>

\* The own addresses are loaded every IpCheckPeriod + 2 turns of the loop.
CheckLocalIP ==
  /\ main = "refresh"
  /\ IF checkLoclIP > IpCheckPeriod
       THEN getAllLocalIP /\ checkLoclIP' = 0
       ELSE UNCHANGED myIp /\ checkLoclIP' = checkLoclIP + 1
  /\ main' = "sleep"
  /\ UNCHANGED <<userVars, ifaces, i, t, slot, loadLocalIP, sockVars, silent>>

-----------------------------------------------------------------------------
\* External: an interface of this host gets an address.  (Losing one is left out:
\* what was recorded is never forgotten.)
IfaceUp(a) ==
  /\ a \notin ifaces
  /\ ifaces' = ifaces \cup {a}
  /\ UNCHANGED <<userVars, myIp, mainVars, sockVars, silent>>

MainStep ==
  \/ FirstLoad \/ AgeUsers \/ SweepTurn \/ EndSweep
  \/ StartRegister \/ RegisterSlot \/ SkipSlot \/ EndRegister
  \/ PrintUsers \/ CheckLocalIP \/ LoadCrash

HandlePing == CheckMyAddr \/ addNewUser

Next ==
  \/ MainStep
  \/ HandlePing
  \/ \E a \in Addr : ReceivePing(a)
  \/ \E a \in Own : IfaceUp(a)

Spec == Init /\ [][Next]_vars

\* Both threads run on.  The socket thread gets LockNewUsersArray at last, which
\* the main thread leaves alone for a second at a time.  The pings of lively
\* peers, broadcast once a second, are not all lost; those of the others may stop
\* at any time.
FairSpec ==
  /\ Spec
  /\ WF_vars(MainStep)
  /\ SF_vars(HandlePing)
  /\ \A a \in Lively : SF_vars(ReceivePing(a))

-----------------------------------------------------------------------------
\* No peer is in the array twice, although the socket thread looks it up long
\* before the main thread adds it: it would be played and sent to twice, and its
\* second entry would never see a ping.
NoDuplicateUsers ==
  \A k, n \in DOMAIN users :
    users[k] # NULL /\ users[n] # NULL /\ users[k].addr = users[n].addr => k = n

\* No address waits in two slots of newUsers.
NoDuplicateWaiting ==
  \A k, n \in NewSlot :
    /\ newUsers[k].Waiting = 1 /\ newUsers[n].Waiting = 1
    /\ newUsers[k].addr = newUsers[n].addr
    => k = n

\* This host does not take itself for a peer, although its own broadcasts come
\* back to it, from addresses it may not have recorded yet: the addresses loaded
\* before the first admission of a turn cover every ping that waits.
OwnNeverAdmitted == Known \subseteq Peers

Discovery == INSTANCE Presence WITH
  Capacity <- A_arrayUsersThreshold, TimeOut <- A_TimeOutUser, known <- Known

\* With memory to spare, and however pings, sweeps and registrations interleave,
\* only foreign addresses are admitted and only silent peers are dropped.
ImplementsPresence == Discovery!Spec

\* A lively peer is known again and again: it joins, and joins again should it
\* ever be dropped, unless the table is full whenever it is its turn.
LivelyJoin ==
  \A a \in Lively : []<>(a \in Known) \/ []<>(Len(users) = A_arrayUsersThreshold)

\* A peer whose pings have stopped is dropped for good.
DeadLeave ==
  \A a \in Peers : <>[][~ReceivePing(a)]_vars => <>[](a \notin Known)

\* The comment on incrTimeOutAllOrDeleteUsers: "If time out is big than remove
\* user from array".  After a sweep no user whose time is over is left.
SweepRemovesOverdue ==
  main = "swept" => \A k \in DOMAIN users : users[k] # NULL => ~TimedOut(users[k])
=============================================================================
