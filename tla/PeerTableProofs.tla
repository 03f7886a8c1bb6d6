-------------------------- MODULE PeerTableProofs --------------------------
(***************************************************************************)
(* Theorems of PeerTable, for any sets of addresses, any thresholds and    *)
(* timeout, with and without memory.                                       *)
(***************************************************************************)
EXTENDS PeerTable, TLAPS, FiniteSetTheorems

IInv == TypeOK /\ NoDuplicateUsers /\ NoDuplicateWaiting

-----------------------------------------------------------------------------
\* What happens to the array when an entry is taken out, when its last entry is
\* lost, and when one is appended.

\* A function on 1 .. n is a sequence of length n.
LEMMA FunctionIsSequence ==
  ASSUME NEW S, NEW n \in Nat, NEW f \in [1 .. n -> S]
  PROVE  f \in Seq(S) /\ Len(f) = n /\ DOMAIN f = 1 .. n
OBVIOUS

\* delUser with memory: the entries after k move down by one.
LEMMA WithoutEffect ==
  ASSUME users \in Seq(User \cup {NULL}), NEW k \in DOMAIN users, users' = Without(k)
  PROVE  /\ users' \in Seq(User \cup {NULL})
         /\ Len(users') = Len(users) - 1
         /\ DOMAIN users' = 1 .. Len(users) - 1
         /\ \A n \in 1 .. Len(users) - 1 :
              users'[n] = IF n < k THEN users[n] ELSE users[n + 1]
<1>1. Len(users) \in Nat /\ DOMAIN users = 1 .. Len(users) /\ Len(users) - 1 \in Nat
  OBVIOUS
<1>2. \A n \in 1 .. Len(users) - 1 : users[n] \in User \cup {NULL} /\ users[n + 1] \in User \cup {NULL}
  BY <1>1
<1>3. users' \in [1 .. Len(users) - 1 -> User \cup {NULL}]
  BY <1>1, <1>2 DEF Without
<1>4. users' \in Seq(User \cup {NULL}) /\ Len(users') = Len(users) - 1
  BY <1>1, <1>3, FunctionIsSequence
<1> QED BY <1>1, <1>3, <1>4 DEF Without

\* delUser without memory: the last entry is lost.
LEMMA FrontEffect ==
  ASSUME users \in Seq(User \cup {NULL}), Len(users) > 1,
         users' = [n \in 1 .. Len(users) - 1 |-> users[n]]
  PROVE  /\ users' \in Seq(User \cup {NULL})
         /\ Len(users') = Len(users) - 1
         /\ DOMAIN users' = 1 .. Len(users) - 1
         /\ \A n \in 1 .. Len(users) - 1 : users'[n] = users[n]
<1>1. Len(users) \in Nat /\ DOMAIN users = 1 .. Len(users) /\ Len(users) - 1 \in Nat
  OBVIOUS
<1>2. users' \in [1 .. Len(users) - 1 -> User \cup {NULL}]
  BY <1>1
<1>3. users' \in Seq(User \cup {NULL}) /\ Len(users') = Len(users) - 1
  BY <1>1, <1>2, FunctionIsSequence
<1> QED BY <1>1, <1>2, <1>3

\* addUser: one entry is appended.
LEMMA AppendEffect ==
  ASSUME users \in Seq(User \cup {NULL}), NEW u \in User \cup {NULL},
         users' = Append(users, u)
  PROVE  /\ users' \in Seq(User \cup {NULL})
         /\ Len(users') = Len(users) + 1
         /\ DOMAIN users' = 1 .. Len(users) + 1
         /\ \A n \in 1 .. Len(users) : users'[n] = users[n]
         /\ users'[Len(users) + 1] = u
OBVIOUS

\* An update that keeps every entry null or at its address.
SameUsers ==
  /\ DOMAIN users' = DOMAIN users
  /\ \A k \in DOMAIN users : /\ users'[k] = NULL <=> users[k] = NULL
                             /\ users[k] # NULL => users'[k].addr = users[k].addr

\* updateTimeOutUser changes no entry's address.
LEMMA ReceiveEffect ==
  ASSUME TypeOK, NEW a \in Addr, ReceivePing(a)
  PROVE  /\ users' \in Seq(User \cup {NULL})
         /\ Len(users') = Len(users)
         /\ SameUsers
<1> DEFINE new(k) == IF k \in getIndexOfUser(a) THEN [users[k] EXCEPT !.pingTimOut = 0]
                                                ELSE users[k]
<1>1. Len(users) \in Nat /\ DOMAIN users = 1 .. Len(users)
  BY DEF TypeOK
<1>2. \A k \in DOMAIN users : users[k] \in User \cup {NULL}
  BY DEF TypeOK
<1>3. ASSUME NEW k \in DOMAIN users
      PROVE  /\ new(k) \in User \cup {NULL}
             /\ new(k) = NULL <=> users[k] = NULL
             /\ users[k] # NULL => new(k).addr = users[k].addr
  <2>1. CASE k \in getIndexOfUser(a)
    <3>1. users[k] \in User /\ users[k] # NULL
      BY <1>2, <2>1 DEF getIndexOfUser
    <3>2. [users[k] EXCEPT !.pingTimOut = 0] \in User
      BY <3>1 DEF User
    <3>3. [users[k] EXCEPT !.pingTimOut = 0].addr = users[k].addr
      BY <3>1 DEF User
    <3> QED BY <2>1, <3>1, <3>2, <3>3, NullAssumption
  <2>2. CASE k \notin getIndexOfUser(a)
    BY <1>2, <2>2
  <2> QED BY <2>1, <2>2
<1>4. users' = [k \in DOMAIN users |-> new(k)]
  BY DEF ReceivePing
<1> HIDE DEF new
<1>5. users' \in [1 .. Len(users) -> User \cup {NULL}]
  BY <1>1, <1>3, <1>4
<1>6. users' \in Seq(User \cup {NULL}) /\ Len(users') = Len(users)
  BY <1>1, <1>5, FunctionIsSequence
<1> QED BY <1>3, <1>4, <1>6 DEF SameUsers

\* Ageing changes no entry's address and counts each timeout up by one.
LEMMA AgeEffect ==
  ASSUME TypeOK, AgeUsers
  PROVE  /\ users' \in Seq(User \cup {NULL})
         /\ Len(users') = Len(users)
         /\ SameUsers
         /\ \A k \in DOMAIN users :
              users[k] # NULL => users'[k].pingTimOut = users[k].pingTimOut + 1
<1> DEFINE new(k) == IF users[k] = NULL THEN NULL
                     ELSE [users[k] EXCEPT !.pingTimOut = @ + 1]
<1>1. Len(users) \in Nat /\ DOMAIN users = 1 .. Len(users)
  BY DEF TypeOK
<1>2. \A k \in DOMAIN users : users[k] \in User \cup {NULL}
  BY DEF TypeOK
<1>3. ASSUME NEW k \in DOMAIN users
      PROVE  /\ new(k) \in User \cup {NULL}
             /\ new(k) = NULL <=> users[k] = NULL
             /\ users[k] # NULL => /\ new(k).addr = users[k].addr
                                   /\ new(k).pingTimOut = users[k].pingTimOut + 1
  <2>1. CASE users[k] # NULL
    <3>1. users[k] \in User
      BY <1>2, <2>1
    <3>2. /\ [users[k] EXCEPT !.pingTimOut = @ + 1] \in User
          /\ [users[k] EXCEPT !.pingTimOut = @ + 1].addr = users[k].addr
          /\ [users[k] EXCEPT !.pingTimOut = @ + 1].pingTimOut = users[k].pingTimOut + 1
      BY <3>1 DEF User
    <3> QED BY <2>1, <3>2, NullAssumption
  <2>2. CASE users[k] = NULL
    BY <2>2
  <2> QED BY <2>1, <2>2
<1>4. users' = [k \in DOMAIN users |-> new(k)]
  BY DEF AgeUsers
<1> HIDE DEF new
<1>5. users' \in [1 .. Len(users) -> User \cup {NULL}]
  BY <1>1, <1>3, <1>4
<1>6. users' \in Seq(User \cup {NULL}) /\ Len(users') = Len(users)
  BY <1>1, <1>5, FunctionIsSequence
<1> QED BY <1>3, <1>4, <1>6 DEF SameUsers

\* An update that keeps the addresses makes no duplicate.
LEMMA SameUsersNoDuplicates ==
  ASSUME NoDuplicateUsers, SameUsers
  PROVE  NoDuplicateUsers'
BY DEF NoDuplicateUsers, SameUsers
-----------------------------------------------------------------------------
\* The empty arrays of createUserArray satisfy the invariant.
LEMMA InitIInv == Init => IInv
<1> SUFFICES ASSUME Init PROVE IInv
  OBVIOUS
<1>1. A_TimeOutUser + 1 \in 0 .. A_TimeOutUser + 1
  BY ThresholdAssumption
<1>2. TypeOK
  BY <1>1, ThresholdAssumption DEF Init, TypeOK, MainStates
<1>3. NoDuplicateUsers
  BY DEF Init, NoDuplicateUsers
<1>4. NoDuplicateWaiting
  BY DEF Init, NoDuplicateWaiting
<1> QED BY <1>2, <1>3, <1>4 DEF IInv

\* updateTimeOutUser keeps the invariant.
LEMMA ReceiveIInv ==
  ASSUME IInv, NEW a \in Addr, ReceivePing(a)
  PROVE  IInv'
<1> USE DEF IInv
<1>1. /\ users' \in Seq(User \cup {NULL})
      /\ Len(users') = Len(users)
      /\ SameUsers
  BY ReceiveEffect
<1>2. /\ sock' \in {"recv", "unknown", "foreign"}
      /\ from' \in Addr \cup {NULL}
      /\ sock' # "recv" => from' \in Addr
  BY DEF ReceivePing, TypeOK, sockVars
<1>3. silent' \in [Peers -> 0 .. A_TimeOutUser + 1]
  BY ThresholdAssumption DEF ReceivePing, TypeOK
<1>4. TypeOK'
  BY <1>1, <1>2, <1>3 DEF ReceivePing, TypeOK, ipVars, mainVars
<1>5. NoDuplicateUsers'
  BY <1>1, SameUsersNoDuplicates
<1>6. NoDuplicateWaiting'
  BY DEF ReceivePing, NoDuplicateWaiting
<1> QED BY <1>4, <1>5, <1>6

\* addNewUser keeps the invariant: it fills one free slot, with an address that
\* did not wait.
LEMMA AddNewIInv ==
  ASSUME IInv, addNewUser
  PROVE  IInv'
<1> USE DEF IInv
<1>1. from \in Addr
  BY DEF addNewUser, TypeOK
<1>2. UNCHANGED <<users, ipVars, mainVars, silent>> /\ PingDone
  BY DEF addNewUser
<1>3. CASE UNCHANGED newUsers
  BY <1>2, <1>3 DEF TypeOK, PingDone, ipVars, mainVars, NoDuplicateUsers, NoDuplicateWaiting
<1>4. ASSUME NEW k \in NewSlot,
             getIndexOfNewUsers(from) = {},
             newUsers' = [newUsers EXCEPT ![k] = [Waiting |-> 1, addr |-> from]]
      PROVE  IInv'
  <2>1. newUsers' \in [NewSlot -> [Waiting : {0, 1}, addr : Addr \cup {NULL}]]
    BY <1>1, <1>4 DEF TypeOK
  <2>2. /\ newUsers'[k] = [Waiting |-> 1, addr |-> from]
        /\ \A n \in NewSlot \ {k} : newUsers'[n] = newUsers[n]
    BY <1>4 DEF TypeOK
  <2>3. \A n \in NewSlot : newUsers'[n].Waiting = 1 => newUsers'[n].addr \in Addr
    BY <1>1, <2>2 DEF TypeOK
  <2>4. TypeOK'
    BY <1>2, <2>1, <2>3 DEF TypeOK, PingDone, ipVars, mainVars
  <2>5. \A n \in NewSlot : newUsers[n].Waiting = 1 => newUsers[n].addr # from
    BY <1>4 DEF getIndexOfNewUsers
  <2>6. NoDuplicateWaiting'
    <3>1. newUsers'[k].addr = from
      BY <2>2
    <3> QED BY <2>2, <2>5, <3>1 DEF NoDuplicateWaiting
  <2> QED BY <1>2, <2>4, <2>6 DEF NoDuplicateUsers
<1> QED BY <1>3, <1>4 DEF addNewUser

\* A turn of the sweep keeps the invariant, whichever way delUser ends.
LEMMA SweepIInv ==
  ASSUME IInv, SweepTurn
  PROVE  IInv'
<1> USE DEF IInv
<1>1. UNCHANGED <<newUsers, ipVars, main, slot, loadLocalIP, checkLoclIP, sockVars, silent>>
  BY DEF SweepTurn
<1>2. i \in DOMAIN users /\ i \in Nat \ {0} /\ t' \in Nat
  BY DEF SweepTurn, Sweeping, TypeOK
<1>3. CASE UNCHANGED users
  <2>1. i' \in Nat \ {0}
    BY <1>2 DEF SweepTurn
  <2> QED BY <1>1, <1>2, <1>3, <2>1
          DEF TypeOK, ipVars, sockVars, NoDuplicateUsers, NoDuplicateWaiting
<1>4. CASE i' = 1 /\ users' = Without(i)
  <2>1. /\ users' \in Seq(User \cup {NULL})
        /\ Len(users') = Len(users) - 1
        /\ DOMAIN users' = 1 .. Len(users) - 1
        /\ \A n \in 1 .. Len(users) - 1 :
             users'[n] = IF n < i THEN users[n] ELSE users[n + 1]
    BY <1>2, <1>4, WithoutEffect DEF TypeOK
  <2>2. Len(users) \in Nat /\ DOMAIN users = 1 .. Len(users)
    BY DEF TypeOK
  <2>3. TypeOK'
    BY <1>1, <1>2, <1>4, <2>1, <2>2, ThresholdAssumption DEF TypeOK, ipVars, sockVars
  <2>4. NoDuplicateUsers'
    BY <1>2, <2>1, <2>2 DEF NoDuplicateUsers
  <2> QED BY <1>1, <2>3, <2>4 DEF NoDuplicateWaiting
<1>5. CASE /\ i' = 1 /\ Len(users) > 1
           /\ users' = [n \in 1 .. Len(users) - 1 |-> users[n]]
  <2>1. /\ users' \in Seq(User \cup {NULL})
        /\ Len(users') = Len(users) - 1
        /\ DOMAIN users' = 1 .. Len(users) - 1
        /\ \A n \in 1 .. Len(users) - 1 : users'[n] = users[n]
    BY <1>5, FrontEffect DEF TypeOK
  <2>2. Len(users) \in Nat /\ DOMAIN users = 1 .. Len(users)
    BY DEF TypeOK
  <2>3. TypeOK'
    BY <1>1, <1>2, <1>5, <2>1, <2>2, ThresholdAssumption DEF TypeOK, ipVars, sockVars
  <2>4. NoDuplicateUsers'
    BY <2>1, <2>2 DEF NoDuplicateUsers
  <2> QED BY <1>1, <2>3, <2>4 DEF NoDuplicateWaiting
<1> QED BY <1>3, <1>4, <1>5 DEF SweepTurn, delUser

\* addUser appends a user at an address no user has, or changes nothing.
LEMMA AddUserEffect ==
  ASSUME TypeOK, NoDuplicateUsers, NEW a \in Addr, addUser(a)
  PROVE  /\ users' \in Seq(User \cup {NULL})
         /\ Len(users') <= A_arrayUsersThreshold
         /\ NoDuplicateUsers'
<1>1. CASE UNCHANGED users
  BY <1>1 DEF TypeOK, NoDuplicateUsers
<1>2. ASSUME getIndexOfUser(a) = {}, Len(users) < A_arrayUsersThreshold,
             NEW u \in createUser(a), users' = Append(users, u)
      PROVE  /\ users' \in Seq(User \cup {NULL})
             /\ Len(users') <= A_arrayUsersThreshold
             /\ NoDuplicateUsers'
  <2>1. u \in User \cup {NULL} /\ (u # NULL => u.addr = a)
    BY <1>2 DEF createUser, User
  <2>2. Len(users) \in Nat /\ DOMAIN users = 1 .. Len(users)
    BY DEF TypeOK
  <2>3. /\ users' \in Seq(User \cup {NULL})
        /\ Len(users') = Len(users) + 1
        /\ DOMAIN users' = 1 .. Len(users) + 1
        /\ \A n \in 1 .. Len(users) : users'[n] = users[n]
        /\ users'[Len(users) + 1] = u
    BY <1>2, <2>1, AppendEffect DEF TypeOK
  <2>4. \A n \in DOMAIN users : users[n] # NULL => users[n].addr # a
    BY <1>2 DEF getIndexOfUser
  <2>5. NoDuplicateUsers'
    BY <2>1, <2>2, <2>3, <2>4 DEF NoDuplicateUsers
  <2>6. Len(users') <= A_arrayUsersThreshold
    BY <1>2, <2>2, <2>3, ThresholdAssumption
  <2> QED BY <2>3, <2>5, <2>6
<1> QED BY <1>1, <1>2 DEF addUser

\* An admission by registerNewUser keeps the invariant.
LEMMA RegisterIInv ==
  ASSUME IInv, RegisterSlot
  PROVE  IInv'
<1> USE DEF IInv
<1>1. /\ UNCHANGED <<ifaces, main, i, t, checkLoclIP, sockVars, silent>>
      /\ slot \in NewSlot /\ slot' = slot + 1 /\ loadLocalIP' = 0
      /\ newUsers' = [newUsers EXCEPT ![slot] = [Waiting |-> 0, addr |-> NULL]]
  BY DEF RegisterSlot
<1>2. myIp' \subseteq Own
  BY DEF RegisterSlot, getAllLocalIP, TypeOK
<1>3. newUsers[slot].addr \in Addr
  BY DEF RegisterSlot, TypeOK
<1>4. /\ users' \in Seq(User \cup {NULL})
      /\ Len(users') <= A_arrayUsersThreshold
      /\ NoDuplicateUsers'
  <2>1. CASE UNCHANGED users
    BY <2>1 DEF TypeOK, NoDuplicateUsers
  <2>2. CASE addUser(newUsers[slot].addr)
    BY <1>3, <2>2, AddUserEffect
  <2> QED BY <2>1, <2>2 DEF RegisterSlot
<1>5. /\ newUsers' \in [NewSlot -> [Waiting : {0, 1}, addr : Addr \cup {NULL}]]
      /\ newUsers'[slot].Waiting = 0
      /\ \A n \in NewSlot \ {slot} : newUsers'[n] = newUsers[n]
  BY <1>1 DEF TypeOK
<1>6. \A n \in NewSlot : newUsers'[n].Waiting = 1 => newUsers'[n].addr \in Addr
  BY <1>5 DEF TypeOK
<1>7. slot' \in 1 .. A_arrayNewUsersThreshold + 1
  BY <1>1, ThresholdAssumption DEF NewSlot
<1>8. TypeOK'
  BY <1>1, <1>2, <1>4, <1>5, <1>6, <1>7 DEF TypeOK, sockVars
<1>9. NoDuplicateWaiting'
  BY <1>5 DEF NoDuplicateWaiting
<1> QED BY <1>4, <1>8, <1>9

\* Ageing keeps the invariant.
LEMMA AgeIInv ==
  ASSUME IInv, AgeUsers
  PROVE  IInv'
<1> USE DEF IInv
<1>1. users' \in Seq(User \cup {NULL}) /\ Len(users') = Len(users) /\ SameUsers
  BY AgeEffect
<1>2. silent' \in [Peers -> 0 .. A_TimeOutUser + 1]
  BY ThresholdAssumption DEF AgeUsers, TypeOK
<1>3. TypeOK'
  BY <1>1, <1>2 DEF AgeUsers, TypeOK, ipVars, sockVars, MainStates
<1>4. NoDuplicateUsers'
  BY <1>1, SameUsersNoDuplicates
<1>5. NoDuplicateWaiting'
  BY DEF AgeUsers, NoDuplicateWaiting
<1> QED BY <1>3, <1>4, <1>5

\* The other steps leave users and newUsers alone.
OtherStep ==
  \/ CheckMyAddr \/ FirstLoad \/ EndSweep \/ StartRegister \/ SkipSlot
  \/ EndRegister \/ PrintUsers \/ CheckLocalIP \/ LoadCrash
  \/ \E a \in Own : IfaceUp(a)

\* The steps that touch neither array keep the invariant.
LEMMA OtherIInv ==
  ASSUME IInv, OtherStep \/ UNCHANGED vars
  PROVE  IInv'
<1> USE DEF IInv, userVars, ipVars, mainVars, sockVars
<1>1. UNCHANGED <<users, newUsers, silent>>
  <2>1. CASE UNCHANGED <<users, newUsers, silent>>
    BY <2>1
  <2> QED BY DEF OtherStep, CheckMyAddr, FirstLoad, EndSweep, StartRegister, SkipSlot,
               EndRegister, PrintUsers, CheckLocalIP, LoadCrash, IfaceUp, vars
<1>2. NoDuplicateUsers' /\ NoDuplicateWaiting'
  BY <1>1 DEF NoDuplicateUsers, NoDuplicateWaiting
<1>3. TypeOK'
  <2>1. CASE CheckMyAddr
    BY <2>1 DEF CheckMyAddr, PingDone, TypeOK
  <2>2. CASE FirstLoad
    BY <2>2 DEF FirstLoad, getAllLocalIP, TypeOK, MainStates
  <2>3. CASE EndSweep
    BY <2>3 DEF EndSweep, TypeOK, MainStates
  <2>4. CASE StartRegister
    BY <2>4 DEF StartRegister, TypeOK, MainStates
  <2>5. CASE SkipSlot
    <3>1. slot' \in 1 .. A_arrayNewUsersThreshold + 1
      BY <2>5, ThresholdAssumption DEF SkipSlot, NewSlot
    <3> QED BY <2>5, <3>1 DEF SkipSlot, TypeOK
  <2>6. CASE EndRegister
    <3>1. slot' \in 1 .. A_arrayNewUsersThreshold + 1
      BY <2>6, ThresholdAssumption DEF EndRegister
    <3> QED BY <2>6, <3>1 DEF EndRegister, TypeOK, MainStates
  <2>7. CASE PrintUsers
    BY <2>7 DEF PrintUsers, TypeOK, MainStates
  <2>8. CASE CheckLocalIP
    <3>1. checkLoclIP' \in 0 .. IpCheckPeriod + 1
      BY <2>8, ThresholdAssumption DEF CheckLocalIP, TypeOK
    <3>2. myIp' \subseteq Own
      BY <2>8 DEF CheckLocalIP, getAllLocalIP, TypeOK
    <3> QED BY <2>8, <3>1, <3>2 DEF CheckLocalIP, TypeOK, MainStates
  <2>9. ASSUME NEW a \in Own, IfaceUp(a) PROVE TypeOK'
    BY <2>9 DEF IfaceUp, TypeOK
  <2>10. CASE UNCHANGED vars
    BY <2>10 DEF vars, TypeOK
  <2>11. CASE LoadCrash
    BY <2>11 DEF LoadCrash, TypeOK, MainStates
  <2> QED
    BY <2>1, <2>2, <2>3, <2>4, <2>5, <2>6, <2>7, <2>8, <2>9, <2>10, <2>11 DEF OtherStep
<1> QED BY <1>2, <1>3

\* Every step of either thread keeps the invariant.
LEMMA NextIInv == IInv /\ [Next]_vars => IInv'
<1> SUFFICES ASSUME IInv, [Next]_vars PROVE IInv'
  OBVIOUS
<1>1. ASSUME NEW a \in Addr, ReceivePing(a) PROVE IInv'
  BY <1>1, ReceiveIInv
<1>2. CASE addNewUser
  BY <1>2, AddNewIInv
<1>3. CASE AgeUsers
  BY <1>3, AgeIInv
<1>4. CASE SweepTurn
  BY <1>4, SweepIInv
<1>5. CASE RegisterSlot
  BY <1>5, RegisterIInv
<1>6. CASE OtherStep \/ UNCHANGED vars
  BY <1>6, OtherIInv
<1> QED BY <1>1, <1>2, <1>3, <1>4, <1>5, <1>6 DEF Next, MainStep, HandlePing, OtherStep

\* The invariant holds in every reachable state of the peer table.
THEOREM InductiveInvariant == Spec => []IInv
BY InitIInv, NextIInv, PTL DEF Spec

\* The table keeps its type; in particular it never holds more users than
\* A_arrayUsersThreshold, with or without memory.
THEOREM TypeCorrect == Spec => []TypeOK
BY InductiveInvariant, PTL DEF IInv

\* No peer is in the table twice, for any number of peers and thresholds, although
\* the socket thread's look and the main thread's admission are steps apart.
THEOREM UsersDistinct == Spec => []NoDuplicateUsers
BY InductiveInvariant, PTL DEF IInv

\* No address waits for admission twice.
THEOREM WaitingDistinct == Spec => []NoDuplicateWaiting
BY InductiveInvariant, PTL DEF IInv
-----------------------------------------------------------------------------
\* That own addresses are not admitted rests on where they can be on the way: a
\* ping from an own address is handled or waits only if the address is up, and
\* during a registration that has loaded the addresses it is recorded.

OwnAreUp ==
  /\ from \in Own => from \in ifaces
  /\ \A k \in NewSlot :
       newUsers[k].Waiting = 1 /\ newUsers[k].addr \in Own => newUsers[k].addr \in ifaces

OwnAreLoaded ==
  main = "register" /\ loadLocalIP = 0 =>
    \A k \in NewSlot :
      newUsers[k].Waiting = 1 /\ newUsers[k].addr \in Own => newUsers[k].addr \in myIp

LoadsAfresh == main # "register" => loadLocalIP = 1

OwnInv == OwnAreUp /\ OwnAreLoaded /\ LoadsAfresh /\ OwnNeverAdmitted

\* For the refinement: with memory no entry is null, and a user's pingTimOut does
\* not exceed its silence.
NoNulls == \A k \in DOMAIN users : users[k] # NULL

Aged ==
  \A k \in DOMAIN users :
    LET u == users[k] IN
      u # NULL /\ u.addr \in Peers =>
        u.pingTimOut <= silent[u.addr] \/ silent[u.addr] = A_TimeOutUser + 1
-----------------------------------------------------------------------------
\* Nothing waits and nobody is known at first.
LEMMA InitOwn == Init => OwnInv
BY NullAssumption DEF Init, OwnInv, OwnAreUp, OwnAreLoaded, LoadsAfresh, OwnNeverAdmitted,
   Known, Addr

\* A step that leaves entries null or at their addresses, or removes some, admits
\* nobody.
LEMMA FewerAreForeign ==
  ASSUME OwnNeverAdmitted,
         \A k \in DOMAIN users' : users'[k] # NULL =>
           \E n \in DOMAIN users : users[n] # NULL /\ users[n].addr = users'[k].addr
  PROVE  OwnNeverAdmitted'
BY DEF OwnNeverAdmitted, Known

\* OwnInv without the table.
WaitInv == OwnAreUp /\ OwnAreLoaded /\ LoadsAfresh

\* A turn of the sweep only removes users.
LEMMA SweepUsers ==
  ASSUME TypeOK, SweepTurn
  PROVE  \A k \in DOMAIN users' : users'[k] # NULL =>
           \E n \in DOMAIN users : users[n] = users'[k]
<1>1. i \in DOMAIN users /\ Len(users) \in Nat /\ DOMAIN users = 1 .. Len(users)
  BY DEF SweepTurn, Sweeping, TypeOK
<1>2. CASE UNCHANGED users
  BY <1>2
<1>3. CASE users' = Without(i)
  <2>1. /\ DOMAIN users' = 1 .. Len(users) - 1
        /\ \A n \in 1 .. Len(users) - 1 :
             users'[n] = IF n < i THEN users[n] ELSE users[n + 1]
    BY <1>1, <1>3, WithoutEffect DEF TypeOK
  <2>2. \A n \in 1 .. Len(users) - 1 : n \in DOMAIN users /\ n + 1 \in DOMAIN users
    BY <1>1
  <2> QED BY <2>1, <2>2
<1>4. CASE Len(users) > 1 /\ users' = [n \in 1 .. Len(users) - 1 |-> users[n]]
  BY <1>1, <1>4
<1> QED BY <1>2, <1>3, <1>4 DEF SweepTurn, delUser

\* addUser admits at most the address it is given.
LEMMA AddUserAdmits ==
  ASSUME TypeOK, NEW a \in Addr, addUser(a)
  PROVE  Known' \subseteq Known \cup {a}
<1>1. CASE UNCHANGED users
  BY <1>1 DEF Known
<1>2. ASSUME NEW u \in createUser(a), users' = Append(users, u)
      PROVE  Known' \subseteq Known \cup {a}
  <2>1. u \in User \cup {NULL} /\ (u # NULL => u.addr = a)
    BY <1>2 DEF createUser, User
  <2>2. Len(users) \in Nat /\ DOMAIN users = 1 .. Len(users)
    BY DEF TypeOK
  <2>3. /\ DOMAIN users' = 1 .. Len(users) + 1
        /\ \A n \in 1 .. Len(users) : users'[n] = users[n]
        /\ users'[Len(users) + 1] = u
    BY <1>2, <2>1, AppendEffect DEF TypeOK
  <2> QED BY <2>1, <2>2, <2>3 DEF Known
<1> QED BY <1>1, <1>2 DEF addUser

\* registerNewUser admits no own address: it loads the addresses first.
LEMMA RegisterOwn ==
  ASSUME ~LoadMisses, IInv, OwnInv, RegisterSlot
  PROVE  OwnInv'
<1> DEFINE a == newUsers[slot].addr
<1>1. /\ main = "register" /\ slot \in NewSlot /\ newUsers[slot].Waiting = 1
      /\ UNCHANGED <<ifaces, main, sock, from>> /\ loadLocalIP' = 0
      /\ a \in Addr
  BY DEF RegisterSlot, IInv, TypeOK, sockVars
<1>2. /\ newUsers'[slot].Waiting = 0
      /\ \A n \in NewSlot \ {slot} : newUsers'[n] = newUsers[n]
  BY DEF RegisterSlot, IInv, TypeOK
<1>3. \A k \in NewSlot :
        newUsers[k].Waiting = 1 /\ newUsers[k].addr \in Own => newUsers[k].addr \in myIp'
  <2>1. CASE loadLocalIP = 1
    BY <2>1 DEF RegisterSlot, getAllLocalIP, OwnInv, OwnAreUp
  <2>2. CASE loadLocalIP = 0
    BY <1>1, <2>2 DEF RegisterSlot, OwnInv, OwnAreLoaded
  <2> QED BY <2>1, <2>2 DEF IInv, TypeOK
<1>4. OwnAreUp' /\ OwnAreLoaded' /\ LoadsAfresh'
  BY <1>1, <1>2, <1>3 DEF OwnInv, OwnAreUp, OwnAreLoaded, LoadsAfresh
<1>5. OwnNeverAdmitted'
  <2>1. CASE UNCHANGED users
    BY <2>1 DEF OwnInv, OwnNeverAdmitted, Known
  <2>2. CASE addUser(a) /\ a \notin myIp'
    <3>1. a \in Peers
      BY <1>1, <1>3, <2>2 DEF Addr
    <3>2. Known' \subseteq Known \cup {a}
      BY <1>1, <2>2, AddUserAdmits DEF IInv
    <3> QED BY <3>1, <3>2 DEF OwnInv, OwnNeverAdmitted
  <2> QED BY <2>1, <2>2 DEF RegisterSlot
<1> QED BY <1>4, <1>5 DEF OwnInv

\* Every step of either thread keeps own addresses out of the array.
LEMMA NextOwn == ASSUME ~LoadMisses PROVE IInv /\ OwnInv /\ [Next]_vars => OwnInv'
<1> SUFFICES ASSUME IInv, OwnInv, [Next]_vars PROVE OwnInv'
  OBVIOUS
<1> USE DEF userVars, ipVars, mainVars, sockVars
<1>1. ASSUME NEW a \in Addr, ReceivePing(a) PROVE OwnInv'
  <2>1. WaitInv'
    BY <1>1 DEF WaitInv, OwnInv, OwnAreUp, OwnAreLoaded, LoadsAfresh, ReceivePing
  <2>2. SameUsers
    BY <1>1, ReceiveEffect DEF IInv
  <2>3. OwnNeverAdmitted'
    BY <2>2, FewerAreForeign DEF SameUsers, OwnInv
  <2> QED BY <2>1, <2>3 DEF WaitInv, OwnInv
<1>2. CASE addNewUser
  <2>1. /\ UNCHANGED <<users, ifaces, myIp, main, loadLocalIP>> /\ main # "register"
        /\ from' = NULL /\ from \in Addr
    BY <1>2 DEF addNewUser, PingDone, IInv, TypeOK
  <2>2. \A k \in NewSlot : newUsers'[k] = newUsers[k] \/ newUsers'[k].addr = from
    <3>1. CASE UNCHANGED newUsers
      BY <3>1
    <3>2. ASSUME NEW k \in NewSlot,
                 newUsers' = [newUsers EXCEPT ![k] = [Waiting |-> 1, addr |-> from]]
          PROVE  \A n \in NewSlot : newUsers'[n] = newUsers[n] \/ newUsers'[n].addr = from
      <4>1. newUsers'[k] = [Waiting |-> 1, addr |-> from]
        BY <3>2 DEF IInv, TypeOK
      <4>2. newUsers'[k].addr = from
        BY <4>1
      <4> QED BY <3>2, <4>2 DEF IInv, TypeOK
    <3> QED BY <1>2, <3>1, <3>2 DEF addNewUser
  <2>3. OwnAreUp'
    BY <2>1, <2>2, NullAssumption DEF OwnInv, OwnAreUp, Addr, IInv, TypeOK
  <2>4. OwnAreLoaded' /\ LoadsAfresh' /\ OwnNeverAdmitted'
    BY <2>1 DEF OwnInv, OwnAreLoaded, LoadsAfresh, OwnNeverAdmitted, Known
  <2> QED BY <2>3, <2>4 DEF OwnInv
<1>3. CASE AgeUsers
  <2>1. WaitInv'
    BY <1>3 DEF WaitInv, OwnInv, OwnAreUp, OwnAreLoaded, LoadsAfresh, AgeUsers
  <2>2. SameUsers
    BY <1>3, AgeEffect DEF IInv
  <2>3. OwnNeverAdmitted'
    BY <2>2, FewerAreForeign DEF SameUsers, OwnInv
  <2> QED BY <2>1, <2>3 DEF WaitInv, OwnInv
<1>4. CASE SweepTurn
  <2>1. WaitInv'
    BY <1>4 DEF WaitInv, OwnInv, OwnAreUp, OwnAreLoaded, LoadsAfresh, SweepTurn
  <2>2. \A k \in DOMAIN users' : users'[k] # NULL =>
          \E n \in DOMAIN users : users[n] # NULL /\ users[n].addr = users'[k].addr
    BY <1>4, SweepUsers DEF IInv
  <2>3. OwnNeverAdmitted'
    BY <2>2, FewerAreForeign DEF OwnInv
  <2> QED BY <2>1, <2>3 DEF WaitInv, OwnInv
<1>5. CASE RegisterSlot
  BY <1>5, RegisterOwn
<1>6. CASE OtherStep \/ UNCHANGED vars
  <2>1. UNCHANGED <<users, newUsers>>
    BY <1>6 DEF OtherStep, CheckMyAddr, FirstLoad, EndSweep, StartRegister, SkipSlot,
                EndRegister, PrintUsers, CheckLocalIP, LoadCrash, IfaceUp, vars
  <2>2. OwnNeverAdmitted'
    BY <2>1 DEF OwnInv, OwnNeverAdmitted, Known
  <2>3. /\ ifaces \subseteq ifaces' /\ myIp \subseteq myIp'
        /\ from' \in {from, NULL}
    BY <1>6 DEF OtherStep, CheckMyAddr, PingDone, FirstLoad, EndSweep, StartRegister,
                SkipSlot, EndRegister, PrintUsers, CheckLocalIP, LoadCrash, IfaceUp, getAllLocalIP, vars
  <2>4. OwnAreUp'
    BY <2>1, <2>3, NullAssumption DEF OwnInv, OwnAreUp, Addr
  <2>5. main' = "register" /\ loadLocalIP' = 0 => main = "register" /\ loadLocalIP = 0
    BY <1>6 DEF OtherStep, CheckMyAddr, FirstLoad, EndSweep, StartRegister, SkipSlot,
                EndRegister, PrintUsers, CheckLocalIP, LoadCrash, IfaceUp, vars, OwnInv, LoadsAfresh
  <2>6. OwnAreLoaded'
    BY <2>1, <2>3, <2>5 DEF OwnInv, OwnAreLoaded
  <2>7. LoadsAfresh'
    BY <1>6 DEF OtherStep, CheckMyAddr, FirstLoad, EndSweep, StartRegister, SkipSlot,
                EndRegister, PrintUsers, CheckLocalIP, LoadCrash, IfaceUp, vars, OwnInv, LoadsAfresh
  <2> QED BY <2>2, <2>4, <2>6, <2>7 DEF OwnInv
<1> QED BY <1>1, <1>2, <1>3, <1>4, <1>5, <1>6 DEF Next, MainStep, HandlePing, OtherStep

\* No own address is ever in the table, whenever it came up and however its
\* looped-back pings interleave with the registrations, as long as getAllLocalIP
\* finds all addresses.
THEOREM OwnNotAdmitted == ASSUME ~LoadMisses PROVE Spec => []OwnNeverAdmitted
<1>1. Spec => []OwnInv
  BY InitOwn, NextOwn, InductiveInvariant, PTL DEF Spec
<1>2. OwnInv => OwnNeverAdmitted
  BY DEF OwnInv
<1> QED BY <1>1, <1>2, PTL
-----------------------------------------------------------------------------
\* Refinement of Presence, for a program whose allocations succeed.

MemInv == IInv /\ OwnInv /\ NoNulls /\ Aged

\* With memory an admission appends the new user with a timeout of 0.
LEMMA RegisterUsers ==
  ASSUME ~MallocFails, IInv, NoNulls, NEW a \in Addr, addUser(a), users' # users
  PROVE  /\ getIndexOfUser(a) = {}
         /\ Len(users) < A_arrayUsersThreshold
         /\ DOMAIN users' = 1 .. Len(users) + 1
         /\ \A n \in 1 .. Len(users) : users'[n] = users[n]
         /\ users'[Len(users) + 1] = [addr |-> a, pingTimOut |-> 0]
<1> DEFINE u == [addr |-> a, pingTimOut |-> 0]
<1>1. u \in User
  BY DEF User
<1>2. /\ getIndexOfUser(a) = {}
      /\ Len(users) < A_arrayUsersThreshold
      /\ users' = Append(users, u)
  BY DEF addUser, createUser
<1> QED BY <1>1, <1>2, AppendEffect DEF IInv, TypeOK

\* An empty array has no null entry and no overaged one.
LEMMA InitMem == ASSUME ~MallocFails PROVE Init => NoNulls /\ Aged
BY DEF Init, NoNulls, Aged

\* With memory no entry becomes null, and none ages faster than its peer is silent.
LEMMA NextMem == ASSUME ~MallocFails PROVE MemInv /\ [Next]_vars => (NoNulls /\ Aged)'
<1> SUFFICES ASSUME MemInv, [Next]_vars PROVE NoNulls' /\ Aged'
  OBVIOUS
<1> USE DEF MemInv
<1>1. Len(users) \in Nat /\ DOMAIN users = 1 .. Len(users)
  BY DEF IInv, TypeOK
<1>2. \A k \in DOMAIN users : users[k] \in User /\ users[k].pingTimOut \in Nat
  BY DEF IInv, TypeOK, NoNulls, User
<1>3. ASSUME NEW a \in Addr, ReceivePing(a) PROVE NoNulls' /\ Aged'
  <2>1. DOMAIN users' = DOMAIN users
    BY <1>3, ReceiveEffect DEF SameUsers, IInv
  <2>2. NoNulls'
    BY <1>3, ReceiveEffect DEF SameUsers, IInv, NoNulls
  <2>3. ASSUME NEW k \in DOMAIN users, users[k].addr = a
        PROVE  users'[k] = [users[k] EXCEPT !.pingTimOut = 0]
    BY <1>3, <2>3 DEF ReceivePing, getIndexOfUser, NoNulls
  <2>4. ASSUME NEW k \in DOMAIN users, users[k].addr # a
        PROVE  users'[k] = users[k]
    BY <1>3, <2>4 DEF ReceivePing, getIndexOfUser
  <2>5. /\ \A b \in Peers : b # a => silent'[b] = silent[b]
        /\ a \in Peers => silent'[a] = 0
    BY <1>3 DEF ReceivePing
  <2>6. ASSUME NEW k \in DOMAIN users', users'[k].addr \in Peers
        PROVE  \/ users'[k].pingTimOut <= silent'[users'[k].addr]
               \/ silent'[users'[k].addr] = A_TimeOutUser + 1
    <3>1. CASE users[k].addr = a
      <4>1. users'[k].pingTimOut = 0 /\ users'[k].addr = a
        BY <1>2, <2>1, <2>3, <3>1 DEF User
      <4> QED BY <2>5, <2>6, <4>1
    <3>2. CASE users[k].addr # a
      BY <2>1, <2>4, <2>5, <2>6, <3>2 DEF Aged, NoNulls
    <3> QED BY <3>1, <3>2
  <2> QED BY <2>2, <2>6 DEF Aged
<1>4. CASE AgeUsers
  <2>1. /\ SameUsers /\ NoNulls'
        /\ \A k \in DOMAIN users : users'[k].pingTimOut = users[k].pingTimOut + 1
    BY <1>4, AgeEffect DEF SameUsers, IInv, NoNulls
  <2>2. \A a \in Peers : silent'[a] = IF silent[a] > A_TimeOutUser THEN silent[a]
                                                                 ELSE silent[a] + 1
    BY <1>4 DEF AgeUsers
  <2>3. \A a \in Peers : silent[a] \in 0 .. A_TimeOutUser + 1
    BY DEF IInv, TypeOK
  <2>4. ASSUME NEW k \in DOMAIN users', users'[k].addr \in Peers
        PROVE  \/ users'[k].pingTimOut <= silent'[users'[k].addr]
               \/ silent'[users'[k].addr] = A_TimeOutUser + 1
    <3>1. k \in DOMAIN users /\ users'[k].addr = users[k].addr
      BY <2>1 DEF SameUsers, NoNulls
    <3>2. \/ users[k].pingTimOut <= silent[users[k].addr]
          \/ silent[users[k].addr] = A_TimeOutUser + 1
      BY <2>4, <3>1 DEF Aged, NoNulls
    <3> QED BY <1>2, <2>1, <2>2, <2>3, <2>4, <3>1, <3>2, ThresholdAssumption
  <2> QED BY <2>1, <2>4 DEF Aged
<1>5. CASE SweepTurn
  <2>1. UNCHANGED silent /\ Len(users') \in Nat
    BY <1>5, SweepIInv DEF SweepTurn, IInv, TypeOK
  <2>2. ASSUME NEW k \in DOMAIN users'
        PROVE  \E n \in DOMAIN users : users'[k] = users[n]
    <3>1. CASE users' = Without(i)
      <4>1. i \in DOMAIN users
        BY <1>5 DEF SweepTurn, Sweeping, IInv, TypeOK
      <4>2. /\ DOMAIN users' = 1 .. Len(users) - 1
            /\ \A n \in 1 .. Len(users) - 1 :
                 users'[n] = IF n < i THEN users[n] ELSE users[n + 1]
        BY <3>1, <4>1, WithoutEffect DEF IInv, TypeOK
      <4>3. k \in DOMAIN users /\ k + 1 \in DOMAIN users
        BY <1>1, <2>2, <4>2
      <4> QED BY <2>2, <4>2, <4>3
    <3>2. CASE UNCHANGED users
      BY <2>2, <3>2
    <3> QED BY <1>5, <3>1, <3>2 DEF SweepTurn, delUser
  <2> QED BY <2>1, <2>2 DEF NoNulls, Aged
<1>6. CASE RegisterSlot
  <2>1. UNCHANGED silent /\ newUsers[slot].addr \in Addr
    BY <1>6 DEF RegisterSlot, IInv, TypeOK
  <2>2. CASE UNCHANGED users
    BY <2>1, <2>2 DEF NoNulls, Aged
  <2>3. CASE addUser(newUsers[slot].addr) /\ users' # users
    <3> DEFINE a == newUsers[slot].addr
    <3>1. /\ DOMAIN users' = 1 .. Len(users) + 1
          /\ \A n \in 1 .. Len(users) : users'[n] = users[n]
          /\ users'[Len(users) + 1] = [addr |-> a, pingTimOut |-> 0]
      BY <2>1, <2>3, RegisterUsers
    <3>2. [addr |-> a, pingTimOut |-> 0] \in User
      BY <2>1 DEF User
    <3>3. a \in Peers => 0 <= silent[a]
      BY DEF IInv, TypeOK
    <3>4. \A k \in DOMAIN users' : k \in DOMAIN users \/ k = Len(users) + 1
      BY <1>1, <3>1
    <3>5. NoNulls'
      BY <1>1, <3>1, <3>2, <3>4, NullAssumption DEF NoNulls
    <3>6. Aged'
      BY <1>1, <2>1, <3>1, <3>3, <3>4 DEF Aged
    <3> QED BY <3>5, <3>6
  <2> QED BY <1>6, <2>2, <2>3 DEF RegisterSlot
<1>7. CASE addNewUser \/ OtherStep \/ UNCHANGED vars
  <2>1. UNCHANGED <<users, silent>>
    BY <1>7 DEF addNewUser, OtherStep, CheckMyAddr, FirstLoad, EndSweep, StartRegister,
                SkipSlot, EndRegister, PrintUsers, CheckLocalIP, LoadCrash, IfaceUp, vars, userVars
  <2> QED BY <2>1 DEF NoNulls, Aged
<1> QED BY <1>3, <1>4, <1>5, <1>6, <1>7 DEF Next, MainStep, HandlePing, OtherStep

\* Taking an entry out drops exactly its peer, which has been silent long enough.
LEMMA SweepIsLeave ==
  ASSUME ~MallocFails, MemInv, SweepTurn
  PROVE  (\E a \in Peers : Discovery!Leave(a)) \/ UNCHANGED <<Known, silent>>
<1>1. UNCHANGED silent
  BY DEF SweepTurn
<1>2. CASE UNCHANGED users
  BY <1>1, <1>2 DEF Known
<1>3. CASE TimedOut(users[i]) /\ users' = Without(i)
  <2> DEFINE a == users[i].addr
  <2>1. i \in DOMAIN users /\ Len(users) \in Nat /\ DOMAIN users = 1 .. Len(users)
    BY DEF SweepTurn, Sweeping, MemInv, IInv, TypeOK
  <2>2. /\ DOMAIN users' = 1 .. Len(users) - 1
        /\ \A n \in 1 .. Len(users) - 1 :
             users'[n] = IF n < i THEN users[n] ELSE users[n + 1]
    BY <1>3, <2>1, WithoutEffect DEF MemInv, IInv, TypeOK
  <2>3. \A n \in DOMAIN users : users[n] # NULL /\ (n # i => users[n].addr # a)
    BY <2>1 DEF MemInv, NoNulls, IInv, NoDuplicateUsers
  <2>4. Known = {users[n].addr : n \in DOMAIN users}
    BY <2>3 DEF Known
  <2>5. \A k \in DOMAIN users' : \E n \in DOMAIN users : n # i /\ users'[k] = users[n]
    <3>1. ASSUME NEW k \in DOMAIN users', k < i
          PROVE  \E n \in DOMAIN users : n # i /\ users'[k] = users[n]
      BY <2>1, <2>2, <3>1
    <3>2. ASSUME NEW k \in DOMAIN users', ~(k < i)
          PROVE  \E n \in DOMAIN users : n # i /\ users'[k] = users[n]
      <4>1. k + 1 \in DOMAIN users /\ k + 1 # i /\ users'[k] = users[k + 1]
        BY <2>1, <2>2, <3>2
      <4> QED BY <4>1
    <3> QED BY <3>1, <3>2
  <2>6. \A n \in DOMAIN users \ {i} : \E k \in DOMAIN users' : users'[k] = users[n]
    <3>1. ASSUME NEW n \in DOMAIN users, n < i
          PROVE  \E k \in DOMAIN users' : users'[k] = users[n]
      BY <2>1, <2>2, <3>1
    <3>2. ASSUME NEW n \in DOMAIN users, n > i
          PROVE  \E k \in DOMAIN users' : users'[k] = users[n]
      <4>1. n - 1 \in DOMAIN users' /\ users'[n - 1] = users[n]
        BY <2>1, <2>2, <3>2
      <4> QED BY <4>1
    <3> QED BY <2>1, <3>1, <3>2
  <2>7. Known' = Known \ {a}
    <3>1. \A k \in DOMAIN users' : users'[k] # NULL
      BY <2>3, <2>5
    <3>2. Known' = {users'[k].addr : k \in DOMAIN users'}
      BY <3>1 DEF Known
    <3>3. Known' \subseteq Known \ {a}
      BY <2>3, <2>4, <2>5, <3>2
    <3>4. Known \ {a} \subseteq Known'
      BY <2>4, <2>6, <3>2
    <3> QED BY <3>3, <3>4
  <2>8. a \in Known /\ a \in Peers
    BY <2>1, <2>4 DEF MemInv, OwnInv, OwnNeverAdmitted
  <2>9. silent[a] > A_TimeOutUser
    <3>1. users[i].pingTimOut > A_TimeOutUser /\ users[i].pingTimOut \in Nat
      BY <1>3, <2>1, <2>3 DEF TimedOut, MemInv, IInv, TypeOK, User
    <3>2. users[i].pingTimOut <= silent[a] \/ silent[a] = A_TimeOutUser + 1
      BY <2>1, <2>3, <2>8 DEF MemInv, Aged
    <3>3. silent[a] \in Nat
      BY <2>8 DEF MemInv, IInv, TypeOK
    <3> QED BY <3>1, <3>2, <3>3, ThresholdAssumption
  <2> QED BY <1>1, <2>7, <2>8, <2>9 DEF Discovery!Leave
<1> QED BY <1>2, <1>3 DEF SweepTurn, delUser

\* The addresses known are no more than the entries of the array.
LEMMA KnownBound ==
  ASSUME TypeOK
  PROVE  /\ IsFiniteSet(Known)
         /\ Cardinality(Known) \in Nat
         /\ Cardinality(Known) <= Len(users)
<1> DEFINE D == {n \in DOMAIN users : users[n] # NULL}
           f == [k \in D |-> users[k].addr]
<1>1. Len(users) \in Nat /\ DOMAIN users = 1 .. Len(users)
  BY DEF TypeOK
<1> HIDE DEF D, f
<1>2. IsFiniteSet(1 .. Len(users)) /\ Cardinality(1 .. Len(users)) = Len(users)
  <2>1. 1 \in Int /\ Len(users) \in Int
    BY <1>1
  <2>2. /\ IsFiniteSet(1 .. Len(users))
        /\ Cardinality(1 .. Len(users)) =
             IF 1 > Len(users) THEN 0 ELSE Len(users) - 1 + 1
    BY <2>1, FS_Interval
  <2> QED BY <1>1, <2>2
<1>3. D \subseteq 1 .. Len(users)
  BY <1>1 DEF D
<1>4. IsFiniteSet(D) /\ Cardinality(D) <= Len(users)
  BY <1>2, <1>3, FS_Subset
<1>5. f \in Surjection(D, Known)
  BY DEF Surjection, Known, D, f
<1>6. IsFiniteSet(Known) /\ Cardinality(Known) <= Cardinality(D)
  BY <1>4, <1>5, FS_Surjection
<1>7. Cardinality(Known) \in Nat /\ Cardinality(D) \in Nat
  BY <1>4, <1>6, FS_CardinalityType
<1> QED BY <1>1, <1>4, <1>6, <1>7

\* An admission by registerNewUser is a Join of Presence, or changes nothing.
LEMMA RegisterIsJoin ==
  ASSUME ~MallocFails, MemInv, OwnInv', RegisterSlot
  PROVE  (\E a \in Peers : Discovery!Join(a)) \/ UNCHANGED <<Known, silent>>
<1> DEFINE a == newUsers[slot].addr
<1>1. UNCHANGED silent /\ a \in Addr
  BY DEF RegisterSlot, MemInv, IInv, TypeOK
<1>2. CASE UNCHANGED users
  BY <1>1, <1>2 DEF Known
<1>3. CASE addUser(a) /\ users' # users
  <2>1. /\ getIndexOfUser(a) = {}
        /\ Len(users) < A_arrayUsersThreshold
        /\ DOMAIN users' = 1 .. Len(users) + 1
        /\ \A n \in 1 .. Len(users) : users'[n] = users[n]
        /\ users'[Len(users) + 1] = [addr |-> a, pingTimOut |-> 0]
    BY <1>1, <1>3, RegisterUsers DEF MemInv
  <2>2. Len(users) \in Nat /\ DOMAIN users = 1 .. Len(users)
    BY DEF MemInv, IInv, TypeOK
  <2>3. [addr |-> a, pingTimOut |-> 0] # NULL
    BY <1>1, NullAssumption DEF User
  <2>4. users'[Len(users) + 1].addr = a
    BY <2>1
  <2>5. a \notin Known
    BY <2>1 DEF Known, getIndexOfUser
  <2>6. Known' = Known \cup {a}
    <3>1. \A k \in DOMAIN users' : k \in DOMAIN users \/ k = Len(users) + 1
      BY <2>1, <2>2
    <3>2. Len(users) + 1 \in DOMAIN users' /\ DOMAIN users \subseteq DOMAIN users'
      BY <2>1, <2>2
    <3> QED BY <2>1, <2>2, <2>3, <2>4, <3>1, <3>2 DEF Known
  <2>7. a \in Peers
    BY <2>6 DEF OwnInv, OwnNeverAdmitted
  <2>8. Discovery!Cardinality(Known) = Cardinality(Known)
    BY DEF Cardinality, Discovery!Cardinality
  <2>9. Cardinality(Known) < A_arrayUsersThreshold
    BY <2>1, <2>2, KnownBound, ThresholdAssumption DEF MemInv, IInv
  <2> QED BY <1>1, <2>5, <2>6, <2>7, <2>8, <2>9 DEF Discovery!Join
<1> QED BY <1>2, <1>3 DEF RegisterSlot

\* An update that keeps the addresses keeps the set of known peers.
LEMMA SameUsersSameKnown ==
  ASSUME SameUsers
  PROVE  UNCHANGED Known
BY DEF SameUsers, Known

\* Where memory lasts and getAllLocalIP finds all addresses, the table with its
\* sweeps, slots and windows implements Presence: only foreign addresses join,
\* never more than the threshold, and a peer leaves only after more than
\* A_TimeOutUser ticks without a ping.
THEOREM Refinement ==
  ASSUME ~MallocFails, ~LoadMisses
  PROVE  Spec => ImplementsPresence
<1>1. Init => Discovery!Init
  <2> SUFFICES ASSUME Init PROVE Discovery!Init
    OBVIOUS
  <2>1. Known = {}
    BY DEF Init, Known
  <2>2. silent \in [Peers -> 0 .. A_TimeOutUser + 1]
    BY InitIInv DEF IInv, TypeOK
  <2> QED BY <2>1, <2>2 DEF Discovery!Init
<1>2. MemInv /\ OwnInv' /\ [Next]_vars => [Discovery!Next]_Discovery!pvars
  <2> SUFFICES ASSUME MemInv, OwnInv', [Next]_vars
               PROVE  Discovery!Next \/ UNCHANGED <<Known, silent>>
    BY DEF Discovery!pvars
  <2>1. ASSUME NEW a \in Addr, ReceivePing(a)
        PROVE  Discovery!Next \/ UNCHANGED <<Known, silent>>
    <3>1. UNCHANGED Known
      BY <2>1, ReceiveEffect, SameUsersSameKnown DEF MemInv, IInv
    <3>2. silent \in [Peers -> 0 .. A_TimeOutUser + 1]
      BY DEF MemInv, IInv, TypeOK
    <3>3. silent' = [b \in Peers |-> IF b = a THEN 0 ELSE silent[b]]
      BY <2>1 DEF ReceivePing
    <3>4. CASE a \in Peers
      <4>1. silent' = [silent EXCEPT ![a] = 0]
        BY <3>2, <3>3, <3>4
      <4> QED BY <3>1, <3>4, <4>1 DEF Discovery!Next, Discovery!Ping
    <3>5. CASE a \notin Peers
      <4>1. silent' = silent
        BY <3>2, <3>3, <3>5
      <4> QED BY <3>1, <4>1
    <3> QED BY <3>4, <3>5
  <2>2. CASE AgeUsers
    <3>1. UNCHANGED Known
      BY <2>2, AgeEffect, SameUsersSameKnown DEF MemInv, IInv
    <3> QED BY <2>2, <3>1 DEF AgeUsers, Discovery!Next, Discovery!Tick
  <2>3. CASE SweepTurn
    BY <2>3, SweepIsLeave DEF Discovery!Next
  <2>4. CASE RegisterSlot
    BY <2>4, RegisterIsJoin DEF Discovery!Next
  <2>5. CASE addNewUser \/ OtherStep \/ UNCHANGED vars
    <3>1. UNCHANGED <<users, silent>>
      BY <2>5 DEF addNewUser, OtherStep, CheckMyAddr, FirstLoad, EndSweep, StartRegister,
                  SkipSlot, EndRegister, PrintUsers, CheckLocalIP, LoadCrash, IfaceUp, vars, userVars
    <3> QED BY <3>1 DEF Known
  <2> QED BY <2>1, <2>2, <2>3, <2>4, <2>5 DEF Next, MainStep, HandlePing, OtherStep
<1>3. Spec => []MemInv
  <2>1. MemInv /\ [Next]_vars => MemInv'
    BY NextIInv, NextOwn, NextMem DEF MemInv
  <2>2. Init => MemInv
    BY InitIInv, InitOwn, InitMem DEF MemInv
  <2> QED BY <2>1, <2>2, PTL DEF Spec
<1>4. MemInv => OwnInv
  BY DEF MemInv
<1> QED BY <1>1, <1>2, <1>3, <1>4, PTL DEF Spec, ImplementsPresence, Discovery!Spec
=============================================================================
