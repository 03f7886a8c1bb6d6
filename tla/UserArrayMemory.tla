-------------------------- MODULE UserArrayMemory --------------------------
(***************************************************************************)
(* The dynamic array of users as memory (users.c): the block that users    *)
(* points to, the records its cells point to, lenghtArray, and every load  *)
(* and store of them that another thread may see half done.  The main      *)
(* thread deletes users under LockUsersArray and admits them under         *)
(* LockNewUsersArray only.  The socket and the playback thread ("sock")    *)
(* and Java's GetUsersBCTUser ("java") walk the array under                *)
(* LockUsersArray; the microphone ("mic") walks it under no lock.          *)
(*                                                                         *)
(* Who is deleted and who is admitted is the subject of PeerTable: here    *)
(* any user may be.  A read of memory that is freed, out of bounds or not  *)
(* set, is where a walker is "bad", and the behaviour ends.                *)
(***************************************************************************)
EXTENDS Naturals, Sequences, FiniteSets, SequencesExt

CONSTANTS
  Blocks,                  \* places malloc may put an array of pointers at
  Records,                 \* places malloc may put a user at
  NULL,
  JUNK,                    \* a pointer to what was freed, or that was never set
  A_arrayUsersThreshold,
  UPDATEUSERNAME,
  MallocFails

ASSUME MemoryAssumption ==
  /\ NULL \notin Blocks \cup Records /\ JUNK \notin Blocks \cup Records \cup {NULL}
  /\ A_arrayUsersThreshold \in Nat \ {0} /\ UPDATEUSERNAME \in Nat
  /\ MallocFails \in BOOLEAN

VARIABLES
  users,        \* the pointer usersArray->users
  lenghtArray,
  block,        \* what each allocated block holds, <<>> where none is
  alive,        \* the records that are allocated
  lost,         \* records that are allocated, and that nothing points to
  updateUserName,
  lock,         \* who holds LockUsersArray
  newLock,      \* who holds LockNewUsersArray
  main,         \* the main thread's step
  tmp,          \* tmpUF in delUser, newarrayusers in addUser
  upd,          \* whether the sweep deleted somebody
  walk,         \* each walker's step, index, pointers in hand
  direct,       \* whether the Java listener queries inside of onMessage, or later
  asked,        \* a message that the listener has not acted on yet
  fresh         \* whether the list that Java got last shows the array

memory == <<users, lenghtArray, block, alive, lost, updateUserName>>
mainvars == <<main, tmp, upd>>
java == <<direct, asked, fresh>>
vars == <<memory, lock, newLock, mainvars, walk, java>>

Walkers == {"sock", "java", "mic"}
Locked == {"sock", "java"}

\* The steps of delUser and of addUser in which the array is not in order.
Deleting == {"destroyed", "freed", "emptied", "shrunk", "copied", "released"}
Admitting == {"grown", "storing", "stored", "counted"}
MainSteps ==
  {"sweep", "swept", "register", "admit", "told", "end"} \cup Deleting \cup Admitting

Live == {b \in Blocks : block[b] # <<>>}
Cell(b, i) == block[b][i + 1]
Idle == [pc |-> "idle", i |-> 0, room |-> 0, ptr |-> NULL, cell |-> NULL, raced |-> FALSE]

MemoryTypeOK ==
  /\ users \in Blocks \cup {NULL, JUNK}
  /\ lenghtArray \in 0..A_arrayUsersThreshold
  /\ \A b \in Blocks : /\ Len(block[b]) <= A_arrayUsersThreshold
                       /\ \A i \in DOMAIN block[b] : block[b][i] \in Records \cup {NULL, JUNK}
  /\ lost \subseteq alive /\ alive \subseteq Records
  /\ updateUserName \in [Records -> 0..UPDATEUSERNAME]
  /\ lock \in Locked \cup {"free", "main"} /\ newLock \in {"free", "main", "sock"}
  /\ main \in MainSteps /\ tmp \in Blocks \cup {NULL}
  /\ {upd, direct, asked, fresh} \subseteq BOOLEAN

Init ==
  /\ users = NULL /\ lenghtArray = 0
  /\ block = [b \in Blocks |-> <<>>]
  /\ alive = {} /\ lost = {}
  /\ updateUserName = [u \in Records |-> 0]
  /\ lock = "free" /\ newLock = "free"
  /\ main = "sweep" /\ tmp = NULL /\ upd = FALSE
  /\ walk = [w \in Walkers |-> Idle]
  /\ direct \in BOOLEAN /\ asked = FALSE /\ fresh = TRUE

\* The program is over once memory was misused.
Sane == \A w \in Walkers : walk[w].pc # "bad"

\* A walker is left with junk in hand when what it points to is freed; a change of
\* the array races with the walkers that nothing keeps apart from it.
Walked(freed, rivals) ==
  [w \in Walkers |->
     [walk[w] EXCEPT !.ptr = IF @ \in freed THEN JUNK ELSE @,
                     !.cell = IF @ \in freed THEN JUNK ELSE @,
                     !.raced = @ \/ (w \in rivals /\ walk[w].pc # "idle")]]

-----------------------------------------------------------------------------
\* incrTimeOutAllOrDeleteUsers and delUser, in the main thread.

\* Faulty variant of Sweep: the lock is not taken.
SweepUnlocked ==
  /\ main = "sweep"
  /\ main' = "swept"
  /\ upd' = FALSE
  /\ UNCHANGED <<memory, lock, newLock, tmp, walk, java>>

Sweep ==
  /\ main = "sweep" /\ lock = "free"
  /\ lock' = "main"
  /\ main' = "swept"
  /\ upd' = FALSE
  /\ UNCHANGED <<memory, newLock, tmp, walk, java>>

\* The only user: destroytUser, free, lenghtArray, users.
DestroyOnly ==
  /\ main = "swept" /\ lenghtArray = 1 /\ Cell(users, 0) # NULL
  /\ alive' = alive \ {Cell(users, 0)}
  /\ walk' = Walked({Cell(users, 0)}, {"mic"})
  /\ main' = "destroyed"
  /\ UNCHANGED <<users, lenghtArray, block, lost, updateUserName, lock, newLock, tmp, upd, java>>

FreeOnly ==
  /\ main = "destroyed"
  /\ block' = [block EXCEPT ![users] = <<>>]
  /\ walk' = Walked({users}, {"mic"})
  /\ users' = JUNK
  /\ main' = "freed"
  /\ UNCHANGED <<lenghtArray, alive, lost, updateUserName, lock, newLock, tmp, upd, java>>

EmptyArray ==
  /\ main = "freed"
  /\ lenghtArray' = 0
  /\ walk' = Walked({}, {"mic"})
  /\ main' = "emptied"
  /\ UNCHANGED <<users, block, alive, lost, updateUserName, lock, newLock, tmp, upd, java>>

ForgetArray ==
  /\ main = "emptied"
  /\ users' = NULL
  /\ walk' = Walked({}, {"mic"})
  /\ main' = "swept"
  /\ upd' = TRUE /\ fresh' = FALSE
  /\ UNCHANGED <<lenghtArray, block, alive, lost, updateUserName, lock, newLock, tmp, direct, asked>>

\* One of several: lenghtArray, malloc, the copy without the user, free, users.
Shrink ==
  /\ main = "swept" /\ lenghtArray > 1
  /\ \E i \in 0..lenghtArray - 1 : Cell(users, i) # NULL
  /\ lenghtArray' = lenghtArray - 1
  /\ walk' = Walked({}, {"mic"})
  /\ main' = "shrunk"
  /\ UNCHANGED <<users, block, alive, lost, updateUserName, lock, newLock, tmp, upd, java>>

\* The copy is not visible before users points to it, destroytUser is at once.
CopyOthers ==
  /\ main = "shrunk"
  /\ \E b \in Blocks \ Live, i \in 0..lenghtArray :
       /\ Cell(users, i) # NULL
       /\ tmp' = b
       /\ block' = [block EXCEPT ![b] = RemoveAt(SubSeq(block[users], 1, lenghtArray + 1), i + 1)]
       /\ alive' = alive \ {Cell(users, i)}
       /\ walk' = Walked({Cell(users, i)}, {"mic"})
  /\ main' = "copied"
  /\ UNCHANGED <<users, lenghtArray, lost, updateUserName, lock, newLock, upd, java>>

\* malloc fails: the last user falls off the array.
CopyFails ==
  /\ MallocFails
  /\ main = "shrunk"
  /\ lost' = lost \cup ({Cell(users, lenghtArray)} \ {NULL})
  /\ walk' = Walked({}, {"mic"})
  /\ main' = "swept"
  /\ upd' = TRUE /\ fresh' = FALSE
  /\ UNCHANGED <<users, lenghtArray, block, alive, updateUserName, lock, newLock, tmp, direct, asked>>

\* Faulty variant of FreeOld: the old block is kept.
KeepOld ==
  /\ main = "copied"
  /\ walk' = Walked({}, {"mic"})
  /\ main' = "released"
  /\ UNCHANGED <<memory, lock, newLock, tmp, upd, java>>

FreeOld ==
  /\ main = "copied"
  /\ block' = [block EXCEPT ![users] = <<>>]
  /\ walk' = Walked({users}, {"mic"})
  /\ users' = JUNK
  /\ main' = "released"
  /\ UNCHANGED <<lenghtArray, alive, lost, updateUserName, lock, newLock, tmp, upd, java>>

UseCopy ==
  /\ main = "released"
  /\ users' = tmp
  /\ tmp' = NULL
  /\ walk' = Walked({}, {"mic"})
  /\ main' = "swept"
  /\ upd' = TRUE /\ fresh' = FALSE
  /\ UNCHANGED <<lenghtArray, block, alive, lost, updateUserName, lock, newLock, direct, asked>>

\* Faulty variant of EndSweep: the message goes out under the lock.
EndSweepLate ==
  /\ main = "swept"
  /\ main' = IF upd THEN "told" ELSE "register"
  /\ lock' = IF upd THEN lock ELSE "free"
  /\ UNCHANGED <<memory, newLock, tmp, upd, walk, java>>

\* The lock is released before the message.
EndSweep ==
  /\ main = "swept"
  /\ main' = IF upd THEN "told" ELSE "register"
  /\ lock' = "free"
  /\ UNCHANGED <<memory, newLock, tmp, upd, walk, java>>

-----------------------------------------------------------------------------
\* registerNewUser and addUser, in the main thread.

Register ==
  /\ main = "register" /\ newLock = "free"
  /\ newLock' = "main"
  /\ main' = "admit"
  /\ UNCHANGED <<memory, lock, tmp, upd, walk, java>>

\* Faulty variant of HasRoom: one user too many.
HasRoomForOneMore == lenghtArray <= A_arrayUsersThreshold

HasRoom == lenghtArray < A_arrayUsersThreshold

\* Faulty variant of Grown: no room for the new user.
GrownByNone(old) == SubSeq(old, 1, lenghtArray)

\* What realloc keeps, and the cell it adds.
Grown(old) ==
  SubSeq(old, 1, lenghtArray)
    \o <<IF Len(old) > lenghtArray THEN old[lenghtArray + 1] ELSE JUNK>>

\* realloc leaves the block where it is, or moves it and frees the old one; users
\* points there until it is assigned.
Reallocate ==
  /\ main = "admit" /\ HasRoom
  /\ LET old == IF users = NULL THEN <<>> ELSE block[users]
     IN  \E b \in Blocks :
           /\ b = users \/ b \notin Live
           /\ block' = [c \in Blocks |-> IF c = b THEN Grown(old)
                                         ELSE IF c = users THEN <<>> ELSE block[c]]
           /\ tmp' = b
           /\ users' = IF b = users \/ users = NULL THEN users ELSE JUNK
           /\ walk' = Walked({users} \ {b, NULL}, Walkers)
  /\ main' = "grown"
  /\ UNCHANGED <<lenghtArray, alive, lost, updateUserName, lock, newLock, upd, java>>

UseGrown ==
  /\ main = "grown"
  /\ users' = tmp
  /\ tmp' = NULL
  /\ walk' = Walked({}, Walkers)
  /\ main' = "storing"
  /\ UNCHANGED <<lenghtArray, block, alive, lost, updateUserName, lock, newLock, upd, java>>

\* createUser gives a user or NULL; users[lenghtArray] and lenghtArray are two
\* stores that nothing orders for a thread that takes no lock in common.
StoreUser ==
  /\ main \in {"storing", "counted"}
  /\ LET i == IF main = "storing" THEN lenghtArray ELSE lenghtArray - 1
     IN  \/ \E u \in Records \ alive :
              /\ block' = [block EXCEPT ![users][i + 1] = u]
              /\ alive' = alive \cup {u}
              /\ updateUserName' = [updateUserName EXCEPT ![u] = 0]
         \/ /\ MallocFails
            /\ block' = [block EXCEPT ![users][i + 1] = NULL]
            /\ UNCHANGED <<alive, updateUserName>>
  /\ main' = IF main = "storing" THEN "stored" ELSE "told"
  /\ fresh' = FALSE
  /\ walk' = Walked({}, Walkers)
  /\ UNCHANGED <<users, lenghtArray, lost, lock, newLock, tmp, upd, direct, asked>>

StoreLength ==
  /\ main \in {"storing", "stored"}
  /\ lenghtArray' = lenghtArray + 1
  /\ main' = IF main = "storing" THEN "counted" ELSE "told"
  /\ fresh' = FALSE
  /\ walk' = Walked({}, Walkers)
  /\ UNCHANGED <<users, block, alive, lost, updateUserName, lock, newLock, tmp, upd, direct, asked>>

\* The end of registerNewUser, and of the turn.
EndRegister ==
  /\ main = "admit"
  /\ newLock' = "free"
  /\ main' = "sweep"
  /\ UNCHANGED <<memory, lock, tmp, upd, walk, java>>

\* sendMessage, from the main thread.  A listener that queries inside of onMessage
\* waits for LockUsersArray here.
AfterMessage == IF newLock = "main" THEN "admit" ELSE "register"

Message ==
  /\ main = "told"
  /\ IF direct THEN lock = "free" /\ fresh' = TRUE /\ asked' = asked
               ELSE asked' = TRUE /\ fresh' = fresh
  /\ main' = AfterMessage
  /\ UNCHANGED <<memory, lock, newLock, tmp, upd, walk, direct>>

\* destroyUserArray, once every thread has ended.
DestroyArray ==
  /\ main = "sweep" /\ \A w \in Walkers : walk[w].pc = "idle"
  /\ IF lenghtArray = 0 THEN UNCHANGED memory
     ELSE /\ alive' = alive \ {Cell(users, i) : i \in 0..lenghtArray - 1}
          /\ block' = [block EXCEPT ![users] = <<>>]
          /\ lenghtArray' = 0
          /\ users' = NULL
          /\ UNCHANGED <<lost, updateUserName>>
  /\ main' = "end"
  /\ UNCHANGED <<lock, newLock, tmp, upd, walk, java>>

-----------------------------------------------------------------------------
\* The walks: getIndexOfUser and getBufForAllUsers ("sock"), GetUsersBCTUser
\* ("java"), the sends of startThreadInAudio and RecordEventCallback ("mic").

RacingFromTheStart(w) == main \in Admitting \/ (w = "mic" /\ main \in Deleting)

Begin(w) ==
  /\ walk[w].pc = "idle" /\ main # "end"
  /\ w \in Locked => lock = "free"
  /\ lock' = IF w \in Locked THEN w ELSE lock
  /\ walk' = [walk EXCEPT ![w] =
                [Idle EXCEPT !.pc = "check", !.raced = RacingFromTheStart(w),
                             !.room = IF w = "java" THEN lenghtArray ELSE 0]]
  /\ IF w = "java" THEN asked' = FALSE /\ fresh' = TRUE ELSE UNCHANGED <<asked, fresh>>
  /\ UNCHANGED <<memory, newLock, mainvars, direct>>

LoadArray(w) ==
  /\ walk[w].pc = "check" /\ walk[w].i < lenghtArray
  /\ walk' = [walk EXCEPT ![w].pc = "array", ![w].ptr = users]
  /\ UNCHANGED <<memory, lock, newLock, mainvars, java>>

\* The end of the loop: the socket thread goes on to addNewUser when it did not
\* find the sender of a ping.
EndWalk(w) ==
  /\ walk[w].pc = "check" /\ walk[w].i >= lenghtArray
  /\ \E next \in IF w = "sock" THEN {"idle", "new"} ELSE {"idle"} :
       walk' = [walk EXCEPT ![w] = [Idle EXCEPT !.pc = next]]
  /\ lock' = IF w \in Locked THEN "free" ELSE lock
  /\ UNCHANGED <<memory, newLock, mainvars, java>>

InBlock(w) == walk[w].ptr \in Blocks /\ walk[w].i < Len(block[walk[w].ptr])

LoadUser(w) ==
  /\ walk[w].pc = "array"
  /\ walk' = IF InBlock(w)
             THEN [walk EXCEPT ![w].pc = "user", ![w].cell = Cell(walk[w].ptr, walk[w].i),
                               ![w].ptr = NULL]
             ELSE [walk EXCEPT ![w].pc = "bad"]
  /\ UNCHANGED <<memory, lock, newLock, mainvars, java>>

\* Java's array has room for the users there were when it was made.
UsesBadly(w) ==
  \/ walk[w].cell \notin alive
  \/ w = "java" /\ walk[w].i >= walk[w].room

NextUser(w) ==
  [walk EXCEPT ![w].pc = "check", ![w].i = @ + 1, ![w].cell = NULL]

SkipNull(w) ==
  /\ walk[w].pc = "user" /\ walk[w].cell = NULL
  /\ walk' = NextUser(w)
  /\ UNCHANGED <<memory, lock, newLock, mainvars, java>>

UseUser(w) ==
  /\ walk[w].pc = "user" /\ walk[w].cell # NULL
  /\ walk' = IF UsesBadly(w) THEN [walk EXCEPT ![w].pc = "bad"] ELSE NextUser(w)
  /\ UNCHANGED <<memory, lock, newLock, mainvars, java>>

\* updateTimeOutUser has found the sender, UpdateUsersName counts the ping.
CountPing ==
  /\ walk["sock"].pc = "user" /\ walk["sock"].cell \in alive
  /\ LET u == walk["sock"].cell
     IN  IF updateUserName[u] < UPDATEUSERNAME
         THEN /\ updateUserName' = [updateUserName EXCEPT ![u] = @ + 1]
              /\ walk' = [walk EXCEPT !["sock"] = Idle]
              /\ lock' = "free"
              /\ UNCHANGED fresh
         ELSE /\ updateUserName' = [updateUserName EXCEPT ![u] = 0]
              /\ walk' = [walk EXCEPT !["sock"].pc = "name"]
              /\ fresh' = FALSE
              /\ UNCHANGED lock
  /\ UNCHANGED <<users, lenghtArray, block, alive, lost, newLock, mainvars, direct, asked>>

\* Faulty variant of NameMessage: nobody is told of the new name.
NameUntold ==
  /\ walk["sock"].pc = "name"
  /\ walk' = [walk EXCEPT !["sock"] = Idle]
  /\ lock' = "free"
  /\ UNCHANGED <<memory, newLock, mainvars, java>>

\* sendMessage under LockUsersArray: a listener that queries inside of onMessage
\* waits for the lock that its own thread holds.
NameMessage ==
  /\ walk["sock"].pc = "name" /\ ~direct
  /\ asked' = TRUE
  /\ walk' = [walk EXCEPT !["sock"] = Idle]
  /\ lock' = "free"
  /\ UNCHANGED <<memory, newLock, mainvars, direct, fresh>>

LockNew ==
  /\ walk["sock"].pc = "new" /\ newLock = "free"
  /\ newLock' = "sock"
  /\ walk' = [walk EXCEPT !["sock"].pc = "newheld"]
  /\ UNCHANGED <<memory, lock, mainvars, java>>

UnlockNew ==
  /\ walk["sock"].pc = "newheld"
  /\ newLock' = "free"
  /\ walk' = [walk EXCEPT !["sock"] = Idle]
  /\ UNCHANGED <<memory, lock, mainvars, java>>

MainStep ==
  \/ Sweep \/ DestroyOnly \/ FreeOnly \/ EmptyArray \/ ForgetArray
  \/ Shrink \/ CopyOthers \/ CopyFails \/ FreeOld \/ UseCopy \/ EndSweep
  \/ Register \/ Reallocate \/ UseGrown \/ StoreUser \/ StoreLength \/ EndRegister
  \/ Message \/ DestroyArray

WalkStep ==
  \/ \E w \in Walkers : Begin(w) \/ LoadArray(w) \/ EndWalk(w) \/ LoadUser(w) \/ SkipNull(w) \/ UseUser(w)
  \/ CountPing \/ NameMessage \/ LockNew \/ UnlockNew

Next == Sane /\ (MainStep \/ WalkStep)

Spec == Init /\ [][Next]_vars

-----------------------------------------------------------------------------
Cells == {Cell(users, i) : i \in 0..lenghtArray - 1}

InOrder == main \notin Deleting \cup Admitting

\* Between two changes the array is whole, whatever failed: a block with room for
\* lenghtArray users, each of them allocated and there once; and users[lenghtArray]
\* is stored into the block that was made for it.
ArrayIntact ==
  /\ InOrder =>
       IF lenghtArray = 0 THEN users = NULL
       ELSE /\ users \in Live /\ lenghtArray <= Len(block[users])
            /\ Cells \subseteq alive \cup {NULL}
            /\ \A i, j \in 0..lenghtArray - 1 :
                 Cell(users, i) = Cell(users, j) => i = j \/ Cell(users, i) = NULL
  /\ main = "storing" => users \in Live /\ lenghtArray < Len(block[users])

\* Nothing is allocated but the array, its users, and the users that a deletion
\* lost for want of memory; after destroyUserArray only those.
NothingLeaks ==
  /\ InOrder => Live = {users} \ {NULL}
  /\ InOrder => alive = (IF lenghtArray = 0 THEN {} ELSE Cells \ {NULL}) \cup lost
  /\ ~MallocFails => lost = {}

\* LockUsersArray keeps the readers that take it apart from every deletion: they
\* misread only while a user is admitted.  The microphone misreads only while the
\* array changes: no stale pointer stays in the array for later.
BadReadsNeedARace == \A w \in Walkers : walk[w].pc = "bad" => walk[w].raced

\* Java gets to know of every change: as long as its list is out of date, a message
\* is still to be sent or to be acted on.
ChangesAreTold ==
  Sane /\ ~fresh =>
    \/ asked
    \/ main \in {"told"} \cup Deleting \cup Admitting
    \/ main = "swept" /\ upd
    \/ walk["sock"].pc = "name"

\* The main thread holds neither lock where it waits for it: before the sweep, in a
\* message with a listener that queries inside of onMessage, and before it admits.  And
\* the socket thread, which may have the one it waits for, never holds one while it waits
\* for the other.
MainNeverWaitsForItself ==
  /\ main = "sweep" \/ (main = "told" /\ direct) => lock # "main"
  /\ main = "register" => newLock # "main"
  /\ walk["sock"].pc \in {"new", "newheld"} => lock # "sock"
=============================================================================
