----------------------- MODULE UserArrayMemoryProofs -----------------------
(***************************************************************************)
(* The users array as memory, for any number of addresses, any threshold   *)
(* and failing allocations.                                                *)
(*                                                                         *)
(* Two things carry the proof.  At each of its steps the main thread has   *)
(* the users in a known number of cells of one known block, also while     *)
(* users does not point there (UsersAreKept).  And a walker that no change *)
(* of the array has met stands where the array is as it was when the walk  *)
(* began (UnracedIsRight): for the walkers that take LockUsersArray that   *)
(* follows from who holds it (LocksHeld).                                  *)
(***************************************************************************)
EXTENDS UserArrayMemory, Integers, SequenceTheorems, TLAPS

-----------------------------------------------------------------------------
(* The threads and their locks. *)

Walking == {"check", "array", "user"}

WalkSteps == {"idle", "bad", "name", "new", "newheld"} \cup Walking

WalkOK ==
  walk \in [Walkers -> [pc : WalkSteps, i : Nat, room : Nat, ptr : Blocks \cup {NULL, JUNK},
                        cell : Records \cup {NULL, JUNK}, raced : BOOLEAN]]

ThreadsOK ==
  /\ lock \in Locked \cup {"free", "main"} /\ newLock \in {"free", "main", "sock"}
  /\ main \in MainSteps /\ tmp \in Blocks \cup {NULL}
  /\ upd \in BOOLEAN /\ direct \in BOOLEAN /\ asked \in BOOLEAN /\ fresh \in BOOLEAN
  /\ WalkOK

\* Each lock is held from the step that takes it to the step that gives it back.
LocksHeld ==
  /\ lock = "main" <=> main \in {"swept"} \cup Deleting
  /\ \A w \in Locked : lock = w <=> walk[w].pc \in Walking \cup {"name", "bad"}
  /\ main \in {"admit"} \cup Admitting => newLock = "main"
  /\ newLock = "main" => main \in {"admit", "told"} \cup Admitting
  /\ newLock = "sock" <=> walk["sock"].pc = "newheld"

LockIInv == ThreadsOK /\ LocksHeld

-----------------------------------------------------------------------------
(* The memory. *)

\* The first n cells of s hold the users us, each of them once, and NULL.
Keeps(s, n, us) ==
  /\ n <= Len(s)
  /\ \A i \in 1..n : s[i] \in us \cup {NULL}
  /\ \A i, j \in 1..n : s[i] = s[j] => i = j \/ s[i] = NULL
  /\ \A u \in us : \E i \in 1..n : s[i] = u

\* The users that are allocated, and that the array should have.
Present == alive \ lost

\* The block that has the users, and how many cells they take.
Array == IF main \in {"copied", "released", "grown"} THEN tmp ELSE users

Count ==
  CASE main \in {"shrunk", "stored"} -> lenghtArray + 1
    [] main = "counted" -> lenghtArray - 1
    [] main \in {"destroyed", "freed", "emptied"} -> 0
    [] OTHER -> lenghtArray

MemoryOK ==
  /\ users \in Blocks \cup {NULL, JUNK}
  /\ lenghtArray \in 0..A_arrayUsersThreshold
  /\ block \in [Blocks -> Seq(Records \cup {NULL, JUNK})]
  /\ \A b \in Blocks : Len(block[b]) <= A_arrayUsersThreshold
  /\ lost \subseteq alive /\ alive \subseteq Records
  /\ ~MallocFails => lost = {}
  /\ updateUserName \in [Records -> 0..UPDATEUSERNAME]

\* Which blocks are allocated, and where users points, at each step of the main thread.
BlocksInUse ==
  /\ InOrder => IF lenghtArray = 0 THEN users = NULL /\ Live = {}
                                   ELSE users \in Blocks /\ Live = {users}
  /\ main = "destroyed" => lenghtArray = 1 /\ users \in Blocks /\ Live = {users}
  /\ main = "freed" => lenghtArray = 1 /\ users = JUNK /\ Live = {}
  /\ main = "emptied" => lenghtArray = 0 /\ users = JUNK /\ Live = {}
  /\ main = "shrunk" => lenghtArray > 0 /\ users \in Blocks /\ Live = {users}
  /\ main = "copied" => /\ lenghtArray > 0 /\ Len(block[tmp]) = lenghtArray
                        /\ users \in Blocks /\ tmp \in Blocks /\ users # tmp
                        /\ Live = {users, tmp}
  /\ main = "released" => /\ lenghtArray > 0 /\ Len(block[tmp]) = lenghtArray
                          /\ tmp \in Blocks /\ Live = {tmp}
  /\ main = "grown" => /\ lenghtArray < A_arrayUsersThreshold
                       /\ tmp \in Blocks /\ Live = {tmp} /\ Len(block[tmp]) = lenghtArray + 1
  /\ main \in {"storing", "stored"} =>
       /\ lenghtArray < A_arrayUsersThreshold
       /\ users \in Blocks /\ Live = {users} /\ Len(block[users]) = lenghtArray + 1
  /\ main = "counted" =>
       lenghtArray > 0 /\ users \in Blocks /\ Live = {users} /\ Len(block[users]) = lenghtArray

\* No user is lost on the way but by CopyFails, and none is kept twice.
UsersAreKept ==
  IF Count = 0 THEN Present = {} ELSE Keeps(block[Array], Count, Present)

MemIInv == MemoryOK /\ BlocksInUse /\ UsersAreKept

-----------------------------------------------------------------------------
(* The walkers. *)

\* A walker that no change of the array has met has the array as it is.
UnracedIsRight ==
  \A w \in Walkers :
    /\ walk[w].pc = "bad" => walk[w].raced
    /\ walk[w].pc \in Walking /\ ~walk[w].raced =>
         /\ InOrder /\ main # "end"
         /\ walk[w].i <= lenghtArray
         /\ walk[w].pc # "check" => walk[w].i < lenghtArray
         /\ walk[w].pc = "array" => walk[w].ptr = users
         /\ walk[w].pc = "user" => walk[w].cell = Cell(users, walk[w].i)
         /\ w = "java" => walk[w].room = lenghtArray

MemoryIInv == LockIInv /\ MemIInv /\ UnracedIsRight

-----------------------------------------------------------------------------
(* Who holds which lock. *)

\* No walker moves; those of rivals that walk have a race.
OnlyMarked(rivals) ==
  /\ WalkOK'
  /\ \A w \in Walkers :
       /\ walk'[w].pc = walk[w].pc
       /\ walk'[w].raced = (walk[w].raced \/ (w \in rivals /\ walk[w].pc # "idle"))
       /\ walk'[w].i = walk[w].i /\ walk'[w].room = walk[w].room

LEMMA WalkedEffect ==
  ASSUME WalkOK, NEW F, NEW R, walk' = Walked(F, R)
  PROVE  OnlyMarked(R)
<1> USE DEF WalkOK
<1>1. ASSUME NEW w \in Walkers
      PROVE  /\ walk'[w] \in [pc : WalkSteps, i : Nat, room : Nat, ptr : Blocks \cup {NULL, JUNK},
                              cell : Records \cup {NULL, JUNK}, raced : BOOLEAN]
             /\ walk'[w].pc = walk[w].pc
             /\ walk'[w].raced = (walk[w].raced \/ (w \in R /\ walk[w].pc # "idle"))
             /\ walk'[w].i = walk[w].i /\ walk'[w].room = walk[w].room
  <2> DEFINE raced == walk[w].raced \/ (w \in R /\ walk[w].pc # "idle")
             ptr == IF walk[w].ptr \in F THEN JUNK ELSE walk[w].ptr
             cell == IF walk[w].cell \in F THEN JUNK ELSE walk[w].cell
  <2>1. walk'[w] = [walk[w] EXCEPT !.ptr = ptr, !.cell = cell, !.raced = raced]
    BY DEF Walked
  <2>2. raced \in BOOLEAN /\ ptr \in Blocks \cup {NULL, JUNK} /\ cell \in Records \cup {NULL, JUNK}
    OBVIOUS
  <2> HIDE DEF raced
  <2>3. /\ walk'[w].pc = walk[w].pc /\ walk'[w].raced = raced
        /\ walk'[w].i = walk[w].i /\ walk'[w].room = walk[w].room
        /\ walk'[w] \in [pc : WalkSteps, i : Nat, room : Nat, ptr : Blocks \cup {NULL, JUNK},
                          cell : Records \cup {NULL, JUNK}, raced : BOOLEAN]
    BY <2>1, <2>2
  <2> QED BY <2>3 DEF raced
<1>2. walk' \in [Walkers -> {walk'[w] : w \in Walkers}]
  BY DEF Walked
<1> QED BY <1>1, <1>2 DEF OnlyMarked

\* The steps of the main thread that change the array under LockUsersArray.
DeleteStep ==
  \/ DestroyOnly \/ FreeOnly \/ EmptyArray \/ ForgetArray
  \/ Shrink \/ CopyOthers \/ CopyFails \/ FreeOld \/ UseCopy

\* Those that change it under LockNewUsersArray only.
AdmitStep == Reallocate \/ UseGrown \/ StoreUser \/ StoreLength

\* Those that leave it alone.
OtherStep == Sweep \/ EndSweep \/ Register \/ EndRegister \/ Message

WalkerStep(w) ==
  Begin(w) \/ LoadArray(w) \/ EndWalk(w) \/ LoadUser(w) \/ SkipNull(w) \/ UseUser(w)

SocketStep == CountPing \/ NameMessage \/ LockNew \/ UnlockNew

LEMMA NextIsOneOf ==
  Next <=> Sane /\ ( \/ DeleteStep \/ AdmitStep \/ OtherStep \/ DestroyArray
                    \/ (\E w \in Walkers : WalkerStep(w)) \/ SocketStep )
BY DEF Next, MainStep, WalkStep, DeleteStep, AdmitStep, OtherStep, WalkerStep, SocketStep

\* What every deletion has in common.
LEMMA DeleteEffect ==
  ASSUME LockIInv, DeleteStep
  PROVE  /\ main \in {"swept"} \cup Deleting /\ main' \in {"swept"} \cup Deleting
         /\ (main = "swept" /\ upd) \/ main \in Deleting => main' \in Deleting \/ upd'
         /\ ~fresh' => ~fresh \/ upd'
         /\ upd' => upd \/ main' = "swept"
         /\ tmp' \in Blocks \cup {NULL} /\ upd' \in BOOLEAN /\ fresh' \in BOOLEAN
         /\ UNCHANGED <<lock, newLock, direct, asked>>
         /\ OnlyMarked({"mic"})
<1> USE DEF LockIInv, ThreadsOK, Deleting, DeleteStep, java
<1>1. CASE DestroyOnly
  <2>1. OnlyMarked({"mic"})
    BY <1>1, WalkedEffect DEF DestroyOnly
  <2> QED BY <1>1, <2>1 DEF DestroyOnly
<1>2. CASE FreeOnly
  <2>1. OnlyMarked({"mic"})
    BY <1>2, WalkedEffect DEF FreeOnly
  <2> QED BY <1>2, <2>1 DEF FreeOnly
<1>3. CASE EmptyArray
  <2>1. OnlyMarked({"mic"})
    BY <1>3, WalkedEffect DEF EmptyArray
  <2> QED BY <1>3, <2>1 DEF EmptyArray
<1>4. CASE ForgetArray
  <2>1. OnlyMarked({"mic"})
    BY <1>4, WalkedEffect DEF ForgetArray
  <2> QED BY <1>4, <2>1 DEF ForgetArray
<1>5. CASE Shrink
  <2>1. OnlyMarked({"mic"})
    BY <1>5, WalkedEffect DEF Shrink
  <2> QED BY <1>5, <2>1 DEF Shrink
<1>6. CASE CopyOthers
  <2>1. OnlyMarked({"mic"})
    BY <1>6, WalkedEffect DEF CopyOthers
  <2> QED BY <1>6, <2>1 DEF CopyOthers
<1>7. CASE CopyFails
  <2>1. OnlyMarked({"mic"})
    BY <1>7, WalkedEffect DEF CopyFails
  <2> QED BY <1>7, <2>1 DEF CopyFails
<1>8. CASE FreeOld
  <2>1. OnlyMarked({"mic"})
    BY <1>8, WalkedEffect DEF FreeOld
  <2> QED BY <1>8, <2>1 DEF FreeOld
<1>9. CASE UseCopy
  <2>1. OnlyMarked({"mic"})
    BY <1>9, WalkedEffect DEF UseCopy
  <2> QED BY <1>9, <2>1 DEF UseCopy
<1> QED BY <1>1, <1>2, <1>3, <1>4, <1>5, <1>6, <1>7, <1>8, <1>9

\* What every step of an admission has in common.
LEMMA AdmitEffect ==
  ASSUME LockIInv, AdmitStep
  PROVE  /\ main \in {"admit"} \cup Admitting /\ main' \in {"told"} \cup Admitting
         /\ tmp' \in Blocks \cup {NULL} /\ fresh' \in BOOLEAN
         /\ UNCHANGED <<lock, newLock, upd, direct, asked>>
         /\ OnlyMarked(Walkers)
<1> USE DEF LockIInv, ThreadsOK, Admitting, AdmitStep, java
<1>1. CASE Reallocate
  <2>1. OnlyMarked(Walkers)
    BY <1>1, WalkedEffect DEF Reallocate
  <2> QED BY <1>1, <2>1 DEF Reallocate
<1>2. CASE UseGrown
  <2>1. OnlyMarked(Walkers)
    BY <1>2, WalkedEffect DEF UseGrown
  <2> QED BY <1>2, <2>1 DEF UseGrown
<1>3. CASE StoreUser
  <2>1. OnlyMarked(Walkers)
    BY <1>3, WalkedEffect DEF StoreUser
  <2> QED BY <1>3, <2>1 DEF StoreUser
<1>4. CASE StoreLength
  <2>1. OnlyMarked(Walkers)
    BY <1>4, WalkedEffect DEF StoreLength
  <2> QED BY <1>4, <2>1 DEF StoreLength
<1> QED BY <1>1, <1>2, <1>3, <1>4

LEMMA DeleteLocks ==
  ASSUME LockIInv, DeleteStep
  PROVE  LockIInv'
<1>1. ThreadsOK'
  BY DeleteEffect DEF LockIInv, ThreadsOK, OnlyMarked, MainSteps, Deleting
<1>2. LocksHeld'
  <2>1. \A w \in Locked : walk'[w].pc = walk[w].pc
    BY DeleteEffect DEF OnlyMarked, Locked, Walkers
  <2> QED BY <2>1, DeleteEffect DEF LockIInv, LocksHeld, Deleting, Admitting, Locked
<1> QED BY <1>1, <1>2 DEF LockIInv

LEMMA AdmitLocks ==
  ASSUME LockIInv, AdmitStep
  PROVE  LockIInv'
<1>1. ThreadsOK'
  BY AdmitEffect DEF LockIInv, ThreadsOK, OnlyMarked, MainSteps, Admitting
<1>2. LocksHeld'
  <2>1. \A w \in Locked : walk'[w].pc = walk[w].pc
    BY AdmitEffect DEF OnlyMarked, Locked, Walkers
  <2> QED BY <2>1, AdmitEffect DEF LockIInv, LocksHeld, Deleting, Admitting, Locked
<1> QED BY <1>1, <1>2 DEF LockIInv

LEMMA OtherLocks ==
  ASSUME LockIInv, OtherStep \/ DestroyArray
  PROVE  LockIInv'
<1> USE DEF LockIInv, ThreadsOK, WalkOK, LocksHeld, Deleting, Admitting, MainSteps, Locked, Walkers, java
<1>1. CASE Sweep        BY <1>1 DEF Sweep
<1>2. CASE EndSweep     BY <1>2 DEF EndSweep
<1>3. CASE Register     BY <1>3 DEF Register
<1>4. CASE EndRegister  BY <1>4 DEF EndRegister
<1>5. CASE Message      BY <1>5 DEF Message, AfterMessage
<1>6. CASE DestroyArray BY <1>6 DEF DestroyArray
<1> QED BY <1>1, <1>2, <1>3, <1>4, <1>5, <1>6 DEF OtherStep

\* A walker's step moves that walker only.
WalkRecord ==
  [pc : WalkSteps, i : Nat, room : Nat, ptr : Blocks \cup {NULL, JUNK},
   cell : Records \cup {NULL, JUNK}, raced : BOOLEAN]

LEMMA WalkMoves ==
  ASSUME WalkOK, NEW w \in Walkers, NEW r \in WalkRecord, walk' = [walk EXCEPT ![w] = r]
  PROVE  WalkOK' /\ walk'[w] = r /\ \A v \in Walkers \ {w} : walk'[v] = walk[v]
BY DEF WalkOK, WalkRecord

LEMMA IdleIsOK == Idle \in WalkRecord /\ Idle.pc = "idle" /\ ~Idle.raced
BY DEF Idle, WalkRecord, WalkSteps

\* What the record of the walker is after each step.
Begun(w) ==
  [Idle EXCEPT !.pc = "check", !.raced = RacingFromTheStart(w),
               !.room = IF w = "java" THEN lenghtArray ELSE 0]

LEMMA BeginEffect ==
  ASSUME LockIInv, MemoryOK, NEW w \in Walkers, Begin(w)
  PROVE  /\ WalkOK' /\ \A v \in Walkers \ {w} : walk'[v] = walk[v]
         /\ walk'[w].pc = "check" /\ walk'[w].i = 0
         /\ walk'[w].raced = RacingFromTheStart(w)
         /\ w = "java" => walk'[w].room = lenghtArray
<1>1. walk' = [walk EXCEPT ![w] = Begun(w)]
  BY DEF Begin, Begun
<1>2. RacingFromTheStart(w) \in BOOLEAN /\ lenghtArray \in Nat
  BY DEF RacingFromTheStart, MemoryOK, MemoryAssumption
<1>3. /\ Begun(w) \in WalkRecord /\ Begun(w).pc = "check" /\ Begun(w).i = 0
      /\ Begun(w).raced = RacingFromTheStart(w)
      /\ w = "java" => Begun(w).room = lenghtArray
  BY <1>2 DEF Begun, Idle, WalkRecord, WalkSteps, Walking
<1> QED BY <1>1, <1>3, WalkMoves DEF LockIInv, ThreadsOK

LEMMA LoadArrayEffect ==
  ASSUME LockIInv, MemoryOK, NEW w \in Walkers, LoadArray(w)
  PROVE  /\ WalkOK' /\ \A v \in Walkers \ {w} : walk'[v] = walk[v]
         /\ walk'[w] = [walk[w] EXCEPT !.pc = "array", !.ptr = users]
<1> DEFINE r == [walk[w] EXCEPT !.pc = "array", !.ptr = users]
<1>1. walk[w] \in WalkRecord
  BY DEF LockIInv, ThreadsOK, WalkOK, WalkRecord
<1>2. r \in WalkRecord
  BY <1>1 DEF MemoryOK, WalkRecord, WalkSteps, Walking
<1>3. walk' = [walk EXCEPT ![w] = r]
  BY DEF LoadArray, LockIInv, ThreadsOK, WalkOK
<1> QED BY <1>2, <1>3, WalkMoves DEF LockIInv, ThreadsOK

LEMMA EndWalkEffect ==
  ASSUME LockIInv, NEW w \in Walkers, EndWalk(w)
  PROVE  /\ WalkOK' /\ \A v \in Walkers \ {w} : walk'[v] = walk[v]
         /\ walk'[w].pc \in {"idle", "new"} /\ (walk'[w].pc = "new" => w = "sock")
<1>1. PICK next \in IF w = "sock" THEN {"idle", "new"} ELSE {"idle"} :
        walk' = [walk EXCEPT ![w] = [Idle EXCEPT !.pc = next]]
  BY DEF EndWalk
<1> DEFINE r == [Idle EXCEPT !.pc = next]
<1>2. r \in WalkRecord /\ r.pc = next
  BY IdleIsOK DEF WalkRecord, WalkSteps
<1> QED BY <1>1, <1>2, WalkMoves DEF LockIInv, ThreadsOK

LEMMA LoadUserEffect ==
  ASSUME LockIInv, MemoryOK, NEW w \in Walkers, LoadUser(w)
  PROVE  /\ WalkOK' /\ \A v \in Walkers \ {w} : walk'[v] = walk[v]
         /\ walk'[w] = IF InBlock(w)
                       THEN [walk[w] EXCEPT !.pc = "user", !.cell = Cell(walk[w].ptr, walk[w].i),
                                            !.ptr = NULL]
                       ELSE [walk[w] EXCEPT !.pc = "bad"]
<1> DEFINE r == [walk[w] EXCEPT !.pc = "user", !.cell = Cell(walk[w].ptr, walk[w].i), !.ptr = NULL]
           bad == [walk[w] EXCEPT !.pc = "bad"]
<1>1. walk[w] \in WalkRecord
  BY DEF LockIInv, ThreadsOK, WalkOK, WalkRecord
<1>2. bad \in WalkRecord
  BY <1>1 DEF WalkRecord, WalkSteps
<1>3. ASSUME InBlock(w) PROVE r \in WalkRecord
  <2>1. walk[w].ptr \in Blocks /\ walk[w].i \in Nat /\ walk[w].i + 1 \in 1..Len(block[walk[w].ptr])
    BY <1>1, <1>3 DEF InBlock, WalkRecord, MemoryOK
  <2>2. Cell(walk[w].ptr, walk[w].i) \in Records \cup {NULL, JUNK}
    BY <2>1 DEF MemoryOK, Cell
  <2> QED BY <1>1, <2>2 DEF WalkRecord, WalkSteps, Walking
<1>4. walk' = [walk EXCEPT ![w] = IF InBlock(w) THEN r ELSE bad]
  BY DEF LoadUser, LockIInv, ThreadsOK, WalkOK
<1> HIDE DEF r, bad
<1>5. (IF InBlock(w) THEN r ELSE bad) \in WalkRecord
  BY <1>2, <1>3
<1>6. WalkOK' /\ walk'[w] = (IF InBlock(w) THEN r ELSE bad) /\ \A v \in Walkers \ {w} : walk'[v] = walk[v]
  BY <1>4, <1>5, WalkMoves DEF LockIInv, ThreadsOK
<1> QED BY <1>6 DEF r, bad

\* SkipNull and UseUser: on to the next index, or an end.
LEMMA UseEffect ==
  ASSUME LockIInv, NEW w \in Walkers, SkipNull(w) \/ UseUser(w)
  PROVE  /\ WalkOK' /\ \A v \in Walkers \ {w} : walk'[v] = walk[v]
         /\ \/ /\ UseUser(w) /\ UsesBadly(w)
               /\ walk'[w] = [walk[w] EXCEPT !.pc = "bad"]
            \/ walk'[w] = [walk[w] EXCEPT !.pc = "check", !.i = @ + 1, !.cell = NULL]
<1> DEFINE r == [walk[w] EXCEPT !.pc = "check", !.i = @ + 1, !.cell = NULL]
           bad == [walk[w] EXCEPT !.pc = "bad"]
<1>1. walk[w] \in WalkRecord
  BY DEF LockIInv, ThreadsOK, WalkOK, WalkRecord
<1>2. bad \in WalkRecord /\ r \in WalkRecord
  <2>1. walk[w].i + 1 \in Nat
    BY <1>1 DEF WalkRecord
  <2>2. bad \in WalkRecord
    BY <1>1 DEF WalkRecord, WalkSteps
  <2>3. r \in WalkRecord
    BY <1>1, <2>1 DEF WalkRecord, WalkSteps, Walking
  <2> QED BY <2>2, <2>3
<1>3. \/ UseUser(w) /\ UsesBadly(w) /\ walk' = [walk EXCEPT ![w] = bad]
      \/ walk' = [walk EXCEPT ![w] = r]
  BY DEF SkipNull, UseUser, NextUser, LockIInv, ThreadsOK, WalkOK
<1> HIDE DEF r, bad
<1>4. /\ WalkOK' /\ \A v \in Walkers \ {w} : walk'[v] = walk[v]
      /\ \/ UseUser(w) /\ UsesBadly(w) /\ walk'[w] = bad
         \/ walk'[w] = r
  BY <1>2, <1>3, WalkMoves DEF LockIInv, ThreadsOK
<1> QED BY <1>4 DEF r, bad

\* A walker that walks on, or ends in a bad pointer, leaves the locks as they are.
LEMMA WalksOn ==
  ASSUME LockIInv, NEW w \in Walkers,
         walk[w].pc \in Walking, walk'[w].pc \in Walking \cup {"bad"},
         WalkOK', \A v \in Walkers \ {w} : walk'[v] = walk[v],
         UNCHANGED <<lock, newLock, main, tmp, upd, direct, asked, fresh>>
  PROVE  LockIInv'
<1>1. ThreadsOK'
  BY DEF LockIInv, ThreadsOK
<1>2. \A v \in Locked : walk'[v].pc \in Walking \cup {"name", "bad"}
                          <=> walk[v].pc \in Walking \cup {"name", "bad"}
  BY DEF Locked, Walkers
<1>3. walk'["sock"].pc = "newheld" <=> walk["sock"].pc = "newheld"
  BY DEF Walking, Walkers
<1>4. LocksHeld'
  BY <1>2, <1>3 DEF LockIInv, LocksHeld
<1> QED BY <1>1, <1>4 DEF LockIInv

LEMMA WalkerLocks ==
  ASSUME LockIInv, MemoryOK, NEW w \in Walkers, WalkerStep(w)
  PROVE  LockIInv'
<1> USE DEF LockIInv, ThreadsOK, LocksHeld, Locked, Walkers, Walking, java, mainvars
<1>1. CASE Begin(w)
  <2>1. WalkOK' /\ walk'[w].pc = "check" /\ \A v \in Walkers \ {w} : walk'[v] = walk[v]
    BY <1>1, BeginEffect
  <2>2. ThreadsOK'
    BY <1>1, <2>1 DEF Begin
  <2>3. LocksHeld'
    BY <1>1, <2>1 DEF Begin
  <2> QED BY <2>2, <2>3
<1>2. CASE LoadArray(w)
  <2>1. walk[w].pc = "check" /\ walk'[w].pc = "array"
    <3>1. walk[w] \in WalkRecord /\ walk[w].pc = "check"
      BY <1>2 DEF LoadArray, WalkOK, WalkRecord
    <3>2. walk'[w] = [walk[w] EXCEPT !.pc = "array", !.ptr = users]
      BY <1>2, LoadArrayEffect
    <3> QED BY ONLY <3>1, <3>2 DEF WalkRecord
  <2>2. UNCHANGED <<lock, newLock, main, tmp, upd, direct, asked, fresh>>
    BY <1>2 DEF LoadArray
  <2>3. WalkOK' /\ \A v \in Walkers \ {w} : walk'[v] = walk[v]
    BY <1>2, LoadArrayEffect
  <2> QED BY <2>1, <2>2, <2>3, WalksOn
<1>3. CASE EndWalk(w)
  BY <1>3, EndWalkEffect DEF EndWalk
<1>4. CASE LoadUser(w)
  <2>1. walk[w].pc = "array" /\ walk'[w].pc \in {"user", "bad"}
    <3>1. walk[w] \in WalkRecord /\ walk[w].pc = "array"
      BY <1>4 DEF LoadUser, WalkOK, WalkRecord
    <3>2. \/ walk'[w] = [walk[w] EXCEPT !.pc = "user", !.cell = Cell(walk[w].ptr, walk[w].i),
                                         !.ptr = NULL]
          \/ walk'[w] = [walk[w] EXCEPT !.pc = "bad"]
      BY <1>4, LoadUserEffect
    <3> QED BY ONLY <3>1, <3>2 DEF WalkRecord
  <2>2. UNCHANGED <<lock, newLock, main, tmp, upd, direct, asked, fresh>>
    BY <1>4 DEF LoadUser
  <2>3. WalkOK' /\ \A v \in Walkers \ {w} : walk'[v] = walk[v]
    BY <1>4, LoadUserEffect
  <2> QED BY <2>1, <2>2, <2>3, WalksOn
<1>5. CASE SkipNull(w) \/ UseUser(w)
  <2>1. walk[w].pc = "user" /\ walk'[w].pc \in {"check", "bad"}
    <3>1. walk[w] \in WalkRecord /\ walk[w].pc = "user"
      BY <1>5 DEF SkipNull, UseUser, WalkOK, WalkRecord
    <3>2. \/ walk'[w] = [walk[w] EXCEPT !.pc = "bad"]
          \/ walk'[w] = [walk[w] EXCEPT !.pc = "check", !.i = @ + 1, !.cell = NULL]
      BY <1>5, UseEffect
    <3> QED BY ONLY <3>1, <3>2 DEF WalkRecord
  <2>2. UNCHANGED <<lock, newLock, main, tmp, upd, direct, asked, fresh>>
    BY <1>5 DEF SkipNull, UseUser
  <2>3. WalkOK' /\ \A v \in Walkers \ {w} : walk'[v] = walk[v]
    BY <1>5, UseEffect
  <2> QED BY <2>1, <2>2, <2>3, WalksOn
<1> QED BY <1>1, <1>2, <1>3, <1>4, <1>5 DEF WalkerStep

LEMMA SocketEffect ==
  ASSUME LockIInv, SocketStep
  PROVE  /\ WalkOK' /\ \A v \in Walkers \ {"sock"} : walk'[v] = walk[v]
         /\ \/ /\ CountPing
               /\ \/ walk'["sock"].pc = "idle" /\ lock' = "free"
                  \/ walk'["sock"].pc = "name" /\ lock' = lock
            \/ NameMessage /\ walk'["sock"].pc = "idle"
            \/ LockNew /\ walk'["sock"].pc = "newheld"
            \/ UnlockNew /\ walk'["sock"].pc = "idle"
<1> USE DEF LockIInv, ThreadsOK, Walkers
<1> DEFINE At(pc) == [walk["sock"] EXCEPT !.pc = pc]
<1>1. walk["sock"] \in WalkRecord
  BY DEF WalkOK, WalkRecord
<1>2. \A pc \in WalkSteps : At(pc) \in WalkRecord /\ At(pc).pc = pc
  BY <1>1 DEF WalkRecord
<1>3. "name" \in WalkSteps /\ "newheld" \in WalkSteps
  BY DEF WalkSteps
<1>4. \A pc : [walk EXCEPT !["sock"].pc = pc] = [walk EXCEPT !["sock"] = At(pc)]
  BY DEF WalkOK
<1> HIDE DEF At
<1>5. CASE CountPing
  <2>1. \/ walk' = [walk EXCEPT !["sock"] = Idle] /\ lock' = "free"
        \/ walk' = [walk EXCEPT !["sock"] = At("name")] /\ lock' = lock
    BY <1>4, <1>5 DEF CountPing
  <2> QED BY <1>2, <1>3, <1>5, <2>1, IdleIsOK, WalkMoves
<1>6. CASE NameMessage
  BY <1>6, IdleIsOK, WalkMoves DEF NameMessage
<1>7. CASE LockNew
  <2>1. walk' = [walk EXCEPT !["sock"] = At("newheld")]
    BY <1>4, <1>7 DEF LockNew
  <2> QED BY <1>2, <1>3, <1>7, <2>1, WalkMoves
<1>8. CASE UnlockNew
  BY <1>8, IdleIsOK, WalkMoves DEF UnlockNew
<1> QED BY <1>5, <1>6, <1>7, <1>8 DEF SocketStep

LEMMA SocketLocks ==
  ASSUME LockIInv, SocketStep
  PROVE  LockIInv'
<1> USE DEF LockIInv, ThreadsOK, LocksHeld, Locked, Walkers, Walking, java, mainvars
<1>1. CASE CountPing    BY <1>1, SocketEffect DEF CountPing, NameMessage, LockNew, UnlockNew
<1>2. CASE NameMessage  BY <1>2, SocketEffect DEF CountPing, NameMessage, LockNew, UnlockNew
<1>3. CASE LockNew      BY <1>3, SocketEffect DEF CountPing, NameMessage, LockNew, UnlockNew
<1>4. CASE UnlockNew    BY <1>4, SocketEffect DEF CountPing, NameMessage, LockNew, UnlockNew
<1> QED BY <1>1, <1>2, <1>3, <1>4 DEF SocketStep

-----------------------------------------------------------------------------
(* Java gets to know. *)

LEMMA ToldKept ==
  ASSUME LockIInv, MemoryOK, ChangesAreTold, [Next]_vars
  PROVE  ChangesAreTold'
<1> USE DEF ChangesAreTold, LockIInv, ThreadsOK, WalkOK, java, mainvars
<1>1. CASE DeleteStep /\ Sane
  <2>1. walk'["sock"].pc = walk["sock"].pc
    BY <1>1, DeleteEffect DEF OnlyMarked, Walkers
  <2> QED BY <1>1, <2>1, DeleteEffect DEF Deleting, Admitting
<1>2. CASE AdmitStep
  BY <1>2, AdmitEffect
<1>3. CASE OtherStep /\ Sane
  <2>1. CASE Sweep        BY <1>3, <2>1 DEF Sweep, Deleting, Admitting
  <2>2. CASE EndSweep     BY <1>3, <2>2 DEF EndSweep, Deleting, Admitting
  <2>3. CASE Register     BY <1>3, <2>3 DEF Register, Deleting, Admitting
  <2>4. CASE EndRegister  BY <1>3, <2>4 DEF EndRegister, Deleting, Admitting
  <2>5. CASE Message      BY <1>3, <2>5 DEF Message
  <2> QED BY <1>3, <2>1, <2>2, <2>3, <2>4, <2>5 DEF OtherStep
<1>4. CASE DestroyArray /\ Sane
  BY <1>4 DEF DestroyArray, Deleting, Admitting
<1>5. ASSUME NEW w \in Walkers, WalkerStep(w), Sane
      PROVE  ChangesAreTold'
  <2>1. CASE Begin(w)
    <3>1. walk[w].pc = "idle" /\ \A v \in Walkers \ {w} : walk'[v] = walk[v]
      BY <2>1, BeginEffect DEF Begin
    <3>2. walk["sock"].pc = "name" => walk'["sock"].pc = "name"
      BY <3>1 DEF Walkers
    <3> QED BY <1>5, <2>1, <3>2 DEF Begin
  <2>2. CASE ~Begin(w)
    <3>1. walk[w].pc \in Walking /\ \A v \in Walkers \ {w} : walk'[v] = walk[v]
      BY <1>5, <2>2, LoadArrayEffect, EndWalkEffect, LoadUserEffect, UseEffect
      DEF WalkerStep, LoadArray, EndWalk, LoadUser, SkipNull, UseUser, Walking
    <3>2. walk["sock"].pc = "name" => walk'["sock"].pc = "name"
      BY <3>1 DEF Walkers, Walking
    <3>3. UNCHANGED <<fresh, asked, main, upd>>
      BY <1>5, <2>2 DEF WalkerStep, LoadArray, EndWalk, LoadUser, SkipNull, UseUser
    <3> QED BY <1>5, <3>2, <3>3
  <2> QED BY <2>1, <2>2
<1>6. CASE SocketStep /\ Sane
  <2>1. CASE CountPing
    <3>1. \/ fresh' = fresh /\ walk["sock"].pc = "user"
          \/ walk'["sock"].pc = "name"
      BY <2>1 DEF CountPing, Walkers
    <3> QED BY <1>6, <2>1, <3>1 DEF CountPing
  <2>2. CASE NameMessage  BY <2>2 DEF NameMessage
  <2>3. CASE LockNew      BY <1>6, <2>3 DEF LockNew
  <2>4. CASE UnlockNew    BY <1>6, <2>4 DEF UnlockNew
  <2> QED BY <1>6, <2>1, <2>2, <2>3, <2>4 DEF SocketStep
<1>7. CASE UNCHANGED vars
  BY <1>7 DEF vars, Sane
<1> QED BY <1>1, <1>2, <1>3, <1>4, <1>5, <1>6, <1>7, NextIsOneOf

-----------------------------------------------------------------------------
(* What the copies keep. *)

Anything == Records \cup {NULL, JUNK}

\* Fewer cells: without the last of them.
LEMMA KeepsButLast ==
  ASSUME NEW s \in Seq(Anything), NEW n \in Nat \ {0}, NEW us, Keeps(s, n, us), NULL \notin us
  PROVE  Keeps(s, n - 1, us \ {s[n]})
BY DEF Keeps

\* The first n cells are all that matters.
LEMMA KeepsStart ==
  ASSUME NEW s \in Seq(Anything), NEW t \in Seq(Anything), NEW n \in Nat, NEW us, Keeps(s, n, us),
         n <= Len(t), \A i \in 1..n : t[i] = s[i]
  PROVE  Keeps(t, n, us)
BY DEF Keeps

\* One more user, or NULL, in the next cell.
LEMMA KeepsOneMore ==
  ASSUME NEW s \in Seq(Anything), NEW n \in Nat, NEW us, Keeps(s, n, us), n < Len(s),
         NEW x, x = NULL \/ x \notin us,
         NEW t \in Seq(Anything), Len(t) = Len(s), t[n + 1] = x, \A i \in 1..n : t[i] = s[i],
         NULL \notin us
  PROVE  Keeps(t, n + 1, us \cup ({x} \ {NULL}))
<1>1. \A i \in 1..n + 1 : i \in 1..n \/ i = n + 1
  OBVIOUS
<1> QED BY <1>1 DEF Keeps

\* What RemoveAt leaves of the first n cells.
LEMMA RemoveAtEffect ==
  ASSUME NEW s \in Seq(Anything), NEW n \in Nat \ {0}, n <= Len(s), NEW k \in 1..n
  PROVE  LET t == RemoveAt(SubSeq(s, 1, n), k)
         IN  /\ t \in Seq(Anything) /\ Len(t) = n - 1
             /\ \A i \in 1..n - 1 : t[i] = IF i < k THEN s[i] ELSE s[i + 1]
<1> DEFINE c == SubSeq(s, 1, n)
<1>1. c \in Seq(Anything) /\ Len(c) = n /\ \A i \in 1..n : c[i] = s[i]
  OBVIOUS
<1> HIDE DEF c
<1> DEFINE a == SubSeq(c, 1, k - 1)
           b == SubSeq(c, k + 1, Len(c))
<1>2. a \in Seq(Anything) /\ Len(a) = k - 1 /\ \A i \in 1..k - 1 : a[i] = s[i]
  BY <1>1
<1>3. b \in Seq(Anything) /\ Len(b) = n - k /\ \A i \in 1..n - k : b[i] = s[i + k]
  BY <1>1
<1>4. RemoveAt(c, k) = a \o b
  BY DEF RemoveAt
<1> HIDE DEF a, b
<1>5. a \o b \in Seq(Anything) /\ Len(a \o b) = n - 1
  <2>1. a \o b \in Seq(Anything) /\ Len(a \o b) = Len(a) + Len(b)
    BY ONLY <1>2, <1>3, ConcatProperties
  <2>2. (k - 1) + (n - k) = n - 1
    OBVIOUS
  <2> QED BY ONLY <1>2, <1>3, <2>1, <2>2
<1>6. ASSUME NEW i \in 1..n - 1
      PROVE  (a \o b)[i] = IF i < k THEN s[i] ELSE s[i + 1]
  BY <1>2, <1>3
<1> QED BY <1>4, <1>5, <1>6 DEF c

\* The copy that delUser makes keeps everyone but the user that is deleted.
LEMMA KeepsOthers ==
  ASSUME NEW s \in Seq(Anything), NEW n \in Nat \ {0}, NEW us, Keeps(s, n, us), NULL \notin us,
         NEW k \in 1..n, s[k] # NULL
  PROVE  LET t == RemoveAt(SubSeq(s, 1, n), k)
         IN  t \in Seq(Anything) /\ Len(t) = n - 1 /\ Keeps(t, n - 1, us \ {s[k]})
<1> DEFINE t == RemoveAt(SubSeq(s, 1, n), k)
<1>1. /\ t \in Seq(Anything) /\ Len(t) = n - 1
      /\ \A i \in 1..n - 1 : t[i] = IF i < k THEN s[i] ELSE s[i + 1]
  BY RemoveAtEffect DEF Keeps
<1> HIDE DEF t
<1> DEFINE from(i) == IF i < k THEN i ELSE i + 1
<1>2. ASSUME NEW i \in 1..n - 1
      PROVE  t[i] = s[from(i)] /\ from(i) \in 1..n /\ from(i) # k
  BY <1>1
<1>3. \A i, j \in 1..n - 1 : from(i) = from(j) => i = j
  OBVIOUS
<1>4. ASSUME NEW j \in 1..n, j # k
      PROVE  \E i \in 1..n - 1 : from(i) = j
  <2>1. CASE j < k  BY <2>1
  <2>2. CASE j > k
    <3>1. j - 1 \in 1..n - 1 /\ from(j - 1) = j
      BY <2>2
    <3> QED BY <3>1
  <2> QED BY <1>4, <2>1, <2>2
<1> HIDE DEF from
<1>5. \A i \in 1..n - 1 : t[i] \in (us \ {s[k]}) \cup {NULL}
  BY <1>2 DEF Keeps
<1>6. \A i, j \in 1..n - 1 : t[i] = t[j] => i = j \/ t[i] = NULL
  BY <1>2, <1>3 DEF Keeps
<1>7. \A u \in us \ {s[k]} : \E i \in 1..n - 1 : t[i] = u
  BY <1>2, <1>4 DEF Keeps
<1>8. Keeps(t, n - 1, us \ {s[k]})
  BY <1>1, <1>5, <1>6, <1>7 DEF Keeps
<1> QED BY <1>1, <1>8 DEF t

-----------------------------------------------------------------------------
(* The memory at each step of the main thread. *)

\* Whose users are kept in the first n cells of block b.
In(b, n) == IF n = 0 THEN Present = {} ELSE Keeps(block[b], n, Present)

LEMMA PresentIsRecords ==
  ASSUME MemoryOK
  PROVE  NULL \notin Present /\ Present \subseteq alive /\ lost \cap Present = {}
BY MemoryAssumption DEF MemoryOK, Present

\* What the invariant says where the array is in order, and what a step that leaves it
\* in order has to show.
LEMMA OrderIs ==
  ASSUME MemIInv, InOrder
  PROVE  /\ IF lenghtArray = 0 THEN users = NULL /\ Live = {} ELSE users \in Blocks /\ Live = {users}
         /\ In(users, lenghtArray)
BY DEF MemIInv, BlocksInUse, UsersAreKept, In, InOrder, Count, Array, Deleting, Admitting

LEMMA OrderTakes ==
  ASSUME MemoryOK', InOrder',
         IF lenghtArray' = 0 THEN users' = NULL /\ Live' = {} ELSE users' \in Blocks /\ Live' = {users'},
         IF lenghtArray' = 0 THEN Present' = {} ELSE Keeps(block'[users'], lenghtArray', Present')
  PROVE  MemIInv'
BY DEF MemIInv, BlocksInUse, UsersAreKept, In, InOrder, Count, Array, Deleting, Admitting

LEMMA DestroyOnlyMem ==
  ASSUME MemIInv, DestroyOnly
  PROVE  MemIInv'
<1> DEFINE u == block[users][1]
<1>1. /\ lenghtArray = 1 /\ users \in Blocks /\ Live = {users} /\ Keeps(block[users], 1, Present)
      /\ u # NULL /\ main = "swept"
  BY OrderIs DEF DestroyOnly, InOrder, Deleting, Admitting, In, Cell
<1>2. u \in Present /\ Present = {u}
  BY <1>1 DEF Keeps
<1>3. alive' = alive \ {u} /\ lost' = lost /\ Present' = {}
  BY <1>2 DEF DestroyOnly, Cell, Present
<1>4. UNCHANGED <<users, lenghtArray, block, updateUserName>> /\ main' = "destroyed" /\ Live' = Live
  BY DEF DestroyOnly, Live
<1>5. MemoryOK'
  BY <1>2, <1>3, <1>4, PresentIsRecords DEF MemIInv, MemoryOK
<1>6. BlocksInUse'
  BY <1>1, <1>4 DEF BlocksInUse, InOrder, Deleting
<1>7. UsersAreKept'
  BY <1>3, <1>4 DEF UsersAreKept, Count
<1> QED BY <1>5, <1>6, <1>7 DEF MemIInv

LEMMA FreeOnlyMem ==
  ASSUME MemIInv, FreeOnly
  PROVE  MemIInv'
<1>1. lenghtArray = 1 /\ users \in Blocks /\ Live = {users} /\ Present = {} /\ main = "destroyed"
  BY DEF FreeOnly, MemIInv, BlocksInUse, UsersAreKept, Count
<1>2. /\ UNCHANGED <<lenghtArray, alive, lost, updateUserName>> /\ users' = JUNK /\ main' = "freed"
      /\ block' = [block EXCEPT ![users] = <<>>]
  BY DEF FreeOnly
<1>3. Live' = {}
  BY <1>1, <1>2 DEF Live, MemIInv, MemoryOK
<1>4. <<>> \in Seq(Anything) /\ Len(<<>>) = 0
  OBVIOUS
<1>5. block' \in [Blocks -> Seq(Anything)] /\ \A b \in Blocks : Len(block'[b]) <= A_arrayUsersThreshold
  BY <1>1, <1>2, <1>4, MemoryAssumption DEF MemIInv, MemoryOK, Anything
<1>6. MemoryOK'
  BY <1>2, <1>5 DEF MemIInv, MemoryOK, Anything
<1>7. BlocksInUse'
  BY <1>1, <1>2, <1>3 DEF BlocksInUse, InOrder, Deleting
<1>8. UsersAreKept'
  BY <1>1, <1>2 DEF UsersAreKept, Count, Present
<1> QED BY <1>6, <1>7, <1>8 DEF MemIInv

LEMMA EmptyArrayMem ==
  ASSUME MemIInv, EmptyArray
  PROVE  MemIInv'
<1>1. lenghtArray = 1 /\ users = JUNK /\ Live = {} /\ Present = {} /\ main = "freed"
  BY DEF EmptyArray, MemIInv, BlocksInUse, UsersAreKept, Count
<1>2. /\ UNCHANGED <<users, block, alive, lost, updateUserName>> /\ lenghtArray' = 0 /\ main' = "emptied"
      /\ Live' = Live
  BY DEF EmptyArray, Live
<1>3. MemoryOK'
  BY <1>2, MemoryAssumption DEF MemIInv, MemoryOK
<1>4. BlocksInUse'
  BY <1>1, <1>2 DEF BlocksInUse, InOrder, Deleting
<1>5. UsersAreKept'
  BY <1>1, <1>2 DEF UsersAreKept, Count, Present
<1> QED BY <1>3, <1>4, <1>5 DEF MemIInv

LEMMA ForgetArrayMem ==
  ASSUME MemIInv, ForgetArray
  PROVE  MemIInv'
<1>1. lenghtArray = 0 /\ Live = {} /\ Present = {}
  BY DEF ForgetArray, MemIInv, BlocksInUse, UsersAreKept, Count
<1>2. /\ UNCHANGED <<lenghtArray, block, alive, lost, updateUserName>> /\ users' = NULL /\ main' = "swept"
      /\ Live' = Live /\ Present' = Present
  BY DEF ForgetArray, Live, Present
<1>3. MemoryOK'
  BY <1>2 DEF MemIInv, MemoryOK
<1>4. InOrder'
  BY <1>2 DEF InOrder, Deleting, Admitting
<1> QED BY <1>1, <1>2, <1>3, <1>4, OrderTakes

LEMMA ShrinkMem ==
  ASSUME MemIInv, Shrink
  PROVE  MemIInv'
<1>1. /\ lenghtArray > 1 /\ users \in Blocks /\ Live = {users}
      /\ Keeps(block[users], lenghtArray, Present) /\ lenghtArray \in 0..A_arrayUsersThreshold
  BY OrderIs DEF Shrink, InOrder, Deleting, Admitting, In, MemIInv, MemoryOK
<1>2. /\ UNCHANGED <<users, block, alive, lost, updateUserName>> /\ main' = "shrunk"
      /\ lenghtArray' = lenghtArray - 1 /\ Live' = Live /\ Present' = Present
  BY DEF Shrink, Live, Present
<1>3. MemoryOK'
  BY <1>1, <1>2, MemoryAssumption DEF MemIInv, MemoryOK
<1>4. BlocksInUse'
  BY <1>1, <1>2 DEF BlocksInUse, InOrder, Deleting
<1>5. Count' = lenghtArray /\ Array' = users
  BY <1>1, <1>2 DEF Count, Array
<1>6. UsersAreKept'
  BY <1>1, <1>2, <1>5 DEF UsersAreKept
<1> QED BY <1>3, <1>4, <1>6 DEF MemIInv

\* In the middle of a deletion all users are still there.
LEMMA ShrunkIs ==
  ASSUME MemIInv, main = "shrunk"
  PROVE  /\ lenghtArray \in Nat \ {0} /\ users \in Blocks /\ Live = {users}
         /\ block[users] \in Seq(Anything)
         /\ Keeps(block[users], lenghtArray + 1, Present)
         /\ Len(block[users]) <= A_arrayUsersThreshold
<1>1. lenghtArray > 0 /\ lenghtArray \in Nat /\ users \in Blocks /\ Live = {users}
  BY MemoryAssumption DEF MemIInv, MemoryOK, BlocksInUse
<1>2. Count = lenghtArray + 1 /\ Array = users
  BY DEF Count, Array
<1> QED BY <1>1, <1>2 DEF MemIInv, MemoryOK, UsersAreKept, Anything

LEMMA CopyOthersMem ==
  ASSUME MemIInv, CopyOthers
  PROVE  MemIInv'
<1> DEFINE s == block[users]
           n == lenghtArray + 1
<1>1. PICK b \in Blocks \ Live, i \in 0..lenghtArray :
        /\ Cell(users, i) # NULL
        /\ tmp' = b
        /\ block' = [block EXCEPT ![b] = RemoveAt(SubSeq(s, 1, n), i + 1)]
        /\ alive' = alive \ {Cell(users, i)}
  BY DEF CopyOthers
<1> DEFINE t == RemoveAt(SubSeq(s, 1, n), i + 1)
           u == s[i + 1]
<1>2. /\ UNCHANGED <<users, lenghtArray, lost, updateUserName>> /\ main' = "copied"
  BY DEF CopyOthers
<1>3. main = "shrunk"
  BY DEF CopyOthers
<1>4. /\ lenghtArray \in Nat \ {0} /\ users \in Blocks /\ Live = {users}
      /\ s \in Seq(Anything) /\ Keeps(s, n, Present) /\ Len(s) <= A_arrayUsersThreshold
  BY <1>3, ShrunkIs
<1>5. NULL \notin Present /\ lost \cap Present = {} /\ Present \subseteq alive
  BY PresentIsRecords DEF MemIInv
<1>6. n \in Nat \ {0} /\ i + 1 \in 1..n /\ n - 1 = lenghtArray
  BY <1>4
<1>7. u # NULL /\ u \in Present
  BY <1>1, <1>4, <1>6 DEF Cell, Keeps
<1>8. t \in Seq(Anything) /\ Len(t) = lenghtArray /\ Keeps(t, lenghtArray, Present \ {u})
  <2> HIDE DEF n
  <2>1. t \in Seq(Anything) /\ Len(t) = n - 1 /\ Keeps(t, n - 1, Present \ {u})
    BY ONLY <1>4, <1>5, <1>6, <1>7, KeepsOthers
  <2> QED BY <1>6, <2>1
<1> HIDE DEF t
<1>9. b # users /\ block'[users] = block[users] /\ block'[b] = t
  BY <1>1, <1>4 DEF MemIInv, MemoryOK, t
<1>10. Present' = Present \ {u} /\ lost \subseteq alive' /\ alive' \subseteq alive
  BY <1>1, <1>2, <1>5, <1>7 DEF Present, Cell, MemIInv, MemoryOK
<1>11. lenghtArray <= A_arrayUsersThreshold
  BY <1>4 DEF MemIInv, MemoryOK
<1>12. MemoryOK'
  <2>1. block' \in [Blocks -> Seq(Anything)] /\ \A c \in Blocks : Len(block'[c]) <= A_arrayUsersThreshold
    BY <1>1, <1>8, <1>11 DEF MemIInv, MemoryOK, Anything, t
  <2> QED BY <1>2, <1>10, <2>1 DEF MemIInv, MemoryOK, Anything
<1>13. Live' = {users, b}
  <2>1. t # <<>>
    BY <1>4, <1>8
  <2>2. \A c \in Blocks : block'[c] # <<>> <=> c \in Live \/ c = b
    BY <1>1, <1>9, <2>1 DEF MemIInv, MemoryOK, Live, t
  <2> QED BY <1>4, <2>2 DEF Live
<1>14. BlocksInUse'
  BY <1>1, <1>2, <1>4, <1>8, <1>9, <1>13 DEF BlocksInUse, InOrder, Deleting
<1>15. Count' = lenghtArray /\ Array' = b
  BY <1>1, <1>2 DEF Count, Array
<1>16. UsersAreKept'
  BY <1>4, <1>8, <1>9, <1>10, <1>15 DEF UsersAreKept
<1> QED BY <1>12, <1>14, <1>16 DEF MemIInv

LEMMA CopyFailsMem ==
  ASSUME MemIInv, CopyFails
  PROVE  MemIInv'
<1> DEFINE s == block[users]
           u == s[lenghtArray + 1]
<1>1. main = "shrunk" /\ MallocFails
  BY DEF CopyFails
<1>2. /\ lenghtArray \in Nat \ {0} /\ users \in Blocks /\ Live = {users}
      /\ s \in Seq(Anything) /\ Keeps(s, lenghtArray + 1, Present)
  BY <1>1, ShrunkIs
<1>3. NULL \notin Present /\ lost \cap Present = {} /\ Present \subseteq alive
  BY PresentIsRecords DEF MemIInv
<1>4. u \in Present \cup {NULL}
  BY <1>2 DEF Keeps
<1>5. Keeps(s, lenghtArray, Present \ {u})
  <2>1. lenghtArray + 1 \in Nat \ {0} /\ (lenghtArray + 1) - 1 = lenghtArray
    BY <1>2
  <2>2. Keeps(s, (lenghtArray + 1) - 1, Present \ {u})
    BY ONLY <1>2, <1>3, <2>1, KeepsButLast
  <2> QED BY <2>1, <2>2
<1>6. /\ UNCHANGED <<users, lenghtArray, block, alive, updateUserName>> /\ main' = "swept"
      /\ lost' = lost \cup ({u} \ {NULL}) /\ Live' = Live
  BY DEF CopyFails, Cell, Live
<1>7. Present' = Present \ {u} /\ lost' \subseteq alive
  BY <1>3, <1>4, <1>6 DEF Present, MemIInv, MemoryOK
<1>8. MemoryOK'
  BY <1>1, <1>6, <1>7 DEF MemIInv, MemoryOK
<1>9. InOrder'
  BY <1>6 DEF InOrder, Deleting, Admitting
<1> QED BY <1>2, <1>5, <1>6, <1>7, <1>8, <1>9, OrderTakes

LEMMA FreeOldMem ==
  ASSUME MemIInv, FreeOld
  PROVE  MemIInv'
<1>1. /\ lenghtArray > 0 /\ Len(block[tmp]) = lenghtArray /\ users \in Blocks /\ tmp \in Blocks
      /\ users # tmp /\ Live = {users, tmp}
  BY DEF FreeOld, MemIInv, BlocksInUse
<1>2. Keeps(block[tmp], lenghtArray, Present)
  BY <1>1 DEF FreeOld, MemIInv, UsersAreKept, Count, Array
<1>3. /\ UNCHANGED <<lenghtArray, alive, lost, updateUserName, tmp>> /\ users' = JUNK
      /\ main' = "released" /\ block' = [block EXCEPT ![users] = <<>>] /\ Present' = Present
  BY DEF FreeOld, Present
<1>4. <<>> \in Seq(Anything) /\ Len(<<>>) = 0
  OBVIOUS
<1>5. block' \in [Blocks -> Seq(Anything)] /\ \A b \in Blocks : Len(block'[b]) <= A_arrayUsersThreshold
  BY <1>1, <1>3, <1>4, MemoryAssumption DEF MemIInv, MemoryOK, Anything
<1>6. MemoryOK'
  BY <1>3, <1>5 DEF MemIInv, MemoryOK, Anything
<1>7. Live' = {tmp} /\ block'[tmp] = block[tmp]
  BY <1>1, <1>3 DEF Live, MemIInv, MemoryOK
<1>8. BlocksInUse'
  BY <1>1, <1>3, <1>7 DEF BlocksInUse, InOrder, Deleting
<1>9. Count' = lenghtArray /\ Array' = tmp
  BY <1>3 DEF Count, Array
<1>10. UsersAreKept'
  BY <1>1, <1>2, <1>3, <1>7, <1>9 DEF UsersAreKept
<1> QED BY <1>6, <1>8, <1>10 DEF MemIInv

LEMMA UseCopyMem ==
  ASSUME MemIInv, UseCopy
  PROVE  MemIInv'
<1>1. lenghtArray > 0 /\ tmp \in Blocks /\ Live = {tmp} /\ Keeps(block[tmp], lenghtArray, Present)
  BY DEF UseCopy, MemIInv, BlocksInUse, UsersAreKept, Count, Array
<1>2. /\ UNCHANGED <<lenghtArray, block, alive, lost, updateUserName>> /\ users' = tmp
      /\ main' = "swept" /\ Live' = Live /\ Present' = Present
  BY DEF UseCopy, Live, Present
<1>3. MemoryOK'
  BY <1>1, <1>2 DEF MemIInv, MemoryOK
<1>4. InOrder'
  BY <1>2 DEF InOrder, Deleting, Admitting
<1> QED BY <1>1, <1>2, <1>3, <1>4, OrderTakes

LEMMA GrownEffect ==
  ASSUME NEW s \in Seq(Anything), lenghtArray \in Nat, lenghtArray <= Len(s)
  PROVE  /\ Grown(s) \in Seq(Anything) /\ Len(Grown(s)) = lenghtArray + 1
         /\ \A i \in 1..lenghtArray : Grown(s)[i] = s[i]
<1> DEFINE a == SubSeq(s, 1, lenghtArray)
           x == IF Len(s) > lenghtArray THEN s[lenghtArray + 1] ELSE JUNK
<1>1. a \in Seq(Anything) /\ Len(a) = lenghtArray /\ \A i \in 1..lenghtArray : a[i] = s[i]
  OBVIOUS
<1>2. x \in Anything
  BY DEF Anything
<1>3. Grown(s) = a \o <<x>>
  BY DEF Grown
<1> HIDE DEF a, x
<1>4. <<x>> \in Seq(Anything) /\ Len(<<x>>) = 1
  BY <1>2
<1> QED BY <1>1, <1>3, <1>4, ConcatProperties

\* In the middle of an admission: the block has one cell more than there are users.
LEMMA ReallocateMem ==
  ASSUME MemIInv, Reallocate
  PROVE  MemIInv'
<1> DEFINE old == IF users = NULL THEN <<>> ELSE block[users]
<1>1. PICK b \in Blocks :
        /\ b = users \/ b \notin Live
        /\ block' = [c \in Blocks |-> IF c = b THEN Grown(old)
                                      ELSE IF c = users THEN <<>> ELSE block[c]]
        /\ tmp' = b
        /\ users' = IF b = users \/ users = NULL THEN users ELSE JUNK
  BY DEF Reallocate
<1>2. /\ main = "admit" /\ main' = "grown" /\ lenghtArray < A_arrayUsersThreshold
      /\ UNCHANGED <<lenghtArray, alive, lost, updateUserName>> /\ Present' = Present
  BY DEF Reallocate, HasRoom, Present
<1>3. /\ IF lenghtArray = 0 THEN users = NULL /\ Live = {} ELSE users \in Blocks /\ Live = {users}
      /\ In(users, lenghtArray) /\ lenghtArray \in Nat /\ A_arrayUsersThreshold \in Nat
  BY <1>2, OrderIs, MemoryAssumption DEF InOrder, Deleting, Admitting, MemIInv, MemoryOK
<1>4. /\ old \in Seq(Anything) /\ lenghtArray <= Len(old)
      /\ IF lenghtArray = 0 THEN Present = {} ELSE Keeps(old, lenghtArray, Present)
  <2>1. CASE lenghtArray = 0
    <3>1. <<>> \in Seq(Anything) /\ Len(<<>>) = 0
      OBVIOUS
    <3> QED BY <1>3, <2>1, <3>1 DEF In
  <2>2. CASE lenghtArray # 0
    <3>1. users \in Blocks /\ users # NULL
      BY <1>3, <2>2, MemoryAssumption
    <3>2. old = block[users] /\ old \in Seq(Anything)
      BY <3>1 DEF MemIInv, MemoryOK, Anything
    <3> QED BY <1>3, <2>2, <3>2 DEF In, Keeps
  <2> QED BY <2>1, <2>2
<1>5. /\ Grown(old) \in Seq(Anything) /\ Len(Grown(old)) = lenghtArray + 1
      /\ \A i \in 1..lenghtArray : Grown(old)[i] = old[i]
  BY <1>3, <1>4, GrownEffect
<1>6. lenghtArray # 0 => Keeps(Grown(old), lenghtArray, Present)
  <2> HIDE DEF old
  <2>1. lenghtArray <= Len(Grown(old))
    BY <1>3, <1>5
  <2> QED BY ONLY <1>3, <1>4, <1>5, <2>1, KeepsStart
<1> DEFINE new == Grown(old)
<1> HIDE DEF old, new
<1>7. block'[b] = new /\ \A c \in Blocks \ {b} : block'[c] = <<>>
  BY <1>1, <1>3 DEF Live, new
<1>8. Live' = {b}
  BY <1>3, <1>5, <1>7 DEF Live, new
<1>9. MemoryOK'
  <2>1. <<>> \in Seq(Anything) /\ Len(<<>>) = 0
    OBVIOUS
  <2>2. block' \in [Blocks -> Seq(Anything)] /\ \A c \in Blocks : Len(block'[c]) <= A_arrayUsersThreshold
    <3>1. \A c \in Blocks : block'[c] \in Seq(Anything) /\ Len(block'[c]) <= A_arrayUsersThreshold
      <4>1. new \in Seq(Anything) /\ Len(new) <= A_arrayUsersThreshold
        BY <1>2, <1>3, <1>5 DEF new
      <4>2. \A c \in Blocks \ {b} : block'[c] \in Seq(Anything) /\ Len(block'[c]) <= A_arrayUsersThreshold
        <5>1. <<>> \in Seq(Anything) /\ Len(<<>>) <= A_arrayUsersThreshold
          BY <1>3, <2>1
        <5> QED BY ONLY <1>7, <5>1
      <4> QED BY <1>7, <4>1, <4>2
    <3>2. block' = [c \in Blocks |-> block'[c]]
      BY <1>1
    <3> QED BY <3>1, <3>2
  <2>3. users' \in Blocks \cup {NULL, JUNK}
    BY <1>1
  <2> QED BY <1>2, <2>2, <2>3 DEF MemIInv, MemoryOK, Anything
<1>10. BlocksInUse'
  BY <1>1, <1>2, <1>5, <1>7, <1>8 DEF BlocksInUse, InOrder, Admitting, new
<1>11. Count' = lenghtArray /\ Array' = b
  BY <1>1, <1>2 DEF Count, Array
<1>12. UsersAreKept'
  BY <1>2, <1>4, <1>6, <1>7, <1>11 DEF UsersAreKept, new
<1> QED BY <1>9, <1>10, <1>12 DEF MemIInv

LEMMA UseGrownMem ==
  ASSUME MemIInv, UseGrown
  PROVE  MemIInv'
<1>1. /\ lenghtArray < A_arrayUsersThreshold /\ tmp \in Blocks /\ Live = {tmp}
      /\ Len(block[tmp]) = lenghtArray + 1 /\ In(tmp, lenghtArray)
  BY DEF UseGrown, MemIInv, BlocksInUse, UsersAreKept, Count, Array, In
<1>2. /\ UNCHANGED <<lenghtArray, block, alive, lost, updateUserName>> /\ users' = tmp
      /\ main' = "storing" /\ Live' = Live /\ Present' = Present
  BY DEF UseGrown, Live, Present
<1>3. MemoryOK'
  BY <1>1, <1>2 DEF MemIInv, MemoryOK
<1>4. BlocksInUse'
  BY <1>1, <1>2 DEF BlocksInUse, InOrder, Admitting
<1>5. Count' = lenghtArray /\ Array' = tmp
  BY <1>2 DEF Count, Array
<1>6. UsersAreKept'
  BY <1>1, <1>2, <1>5 DEF UsersAreKept, In
<1> QED BY <1>3, <1>4, <1>6 DEF MemIInv

\* The two stores, in either order: what the block has before each.
LEMMA StoringIs ==
  ASSUME MemIInv, main \in {"storing", "stored", "counted"}
  PROVE  /\ users \in Blocks /\ Live = {users} /\ lenghtArray \in Nat /\ Count \in Nat
         /\ Count = (IF main = "storing" THEN lenghtArray
                     ELSE IF main = "stored" THEN lenghtArray + 1 ELSE lenghtArray - 1)
         /\ main # "counted" => /\ lenghtArray < A_arrayUsersThreshold
                                /\ Len(block[users]) = lenghtArray + 1
         /\ main = "counted" => lenghtArray > 0 /\ Len(block[users]) = lenghtArray
         /\ In(users, Count)
<1>1. lenghtArray \in Nat /\ A_arrayUsersThreshold \in Nat
  BY MemoryAssumption DEF MemIInv, MemoryOK
<1>2. Array = users /\ Count = (IF main = "storing" THEN lenghtArray
                               ELSE IF main = "stored" THEN lenghtArray + 1 ELSE lenghtArray - 1)
  BY DEF Array, Count
<1>3. /\ users \in Blocks /\ Live = {users}
      /\ main # "counted" => /\ lenghtArray < A_arrayUsersThreshold
                             /\ Len(block[users]) = lenghtArray + 1
      /\ main = "counted" => lenghtArray > 0 /\ Len(block[users]) = lenghtArray
  BY DEF MemIInv, BlocksInUse
<1>4. In(users, Count)
  BY <1>2 DEF MemIInv, UsersAreKept, In
<1> QED BY <1>1, <1>2, <1>3, <1>4

LEMMA StoreLengthMem ==
  ASSUME MemIInv, StoreLength
  PROVE  MemIInv'
<1>1. /\ users \in Blocks /\ Live = {users} /\ lenghtArray \in Nat
      /\ Count = (IF main = "storing" THEN lenghtArray ELSE lenghtArray + 1)
      /\ lenghtArray < A_arrayUsersThreshold /\ Len(block[users]) = lenghtArray + 1
      /\ In(users, Count) /\ A_arrayUsersThreshold \in Nat
  BY StoringIs, MemoryAssumption DEF StoreLength
<1>2. /\ UNCHANGED <<users, block, alive, lost, updateUserName>> /\ lenghtArray' = lenghtArray + 1
      /\ Live' = Live /\ Present' = Present /\ main \in {"storing", "stored"}
      /\ main' = IF main = "storing" THEN "counted" ELSE "told"
  BY DEF StoreLength, Live, Present
<1>3. MemoryOK'
  BY <1>1, <1>2 DEF MemIInv, MemoryOK
<1>4. CASE main = "storing"
  <2>1. main' = "counted" /\ Count' = lenghtArray /\ Array' = users
    BY <1>1, <1>2, <1>4 DEF Count, Array
  <2>2. BlocksInUse'
    BY <1>1, <1>2, <2>1 DEF BlocksInUse, InOrder, Admitting
  <2>3. UsersAreKept'
    BY <1>1, <1>2, <1>4, <2>1 DEF UsersAreKept, In
  <2> QED BY <1>3, <2>2, <2>3 DEF MemIInv
<1>5. CASE main = "stored"
  <2>1. main' = "told" /\ InOrder'
    BY <1>2, <1>5 DEF InOrder, Deleting, Admitting
  <2>2. lenghtArray' # 0 /\ Keeps(block[users], lenghtArray', Present)
    BY <1>1, <1>2, <1>5 DEF In
  <2> QED BY <1>1, <1>2, <1>3, <2>1, <2>2, OrderTakes
<1> QED BY <1>2, <1>4, <1>5

LEMMA StoreUserMem ==
  ASSUME MemIInv, StoreUser
  PROVE  MemIInv'
<1> DEFINE s == block[users]
           n == IF main = "storing" THEN lenghtArray ELSE lenghtArray - 1
           new == [s EXCEPT ![n + 1] = block'[users][n + 1]]
           x == block'[users][n + 1]
<1>1. /\ users \in Blocks /\ Live = {users} /\ n \in Nat /\ n < Len(s) /\ In(users, n)
      /\ lenghtArray \in Nat /\ A_arrayUsersThreshold \in Nat
      /\ main = "storing" => n = lenghtArray /\ lenghtArray < A_arrayUsersThreshold
                            /\ Len(s) = lenghtArray + 1
      /\ main = "counted" => n + 1 = lenghtArray /\ lenghtArray > 0
      /\ s \in Seq(Anything)
  BY StoringIs, MemoryAssumption DEF StoreUser, MemIInv, MemoryOK, Anything
<1>2. /\ UNCHANGED <<users, lenghtArray, lost>> /\ main \in {"storing", "counted"}
      /\ main' = IF main = "storing" THEN "stored" ELSE "told"
  BY DEF StoreUser
<1>3. \/ \E u \in Records \ alive :
            /\ block' = [block EXCEPT ![users][n + 1] = u]
            /\ alive' = alive \cup {u} /\ updateUserName' = [updateUserName EXCEPT ![u] = 0]
      \/ /\ block' = [block EXCEPT ![users][n + 1] = NULL]
         /\ UNCHANGED <<alive, updateUserName>>
  BY DEF StoreUser
<1> HIDE DEF n
<1>4. block \in [Blocks -> Seq(Anything)] /\ n + 1 \in 1..Len(s)
  BY <1>1 DEF MemIInv, MemoryOK, Anything
<1>5. PICK y \in (Records \ alive) \cup {NULL} :
        /\ block' = [block EXCEPT ![users] = [s EXCEPT ![n + 1] = y]]
        /\ alive' = alive \cup ({y} \ {NULL})
        /\ updateUserName' \in [Records -> 0..UPDATEUSERNAME]
  <2>1. ASSUME NEW u \in Records \ alive,
               block' = [block EXCEPT ![users][n + 1] = u],
               alive' = alive \cup {u}, updateUserName' = [updateUserName EXCEPT ![u] = 0]
        PROVE  /\ block' = [block EXCEPT ![users] = [s EXCEPT ![n + 1] = u]]
               /\ alive' = alive \cup ({u} \ {NULL})
               /\ updateUserName' \in [Records -> 0..UPDATEUSERNAME]
    <3>1. u # NULL /\ 0 \in 0..UPDATEUSERNAME
      BY MemoryAssumption
    <3> QED BY <2>1, <3>1 DEF MemIInv, MemoryOK
  <2>2. ASSUME block' = [block EXCEPT ![users][n + 1] = NULL], UNCHANGED <<alive, updateUserName>>
        PROVE  /\ block' = [block EXCEPT ![users] = [s EXCEPT ![n + 1] = NULL]]
               /\ alive' = alive \cup ({NULL} \ {NULL})
               /\ updateUserName' \in [Records -> 0..UPDATEUSERNAME]
    BY <2>2 DEF MemIInv, MemoryOK
  <2> QED BY <1>3, <2>1, <2>2
<1> DEFINE t == [s EXCEPT ![n + 1] = y]
<1>6. /\ t \in Seq(Anything) /\ Len(t) = Len(s) /\ t[n + 1] = y /\ \A i \in 1..n : t[i] = s[i]
  <2>1. y \in Anything
    BY DEF Anything
  <2>2. t \in Seq(Anything) /\ Len(t) = Len(s)
    BY <1>1, <1>4, <2>1, ExceptSeq
  <2> QED BY <1>1, <1>4, <2>2
<1>7. NULL \notin Present /\ Present \subseteq alive
  BY PresentIsRecords DEF MemIInv
<1>8. Keeps(s, n, Present)
  BY <1>1 DEF In, Keeps
<1> HIDE DEF t
<1>9. Keeps(t, n + 1, Present \cup ({y} \ {NULL}))
  <2>1. y = NULL \/ y \notin Present
    BY <1>7
  <2> HIDE DEF s
  <2> QED BY ONLY <1>1, <1>6, <1>7, <1>8, <2>1, KeepsOneMore
<1>10. Present' = Present \cup ({y} \ {NULL})
  BY <1>2, <1>5 DEF Present, MemIInv, MemoryOK
<1>11. block'[users] = t /\ \A c \in Blocks \ {users} : block'[c] = block[c]
  BY <1>1, <1>4, <1>5 DEF t
<1>12. MemoryOK'
  <2>1. block' \in [Blocks -> Seq(Anything)]
    BY <1>4, <1>5, <1>6 DEF t
  <2>2. \A c \in Blocks : Len(block'[c]) <= A_arrayUsersThreshold
    BY <1>6, <1>11 DEF MemIInv, MemoryOK
  <2>3. lost' \subseteq alive' /\ alive' \subseteq Records
    BY <1>2, <1>5 DEF MemIInv, MemoryOK
  <2> QED BY <1>2, <1>5, <2>1, <2>2, <2>3 DEF MemIInv, MemoryOK, Anything
<1>13. Live' = {users}
  <2>1. t # <<>>
    BY <1>1, <1>6
  <2> QED BY <1>1, <1>11, <2>1 DEF Live
<1>14. CASE main = "storing"
  <2>1. main' = "stored" /\ Count' = n + 1 /\ Array' = users
    BY <1>1, <1>2, <1>14 DEF Count, Array
  <2>2. BlocksInUse'
    BY <1>1, <1>2, <1>6, <1>11, <1>13, <1>14, <2>1 DEF BlocksInUse, InOrder, Admitting
  <2>3. UsersAreKept'
    BY <1>1, <1>9, <1>10, <1>11, <2>1 DEF UsersAreKept
  <2> QED BY <1>12, <2>2, <2>3 DEF MemIInv
<1>15. CASE main = "counted"
  <2>1. InOrder' /\ lenghtArray' = n + 1 /\ lenghtArray' # 0
    BY <1>1, <1>2, <1>15 DEF InOrder, Deleting, Admitting
  <2> QED BY <1>1, <1>2, <1>9, <1>10, <1>11, <1>12, <1>13, <2>1, OrderTakes
<1> QED BY <1>2, <1>14, <1>15

LEMMA OtherMem ==
  ASSUME MemIInv, ThreadsOK, OtherStep
  PROVE  MemIInv'
<1>1. UNCHANGED <<users, lenghtArray, block, alive, lost, updateUserName>>
  BY DEF OtherStep, Sweep, EndSweep, Register, EndRegister, Message, memory
<1>2. InOrder /\ InOrder'
  BY DEF OtherStep, Sweep, EndSweep, Register, EndRegister, Message, AfterMessage, InOrder,
         Deleting, Admitting
<1>3. MemoryOK' /\ Live' = Live /\ Present' = Present
  BY <1>1 DEF MemIInv, MemoryOK, Live, Present
<1> QED BY <1>1, <1>2, <1>3, OrderIs, OrderTakes DEF In

LEMMA DestroyArrayMem ==
  ASSUME MemIInv, DestroyArray
  PROVE  MemIInv'
<1>1. main = "sweep" /\ main' = "end" /\ InOrder /\ InOrder'
  BY DEF DestroyArray, InOrder, Deleting, Admitting
<1>2. CASE lenghtArray = 0
  <2>1. UNCHANGED <<users, lenghtArray, block, alive, lost, updateUserName>>
    BY <1>2 DEF DestroyArray, memory
  <2>2. MemoryOK' /\ Live' = Live /\ Present' = Present
    BY <2>1 DEF MemIInv, MemoryOK, Live, Present
  <2> QED BY <1>1, <2>1, <2>2, OrderIs, OrderTakes DEF In
<1>3. CASE lenghtArray # 0
  <2> DEFINE us == {Cell(users, i) : i \in 0..lenghtArray - 1}
  <2>1. /\ users \in Blocks /\ Live = {users} /\ Keeps(block[users], lenghtArray, Present)
        /\ lenghtArray \in Nat
    BY <1>1, <1>3, OrderIs, MemoryAssumption DEF In, MemIInv, MemoryOK
  <2>2. Present \subseteq us /\ us \subseteq Present \cup {NULL}
    <3>1. ASSUME NEW u \in Present PROVE u \in us
      <4>1. PICK j \in 1..lenghtArray : block[users][j] = u
        BY <2>1 DEF Keeps
      <4>2. j - 1 \in 0..lenghtArray - 1 /\ Cell(users, j - 1) = u
        BY <2>1, <4>1 DEF Cell
      <4> QED BY <4>2
    <3>2. ASSUME NEW i \in 0..lenghtArray - 1 PROVE Cell(users, i) \in Present \cup {NULL}
      BY <2>1 DEF Keeps, Cell
    <3> QED BY <3>1, <3>2
  <2>3. /\ alive' = alive \ us /\ block' = [block EXCEPT ![users] = <<>>]
        /\ lenghtArray' = 0 /\ users' = NULL /\ UNCHANGED <<lost, updateUserName>>
    BY <1>3 DEF DestroyArray
  <2> HIDE DEF us
  <2>4. Present' = {} /\ lost' \subseteq alive' /\ alive' \subseteq alive
    <3>1. Present' = {}
      BY <2>2, <2>3 DEF Present
    <3>2. lost \subseteq Records /\ lost \subseteq alive /\ lost \cap Present = {} /\ NULL \notin Records
      BY PresentIsRecords, MemoryAssumption DEF MemIInv, MemoryOK
    <3>3. lost \cap us = {}
      BY <2>2, <3>2
    <3> QED BY <2>3, <3>1, <3>2, <3>3
  <2>5. <<>> \in Seq(Anything) /\ Len(<<>>) = 0
    OBVIOUS
  <2>6. block' \in [Blocks -> Seq(Anything)] /\ \A b \in Blocks : Len(block'[b]) <= A_arrayUsersThreshold
    BY <2>1, <2>3, <2>5, MemoryAssumption DEF MemIInv, MemoryOK, Anything
  <2>7. MemoryOK'
    BY <2>3, <2>4, <2>6, MemoryAssumption DEF MemIInv, MemoryOK, Anything
  <2>8. Live' = {}
    BY <2>1, <2>3 DEF Live, MemIInv, MemoryOK
  <2> QED BY <1>1, <2>3, <2>4, <2>7, <2>8, OrderTakes
<1> QED BY <1>2, <1>3

\* Only CountPing writes anything that the array leads to.
LEMMA WalkersLeaveMemory ==
  ASSUME MemIInv, (\E w \in Walkers : WalkerStep(w)) \/ SocketStep \/ UNCHANGED vars
  PROVE  /\ MemIInv'
         /\ UNCHANGED <<users, lenghtArray, block, alive, lost, main, tmp>>
<1> USE DEF memory, mainvars
<1>1. UNCHANGED <<users, lenghtArray, block, alive, lost, main, tmp>>
  BY DEF WalkerStep, SocketStep, Begin, LoadArray, EndWalk, LoadUser, SkipNull, UseUser,
         CountPing, NameMessage, LockNew, UnlockNew, vars
<1>2. updateUserName' \in [Records -> 0..UPDATEUSERNAME]
  <2>1. CASE CountPing
    <3>1. 0 \in 0..UPDATEUSERNAME /\ \A n \in 0..UPDATEUSERNAME : n < UPDATEUSERNAME => n + 1 \in 0..UPDATEUSERNAME
      BY MemoryAssumption
    <3>2. walk["sock"].cell \in Records
      BY <2>1 DEF CountPing, MemIInv, MemoryOK
    <3> QED BY <2>1, <3>1, <3>2 DEF CountPing, MemIInv, MemoryOK
  <2>2. CASE ~CountPing
    <3>1. UNCHANGED updateUserName
      BY <2>2 DEF WalkerStep, SocketStep, Begin, LoadArray, EndWalk, LoadUser, SkipNull, UseUser,
                  NameMessage, LockNew, UnlockNew, vars
    <3> QED BY <3>1 DEF MemIInv, MemoryOK
  <2> QED BY <2>1, <2>2
<1>3. MemoryOK'
  BY <1>1, <1>2 DEF MemIInv, MemoryOK
<1>4. BlocksInUse' /\ UsersAreKept'
  BY <1>1 DEF MemIInv, BlocksInUse, UsersAreKept, InOrder, Live, Count, Array, Present
<1> QED BY <1>1, <1>3, <1>4 DEF MemIInv

LEMMA MemKept ==
  ASSUME LockIInv, MemIInv, [Next]_vars
  PROVE  MemIInv'
<1>1. CASE DeleteStep
  BY <1>1, DestroyOnlyMem, FreeOnlyMem, EmptyArrayMem, ForgetArrayMem, ShrinkMem, CopyOthersMem,
     CopyFailsMem, FreeOldMem, UseCopyMem DEF DeleteStep
<1>2. CASE AdmitStep
  BY <1>2, ReallocateMem, UseGrownMem, StoreUserMem, StoreLengthMem DEF AdmitStep
<1>3. CASE OtherStep
  BY <1>3, OtherMem DEF LockIInv
<1>4. CASE DestroyArray
  BY <1>4, DestroyArrayMem
<1>5. CASE (\E w \in Walkers : WalkerStep(w)) \/ SocketStep \/ UNCHANGED vars
  BY <1>5, WalkersLeaveMemory
<1> QED BY <1>1, <1>2, <1>3, <1>4, <1>5, NextIsOneOf

LEMMA LockKept ==
  ASSUME LockIInv, MemIInv, [Next]_vars
  PROVE  LockIInv'
<1>1. CASE UNCHANGED vars
  BY <1>1 DEF vars, mainvars, java, LockIInv, ThreadsOK, WalkOK, LocksHeld
<1> QED BY <1>1, DeleteLocks, AdmitLocks, OtherLocks, WalkerLocks, SocketLocks, NextIsOneOf DEF MemIInv

-----------------------------------------------------------------------------
(* Only a walker that raced misreads. *)

\* What a walker finds in an array that is in order.
LEMMA FoundInOrder ==
  ASSUME MemIInv, InOrder, NEW i \in Nat, i < lenghtArray
  PROVE  /\ users \in Blocks /\ i < Len(block[users])
         /\ Cell(users, i) \in alive \cup {NULL}
<1>1. lenghtArray \in Nat /\ lenghtArray # 0
  BY MemoryAssumption DEF MemIInv, MemoryOK
<1>2. users \in Blocks /\ Keeps(block[users], lenghtArray, Present) /\ block[users] \in Seq(Anything)
  BY <1>1, OrderIs DEF In, MemIInv, MemoryOK, Anything
<1>3. i + 1 \in 1..lenghtArray /\ lenghtArray <= Len(block[users])
  BY <1>1, <1>2 DEF Keeps
<1>4. block[users][i + 1] \in Present \cup {NULL}
  BY <1>2, <1>3 DEF Keeps
<1> QED BY <1>1, <1>2, <1>3, <1>4 DEF Cell, Present

\* The step of a walker, seen by itself.
Right(w) ==
  /\ walk[w].pc = "bad" => walk[w].raced
  /\ walk[w].pc \in Walking /\ ~walk[w].raced =>
       /\ InOrder /\ main # "end"
       /\ walk[w].i <= lenghtArray
       /\ walk[w].pc # "check" => walk[w].i < lenghtArray
       /\ walk[w].pc = "array" => walk[w].ptr = users
       /\ walk[w].pc = "user" => walk[w].cell = Cell(users, walk[w].i)
       /\ w = "java" => walk[w].room = lenghtArray

LEMMA WalkerStaysRight ==
  ASSUME MemoryIInv, Sane, NEW w \in Walkers, WalkerStep(w)
  PROVE  Right(w)'
<1> DEFINE old == walk[w]
           new == walk'[w]
<1>1. /\ old \in WalkRecord /\ lenghtArray \in Nat
      /\ Right(w) /\ old.pc # "bad"
  BY MemoryAssumption DEF MemoryIInv, LockIInv, ThreadsOK, WalkOK, WalkRecord, MemIInv, MemoryOK,
                          UnracedIsRight, Right, Sane
<1>2. /\ UNCHANGED <<users, lenghtArray, block, alive, main>>
      /\ InOrder' = InOrder
  BY WalkersLeaveMemory DEF MemoryIInv, InOrder
<1>3. LockIInv /\ MemIInv /\ MemoryOK
  BY DEF MemoryIInv, MemIInv
<1>4. CASE Begin(w)
  <2>1. new.pc = "check" /\ new.i = 0 /\ new.raced = RacingFromTheStart(w) /\ (w = "java" => new.room = lenghtArray)
    BY <1>3, <1>4, BeginEffect
  <2>2. ~RacingFromTheStart(w) => InOrder
    BY <1>3, <1>4 DEF RacingFromTheStart, InOrder, Begin, LockIInv, LocksHeld, Locked, Walkers
  <2>3. main # "end"
    BY <1>4 DEF Begin
  <2> QED BY <1>1, <1>2, <2>1, <2>2, <2>3 DEF Right
<1>5. CASE LoadArray(w)
  <2>1. old.pc = "check" /\ old.i < lenghtArray
    BY <1>5 DEF LoadArray
  <2>2. new = [old EXCEPT !.pc = "array", !.ptr = users]
    BY <1>3, <1>5, LoadArrayEffect
  <2>3. /\ new.pc = "array" /\ new.ptr = users /\ new.i = old.i /\ new.raced = old.raced
        /\ new.room = old.room
    BY ONLY <1>1, <2>2 DEF WalkRecord
  <2> QED BY <1>1, <1>2, <2>1, <2>3 DEF Right, Walking
<1>6. CASE EndWalk(w)
  BY <1>3, <1>6, EndWalkEffect DEF Right, Walking
<1>7. CASE LoadUser(w)
  <2>1. old.pc = "array"
    BY <1>7 DEF LoadUser
  <2>2. new = IF InBlock(w) THEN [old EXCEPT !.pc = "user", !.cell = Cell(old.ptr, old.i), !.ptr = NULL]
                            ELSE [old EXCEPT !.pc = "bad"]
    BY <1>3, <1>7, LoadUserEffect
  <2>3. CASE InBlock(w)
    <3>1. new = [old EXCEPT !.pc = "user", !.cell = Cell(old.ptr, old.i), !.ptr = NULL]
      BY <2>2, <2>3
    <3>2. /\ new.pc = "user" /\ new.cell = Cell(old.ptr, old.i) /\ new.i = old.i
          /\ new.raced = old.raced /\ new.room = old.room
      BY ONLY <1>1, <3>1 DEF WalkRecord
    <3>3. ~old.raced => /\ InOrder /\ main # "end" /\ old.i < lenghtArray /\ old.ptr = users
                        /\ w = "java" => old.room = lenghtArray
      BY <1>1, <2>1 DEF Right, Walking
    <3>4. old.i <= lenghtArray \/ old.raced
      BY <1>1, <3>3 DEF WalkRecord
    <3>5. ~new.raced => new.cell = block'[users'][new.i + 1]
      BY <1>2, <3>2, <3>3 DEF Cell
    <3> QED BY <1>2, <3>2, <3>3, <3>4, <3>5 DEF Right, Walking, Cell
  <2>4. CASE ~InBlock(w)
    <3>1. new = [old EXCEPT !.pc = "bad"]
      BY <2>2, <2>4
    <3>2. new.pc = "bad" /\ new.raced = old.raced
      BY ONLY <1>1, <3>1 DEF WalkRecord
    <3>3. old.raced
      <4> SUFFICES ASSUME ~old.raced PROVE FALSE
        OBVIOUS
      <4>1. InOrder /\ old.i < lenghtArray /\ old.ptr = users /\ old.i \in Nat
        BY <1>1, <2>1 DEF Right, Walking, WalkRecord
      <4>2. users \in Blocks /\ old.i < Len(block[users])
        BY ONLY <1>3, <4>1, FoundInOrder
      <4> QED BY <2>4, <4>1, <4>2 DEF InBlock
    <3> QED BY <3>2, <3>3 DEF Right, Walking
  <2> QED BY <2>3, <2>4
<1>8. CASE SkipNull(w) \/ UseUser(w)
  <2>1. old.pc = "user"
    BY <1>8 DEF SkipNull, UseUser
  <2>2. ~old.raced => /\ InOrder /\ main # "end" /\ old.i < lenghtArray /\ old.i \in Nat
                      /\ old.cell = Cell(users, old.i) /\ (w = "java" => old.room = lenghtArray)
    BY <1>1, <2>1 DEF Right, Walking, WalkRecord
  <2>3. CASE UseUser(w) /\ UsesBadly(w) /\ new = [old EXCEPT !.pc = "bad"]
    <3>1. new.pc = "bad" /\ new.raced = old.raced
      BY ONLY <1>1, <2>3 DEF WalkRecord
    <3>2. old.raced
      <4> SUFFICES ASSUME ~old.raced PROVE FALSE
        OBVIOUS
      <4>1. Cell(users, old.i) \in alive \cup {NULL}
        BY <1>3, <2>2, FoundInOrder
      <4>2. old.cell # NULL /\ old.cell \in alive
        BY <2>2, <2>3, <4>1 DEF UseUser
      <4> QED BY <1>1, <2>2, <2>3, <4>2 DEF UsesBadly
    <3> QED BY <3>1, <3>2 DEF Right, Walking
  <2>4. CASE new = [old EXCEPT !.pc = "check", !.i = @ + 1, !.cell = NULL]
    <3>1. new.pc = "check" /\ new.raced = old.raced /\ new.i = old.i + 1 /\ new.room = old.room
      BY ONLY <1>1, <2>4 DEF WalkRecord
    <3>2. ~old.raced => old.i + 1 <= lenghtArray
      BY <1>1, <2>2
    <3> QED BY <1>2, <2>2, <3>1, <3>2 DEF Right, Walking
  <2> QED BY <1>3, <1>8, <2>3, <2>4, UseEffect
<1> QED BY <1>4, <1>5, <1>6, <1>7, <1>8 DEF WalkerStep

\* Whom a step does not move, and for whom the array stays in order as it is.
LEMMA OthersStayRight ==
  ASSUME NEW w \in Walkers, Right(w), walk'[w] = walk[w],
         UNCHANGED <<users, lenghtArray, block>>, InOrder => InOrder', main' # "end" \/ main' = main
  PROVE  Right(w)'
BY DEF Right, Cell

LEMMA RaceKept ==
  ASSUME MemoryIInv, [Next]_vars
  PROVE  UnracedIsRight'
<1>0. /\ \A w \in Walkers : Right(w)
      /\ (\A w \in Walkers : Right(w)') => UnracedIsRight'
      /\ LockIInv /\ MemIInv /\ WalkOK
  BY DEF MemoryIInv, UnracedIsRight, Right, LockIInv, ThreadsOK
<1>1. CASE DeleteStep
  <2> SUFFICES ASSUME NEW w \in Walkers PROVE Right(w)'
    BY <1>0
  <2>1. /\ walk'[w].pc = walk[w].pc
        /\ walk'[w].raced = (walk[w].raced \/ (w \in {"mic"} /\ walk[w].pc # "idle"))
        /\ lock = "main"
    BY <1>0, <1>1, DeleteEffect DEF OnlyMarked, LockIInv, LocksHeld
  <2>2. w # "mic" => walk[w].pc \notin Walking
    BY <1>0, <2>1 DEF LockIInv, LocksHeld, Locked, Walkers
  <2> QED BY <1>0, <2>1, <2>2 DEF Right, Walking
<1>2. CASE AdmitStep
  <2> SUFFICES ASSUME NEW w \in Walkers PROVE Right(w)'
    BY <1>0
  <2>1. /\ walk'[w].pc = walk[w].pc
        /\ walk'[w].raced = (walk[w].raced \/ (w \in Walkers /\ walk[w].pc # "idle"))
    BY <1>0, <1>2, AdmitEffect DEF OnlyMarked
  <2> QED BY <1>0, <2>1 DEF Right, Walking
<1>3. CASE OtherStep
  <2> SUFFICES ASSUME NEW w \in Walkers PROVE Right(w)'
    BY <1>0
  <2>1. /\ UNCHANGED <<users, lenghtArray, block, walk>> /\ main' # "end" /\ InOrder'
    BY <1>3 DEF OtherStep, Sweep, EndSweep, Register, EndRegister, Message, AfterMessage, memory,
                InOrder, Deleting, Admitting
  <2> QED BY <1>0, <2>1, OthersStayRight
<1>4. CASE DestroyArray
  <2> SUFFICES ASSUME NEW w \in Walkers PROVE Right(w)'
    BY <1>0
  <2>1. walk'[w].pc = "idle"
    BY <1>4 DEF DestroyArray
  <2> QED BY <2>1 DEF Right, Walking
<1>5. ASSUME NEW w \in Walkers, WalkerStep(w), Sane
      PROVE  UnracedIsRight'
  <2> SUFFICES ASSUME NEW v \in Walkers PROVE Right(v)'
    BY <1>0
  <2>1. CASE v = w
    BY <1>5, <2>1, WalkerStaysRight
  <2>2. CASE v # w
    <3>1. LockIInv /\ MemoryOK
      BY <1>0 DEF MemIInv
    <3>2. \A u \in Walkers \ {w} : walk'[u] = walk[u]
      BY <1>5, <3>1, BeginEffect, LoadArrayEffect, EndWalkEffect, LoadUserEffect, UseEffect
      DEF WalkerStep
    <3>3. UNCHANGED <<users, lenghtArray, block, main>> /\ InOrder' = InOrder
      BY <1>0, <1>5, WalkersLeaveMemory DEF InOrder
    <3> QED BY <1>0, <2>2, <3>2, <3>3, OthersStayRight
  <2> QED BY <2>1, <2>2
<1>6. CASE SocketStep
  <2> SUFFICES ASSUME NEW v \in Walkers PROVE Right(v)'
    BY <1>0
  <2>1. /\ walk'["sock"].pc \in {"idle", "name", "newheld"}
        /\ \A w \in Walkers \ {"sock"} : walk'[w] = walk[w]
    BY <1>0, <1>6, SocketEffect
  <2>2. UNCHANGED <<users, lenghtArray, block, main>> /\ InOrder' = InOrder
    BY <1>0, <1>6, WalkersLeaveMemory DEF InOrder
  <2>3. CASE v = "sock"
    BY <2>1, <2>3 DEF Right, Walking
  <2>4. CASE v # "sock"
    BY <1>0, <2>1, <2>2, <2>4, OthersStayRight
  <2> QED BY <2>3, <2>4
<1>7. CASE UNCHANGED vars
  BY <1>0, <1>7 DEF vars, memory, mainvars, Right, InOrder, Cell
<1> QED BY <1>1, <1>2, <1>3, <1>4, <1>5, <1>6, <1>7, NextIsOneOf

-----------------------------------------------------------------------------
(* The theorems. *)

LEMMA MemoryStarts == Init => MemoryIInv /\ ChangesAreTold
<1> SUFFICES ASSUME Init PROVE MemoryIInv /\ ChangesAreTold
  OBVIOUS
<1> USE DEF Init
<1>1. walk \in [Walkers -> WalkRecord] /\ \A w \in Walkers : walk[w].pc = "idle"
  BY IdleIsOK
<1>2. ThreadsOK
  BY <1>1 DEF ThreadsOK, WalkOK, WalkRecord, Locked, MainSteps
<1>3. LocksHeld
  BY <1>1 DEF LocksHeld, Locked, Walkers, Walking, Deleting, Admitting
<1>4. MemoryOK
  <2>1. <<>> \in Seq(Anything) /\ Len(<<>>) <= A_arrayUsersThreshold
    BY MemoryAssumption
  <2>2. block \in [Blocks -> Seq(Anything)] /\ \A b \in Blocks : Len(block[b]) <= A_arrayUsersThreshold
    BY ONLY Init, <2>1 DEF Init
  <2> QED BY <2>2, MemoryAssumption DEF MemoryOK, Anything
<1>5. BlocksInUse
  BY DEF BlocksInUse, Live, InOrder, Deleting, Admitting
<1>6. UsersAreKept
  BY DEF UsersAreKept, Count, Present
<1>7. UnracedIsRight
  BY <1>1 DEF UnracedIsRight, Walking
<1> QED BY <1>2, <1>3, <1>4, <1>5, <1>6, <1>7 DEF MemoryIInv, LockIInv, MemIInv, ChangesAreTold

LEMMA MemoryStepKept ==
  ASSUME MemoryIInv, ChangesAreTold, [Next]_vars
  PROVE  MemoryIInv' /\ ChangesAreTold'
BY LockKept, MemKept, RaceKept, ToldKept DEF MemoryIInv, MemIInv

\* The inductive invariant: who holds which lock, where the users are at each step of
\* the main thread, and where a walker stands that raced with no change of them.
THEOREM MemoryInductiveInvariant == Spec => [](MemoryIInv /\ ChangesAreTold)
<1>1. Init => MemoryIInv /\ ChangesAreTold
  BY MemoryStarts
<1>2. (MemoryIInv /\ ChangesAreTold) /\ [Next]_vars => (MemoryIInv /\ ChangesAreTold)'
  BY MemoryStepKept
<1> QED BY <1>1, <1>2, PTL DEF Spec

\* The types, the array within its threshold, and nothing counted as lost that is free.
THEOREM MemoryTypeCorrect == Spec => []MemoryTypeOK
<1>1. MemoryIInv => MemoryTypeOK
  <2> SUFFICES ASSUME MemoryIInv PROVE MemoryTypeOK
    OBVIOUS
  <2>1. ThreadsOK /\ MemoryOK
    BY DEF MemoryIInv, LockIInv, MemIInv
  <2>2. \A b \in Blocks : /\ Len(block[b]) <= A_arrayUsersThreshold
                          /\ \A i \in DOMAIN block[b] : block[b][i] \in Records \cup {NULL, JUNK}
    BY <2>1 DEF MemoryOK
  <2> QED BY <2>1, <2>2 DEF MemoryTypeOK, ThreadsOK, MemoryOK
<1> QED BY <1>1, MemoryInductiveInvariant, PTL

\* Between two changes the array is whole, whatever failed (delUser, addUser): a block
\* with room for lenghtArray users, each of them allocated and there once; and
\* users[lenghtArray] is stored into the block that was made for it.
THEOREM ArrayStaysIntact == Spec => []ArrayIntact
<1>1. MemoryIInv => ArrayIntact
  <2> SUFFICES ASSUME MemoryIInv PROVE ArrayIntact
    OBVIOUS
  <2>1. MemIInv /\ lenghtArray \in Nat
    BY MemoryAssumption DEF MemoryIInv, MemIInv, MemoryOK
  <2>2. ASSUME InOrder, lenghtArray = 0
        PROVE  users = NULL
    BY <2>1, <2>2, OrderIs
  <2>3. ASSUME InOrder, lenghtArray # 0
        PROVE  /\ users \in Live /\ lenghtArray <= Len(block[users])
               /\ Cells \subseteq alive \cup {NULL}
               /\ \A i, j \in 0..lenghtArray - 1 :
                    Cell(users, i) = Cell(users, j) => i = j \/ Cell(users, i) = NULL
    <3>1. users \in Live /\ Keeps(block[users], lenghtArray, Present)
      BY <2>1, <2>3, OrderIs DEF In
    <3>2. \A i \in 0..lenghtArray - 1 : i + 1 \in 1..lenghtArray /\ i \in Int
      BY <2>1
    <3>3. \A i \in 0..lenghtArray - 1 : Cell(users, i) \in alive \cup {NULL}
      BY <3>1, <3>2 DEF Cell, Keeps, Present
    <3>4. ASSUME NEW i \in 0..lenghtArray - 1, NEW j \in 0..lenghtArray - 1,
                 Cell(users, i) = Cell(users, j), Cell(users, i) # NULL
          PROVE  i = j
      <4>1. i + 1 = j + 1
        BY <3>1, <3>2, <3>4 DEF Cell, Keeps
      <4> QED BY <3>2, <4>1
    <3> QED BY <3>1, <3>3, <3>4 DEF Cells, Keeps
  <2>4. ASSUME main = "storing"
        PROVE  users \in Live /\ lenghtArray < Len(block[users])
    BY <2>1, <2>4, StoringIs
  <2> QED BY <2>2, <2>3, <2>4 DEF ArrayIntact
<1> QED BY <1>1, MemoryInductiveInvariant, PTL

\* Nothing is allocated but the array, its users, and the users that a deletion lost for
\* want of memory (delUser); after destroyUserArray only those.
THEOREM NothingIsLeaked == Spec => []NothingLeaks
<1>1. MemoryIInv => NothingLeaks
  <2> SUFFICES ASSUME MemoryIInv PROVE NothingLeaks
    OBVIOUS
  <2>1. MemIInv /\ lenghtArray \in Nat /\ NULL \notin Present /\ lost \subseteq alive
        /\ (~MallocFails => lost = {}) /\ NULL \notin Blocks
    BY MemoryAssumption, PresentIsRecords DEF MemoryIInv, MemIInv, MemoryOK
  <2>2. InOrder => Live = {users} \ {NULL}
    BY <2>1, OrderIs
  <2>3. ASSUME InOrder
        PROVE  Present = IF lenghtArray = 0 THEN {} ELSE Cells \ {NULL}
    <3>1. CASE lenghtArray = 0
      BY <2>1, <2>3, <3>1, OrderIs DEF In
    <3>2. CASE lenghtArray # 0
      <4>1. Keeps(block[users], lenghtArray, Present)
        BY <2>1, <2>3, <3>2, OrderIs DEF In
      <4>2. ASSUME NEW u \in Present PROVE u \in Cells
        <5>1. PICK j \in 1..lenghtArray : block[users][j] = u
          BY <4>1 DEF Keeps
        <5>2. j - 1 \in 0..lenghtArray - 1 /\ Cell(users, j - 1) = u
          BY <2>1, <5>1 DEF Cell
        <5> QED BY <5>2 DEF Cells
      <4>3. ASSUME NEW i \in 0..lenghtArray - 1 PROVE Cell(users, i) \in Present \cup {NULL}
        <5>1. i + 1 \in 1..lenghtArray
          BY <2>1
        <5> QED BY <4>1, <5>1 DEF Keeps, Cell
      <4> QED BY <2>1, <3>2, <4>2, <4>3 DEF Cells
    <3> QED BY <3>1, <3>2
  <2>4. alive = Present \cup lost
    BY <2>1 DEF Present
  <2> QED BY <2>1, <2>2, <2>3, <2>4 DEF NothingLeaks
<1> QED BY <1>1, MemoryInductiveInvariant, PTL

\* A walker misreads only where a change of the array raced with its walk: those that
\* take LockUsersArray only while a user is admitted under the other lock (addUser),
\* the microphone also while one is deleted (delUser).
THEOREM MisreadsNeedARace == Spec => []BadReadsNeedARace
<1>1. MemoryIInv => BadReadsNeedARace
  BY DEF MemoryIInv, UnracedIsRight, BadReadsNeedARace
<1> QED BY <1>1, MemoryInductiveInvariant, PTL

\* As long as Java's list is out of date, a message is still to be sent or to be acted on
\* (thread_main, addUser, UpdateUsersName, sendMessage).
THEOREM JavaIsTold == Spec => []ChangesAreTold
BY MemoryInductiveInvariant, PTL

\* The main thread holds neither lock where it waits for it: LockUsersArray before the
\* sweep (incrTimeOutAllOrDeleteUsers) and in sendMessage with a listener that queries at
\* once, LockNewUsersArray before it admits (registerNewUser).  The socket thread never
\* holds the one while it waits for the other (onReceive, addNewUser).
THEOREM NoSelfDeadlock == Spec => []MainNeverWaitsForItself
<1>1. ASSUME MemoryIInv
      PROVE  MainNeverWaitsForItself
  <2>1. main \in {"sweep", "told", "register"} => lock # "main"
    BY <1>1 DEF MemoryIInv, LockIInv, LocksHeld, Deleting
  <2>2. main = "register" => newLock # "main"
    BY <1>1 DEF MemoryIInv, LockIInv, LocksHeld, Admitting
  <2>3. walk["sock"].pc \in {"new", "newheld"} => lock # "sock"
    BY <1>1 DEF MemoryIInv, LockIInv, LocksHeld, Locked, Walking
  <2> QED BY <2>1, <2>2, <2>3 DEF MainNeverWaitsForItself
<1> QED BY <1>1, MemoryInductiveInvariant, PTL
=============================================================================
