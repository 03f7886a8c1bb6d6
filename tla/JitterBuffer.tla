---------------------------- MODULE JitterBuffer ----------------------------
(***************************************************************************)
(* The playout buffer a receiver keeps for one peer: the audioBuf slots,   *)
(* lastBufCount, useBuf and blockBuf of a userFormat_t (users.h).  The     *)
(* socket thread fills it (setAudioBuf), the playback thread empties it    *)
(* (the peer's share of getBufForAllUsers).  Both run their whole body     *)
(* under LockUsersArray, so each is one atomic step here.                  *)
(*                                                                         *)
(* count is an unsigned 64 bit number in the code.  It is only compared,   *)
(* and subtracted where the result cannot be negative, so Nat is exact.    *)
(***************************************************************************)
EXTENDS Integers, FiniteSets

CONSTANTS
  P_CountAudioBuf,   \* slots per peer: 5 in broadcasttalk.h
  ResetGap,          \* how far back a count restarts the stream: 10 in setAudioBuf
  Counts,            \* the counts a packet may carry
  Data,              \* payloads, told apart only by identity
  Silence            \* an output buffer of zeros

Packet == [count : Counts, data : Data]

ASSUME BufAssumption == P_CountAudioBuf \in Nat \ {0}
ASSUME GapAssumption == ResetGap \in Nat
ASSUME CountsAssumption == Counts \subseteq Nat
ASSUME SilenceAssumption == Silence \notin Packet /\ Silence \notin Data

VARIABLES
  audioBuf,       \* slot -> [use, count, bufData]
  lastBufCount,   \* count of the packet played last
  useBuf,         \* the code's own tally of slots in use
  blockBuf,       \* 1 while playback waits for the slots to fill
  out             \* what the last playback period took from this peer

vars == <<audioBuf, lastBufCount, useBuf, blockBuf, out>>

Slot == 1 .. P_CountAudioBuf

InUse == {i \in Slot : audioBuf[i].use = 1}

TypeOK ==
  /\ audioBuf \in [Slot -> [use : {0, 1}, count : Nat, bufData : Data \cup {Silence}]]
  /\ lastBufCount \in Nat
  /\ useBuf \in Nat
  /\ blockBuf \in {0, 1}
  /\ out \in Packet \cup {Silence}

\* createUser: the record is cleared, then blockBuf is set.
Init ==
  /\ audioBuf = [i \in Slot |-> [use |-> 0, count |-> 0, bufData |-> Silence]]
  /\ lastBufCount = 0
  /\ useBuf = 0
  /\ blockBuf = 1
  /\ out = Silence

-----------------------------------------------------------------------------
\* The socket thread.

isPacketInBuffers(count) == \E i \in InUse : audioBuf[i].count = count

\* The slot the loop of setAudioBuf stops at.
FirstFree(i) == audioBuf[i].use = 0 /\ \A j \in Slot : j < i => audioBuf[j].use # 0

\* Faulty variants of StorePacket: the duplicate check, the tally forgotten.
StorePacketTwice(p) ==
  /\ p.count > lastBufCount
  /\ \E i \in Slot :
       /\ FirstFree(i)
       /\ audioBuf' = [audioBuf EXCEPT ![i] =
                         [use |-> 1, count |-> p.count, bufData |-> p.data]]
  /\ useBuf' = useBuf + 1
  /\ UNCHANGED <<lastBufCount, blockBuf, out>>

StorePacketUncounted(p) ==
  /\ p.count > lastBufCount
  /\ ~isPacketInBuffers(p.count)
  /\ \E i \in Slot :
       /\ FirstFree(i)
       /\ audioBuf' = [audioBuf EXCEPT ![i] =
                         [use |-> 1, count |-> p.count, bufData |-> p.data]]
  /\ UNCHANGED <<lastBufCount, useBuf, blockBuf, out>>

\* A new packet is decoded into the first free slot.
StorePacket(p) ==
  /\ p.count > lastBufCount
  /\ ~isPacketInBuffers(p.count)
  /\ \E i \in Slot :
       /\ FirstFree(i)
       /\ audioBuf' = [audioBuf EXCEPT ![i] =
                         [use |-> 1, count |-> p.count, bufData |-> p.data]]
  /\ useBuf' = useBuf + 1
  /\ UNCHANGED <<lastBufCount, blockBuf, out>>

\* A duplicate, a packet without room, or one that comes slightly too late.
DropPacket(p) ==
  /\ \/ p.count > lastBufCount /\ (isPacketInBuffers(p.count) \/ InUse = Slot)
     \/ p.count <= lastBufCount /\ lastBufCount - p.count <= ResetGap
  /\ UNCHANGED vars

\* Faulty variants of RestartStream: off by one in the distance, lastBufCount
\* not taken from the packet.
RestartStreamForgetsCount(p) ==
  /\ p.count <= lastBufCount
  /\ lastBufCount - p.count > ResetGap
  /\ audioBuf' = [i \in Slot |-> [audioBuf[i] EXCEPT !.use = 0]]
  /\ UNCHANGED <<lastBufCount, useBuf, blockBuf, out>>

RestartStreamEarly(p) ==
  /\ p.count <= lastBufCount
  /\ lastBufCount - p.count >= ResetGap
  /\ lastBufCount' = p.count
  /\ audioBuf' = [i \in Slot |-> [audioBuf[i] EXCEPT !.use = 0]]
  /\ UNCHANGED <<useBuf, blockBuf, out>>

\* A count far in the past is taken for a sender that started again: the
\* slots are released, the packet itself is not kept, useBuf is not touched.
RestartStream(p) ==
  /\ p.count <= lastBufCount
  /\ lastBufCount - p.count > ResetGap
  /\ lastBufCount' = p.count
  /\ audioBuf' = [i \in Slot |-> [audioBuf[i] EXCEPT !.use = 0]]
  /\ UNCHANGED <<useBuf, blockBuf, out>>

setAudioBuf(p) == StorePacket(p) \/ DropPacket(p) \/ RestartStream(p)

-----------------------------------------------------------------------------
\* The playback thread.

\* Faulty variant of IsMinCountBuf: the first slot in use, whatever its count.
IsFirstInUse(i) == i \in InUse /\ \A j \in InUse : i <= j

\* The slot with the smallest count, the first of them in slot order.
IsMinCountBuf(i) ==
  /\ i \in InUse
  /\ \A j \in InUse : \/ audioBuf[i].count < audioBuf[j].count
                      \/ audioBuf[i].count = audioBuf[j].count /\ i <= j

\* Faulty variants of PlayOldest: the slot is not released, the count of the
\* packet played is not remembered.
PlayOldestKeepsSlot ==
  /\ blockBuf = 0
  /\ \E i \in Slot :
       /\ IsMinCountBuf(i)
       /\ out' = [count |-> audioBuf[i].count, data |-> audioBuf[i].bufData]
       /\ lastBufCount' = audioBuf[i].count
  /\ UNCHANGED <<audioBuf, useBuf, blockBuf>>

PlayOldestForgetsCount ==
  /\ blockBuf = 0
  /\ \E i \in Slot :
       /\ IsMinCountBuf(i)
       /\ out' = [count |-> audioBuf[i].count, data |-> audioBuf[i].bufData]
       /\ audioBuf' = [audioBuf EXCEPT ![i].use = 0]
  /\ useBuf' = useBuf - 1
  /\ UNCHANGED <<lastBufCount, blockBuf>>

PlayOldest ==
  /\ blockBuf = 0
  /\ \E i \in Slot :
       /\ IsMinCountBuf(i)
       /\ out' = [count |-> audioBuf[i].count, data |-> audioBuf[i].bufData]
       /\ audioBuf' = [audioBuf EXCEPT ![i].use = 0]
       /\ lastBufCount' = audioBuf[i].count
  /\ useBuf' = useBuf - 1
  /\ UNCHANGED blockBuf

\* Faulty variant of Underrun: the tally goes down although nothing was played.
UnderrunUncounts ==
  /\ blockBuf = 0
  /\ InUse = {}
  /\ blockBuf' = 1
  /\ out' = Silence
  /\ useBuf' = useBuf - 1
  /\ UNCHANGED <<audioBuf, lastBufCount>>

\* Nothing to play: playback blocks until the slots have filled again.
Underrun ==
  /\ blockBuf = 0
  /\ InUse = {}
  /\ blockBuf' = 1
  /\ out' = Silence
  /\ UNCHANGED <<audioBuf, lastBufCount, useBuf>>

\* Faulty variants of WaitForFill: off by one and by two in the number of packets.
WaitForAll ==
  /\ blockBuf = 1
  /\ blockBuf' = IF useBuf >= P_CountAudioBuf THEN 0 ELSE 1
  /\ out' = Silence
  /\ UNCHANGED <<audioBuf, lastBufCount, useBuf>>

WaitForTooMany ==
  /\ blockBuf = 1
  /\ blockBuf' = IF useBuf > P_CountAudioBuf THEN 0 ELSE 1
  /\ out' = Silence
  /\ UNCHANGED <<audioBuf, lastBufCount, useBuf>>

\* A blocked period plays nothing; it ends the wait once useBuf is high enough.
WaitForFill ==
  /\ blockBuf = 1
  /\ blockBuf' = IF useBuf >= P_CountAudioBuf - 1 THEN 0 ELSE 1
  /\ out' = Silence
  /\ UNCHANGED <<audioBuf, lastBufCount, useBuf>>

getBufForAllUsers == PlayOldest \/ Underrun \/ WaitForFill

-----------------------------------------------------------------------------
Next == (\E p \in Packet : setAudioBuf(p)) \/ getBufForAllUsers

Spec == Init /\ [][Next]_vars

\* The playback thread polls for as long as it runs; packets may stop coming.
FairSpec == Spec /\ WF_vars(getBufForAllUsers)

-----------------------------------------------------------------------------
\* Packets waiting in the slots are all newer than what was played last, and no
\* count waits twice: what setAudioBuf's window and its duplicate check are for,
\* and what makes the smallest-count choice of getBufForAllUsers unambiguous.
PendingAreFresh ==
  \A i \in InUse :
    /\ audioBuf[i].count > lastBufCount
    /\ \A j \in InUse : audioBuf[i].count = audioBuf[j].count => i = j

\* useBuf never falls below the slots really in use, so a peer whose slots are
\* full cannot be left blocked by the test in getBufForAllUsers.
TallyCoversSlots == useBuf >= Cardinality(InUse)

\* A period that plays something plays a packet newer than the one played
\* before it, and leaves nothing older behind in the slots.
PlaysInOrder ==
  [][PlayOldest => /\ out'.count > lastBufCount
                   /\ \A i \in InUse' : audioBuf'[i].count > out'.count]_vars

\* Playback goes back in the stream only over more than ResetGap counts, and
\* then carries none of the waiting packets over.
GoesBackOnlyOnRestart ==
  [][lastBufCount' < lastBufCount =>
       lastBufCount - lastBufCount' > ResetGap /\ InUse' = {}]_vars

\* Once playback is unblocked every packet in the slots leaves them: nothing
\* is stuck behind newer arrivals.
PendingDrains ==
  \A i \in Slot : (blockBuf = 0 /\ i \in InUse) ~> i \notin InUse

\* A peer that has filled all slots but one is unblocked, or its stream restarts.
FullIsReleased ==
  (Cardinality(InUse) >= P_CountAudioBuf - 1) ~> (blockBuf = 0 \/ InUse = {})

\* The slots, read as the set of packets they hold.
Pending == {[count |-> audioBuf[i].count, data |-> audioBuf[i].bufData] : i \in InUse}

Queue == INSTANCE PlayoutQueue WITH
  Capacity <- P_CountAudioBuf, Gap <- ResetGap,
  pending <- Pending, horizon <- lastBufCount

\* The slot array with its first-free and smallest-count scans behaves as the
\* bounded queue that emits the oldest packet.
ImplementsQueue == Queue!Spec

\* What the log lines of getBufForAllUsers say of the wait ("Waiting for fill
\* all buffers", "Waiting for fill is over"): playback is unblocked only when
\* the slots, all but one at the least, hold packets.
UnblocksOnlyWhenFilled ==
  [][blockBuf = 1 /\ blockBuf' = 0 => Cardinality(InUse) >= P_CountAudioBuf - 1]_vars
=============================================================================
