------------------------- MODULE JitterBufferProofs -------------------------
(***************************************************************************)
(* Theorems of JitterBuffer, for any number of slots, any gap and any set  *)
(* of packets.  TypeOK alone is not inductive: that useBuf stays a natural *)
(* number when a packet is played needs TallyCoversSlots, and that a       *)
(* packet is played needs to know what a slot in use holds.                *)
(***************************************************************************)
EXTENDS JitterBuffer, TLAPS, FiniteSetTheorems

\* A slot in use holds a packet that came from the network.
HoldsPackets ==
  \A i \in InUse : audioBuf[i].count \in Counts /\ audioBuf[i].bufData \in Data

IInv == TypeOK /\ HoldsPackets /\ PendingAreFresh /\ TallyCoversSlots

-----------------------------------------------------------------------------
\* The slots in use are finitely many, at most P_CountAudioBuf.
LEMMA InUseFinite ==
  ASSUME NEW S, S \subseteq Slot
  PROVE  IsFiniteSet(S) /\ Cardinality(S) \in Nat /\ Cardinality(S) <= P_CountAudioBuf
<1>1. IsFiniteSet(Slot) /\ Cardinality(Slot) = P_CountAudioBuf
  BY FS_Interval, BufAssumption DEF Slot
<1> QED BY <1>1, FS_Subset, FS_CardinalityType

\* Storing a packet takes one free slot and leaves the others alone.
LEMMA StoreEffect ==
  ASSUME TypeOK, NEW p \in Packet, StorePacket(p)
  PROVE  \E k \in Slot :
           /\ k \notin InUse
           /\ InUse' = InUse \cup {k}
           /\ audioBuf'[k] = [use |-> 1, count |-> p.count, bufData |-> p.data]
           /\ \A i \in Slot \ {k} : audioBuf'[i] = audioBuf[i]
<1>1. PICK k \in Slot :
        /\ FirstFree(k)
        /\ audioBuf' = [audioBuf EXCEPT ![k] =
                          [use |-> 1, count |-> p.count, bufData |-> p.data]]
  BY DEF StorePacket
<1>2. audioBuf'[k] = [use |-> 1, count |-> p.count, bufData |-> p.data]
  BY <1>1 DEF TypeOK
<1>3. \A i \in Slot \ {k} : audioBuf'[i] = audioBuf[i]
  BY <1>1 DEF TypeOK
<1>4. k \notin InUse
  BY <1>1 DEF FirstFree, InUse
<1>5. InUse' = InUse \cup {k}
  BY <1>2, <1>3 DEF InUse
<1> QED BY <1>2, <1>3, <1>4, <1>5

\* Playing takes the packet with the smallest count out of its slot.
LEMMA PlayEffect ==
  ASSUME TypeOK, PlayOldest
  PROVE  \E k \in InUse :
           /\ InUse' = InUse \ {k}
           /\ lastBufCount' = audioBuf[k].count
           /\ out' = [count |-> audioBuf[k].count, data |-> audioBuf[k].bufData]
           /\ \A j \in InUse : audioBuf[k].count <= audioBuf[j].count
           /\ \A i \in Slot \ {k} : audioBuf'[i] = audioBuf[i]
           /\ audioBuf'[k] = [audioBuf[k] EXCEPT !.use = 0]
<1>1. PICK k \in Slot :
        /\ IsMinCountBuf(k)
        /\ out' = [count |-> audioBuf[k].count, data |-> audioBuf[k].bufData]
        /\ audioBuf' = [audioBuf EXCEPT ![k].use = 0]
        /\ lastBufCount' = audioBuf[k].count
  BY DEF PlayOldest
<1>2. audioBuf'[k] = [audioBuf[k] EXCEPT !.use = 0]
  BY <1>1 DEF TypeOK
<1>3. \A i \in Slot \ {k} : audioBuf'[i] = audioBuf[i]
  BY <1>1 DEF TypeOK
<1>4. k \in InUse
  BY <1>1 DEF IsMinCountBuf
<1>5. InUse' = InUse \ {k}
  <2>1. audioBuf'[k].use = 0
    BY <1>2 DEF TypeOK
  <2> QED BY <1>3, <2>1 DEF InUse
<1>6. \A j \in InUse : audioBuf[k].count <= audioBuf[j].count
  BY <1>1 DEF IsMinCountBuf, TypeOK, InUse
<1> QED BY <1>1, <1>2, <1>3, <1>4, <1>5, <1>6
-----------------------------------------------------------------------------
\* The empty slots of createUser satisfy the invariant.
LEMMA InitIInv == Init => IInv
<1> SUFFICES ASSUME Init PROVE IInv
  OBVIOUS
<1>1. InUse = {}
  BY DEF Init, InUse
<1>2. TypeOK
  BY DEF Init, TypeOK
<1>3. HoldsPackets /\ PendingAreFresh
  BY <1>1 DEF HoldsPackets, PendingAreFresh
<1>4. TallyCoversSlots
  BY <1>1, FS_EmptySet DEF Init, TallyCoversSlots
<1> QED BY <1>2, <1>3, <1>4 DEF IInv

\* setAudioBuf keeps the invariant when it stores a packet.
LEMMA StoreIInv ==
  ASSUME IInv, NEW p \in Packet, StorePacket(p)
  PROVE  IInv'
<1> USE DEF IInv
<1>1. PICK k \in Slot :
        /\ k \notin InUse
        /\ InUse' = InUse \cup {k}
        /\ audioBuf'[k] = [use |-> 1, count |-> p.count, bufData |-> p.data]
        /\ \A i \in Slot \ {k} : audioBuf'[i] = audioBuf[i]
  BY StoreEffect
<1>2. p.count \in Counts /\ p.count \in Nat /\ p.data \in Data
  BY CountsAssumption DEF Packet
<1>3. /\ UNCHANGED <<lastBufCount, blockBuf, out>>
      /\ useBuf' = useBuf + 1
      /\ p.count > lastBufCount
      /\ \A i \in InUse : audioBuf[i].count # p.count
  BY DEF StorePacket, isPacketInBuffers
<1>4. TypeOK'
  <2>1. PICK i \in Slot : audioBuf' = [audioBuf EXCEPT ![i] =
                          [use |-> 1, count |-> p.count, bufData |-> p.data]]
    BY DEF StorePacket
  <2> QED BY <1>2, <1>3, <2>1 DEF TypeOK
<1>5. HoldsPackets'
  BY <1>1, <1>2 DEF HoldsPackets, InUse
<1>6. PendingAreFresh'
  <2>1. \A i \in InUse : i # k /\ i \in Slot /\ audioBuf'[i] = audioBuf[i]
    BY <1>1 DEF InUse
  <2>2. audioBuf'[k].count = p.count
    BY <1>1
  <2> QED BY <1>1, <1>3, <2>1, <2>2 DEF PendingAreFresh
<1>7. TallyCoversSlots'
  <2>1. IsFiniteSet(InUse) /\ Cardinality(InUse) \in Nat
    BY InUseFinite DEF InUse
  <2>2. Cardinality(InUse') = Cardinality(InUse) + 1
    BY <1>1, <2>1, FS_AddElement
  <2> QED BY <1>3, <2>1, <2>2 DEF TallyCoversSlots, TypeOK
<1> QED BY <1>4, <1>5, <1>6, <1>7

\* setAudioBuf keeps the invariant when it restarts the stream.
LEMMA RestartIInv ==
  ASSUME IInv, NEW p \in Packet, RestartStream(p)
  PROVE  IInv'
<1> USE DEF IInv
<1>1. p.count \in Nat
  BY CountsAssumption DEF Packet
<1>2. \A i \in Slot : audioBuf'[i] = [audioBuf[i] EXCEPT !.use = 0]
  BY DEF RestartStream
<1>3. InUse' = {}
  <2>1. \A i \in Slot : audioBuf'[i].use = 0
    BY <1>2 DEF TypeOK
  <2> QED BY <2>1 DEF InUse
<1>4. TypeOK'
  BY <1>1 DEF TypeOK, RestartStream
<1>5. HoldsPackets' /\ PendingAreFresh'
  BY <1>3 DEF HoldsPackets, PendingAreFresh
<1>6. TallyCoversSlots'
  BY <1>3, <1>4, FS_EmptySet DEF TallyCoversSlots, TypeOK
<1> QED BY <1>4, <1>5, <1>6

\* getBufForAllUsers keeps the invariant when it plays a packet.
LEMMA PlayIInv ==
  ASSUME IInv, PlayOldest
  PROVE  IInv'
<1> USE DEF IInv
<1>1. PICK k \in InUse :
        /\ InUse' = InUse \ {k}
        /\ lastBufCount' = audioBuf[k].count
        /\ out' = [count |-> audioBuf[k].count, data |-> audioBuf[k].bufData]
        /\ \A j \in InUse : audioBuf[k].count <= audioBuf[j].count
        /\ \A i \in Slot \ {k} : audioBuf'[i] = audioBuf[i]
        /\ audioBuf'[k] = [audioBuf[k] EXCEPT !.use = 0]
  BY PlayEffect
<1>2. useBuf' = useBuf - 1 /\ blockBuf' = blockBuf
  BY DEF PlayOldest
<1>3. audioBuf[k].count \in Counts /\ audioBuf[k].count \in Nat /\ audioBuf[k].bufData \in Data
  BY <1>1, CountsAssumption DEF HoldsPackets
<1>4. IsFiniteSet(InUse) /\ Cardinality(InUse) \in Nat
  BY InUseFinite DEF InUse
<1>5. Cardinality(InUse') = Cardinality(InUse) - 1 /\ Cardinality(InUse') \in Nat
  BY <1>1, <1>4, FS_RemoveElement, InUseFinite DEF InUse
<1>6. TypeOK'
  <2>1. useBuf' \in Nat
    BY <1>2, <1>4, <1>5 DEF TallyCoversSlots, TypeOK
  <2>2. audioBuf' \in [Slot -> [use : {0, 1}, count : Nat, bufData : Data \cup {Silence}]]
    BY DEF PlayOldest, TypeOK
  <2>3. out' \in Packet
    BY <1>1, <1>3 DEF Packet
  <2> QED BY <1>1, <1>2, <1>3, <2>1, <2>2, <2>3 DEF TypeOK
<1>7. HoldsPackets'
  BY <1>1 DEF HoldsPackets, InUse
<1>8. PendingAreFresh'
  <2>1. \A i \in InUse \ {k} : i \in Slot \ {k} /\ audioBuf'[i] = audioBuf[i]
    BY <1>1 DEF InUse
  <2>2. \A i \in InUse \ {k} : audioBuf[i].count > audioBuf[k].count
    BY <1>1 DEF PendingAreFresh, InUse, TypeOK
  <2> QED BY <1>1, <2>1, <2>2 DEF PendingAreFresh
<1>9. TallyCoversSlots'
  BY <1>2, <1>4, <1>5 DEF TallyCoversSlots, TypeOK
<1> QED BY <1>6, <1>7, <1>8, <1>9

\* Every other step leaves the slots, lastBufCount and useBuf as they are.
LEMMA QuietIInv ==
  ASSUME IInv, Underrun \/ WaitForFill \/ UNCHANGED vars
  PROVE  IInv'
<1>1. UNCHANGED <<audioBuf, lastBufCount, useBuf>> /\ InUse' = InUse
  BY DEF Underrun, WaitForFill, vars, InUse
<1>2. TypeOK'
  BY <1>1 DEF IInv, TypeOK, Underrun, WaitForFill, vars
<1> QED BY <1>1, <1>2 DEF IInv, HoldsPackets, PendingAreFresh, TallyCoversSlots

\* Every step of either thread keeps the invariant.
LEMMA NextIInv == IInv /\ [Next]_vars => IInv'
<1> SUFFICES ASSUME IInv, [Next]_vars PROVE IInv'
  OBVIOUS
<1>1. ASSUME NEW p \in Packet, StorePacket(p) PROVE IInv'
  BY <1>1, StoreIInv
<1>2. ASSUME NEW p \in Packet, DropPacket(p) PROVE IInv'
  BY <1>2, QuietIInv DEF DropPacket
<1>3. ASSUME NEW p \in Packet, RestartStream(p) PROVE IInv'
  BY <1>3, RestartIInv
<1>4. CASE PlayOldest
  BY <1>4, PlayIInv
<1>5. CASE Underrun \/ WaitForFill \/ UNCHANGED vars
  BY <1>5, QuietIInv
<1> QED BY <1>1, <1>2, <1>3, <1>4, <1>5 DEF Next, setAudioBuf, getBufForAllUsers

\* The invariant holds in every reachable state of the playout buffer.
THEOREM InductiveInvariant == Spec => []IInv
BY InitIInv, NextIInv, PTL DEF Spec

\* The slots, the counters and the flag keep their types; in particular useBuf,
\* decremented whenever a packet is played, is never driven below zero, however
\* many packets are lost, duplicated or reordered and however often the stream
\* starts again.
THEOREM TypeCorrect == Spec => []TypeOK
BY InductiveInvariant, PTL DEF IInv

\* Waiting packets are newer than what was played and no count waits twice,
\* for every number of slots and every arrival order.
THEOREM PendingFresh == Spec => []PendingAreFresh
BY InductiveInvariant, PTL DEF IInv

\* useBuf covers the slots in use, so full slots always end the wait.
THEOREM TallyCovers == Spec => []TallyCoversSlots
BY InductiveInvariant, PTL DEF IInv
-----------------------------------------------------------------------------
\* In a state of the invariant the packet getBufForAllUsers plays is newer than
\* the last and older than all that wait.
LEMMA PlayInOrder ==
  ASSUME IInv, PlayOldest
  PROVE  /\ out'.count > lastBufCount
         /\ \A i \in InUse' : audioBuf'[i].count > out'.count
<1>1. PICK k \in InUse :
        /\ InUse' = InUse \ {k}
        /\ out' = [count |-> audioBuf[k].count, data |-> audioBuf[k].bufData]
        /\ \A j \in InUse : audioBuf[k].count <= audioBuf[j].count
        /\ \A i \in Slot \ {k} : audioBuf'[i] = audioBuf[i]
  BY PlayEffect DEF IInv
<1>2. out'.count = audioBuf[k].count
  BY <1>1
<1>3. out'.count > lastBufCount
  BY <1>2 DEF IInv, PendingAreFresh
<1>4. ASSUME NEW i \in InUse' PROVE audioBuf'[i].count > out'.count
  <2>1. i \in InUse /\ i # k /\ audioBuf'[i] = audioBuf[i]
    BY <1>1, <1>4 DEF InUse
  <2>2. audioBuf[i].count # audioBuf[k].count /\ audioBuf[k].count <= audioBuf[i].count
    BY <1>1, <2>1 DEF IInv, PendingAreFresh
  <2>3. audioBuf[i].count \in Nat /\ audioBuf[k].count \in Nat
    BY <2>1 DEF IInv, TypeOK, InUse
  <2> QED BY <1>2, <2>1, <2>2, <2>3
<1> QED BY <1>3, <1>4

\* What is played is newer than what was played before it and older than all
\* that still waits, whatever the order of arrival was.
THEOREM PlaybackInOrder == Spec => PlaysInOrder
<1>1. IInv /\ [Next]_vars =>
        [PlayOldest => /\ out'.count > lastBufCount
                       /\ \A i \in InUse' : audioBuf'[i].count > out'.count]_vars
  BY PlayInOrder
<1> QED BY <1>1, InductiveInvariant, PTL DEF Spec, PlaysInOrder

\* lastBufCount falls only when a stream restarts over more than ResetGap counts;
\* playing never lowers it, because what waits is fresh.
THEOREM RewindIsRestart == Spec => GoesBackOnlyOnRestart
<1>1. IInv /\ [Next]_vars =>
        [lastBufCount' < lastBufCount =>
           lastBufCount - lastBufCount' > ResetGap /\ InUse' = {}]_vars
  <2> SUFFICES ASSUME IInv, Next, lastBufCount' < lastBufCount
               PROVE  lastBufCount - lastBufCount' > ResetGap /\ InUse' = {}
    OBVIOUS
  <2>1. ASSUME NEW p \in Packet, RestartStream(p)
        PROVE  lastBufCount - lastBufCount' > ResetGap /\ InUse' = {}
    <3>1. \A i \in Slot : audioBuf'[i] = [audioBuf[i] EXCEPT !.use = 0]
      BY <2>1 DEF RestartStream
    <3>2. \A i \in Slot : audioBuf'[i].use = 0
      BY <3>1 DEF IInv, TypeOK
    <3> QED BY <2>1, <3>2 DEF RestartStream, InUse
  <2>2. CASE PlayOldest
    <3>1. PICK k \in InUse : lastBufCount' = audioBuf[k].count
      BY <2>2, PlayEffect DEF IInv
    <3>2. audioBuf[k].count > lastBufCount
      BY DEF IInv, PendingAreFresh
    <3>3. audioBuf[k].count \in Nat /\ lastBufCount \in Nat
      BY DEF IInv, TypeOK, InUse
    <3> QED BY <3>1, <3>2, <3>3
  <2>3. ASSUME NEW p \in Packet, StorePacket(p) \/ DropPacket(p) PROVE FALSE
    BY <2>3 DEF StorePacket, DropPacket, IInv, TypeOK, vars
  <2>4. CASE Underrun \/ WaitForFill
    BY <2>4 DEF Underrun, WaitForFill, IInv, TypeOK
  <2> QED BY <2>1, <2>2, <2>3, <2>4 DEF Next, setAudioBuf, getBufForAllUsers
<1> QED BY <1>1, InductiveInvariant, PTL DEF Spec, GoesBackOnlyOnRestart

-----------------------------------------------------------------------------
\* Refinement of PlayoutQueue, one lemma per kind of step.

\* While a slot is free, fewer packets wait than there are slots.
LEMMA PendingNotFull ==
  ASSUME IInv, InUse # Slot
  PROVE  Cardinality(Pending) < P_CountAudioBuf
<1>1. PICK k \in Slot : k \notin InUse
  BY DEF InUse
<1>2. IsFiniteSet(Slot) /\ Cardinality(Slot) = P_CountAudioBuf
  BY FS_Interval, BufAssumption DEF Slot
<1>3. IsFiniteSet(Slot \ {k}) /\ Cardinality(Slot \ {k}) = P_CountAudioBuf - 1
  BY <1>1, <1>2, FS_RemoveElement
<1>4. InUse \subseteq Slot \ {k}
  BY <1>1 DEF InUse
<1>5. IsFiniteSet(InUse) /\ Cardinality(InUse) <= P_CountAudioBuf - 1
  BY <1>3, <1>4, FS_Subset
<1>6. Cardinality(Pending) <= Cardinality(InUse)
  <2> DEFINE f == [i \in InUse |-> [count |-> audioBuf[i].count,
                                    data |-> audioBuf[i].bufData]]
  <2>1. f \in Surjection(InUse, Pending)
    BY DEF Surjection, Pending
  <2> HIDE DEF f
  <2> QED BY <1>5, <2>1, FS_Surjection
<1>7. Cardinality(Pending) \in Nat /\ Cardinality(InUse) \in Nat
  <2> DEFINE f == [i \in InUse |-> [count |-> audioBuf[i].count,
                                    data |-> audioBuf[i].bufData]]
  <2>1. f \in Surjection(InUse, Pending)
    BY DEF Surjection, Pending
  <2> HIDE DEF f
  <2> QED BY <1>5, <2>1, FS_Surjection, FS_CardinalityType
<1> QED BY <1>5, <1>6, <1>7, BufAssumption

\* Storing a packet is the abstract queue's Accept.
LEMMA StoreIsAccept ==
  ASSUME IInv, NEW p \in Packet, StorePacket(p)
  PROVE  Queue!Accept(p)
<1>1. PICK k \in Slot :
        /\ k \notin InUse
        /\ InUse' = InUse \cup {k}
        /\ audioBuf'[k] = [use |-> 1, count |-> p.count, bufData |-> p.data]
        /\ \A i \in Slot \ {k} : audioBuf'[i] = audioBuf[i]
  BY StoreEffect DEF IInv
<1>2. Cardinality(Pending) < P_CountAudioBuf
  BY <1>1, PendingNotFull
<1>3. Pending' = Pending \cup {p}
  <2>1. [count |-> audioBuf'[k].count, data |-> audioBuf'[k].bufData] = p
    BY <1>1 DEF Packet
  <2>2. \A i \in InUse : i \in Slot \ {k} /\ audioBuf'[i] = audioBuf[i]
    BY <1>1 DEF InUse
  <2> QED BY <1>1, <2>1, <2>2 DEF Pending
<1>4. \A q \in Pending : q.count # p.count
  BY DEF Pending, StorePacket, isPacketInBuffers
<1>5. Queue!Cardinality(Pending) = Cardinality(Pending)
  BY DEF Cardinality, Queue!Cardinality
<1> QED BY <1>2, <1>3, <1>4, <1>5 DEF Queue!Accept, StorePacket

\* A stream restart is the abstract queue's Flush.
LEMMA RestartIsFlush ==
  ASSUME IInv, NEW p \in Packet, RestartStream(p)
  PROVE  Queue!Flush(p)
<1>1. \A i \in Slot : audioBuf'[i] = [audioBuf[i] EXCEPT !.use = 0]
  BY DEF RestartStream
<1>2. \A i \in Slot : audioBuf'[i].use = 0
  BY <1>1 DEF IInv, TypeOK
<1>3. Pending' = {}
  BY <1>2 DEF Pending, InUse
<1>4. p.count \in Nat /\ lastBufCount \in Nat /\ ResetGap \in Nat
  BY CountsAssumption, GapAssumption DEF Packet, IInv, TypeOK
<1> QED BY <1>3, <1>4 DEF RestartStream, Queue!Flush

\* Playing the packet with the smallest count is the abstract queue's Emit.
LEMMA PlayIsEmit ==
  ASSUME IInv, PlayOldest
  PROVE  \E p \in Pending : Queue!Emit(p)
<1>1. PICK k \in InUse :
        /\ InUse' = InUse \ {k}
        /\ lastBufCount' = audioBuf[k].count
        /\ out' = [count |-> audioBuf[k].count, data |-> audioBuf[k].bufData]
        /\ \A j \in InUse : audioBuf[k].count <= audioBuf[j].count
        /\ \A i \in Slot \ {k} : audioBuf'[i] = audioBuf[i]
  BY PlayEffect DEF IInv
<1> DEFINE p == [count |-> audioBuf[k].count, data |-> audioBuf[k].bufData]
<1>2. p \in Pending
  BY DEF Pending
<1>3. Pending' = Pending \ {p}
  <2>1. \A i \in InUse \ {k} : i \in Slot \ {k} /\ audioBuf'[i] = audioBuf[i]
    BY <1>1 DEF InUse
  <2>2. \A i \in InUse \ {k} : audioBuf[i].count # audioBuf[k].count
    BY DEF IInv, PendingAreFresh
  <2>3. \A i \in InUse \ {k} :
          [count |-> audioBuf[i].count, data |-> audioBuf[i].bufData] # p
    BY <2>2
  <2>4. Pending' = {[count |-> audioBuf[i].count, data |-> audioBuf[i].bufData] :
                      i \in InUse \ {k}}
    BY <1>1, <2>1 DEF Pending
  <2> QED BY <2>3, <2>4 DEF Pending
<1>4. \A q \in Pending : p.count <= q.count
  BY <1>1 DEF Pending
<1> QED BY <1>1, <1>2, <1>3, <1>4 DEF Queue!Emit

\* A period without a packet is the abstract queue's StayQuiet.
LEMMA QuietIsQuiet ==
  ASSUME Underrun \/ WaitForFill
  PROVE  Queue!StayQuiet
BY DEF Underrun, WaitForFill, Queue!StayQuiet, Pending, InUse

\* The slots, with their free-slot scan, duplicate check and smallest-count
\* scan, implement the bounded queue that accepts what is new, emits the oldest
\* and starts over when a sender does.
THEOREM Refinement == Spec => ImplementsQueue
<1>1. Init => Queue!Init
  <2> SUFFICES ASSUME Init PROVE Queue!Init
    OBVIOUS
  <2>1. InUse = {}
    BY DEF Init, InUse
  <2> QED BY <2>1 DEF Init, Queue!Init, Pending
<1>2. IInv /\ [Next]_vars => [Queue!Next]_Queue!qvars
  <2> SUFFICES ASSUME IInv, [Next]_vars PROVE [Queue!Next]_Queue!qvars
    OBVIOUS
  <2>1. ASSUME NEW p \in Packet, StorePacket(p) PROVE Queue!Next
    BY <2>1, StoreIsAccept DEF Queue!Next, Packet, Queue!Packet
  <2>2. ASSUME NEW p \in Packet, RestartStream(p) PROVE Queue!Next
    BY <2>2, RestartIsFlush DEF Queue!Next, Packet, Queue!Packet
  <2>3. CASE PlayOldest
    BY <2>3, PlayIsEmit DEF Queue!Next
  <2>4. CASE Underrun \/ WaitForFill
    BY <2>4, QuietIsQuiet DEF Queue!Next
  <2>5. ASSUME UNCHANGED vars PROVE UNCHANGED Queue!qvars
    BY <2>5 DEF vars, Queue!qvars, Pending, InUse
  <2> QED BY <2>1, <2>2, <2>3, <2>4, <2>5
          DEF Next, setAudioBuf, getBufForAllUsers, DropPacket
<1> QED BY <1>1, <1>2, InductiveInvariant, PTL DEF Spec, ImplementsQueue, Queue!Spec
=============================================================================
