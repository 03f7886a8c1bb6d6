-------------------------- MODULE AudioStreamProofs --------------------------
(***************************************************************************)
(* Theorems of AudioStream, for any number of slots, packets and restarts  *)
(* of the microphone.  That playback does not go back is not a fact of the *)
(* buffer alone: it takes what the network still carries into account,     *)
(* which InOrder and NoneTooLate do.  That it does not skip needs the      *)
(* count of everything between the microphone and playback, which          *)
(* NothingLost and NoGap keep, and a free slot at every arrival, RoomLeft. *)
(***************************************************************************)
EXTENDS AudioStream, JitterBufferProofs, SequenceTheorems

StreamIInv == IInv /\ StreamTypeOK

-----------------------------------------------------------------------------
\* What the network holds after a packet has left it.
LEMMA RemoveFromNet ==
  ASSUME NEW s \in Seq(Packet), NEW k \in 1 .. Len(s)
  PROVE  /\ RemoveAt(s, k) \in Seq(Packet)
         /\ Len(RemoveAt(s, k)) = Len(s) - 1
         /\ \A i \in 1 .. Len(s) - 1 :
              RemoveAt(s, k)[i] = IF i < k THEN s[i] ELSE s[i + 1]
<1> DEFINE a == SubSeq(s, 1, k - 1)
           b == SubSeq(s, k + 1, Len(s))
<1>1. a \in Seq(Packet) /\ Len(a) = k - 1 /\ \A i \in 1 .. k - 1 : a[i] = s[i]
  OBVIOUS
<1>2. b \in Seq(Packet) /\ Len(b) = Len(s) - k /\ \A i \in 1 .. Len(s) - k : b[i] = s[i + k]
  OBVIOUS
<1>3. RemoveAt(s, k) = a \o b
  BY DEF RemoveAt
<1> HIDE DEF a, b
<1>4. a \o b \in Seq(Packet) /\ Len(a \o b) = Len(s) - 1
  <2>1. a \o b \in Seq(Packet) /\ Len(a \o b) = Len(a) + Len(b)
    BY ONLY <1>1, <1>2, ConcatProperties
  <2>2. (k - 1) + (Len(s) - k) = Len(s) - 1
    OBVIOUS
  <2> QED BY ONLY <1>1, <1>2, <2>1, <2>2
<1>5. ASSUME NEW i \in 1 .. Len(s) - 1
      PROVE  (a \o b)[i] = IF i < k THEN s[i] ELSE s[i + 1]
  BY <1>1, <1>2
<1> QED BY <1>3, <1>4, <1>5

\* What the network holds after a packet was sent.
LEMMA AppendToNet ==
  ASSUME NEW s \in Seq(Packet), NEW p \in Packet
  PROVE  /\ Append(s, p) \in Seq(Packet)
         /\ Len(Append(s, p)) = Len(s) + 1
         /\ Append(s, p)[Len(s) + 1] = p
         /\ \A i \in 1 .. Len(s) : Append(s, p)[i] = s[i]
OBVIOUS

\* Every packet in the network is a packet with a natural count.
LEMMA NetHoldsPackets ==
  ASSUME StreamTypeOK, NEW i \in DOMAIN net
  PROVE  i \in 1 .. Len(net) /\ net[i] \in Packet /\ net[i].count \in Nat
<1>1. i \in 1 .. Len(net) /\ net[i] \in Packet
  BY DEF StreamTypeOK
<1> QED BY <1>1, CountsAssumption DEF Packet

-----------------------------------------------------------------------------
\* Every step of the stream is a step of the playout buffer or leaves it alone.
LEMMA StreamStepIsBufferStep ==
  ASSUME StreamTypeOK, [StreamNext]_svars
  PROVE  [Next]_vars
<1>1. CASE Receive
  BY <1>1, NetHoldsPackets DEF Receive, Next
<1>2. CASE Poll
  BY <1>2 DEF Poll, Next
<1>3. CASE Capture \/ RestartMic \/ Lose \/ UNCHANGED svars
  BY <1>3 DEF Capture, RestartMic, Lose, svars
<1> QED BY <1>1, <1>2, <1>3 DEF StreamNext

\* The empty network and the empty slots satisfy the invariant.
LEMMA StreamInitIInv == StreamInit => StreamIInv
<1> SUFFICES ASSUME StreamInit PROVE StreamIInv
  OBVIOUS
<1>1. IInv
  BY InitIInv DEF StreamInit
<1>2. 0 \in Data /\ MaxInFlight \in Nat
  BY StreamAssumption DEF StreamInit
<1> QED BY <1>1, <1>2 DEF StreamIInv, StreamTypeOK, IInv, StreamInit

\* Every step of the stream keeps the invariant.
LEMMA StreamNextIInv == StreamIInv /\ [StreamNext]_svars => StreamIInv'
<1> SUFFICES ASSUME StreamIInv, [StreamNext]_svars PROVE StreamIInv'
  OBVIOUS
<1>1. IInv'
  BY StreamStepIsBufferStep, NextIInv DEF StreamIInv
<1>2. TypeOK'
  BY <1>1 DEF IInv
<1>3. MaxInFlight \in Nat /\ net \in Seq(Packet) /\ Len(net) \in Nat /\ Len(net) <= MaxInFlight
  BY StreamAssumption DEF StreamIInv, StreamTypeOK
<1>4. ASSUME NEW i \in DOMAIN net, net' = RemoveAt(net, i)
      PROVE  net' \in Seq(Packet) /\ Len(net') <= MaxInFlight
  BY <1>3, <1>4, RemoveFromNet
<1>5. CASE Capture
  <2>1. [count |-> next, data |-> epoch] \in Packet
    BY <1>5 DEF Capture, Packet, StreamIInv, StreamTypeOK
  <2>2. net' \in Seq(Packet) /\ Len(net') <= MaxInFlight
    BY <1>3, <1>5, <2>1, AppendToNet DEF Capture
  <2> QED BY <1>1, <1>2, <1>5, <2>2 DEF Capture, StreamIInv, StreamTypeOK
<1>6. CASE RestartMic
  <2>1. epoch' \in Data
    BY <1>6, StreamAssumption DEF RestartMic, StreamIInv, StreamTypeOK
  <2> QED BY <1>1, <1>2, <1>6, <2>1 DEF RestartMic, StreamIInv, StreamTypeOK
<1>7. CASE Receive
  <2>1. net' \in Seq(Packet) /\ Len(net') <= MaxInFlight
    BY <1>3, <1>4, <1>7 DEF Receive
  <2> QED BY <1>1, <1>2, <1>7, <2>1 DEF Receive, senderVars, StreamIInv, StreamTypeOK
<1>8. CASE Lose
  <2>1. net' \in Seq(Packet) /\ Len(net') <= MaxInFlight
    BY <1>3, <1>4, <1>8 DEF Lose
  <2> QED BY <1>1, <1>2, <1>8, <2>1 DEF Lose, senderVars, StreamIInv, StreamTypeOK
<1>9. CASE Poll
  BY <1>1, <1>2, <1>9 DEF Poll, senderVars, StreamIInv, StreamTypeOK
<1>10. CASE UNCHANGED svars
  BY <1>1, <1>2, <1>10 DEF svars, senderVars, StreamIInv, StreamTypeOK
<1> QED BY <1>5, <1>6, <1>7, <1>8, <1>9, <1>10 DEF StreamNext

\* The stream keeps its types, with whatever the network loses, duplicates or
\* reorders.
THEOREM StreamInductiveInvariant == StreamSpec => []StreamIInv
BY StreamInitIInv, StreamNextIInv, PTL DEF StreamSpec

\* What a stream does to the receiver's slots is what JitterBuffer's own
\* specification allows, so every theorem of the playout buffer, its refinement
\* of PlayoutQueue too, is one of the whole stream.
THEOREM StreamDrivesBuffer == StreamSpec => Spec
<1>1. StreamInit => Init
  BY DEF StreamInit
<1>2. StreamIInv /\ [StreamNext]_svars => [Next]_vars
  BY StreamStepIsBufferStep DEF StreamIInv
<1> QED BY <1>1, <1>2, StreamInductiveInvariant, PTL DEF StreamSpec, Spec
-----------------------------------------------------------------------------
(* While the microphone runs, playback does not go back. *)

\* The network holds packets of the first run, the older ones first.
InOrder ==
  \A i \in DOMAIN net :
    /\ net[i].data = 0
    /\ net[i].count < next
    /\ \A j \in DOMAIN net : j < i => net[j].count < net[i].count

\* No packet still in flight lies more than MaxLag behind count c.
Timely(c) ==
  /\ c <= next
  /\ \A j \in DOMAIN net : c <= net[j].count + MaxLag

\* What has arrived overtook nothing that is in flight by more than MaxLag.
NoneTooLate ==
  /\ Timely(lastBufCount)
  /\ \A i \in InUse : Timely(audioBuf[i].count)

FirstRunIInv == StreamIInv /\ (epoch = 0 => InOrder /\ NoneTooLate)

\* The network holds what it held, or less, or what was captured in addition.
LEMMA NetStep ==
  ASSUME StreamTypeOK, [StreamNext]_svars
  PROVE  \/ net' = net /\ (next' = next \/ epoch' = epoch + 1)
         \/ next' = next /\ \E k \in 1 .. Len(net) : net' = RemoveAt(net, k)
         \/ /\ next' = next + 1 /\ epoch' = epoch
            /\ [count |-> next, data |-> epoch] \in Packet
            /\ net' = Append(net, [count |-> next, data |-> epoch])
<1>1. CASE Receive
  BY <1>1 DEF Receive, senderVars, StreamTypeOK
<1>2. CASE Lose
  BY <1>2 DEF Lose, senderVars, StreamTypeOK
<1>3. CASE Poll \/ RestartMic \/ UNCHANGED svars
  BY <1>3 DEF Poll, RestartMic, svars, senderVars
<1>4. CASE Capture
  BY <1>4 DEF Capture, Packet, StreamTypeOK
<1> QED BY <1>1, <1>2, <1>3, <1>4 DEF StreamNext

\* A step that ends in the first run of the microphone began in it.
LEMMA FirstRunBefore ==
  ASSUME StreamTypeOK, [StreamNext]_svars, epoch' = 0
  PROVE  epoch = 0
<1>1. epoch \in Nat
  BY StreamAssumption DEF StreamTypeOK
<1>2. epoch' = epoch \/ epoch' = epoch + 1
  BY DEF StreamNext, Capture, RestartMic, Receive, Lose, Poll, svars, senderVars
<1> QED BY <1>1, <1>2

\* The packets stay in order: the newest is put behind the others, and taking
\* one out moves the rest up.
LEMMA StaysInOrder ==
  ASSUME StreamTypeOK, InOrder, epoch = 0, [StreamNext]_svars, epoch' = 0
  PROVE  InOrder'
<1>1. /\ net \in Seq(Packet) /\ Len(net) \in Nat /\ next \in Nat
      /\ DOMAIN net = 1 .. Len(net)
  BY DEF StreamTypeOK
<1>2. \A i \in 1 .. Len(net) : net[i].count \in Nat
  BY <1>1, NetHoldsPackets
<1>3. CASE net' = net /\ next' = next
  BY <1>3 DEF InOrder
<1>4. ASSUME NEW k \in 1 .. Len(net), net' = RemoveAt(net, k), next' = next
      PROVE  InOrder'
  <2> DEFINE from(i) == IF i < k THEN i ELSE i + 1
  <2>1. /\ net' \in Seq(Packet) /\ Len(net') = Len(net) - 1
        /\ \A i \in 1 .. Len(net) - 1 : net'[i] = net[from(i)]
    BY <1>1, <1>4, RemoveFromNet
  <2>2. DOMAIN net' = 1 .. Len(net) - 1
    BY <2>1
  <2>3. \A i \in 1 .. Len(net) - 1 : from(i) \in 1 .. Len(net)
    BY <1>1
  <2>4. \A i, j \in 1 .. Len(net) - 1 : j < i => from(j) < from(i)
    BY <1>1
  <2> HIDE DEF from
  <2>5. ASSUME NEW i \in 1 .. Len(net) - 1
        PROVE  net'[i].data = 0 /\ net'[i].count < next
    BY <1>1, <2>1, <2>3 DEF InOrder
  <2>6. ASSUME NEW i \in 1 .. Len(net) - 1, NEW j \in 1 .. Len(net) - 1, j < i
        PROVE  net'[j].count < net'[i].count
    BY <1>1, <2>1, <2>3, <2>4, <2>6 DEF InOrder
  <2> QED BY <1>4, <2>2, <2>5, <2>6 DEF InOrder
<1>5. CASE /\ next' = next + 1
           /\ [count |-> next, data |-> epoch] \in Packet
           /\ net' = Append(net, [count |-> next, data |-> epoch])
  <2>1. /\ net' \in Seq(Packet) /\ Len(net') = Len(net) + 1
        /\ net'[Len(net) + 1] = [count |-> next, data |-> epoch]
        /\ \A i \in 1 .. Len(net) : net'[i] = net[i]
    BY <1>1, <1>5, AppendToNet
  <2>2. DOMAIN net' = 1 .. Len(net) + 1
    BY <2>1
  <2>3. net'[Len(net) + 1].data = 0 /\ net'[Len(net) + 1].count = next
    BY <2>1
  <2>4. ASSUME NEW i \in 1 .. Len(net)
        PROVE  net'[i].data = 0 /\ net'[i].count < next
    BY <1>1, <2>1 DEF InOrder
  <2>5. ASSUME NEW i \in 1 .. Len(net), NEW j \in 1 .. Len(net), j < i
        PROVE  net'[j].count < net'[i].count
    BY <1>1, <2>1, <2>5 DEF InOrder
  <2>6. \A i \in 1 .. Len(net) + 1 : i \in 1 .. Len(net) \/ i = Len(net) + 1
    BY <1>1
  <2>7. \A i \in 1 .. Len(net) + 1 : net'[i].data = 0 /\ net'[i].count < next + 1
    BY <1>1, <1>2, <2>1, <2>3, <2>4, <2>6
  <2>8. \A i, j \in 1 .. Len(net) + 1 : j < i => net'[j].count < net'[i].count
    BY <1>1, <2>3, <2>4, <2>5, <2>6
  <2> QED BY <1>5, <2>2, <2>7, <2>8 DEF InOrder
<1> QED BY <1>3, <1>4, <1>5, NetStep

\* What was timely stays timely: packets leave the network, and what is captured
\* is newer than all that has arrived.
LEMMA StaysTimely ==
  ASSUME StreamTypeOK, [StreamNext]_svars, epoch = 0, epoch' = 0, NEW c \in Nat, Timely(c)
  PROVE  Timely(c)'
<1>1. /\ net \in Seq(Packet) /\ Len(net) \in Nat /\ next \in Nat /\ MaxLag \in Nat
      /\ DOMAIN net = 1 .. Len(net)
  BY StreamAssumption DEF StreamTypeOK
<1>2. CASE net' = net /\ next' = next
  BY <1>2 DEF Timely
<1>3. ASSUME NEW k \in 1 .. Len(net), net' = RemoveAt(net, k), next' = next
      PROVE  Timely(c)'
  <2>1. /\ net' \in Seq(Packet) /\ Len(net') = Len(net) - 1
        /\ \A i \in 1 .. Len(net) - 1 : net'[i] = IF i < k THEN net[i] ELSE net[i + 1]
    BY <1>1, <1>3, RemoveFromNet
  <2>2. DOMAIN net' = 1 .. Len(net) - 1
    BY <2>1
  <2>3. \A i \in 1 .. Len(net) - 1 : \E j \in 1 .. Len(net) : net'[i] = net[j]
    BY <1>1, <2>1
  <2> QED BY <1>1, <1>3, <2>2, <2>3 DEF Timely
<1>4. CASE /\ next' = next + 1
           /\ net' = Append(net, [count |-> next, data |-> epoch])
  <2>1. /\ Len(net') = Len(net) + 1 /\ DOMAIN net' = 1 .. Len(net) + 1
        /\ net'[Len(net) + 1].count = next
        /\ \A i \in 1 .. Len(net) : net'[i] = net[i]
    BY <1>1, <1>4
  <2>2. \A i \in 1 .. Len(net) + 1 : i \in 1 .. Len(net) \/ i = Len(net) + 1
    BY <1>1
  <2> QED BY <1>1, <1>4, <2>1, <2>2 DEF Timely
<1> QED BY <1>2, <1>3, <1>4, NetStep

\* A packet that is delivered has overtaken nothing by more than MaxLag: older
\* ones Deliverable bounds, and the others were sent after it.
LEMMA ArrivesTimely ==
  ASSUME StreamTypeOK, InOrder, NEW i \in DOMAIN net, Deliverable(i)
  PROVE  Timely(net[i].count)
<1>1. /\ i \in 1 .. Len(net) /\ Len(net) \in Nat /\ next \in Nat /\ MaxLag \in Nat
      /\ DOMAIN net = 1 .. Len(net)
  BY StreamAssumption DEF StreamTypeOK
<1>2. \A j \in 1 .. Len(net) : net[j].count \in Nat
  BY <1>1, NetHoldsPackets
<1>3. net[i].count <= next
  BY <1>1, <1>2 DEF InOrder
<1>4. ASSUME NEW j \in 1 .. Len(net)
      PROVE  net[i].count <= net[j].count + MaxLag
  <2>1. CASE j < i
    <3>1. j \in 1 .. i - 1 /\ net[j].data = net[i].data
      BY <1>1, <2>1 DEF InOrder
    <3> QED BY <1>1, <1>2, <3>1 DEF Deliverable
  <2>2. CASE j = i
    BY <1>1, <1>2, <2>2
  <2>3. CASE j > i
    <3>1. net[i].count < net[j].count
      BY <1>1, <2>3 DEF InOrder
    <3> QED BY <1>1, <1>2, <3>1
  <2> QED BY <1>1, <2>1, <2>2, <2>3
<1> QED BY <1>1, <1>3, <1>4 DEF Timely

\* What the receiver knows after a packet is handed to it is what it knew and
\* the packet's own count.
LEMMA KnownAfterArrival ==
  ASSUME IInv, NEW p \in Packet, setAudioBuf(p)
  PROVE  /\ lastBufCount' \in {lastBufCount, p.count}
         /\ \A i \in InUse' :
              \/ audioBuf'[i].count = p.count
              \/ i \in InUse /\ audioBuf'[i].count = audioBuf[i].count
<1>1. CASE StorePacket(p)
  <2>1. PICK k \in Slot :
          /\ InUse' = InUse \cup {k}
          /\ audioBuf'[k] = [use |-> 1, count |-> p.count, bufData |-> p.data]
          /\ \A i \in Slot \ {k} : audioBuf'[i] = audioBuf[i]
    BY <1>1, StoreEffect DEF IInv
  <2>2. lastBufCount' = lastBufCount
    BY <1>1 DEF StorePacket
  <2>3. audioBuf'[k].count = p.count
    BY <2>1
  <2>4. \A i \in InUse : i = k \/ audioBuf'[i] = audioBuf[i]
    BY <2>1 DEF InUse
  <2>5. ASSUME NEW i \in InUse'
        PROVE  \/ audioBuf'[i].count = p.count
               \/ i \in InUse /\ audioBuf'[i].count = audioBuf[i].count
    <3>1. i \in InUse \cup {k}
      BY <2>1
    <3> QED BY <2>3, <2>4, <3>1
  <2> QED BY <2>2, <2>5
<1>2. CASE DropPacket(p)
  BY <1>2 DEF DropPacket, vars, InUse
<1>3. CASE RestartStream(p)
  <2>1. \A i \in Slot : audioBuf'[i] = [audioBuf[i] EXCEPT !.use = 0]
    BY <1>3 DEF RestartStream
  <2>2. \A i \in Slot : audioBuf'[i].use = 0
    BY <2>1 DEF IInv, TypeOK
  <2> QED BY <1>3, <2>2 DEF RestartStream, InUse
<1> QED BY <1>1, <1>2, <1>3 DEF setAudioBuf

\* Playback learns no count that did not wait in the slots.
LEMMA KnownAfterPoll ==
  ASSUME IInv, getBufForAllUsers
  PROVE  /\ lastBufCount' = lastBufCount \/ \E k \in InUse : lastBufCount' = audioBuf[k].count
         /\ \A i \in InUse' : i \in InUse /\ audioBuf'[i].count = audioBuf[i].count
<1>1. CASE PlayOldest
  <2>1. PICK k \in InUse :
          /\ InUse' = InUse \ {k}
          /\ lastBufCount' = audioBuf[k].count
          /\ \A i \in Slot \ {k} : audioBuf'[i] = audioBuf[i]
    BY <1>1, PlayEffect DEF IInv
  <2> QED BY <2>1 DEF InUse
<1>2. CASE Underrun \/ WaitForFill
  BY <1>2 DEF Underrun, WaitForFill, InUse
<1> QED BY <1>1, <1>2 DEF getBufForAllUsers

\* Everything known stays timely.
LEMMA NoneBecomesLate ==
  ASSUME StreamIInv, InOrder, NoneTooLate, epoch = 0, [StreamNext]_svars, epoch' = 0
  PROVE  NoneTooLate'
<1>1. StreamTypeOK /\ IInv
  BY DEF StreamIInv
<1>2. ASSUME NEW c \in Nat, Timely(c) PROVE Timely(c)'
  BY <1>1, <1>2, StaysTimely
<1>3. lastBufCount \in Nat /\ \A i \in InUse : audioBuf[i].count \in Nat
  BY <1>1 DEF IInv, TypeOK, InUse
<1>4. CASE Receive
  <2>1. PICK i \in DOMAIN net : Deliverable(i) /\ setAudioBuf(net[i])
    BY <1>4 DEF Receive
  <2>2. net[i] \in Packet /\ net[i].count \in Nat
    BY <1>1, NetHoldsPackets
  <2>3. Timely(net[i].count)
    BY <1>1, <2>1, ArrivesTimely
  <2> DEFINE c == net[i].count
  <2>4. c \in Nat /\ Timely(c)
    BY <2>2, <2>3
  <2>5. /\ lastBufCount' \in {lastBufCount, c}
        /\ \A s \in InUse' : \/ audioBuf'[s].count = c
                             \/ s \in InUse /\ audioBuf'[s].count = audioBuf[s].count
    BY <1>1, <2>1, <2>2, KnownAfterArrival
  <2> QED BY <1>2, <1>3, <2>4, <2>5 DEF NoneTooLate
<1>5. CASE Poll
  <2>1. /\ lastBufCount' = lastBufCount \/ \E k \in InUse : lastBufCount' = audioBuf[k].count
        /\ \A i \in InUse' : i \in InUse /\ audioBuf'[i].count = audioBuf[i].count
    BY <1>1, <1>5, KnownAfterPoll DEF Poll
  <2> QED BY <1>2, <1>3, <2>1 DEF NoneTooLate
<1>6. CASE Capture \/ RestartMic \/ Lose \/ UNCHANGED svars
  <2>1. UNCHANGED <<audioBuf, lastBufCount>> /\ InUse' = InUse
    BY <1>6 DEF Capture, RestartMic, Lose, svars, vars, InUse
  <2> QED BY <1>2, <1>3, <2>1 DEF NoneTooLate
<1> QED BY <1>4, <1>5, <1>6 DEF StreamNext

\* The empty network has nothing out of order or late.
LEMMA FirstRunInit == StreamInit => FirstRunIInv
<1> SUFFICES ASSUME StreamInit PROVE FirstRunIInv
  OBVIOUS
<1>1. InUse = {} /\ lastBufCount = 0 /\ next = 0 /\ DOMAIN net = {}
  BY DEF StreamInit, Init, InUse
<1>2. InOrder /\ NoneTooLate
  BY <1>1 DEF InOrder, NoneTooLate, Timely
<1> QED BY <1>2, StreamInitIInv DEF FirstRunIInv

\* Every step keeps what is known of the first run.
LEMMA FirstRunNext == FirstRunIInv /\ [StreamNext]_svars => FirstRunIInv'
<1> SUFFICES ASSUME FirstRunIInv, [StreamNext]_svars PROVE FirstRunIInv'
  OBVIOUS
<1>1. StreamIInv'
  BY StreamNextIInv DEF FirstRunIInv
<1>2. ASSUME epoch' = 0 PROVE InOrder' /\ NoneTooLate'
  <2>1. epoch = 0
    BY <1>2, FirstRunBefore DEF FirstRunIInv, StreamIInv
  <2> QED BY <1>2, <2>1, StaysInOrder, NoneBecomesLate DEF FirstRunIInv, StreamIInv
<1> QED BY <1>1, <1>2 DEF FirstRunIInv

\* Until the microphone is started again, packets in flight are in order and
\* what has arrived overtook none of them by more than MaxLag.
THEOREM FirstRunInvariant == StreamSpec => []FirstRunIInv
BY FirstRunInit, FirstRunNext, PTL DEF StreamSpec

\* A packet of the running microphone never restarts its own stream: it lies at
\* most MaxLag behind what was played last.
LEMMA NoRestartInFirstRun ==
  ASSUME MaxLag <= ResetGap, StreamTypeOK, InOrder, NoneTooLate,
         NEW i \in DOMAIN net
  PROVE  ~RestartStream(net[i])
<1>1. /\ net[i].count \in Nat /\ lastBufCount \in Nat
      /\ MaxLag \in Nat /\ ResetGap \in Nat
  BY NetHoldsPackets, StreamAssumption, GapAssumption DEF StreamTypeOK, TypeOK
<1>2. lastBufCount <= net[i].count + MaxLag
  BY DEF NoneTooLate, Timely
<1> QED BY <1>1, <1>2 DEF RestartStream

\* Late and duplicate packets never make setAudioBuf take the running sender for
\* one that started again, on any network, lossy or not, that delays a packet by
\* no more counts than setAudioBuf tolerates (10 in the code): playback does not
\* go back.
THEOREM PlaybackNeverFallsBack ==
  ASSUME MaxLag <= ResetGap
  PROVE  StreamSpec => NoFalseRestart
<1>1. FirstRunIInv /\ [StreamNext]_svars
        => [epoch = 0 => lastBufCount' >= lastBufCount]_svars
  <2> SUFFICES ASSUME FirstRunIInv, StreamNext, epoch = 0
               PROVE  lastBufCount' >= lastBufCount
    OBVIOUS
  <2>1. StreamTypeOK /\ IInv /\ InOrder /\ NoneTooLate
    BY DEF FirstRunIInv, StreamIInv
  <2>2. lastBufCount \in Nat /\ \A i \in InUse : audioBuf[i].count \in Nat
    BY <2>1 DEF IInv, TypeOK, InUse
  <2>3. CASE Receive
    <3>1. PICK i \in DOMAIN net : setAudioBuf(net[i])
      BY <2>3 DEF Receive
    <3>2. StorePacket(net[i]) \/ DropPacket(net[i])
      BY <2>1, <3>1, NoRestartInFirstRun DEF setAudioBuf
    <3>3. lastBufCount' = lastBufCount
      BY <3>2 DEF StorePacket, DropPacket, vars
    <3> QED BY <2>2, <3>3
  <2>4. CASE Poll
    <3>1. lastBufCount' = lastBufCount \/ \E k \in InUse : lastBufCount' = audioBuf[k].count
      BY <2>1, <2>4, KnownAfterPoll DEF Poll
    <3> QED BY <2>1, <2>2, <3>1 DEF IInv, PendingAreFresh
  <2>5. CASE Capture \/ RestartMic \/ Lose
    BY <2>2, <2>5 DEF Capture, RestartMic, Lose, vars
  <2> QED BY <2>3, <2>4, <2>5 DEF StreamNext
<1> QED BY <1>1, FirstRunInvariant, PTL DEF StreamSpec, NoFalseRestart
-----------------------------------------------------------------------------
(* On an orderly network, playback does not skip. *)

\* The network keeps every packet and their order, playback polls between any
\* two arrivals, and there are two slots at least: with a single one the period
\* that ends the wait leaves no room for the packet that follows.
Orderly == MaxLag = 0 /\ Lossy = FALSE /\ Paced = TRUE /\ P_CountAudioBuf >= 2

\* How many packets of the running microphone have been handed to the receiver.
Arrived == next - Len(net)

\* The newest count among them.
Newest == IF Arrived = 0 THEN 0 ELSE Arrived - 1

\* The network holds what was captured and has not arrived, in order.
NothingLost ==
  /\ Len(net) <= next
  /\ \A i \in DOMAIN net : net[i].count = Arrived + i - 1

\* What waits in the slots is all that arrived after what was played last.
NoGap ==
  /\ lastBufCount <= Newest
  /\ \A i \in InUse : audioBuf[i].count <= Newest
  /\ \A c \in lastBufCount + 1 .. Newest : \E i \in InUse : audioBuf[i].count = c

\* A slot is free whenever a packet may arrive: playback has just polled, and the
\* wait ends as soon as all slots but one are taken.
RoomLeft ==
  /\ polled => Cardinality(InUse) <= P_CountAudioBuf - 1
  /\ blockBuf = 1 => Cardinality(InUse) <= P_CountAudioBuf - 1
  /\ blockBuf = 1 /\ polled => Cardinality(InUse) <= P_CountAudioBuf - 2

GapIInv == StreamIInv /\ RoomLeft /\ (epoch = 0 => NothingLost /\ NoGap)

\* The numbers of the model are numbers.
LEMMA StreamNumbers ==
  ASSUME StreamIInv
  PROVE  /\ next \in Nat /\ Len(net) \in Nat /\ DOMAIN net = 1 .. Len(net)
         /\ net \in Seq(Packet)
         /\ lastBufCount \in Nat /\ useBuf \in Nat /\ P_CountAudioBuf \in Nat /\ ResetGap \in Nat
         /\ \A i \in InUse : audioBuf[i].count \in Nat /\ audioBuf[i].count > lastBufCount
         /\ IsFiniteSet(InUse) /\ Cardinality(InUse) \in Nat
         /\ Cardinality(InUse) <= P_CountAudioBuf /\ Cardinality(InUse) <= useBuf
<1>1. IsFiniteSet(InUse) /\ Cardinality(InUse) \in Nat /\ Cardinality(InUse) <= P_CountAudioBuf
  BY InUseFinite DEF InUse
<1>2. \A i \in InUse : audioBuf[i].count \in Nat /\ audioBuf[i].count > lastBufCount
  BY DEF StreamIInv, IInv, TypeOK, PendingAreFresh, InUse
<1>3. useBuf \in Nat /\ lastBufCount \in Nat /\ Cardinality(InUse) <= useBuf
  BY <1>1 DEF StreamIInv, IInv, TypeOK, TallyCoversSlots
<1>4. next \in Nat /\ Len(net) \in Nat /\ DOMAIN net = 1 .. Len(net) /\ net \in Seq(Packet)
  BY DEF StreamIInv, StreamTypeOK
<1> QED BY <1>1, <1>2, <1>3, <1>4, BufAssumption, GapAssumption

\* A packet takes one slot at most.
LEMMA SlotsAfterArrival ==
  ASSUME StreamIInv, NEW p \in Packet, setAudioBuf(p)
  PROVE  /\ Cardinality(InUse') \in Nat /\ Cardinality(InUse') <= Cardinality(InUse) + 1
         /\ blockBuf' = blockBuf
<1>1. IsFiniteSet(InUse) /\ Cardinality(InUse) \in Nat
  BY StreamNumbers
<1>2. CASE StorePacket(p)
  <2>1. PICK k \in Slot : k \notin InUse /\ InUse' = InUse \cup {k}
    BY <1>2, StoreEffect DEF StreamIInv, IInv
  <2> QED BY <1>1, <1>2, <2>1, FS_AddElement DEF StorePacket
<1>3. CASE DropPacket(p)
  <2>1. InUse' = InUse /\ blockBuf' = blockBuf
    BY <1>3 DEF DropPacket, vars, InUse
  <2> QED BY <1>1, <2>1
<1>4. CASE RestartStream(p)
  <2>1. \A i \in Slot : audioBuf'[i] = [audioBuf[i] EXCEPT !.use = 0]
    BY <1>4 DEF RestartStream
  <2>2. \A i \in Slot : audioBuf'[i].use = 0
    BY <2>1 DEF StreamIInv, IInv, TypeOK
  <2>3. InUse' = {}
    BY <2>2 DEF InUse
  <2> QED BY <1>1, <1>4, <2>3, FS_EmptySet DEF RestartStream
<1> QED BY <1>2, <1>3, <1>4 DEF setAudioBuf

\* A slot stays free at every arrival.
LEMMA RoomLeftNext ==
  ASSUME Orderly, StreamIInv, RoomLeft, [StreamNext]_svars
  PROVE  RoomLeft'
<1> DEFINE n == Cardinality(InUse)
<1>1. /\ n \in Nat /\ n <= P_CountAudioBuf /\ n <= useBuf
      /\ P_CountAudioBuf \in Nat /\ useBuf \in Nat /\ P_CountAudioBuf >= 2
      /\ IsFiniteSet(InUse) /\ blockBuf \in {0, 1}
  BY StreamNumbers DEF Orderly, StreamIInv, IInv, TypeOK
<1>2. CASE Receive
  <2>1. PICK i \in DOMAIN net : setAudioBuf(net[i])
    BY <1>2 DEF Receive
  <2>2. net[i] \in Packet
    BY NetHoldsPackets DEF StreamIInv
  <2>3. n' \in Nat /\ n' <= n + 1 /\ blockBuf' = blockBuf
    BY <2>1, <2>2, SlotsAfterArrival
  <2>4. polled = TRUE /\ polled' = FALSE
    BY <1>2 DEF Receive, Orderly, StreamIInv, StreamTypeOK
  <2> QED BY <1>1, <2>3, <2>4 DEF RoomLeft
<1>3. CASE PlayOldest
  <2>1. PICK k \in InUse : InUse' = InUse \ {k}
    BY <1>3, PlayEffect DEF StreamIInv, IInv
  <2>2. n' = n - 1
    BY <1>1, <2>1, FS_RemoveElement
  <2>3. blockBuf' = 0
    BY <1>3 DEF PlayOldest
  <2> QED BY <1>1, <2>2, <2>3 DEF RoomLeft
<1>4. CASE Underrun
  <2>1. InUse' = {}
    BY <1>4 DEF Underrun, InUse
  <2>2. n' = 0
    BY <2>1, FS_EmptySet
  <2> QED BY <1>1, <2>2 DEF RoomLeft
<1>5. CASE WaitForFill
  <2>1. InUse' = InUse /\ blockBuf = 1
    BY <1>5 DEF WaitForFill, InUse
  <2>2. n' = n /\ n <= P_CountAudioBuf - 1
    BY <2>1 DEF RoomLeft
  <2>3. blockBuf' = 1 => n <= P_CountAudioBuf - 2
    BY <1>1, <1>5 DEF WaitForFill
  <2> QED BY <1>1, <2>2, <2>3 DEF RoomLeft
<1>6. CASE Capture \/ RestartMic \/ UNCHANGED svars
  <2>1. UNCHANGED <<audioBuf, blockBuf, polled>>
    BY <1>6 DEF Capture, RestartMic, svars, vars
  <2>2. InUse' = InUse
    BY <2>1 DEF InUse
  <2> QED BY <2>1, <2>2 DEF RoomLeft
<1>7. CASE Lose
  BY <1>7 DEF Lose, Orderly
<1> QED BY <1>2, <1>3, <1>4, <1>5, <1>6, <1>7 DEF StreamNext, Poll, getBufForAllUsers

\* The network delivers the oldest packet it holds, and only once.
LEMMA DeliversOldest ==
  ASSUME Orderly, StreamIInv, NothingLost, Receive
  PROVE  /\ Len(net) > 0 /\ net[1] \in Packet /\ setAudioBuf(net[1])
         /\ net[1].count = Arrived
         /\ next' = next /\ net' \in Seq(Packet) /\ Len(net') = Len(net) - 1
         /\ \A i \in 1 .. Len(net) - 1 : net'[i] = net[i + 1]
<1>1. /\ next \in Nat /\ Len(net) \in Nat /\ DOMAIN net = 1 .. Len(net) /\ net \in Seq(Packet)
  BY StreamNumbers
<1>2. PICK i \in DOMAIN net :
        Deliverable(i) /\ setAudioBuf(net[i]) /\ net' = RemoveAt(net, i)
  BY DEF Receive, Orderly
<1>3. i = 1 /\ Len(net) > 0
  BY <1>1, <1>2 DEF Deliverable, Orderly
<1>4. /\ net' \in Seq(Packet) /\ Len(net') = Len(net) - 1
      /\ \A j \in 1 .. Len(net) - 1 : net'[j] = net[j + 1]
  <2>1. net' = RemoveAt(net, 1) /\ 1 \in 1 .. Len(net)
    BY <1>1, <1>2, <1>3
  <2>2. /\ net' \in Seq(Packet) /\ Len(net') = Len(net) - 1
        /\ \A j \in 1 .. Len(net) - 1 : net'[j] = IF j < 1 THEN net[j] ELSE net[j + 1]
    BY ONLY <1>1, <2>1, RemoveFromNet
  <2>3. \A j \in 1 .. Len(net) - 1 : ~(j < 1)
    BY <1>1
  <2> QED BY <2>2, <2>3
<1>5. net[1].count = Arrived
  BY <1>1, <1>3 DEF NothingLost, Arrived
<1>6. next' = next
  BY DEF Receive, senderVars
<1>7. net[1] \in Packet /\ setAudioBuf(net[1])
  BY <1>1, <1>2, <1>3
<1> QED BY <1>3, <1>4, <1>5, <1>6, <1>7

\* What is in flight stays the tail of what was captured.
LEMMA NothingGetsLost ==
  ASSUME Orderly, StreamIInv, NothingLost, epoch = 0, [StreamNext]_svars, epoch' = 0
  PROVE  NothingLost'
<1>1. /\ next \in Nat /\ Len(net) \in Nat /\ DOMAIN net = 1 .. Len(net) /\ net \in Seq(Packet)
  BY StreamNumbers
<1>2. CASE Capture
  <2>1. next' = next + 1 /\ net' = Append(net, [count |-> next, data |-> epoch])
    BY <1>2 DEF Capture
  <2>2. /\ Len(net') = Len(net) + 1 /\ DOMAIN net' = 1 .. Len(net) + 1
        /\ net'[Len(net) + 1].count = next
        /\ \A i \in 1 .. Len(net) : net'[i] = net[i]
    BY <1>1, <2>1
  <2>3. Arrived' = Arrived /\ Arrived + (Len(net) + 1) - 1 = next
    BY <1>1, <2>1, <2>2 DEF Arrived
  <2>4. \A i \in 1 .. Len(net) + 1 : i \in 1 .. Len(net) \/ i = Len(net) + 1
    BY <1>1
  <2>5. \A i \in 1 .. Len(net) : net'[i].count = Arrived + i - 1
    BY <1>1, <2>2 DEF NothingLost
  <2>6. Len(net') <= next'
    BY <1>1, <2>1, <2>2 DEF NothingLost
  <2>7. \A i \in 1 .. Len(net) + 1 : net'[i].count = Arrived + i - 1
    BY <2>2, <2>3, <2>4, <2>5
  <2> QED BY <2>2, <2>3, <2>6, <2>7 DEF NothingLost
<1>3. CASE Receive
  <2>1. /\ Len(net) > 0 /\ next' = next /\ net' \in Seq(Packet) /\ Len(net') = Len(net) - 1
        /\ \A i \in 1 .. Len(net) - 1 : net'[i] = net[i + 1]
    BY <1>3, DeliversOldest
  <2>2. DOMAIN net' = 1 .. Len(net) - 1
    BY <2>1
  <2>3. Arrived' = Arrived + 1 /\ Arrived \in Int
    BY <1>1, <2>1 DEF Arrived
  <2>4. ASSUME NEW i \in 1 .. Len(net) - 1 PROVE net'[i].count = Arrived' + i - 1
    <3>1. i + 1 \in 1 .. Len(net) /\ i \in Int
      BY <1>1
    <3>2. net[i + 1].count = Arrived + (i + 1) - 1
      BY <1>1, <3>1 DEF NothingLost
    <3> QED BY <2>1, <2>3, <3>1, <3>2
  <2> QED BY <1>1, <2>1, <2>2, <2>4 DEF NothingLost
<1>4. CASE RestartMic
  BY <1>4, StreamAssumption DEF RestartMic
<1>5. CASE Poll \/ UNCHANGED svars
  BY <1>5 DEF Poll, svars, senderVars, NothingLost, Arrived
<1>6. CASE Lose
  BY <1>6 DEF Lose, Orderly
<1> QED BY <1>2, <1>3, <1>4, <1>5, <1>6 DEF StreamNext

\* What arrives is the packet after the newest, it is not in the slots, and a slot
\* is free for it: it is stored.  Only number 0 is dropped, as too old.
LEMMA ArrivalIsStored ==
  ASSUME Orderly, StreamIInv, RoomLeft, NothingLost, NoGap, Receive
  PROVE  IF Arrived = 0 THEN DropPacket(net[1]) ELSE StorePacket(net[1])
<1>1. /\ next \in Nat /\ Len(net) \in Nat /\ lastBufCount \in Nat /\ ResetGap \in Nat
      /\ Cardinality(InUse) \in Nat /\ P_CountAudioBuf \in Nat
      /\ \A i \in InUse : audioBuf[i].count \in Nat
  BY StreamNumbers
<1>2. /\ Len(net) > 0 /\ net[1] \in Packet /\ setAudioBuf(net[1]) /\ net[1].count = Arrived
  BY DeliversOldest
<1>3. Arrived \in Nat
  BY <1>1 DEF Arrived, NothingLost
<1>4. CASE Arrived = 0
  <2>1. lastBufCount = 0
    BY <1>1, <1>4 DEF NoGap, Newest
  <2>2. ~StorePacket(net[1]) /\ ~RestartStream(net[1])
    BY <1>1, <1>2, <1>4, <2>1 DEF StorePacket, RestartStream
  <2> QED BY <1>2, <1>4, <2>2 DEF setAudioBuf
<1>5. CASE Arrived # 0
  <2>1. Newest = Arrived - 1
    BY <1>5 DEF Newest
  <2>2. net[1].count > lastBufCount /\ \A i \in InUse : audioBuf[i].count # net[1].count
    BY <1>1, <1>2, <1>3, <2>1 DEF NoGap
  <2>3. InUse # Slot
    <3>1. Cardinality(InUse) <= P_CountAudioBuf - 1
      BY DEF RoomLeft, Receive, Orderly
    <3>2. Cardinality(Slot) = P_CountAudioBuf
      BY FS_Interval, BufAssumption DEF Slot
    <3> QED BY <1>1, <3>1, <3>2
  <2>4. ~DropPacket(net[1]) /\ ~RestartStream(net[1])
    BY <1>1, <1>2, <1>3, <2>2, <2>3 DEF DropPacket, RestartStream, isPacketInBuffers
  <2> QED BY <1>2, <1>5, <2>4 DEF setAudioBuf
<1> QED BY <1>4, <1>5

\* The packet played is the one after the last.
LEMMA PlaysTheNext ==
  ASSUME StreamIInv, NoGap, Arrived \in Nat, PlayOldest
  PROVE  \E k \in InUse :
           /\ audioBuf[k].count = lastBufCount + 1
           /\ out'.count = lastBufCount + 1 /\ lastBufCount' = lastBufCount + 1
           /\ InUse' = InUse \ {k}
           /\ \A i \in Slot \ {k} : audioBuf'[i] = audioBuf[i]
<1>1. /\ lastBufCount \in Nat
      /\ \A i \in InUse : audioBuf[i].count \in Nat /\ audioBuf[i].count > lastBufCount
  BY StreamNumbers
<1>2. PICK k \in InUse :
        /\ InUse' = InUse \ {k}
        /\ lastBufCount' = audioBuf[k].count
        /\ out' = [count |-> audioBuf[k].count, data |-> audioBuf[k].bufData]
        /\ \A j \in InUse : audioBuf[k].count <= audioBuf[j].count
        /\ \A i \in Slot \ {k} : audioBuf'[i] = audioBuf[i]
  BY PlayEffect DEF StreamIInv, IInv
<1>3. Newest \in Nat
  BY DEF Newest
<1>4. lastBufCount + 1 \in lastBufCount + 1 .. Newest
  BY <1>1, <1>3 DEF NoGap
<1>5. PICK j \in InUse : audioBuf[j].count = lastBufCount + 1
  BY <1>4 DEF NoGap
<1>6. audioBuf[k].count = lastBufCount + 1
  BY <1>1, <1>2, <1>5
<1> QED BY <1>2, <1>6

\* What waits stays all that has arrived since the last packet played.
LEMMA NoGapOpens ==
  ASSUME Orderly, StreamIInv, RoomLeft, NothingLost, NoGap,
         epoch = 0, [StreamNext]_svars, epoch' = 0
  PROVE  NoGap'
<1>1. /\ next \in Nat /\ Len(net) \in Nat /\ lastBufCount \in Nat
      /\ \A i \in InUse : audioBuf[i].count \in Nat /\ audioBuf[i].count > lastBufCount
  BY StreamNumbers
<1>2. Arrived \in Nat /\ Newest \in Nat
  BY <1>1 DEF Arrived, Newest, NothingLost
<1>3. CASE Receive
  <2>1. net[1] \in Packet /\ net[1].count = Arrived /\ Arrived' = Arrived + 1
    <3>1. /\ net[1] \in Packet /\ net[1].count = Arrived
          /\ next' = next /\ Len(net') = Len(net) - 1
      BY <1>3, DeliversOldest
    <3>2. Arrived' = Arrived + 1
      BY <1>1, <3>1 DEF Arrived
    <3> QED BY <3>1, <3>2
  <2>2. Newest' = Arrived
    BY <1>2, <2>1 DEF Newest
  <2>3. CASE Arrived = 0
    <3>1. UNCHANGED <<audioBuf, lastBufCount>> /\ InUse' = InUse
      BY <1>3, <2>3, ArrivalIsStored DEF DropPacket, vars, InUse
    <3>2. Newest' = Newest
      BY <2>2, <2>3 DEF Newest
    <3> QED BY <3>1, <3>2 DEF NoGap
  <2>4. CASE Arrived # 0
    <3>1. StorePacket(net[1])
      BY <1>3, <2>4, ArrivalIsStored
    <3>2. PICK k \in Slot :
            /\ k \notin InUse
            /\ InUse' = InUse \cup {k}
            /\ audioBuf'[k] = [use |-> 1, count |-> net[1].count, bufData |-> net[1].data]
            /\ \A i \in Slot \ {k} : audioBuf'[i] = audioBuf[i]
      BY <2>1, <3>1, StoreEffect DEF StreamIInv, IInv
    <3>3. lastBufCount' = lastBufCount
      BY <3>1 DEF StorePacket
    <3>4. audioBuf'[k].count = Arrived
      BY <2>1, <3>2
    <3>5. \A i \in InUse : i # k /\ audioBuf'[i] = audioBuf[i]
      BY <3>2 DEF InUse
    <3>6. Newest = Arrived - 1
      BY <2>4 DEF Newest
    <3>7. lastBufCount' <= Newest'
      BY <1>1, <1>2, <2>2, <3>3, <3>6 DEF NoGap
    <3>8. \A i \in InUse' : audioBuf'[i].count <= Newest'
      BY <1>1, <1>2, <2>2, <3>2, <3>4, <3>5, <3>6 DEF NoGap
    <3>9. ASSUME NEW c \in lastBufCount' + 1 .. Newest'
          PROVE  \E i \in InUse' : audioBuf'[i].count = c
      <4>1. CASE c = Arrived
        BY <3>2, <3>4, <4>1
      <4>2. CASE c # Arrived
        <5>1. c \in lastBufCount + 1 .. Newest
          BY <1>1, <1>2, <2>2, <3>3, <3>6, <4>2
        <5>2. PICK i \in InUse : audioBuf[i].count = c
          BY <5>1 DEF NoGap
        <5> QED BY <3>2, <3>5, <5>2
      <4> QED BY <4>1, <4>2
    <3> QED BY <3>7, <3>8, <3>9 DEF NoGap
  <2> QED BY <2>3, <2>4
<1>4. CASE Poll
  <2>1. Newest' = Newest
    BY <1>4 DEF Poll, senderVars, Newest, Arrived
  <2>2. CASE PlayOldest
    <3>1. PICK k \in InUse :
            /\ audioBuf[k].count = lastBufCount + 1 /\ lastBufCount' = lastBufCount + 1
            /\ InUse' = InUse \ {k}
            /\ \A i \in Slot \ {k} : audioBuf'[i] = audioBuf[i]
      BY <1>2, <2>2, PlaysTheNext
    <3>2. \A i \in InUse : i # k => i \in InUse' /\ audioBuf'[i] = audioBuf[i]
      BY <3>1 DEF InUse
    <3>3. lastBufCount' <= Newest'
      BY <1>1, <1>2, <2>1, <3>1 DEF NoGap
    <3>4. \A i \in InUse' : audioBuf'[i].count <= Newest'
      BY <2>1, <3>1, <3>2 DEF NoGap
    <3>5. ASSUME NEW c \in lastBufCount' + 1 .. Newest'
          PROVE  \E i \in InUse' : audioBuf'[i].count = c
      <4>1. c \in lastBufCount + 1 .. Newest /\ c # lastBufCount + 1
        BY <1>1, <1>2, <2>1, <3>1
      <4>2. PICK i \in InUse : audioBuf[i].count = c
        BY <4>1 DEF NoGap
      <4> QED BY <3>1, <3>2, <4>1, <4>2
    <3> QED BY <3>3, <3>4, <3>5 DEF NoGap
  <2>3. CASE Underrun \/ WaitForFill
    <3>1. UNCHANGED <<audioBuf, lastBufCount>> /\ InUse' = InUse
      BY <2>3 DEF Underrun, WaitForFill, InUse
    <3> QED BY <2>1, <3>1 DEF NoGap
  <2> QED BY <1>4, <2>2, <2>3 DEF Poll, getBufForAllUsers
<1>5. CASE Capture
  <2>1. UNCHANGED <<audioBuf, lastBufCount>> /\ InUse' = InUse
    BY <1>5 DEF Capture, vars, InUse
  <2>2. next' = next + 1 /\ Len(net') = Len(net) + 1
    BY <1>5, StreamNumbers DEF Capture
  <2>3. Newest' = Newest
    BY <1>1, <2>2 DEF Newest, Arrived
  <2> QED BY <2>1, <2>3 DEF NoGap
<1>6. CASE RestartMic
  BY <1>6, StreamAssumption DEF RestartMic
<1>7. CASE UNCHANGED svars
  <2>1. UNCHANGED <<audioBuf, lastBufCount, next, net>> /\ InUse' = InUse
    BY <1>7 DEF svars, senderVars, vars, InUse
  <2> QED BY <2>1 DEF NoGap, Newest, Arrived
<1>8. CASE Lose
  BY <1>8 DEF Lose, Orderly
<1> QED BY <1>3, <1>4, <1>5, <1>6, <1>7, <1>8 DEF StreamNext

\* At the start nothing has arrived and nothing is missing.
LEMMA GapInit == Orderly /\ StreamInit => GapIInv
<1> SUFFICES ASSUME Orderly, StreamInit PROVE GapIInv
  OBVIOUS
<1>1. InUse = {} /\ lastBufCount = 0 /\ next = 0 /\ Len(net) = 0 /\ DOMAIN net = {}
  BY DEF StreamInit, Init, InUse
<1>2. Cardinality(InUse) = 0
  BY <1>1, FS_EmptySet
<1>3. RoomLeft
  <2>1. 0 <= P_CountAudioBuf - 1 /\ 0 <= P_CountAudioBuf - 2
    BY BufAssumption DEF Orderly
  <2>2. /\ Cardinality(InUse) <= P_CountAudioBuf - 1
        /\ Cardinality(InUse) <= P_CountAudioBuf - 2
    BY <1>2, <2>1
  <2> QED BY <2>2 DEF RoomLeft
<1>4. Arrived = 0 /\ Newest = 0
  BY <1>1 DEF Arrived, Newest
<1>5. NothingLost /\ NoGap
  BY <1>1, <1>4 DEF NothingLost, NoGap
<1> QED BY <1>3, <1>5, StreamInitIInv DEF GapIInv

\* Every step on an orderly network keeps the invariant.
LEMMA GapNext == Orderly /\ GapIInv /\ [StreamNext]_svars => GapIInv'
<1> SUFFICES ASSUME Orderly, GapIInv, [StreamNext]_svars PROVE GapIInv'
  OBVIOUS
<1>1. StreamIInv' /\ RoomLeft'
  BY StreamNextIInv, RoomLeftNext DEF GapIInv
<1>2. ASSUME epoch' = 0 PROVE NothingLost' /\ NoGap'
  <2>1. epoch = 0
    BY <1>2, FirstRunBefore DEF GapIInv, StreamIInv
  <2> QED BY <1>2, <2>1, NothingGetsLost, NoGapOpens DEF GapIInv
<1> QED BY <1>1, <1>2 DEF GapIInv

\* On an orderly network with playback as fast as arrival, and until the
\* microphone is started again, getBufForAllUsers always plays the packet after
\* the last one: no packet finds the slots full, and none is missing or too late.
THEOREM PlaybackHasNoGaps ==
  ASSUME Orderly
  PROVE  StreamSpec => Gapless
<1>1. StreamInit => GapIInv
  BY GapInit
<1>2. GapIInv /\ [StreamNext]_svars => GapIInv'
  BY GapNext
<1>3. GapIInv /\ [StreamNext]_svars
        => [PlayOldest /\ epoch = 0 => out'.count = lastBufCount + 1]_svars
  <2> SUFFICES ASSUME GapIInv, PlayOldest, epoch = 0
               PROVE  out'.count = lastBufCount + 1
    OBVIOUS
  <2>1. Arrived \in Nat
    BY StreamNumbers DEF GapIInv, NothingLost, Arrived
  <2> QED BY <2>1, PlaysTheNext DEF GapIInv
<1> QED BY <1>1, <1>2, <1>3, PTL DEF StreamSpec, Gapless
=============================================================================
