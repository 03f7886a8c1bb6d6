----------------------------- MODULE AudioStream -----------------------------
(***************************************************************************)
(* One audio stream from end to end: the capture thread of one instance    *)
(* numbers its packets (threadinaudio.c), UDP carries them, and the peer's *)
(* playout buffer (JitterBuffer) plays them.                               *)
(*                                                                         *)
(* A capture thread that is stopped and started again counts from 0: each  *)
(* such run of the microphone is an epoch, and an epoch is the only data   *)
(* of a packet here.  The network is external; what it may do is bounded   *)
(* by the constants.                                                       *)
(***************************************************************************)
EXTENDS JitterBuffer, Sequences, SequencesExt

CONSTANTS
  MaxEpoch,      \* how often the microphone is started again
  MaxInFlight,   \* packets in the network at a time
  MaxLag,        \* how many counts a packet may be overtaken by
  Lossy,         \* whether the network loses and duplicates packets
  Paced          \* whether playback polls between any two arrivals

ASSUME StreamAssumption ==
  /\ MaxEpoch \in Nat /\ Data = 0 .. MaxEpoch
  /\ MaxInFlight \in Nat \ {0}
  /\ MaxLag \in Nat
  /\ Lossy \in BOOLEAN /\ Paced \in BOOLEAN

VARIABLES
  epoch,   \* which run of the microphone is sending
  next,    \* outPacket.count of the capture thread
  net,     \* packets in flight, in the order they were sent
  polled   \* whether playback has polled since the last packet arrived

senderVars == <<epoch, next>>
svars == <<vars, senderVars, net, polled>>

StreamTypeOK ==
  /\ TypeOK
  /\ epoch \in Data
  /\ next \in Nat
  /\ net \in Seq(Packet) /\ Len(net) <= MaxInFlight
  /\ polled \in BOOLEAN

StreamInit ==
  /\ Init
  /\ epoch = 0
  /\ next = 0
  /\ net = <<>>
  /\ polled = TRUE

-----------------------------------------------------------------------------
\* One buffer is recorded, encoded, sent, and counted.
Capture ==
  /\ next \in Counts
  /\ Len(net) < MaxInFlight
  /\ net' = Append(net, [count |-> next, data |-> epoch])
  /\ next' = next + 1
  /\ UNCHANGED <<epoch, polled, vars>>

\* StopMicThread and StartMicThread: initDataPacket sets the count to 0.
RestartMic ==
  /\ epoch < MaxEpoch
  /\ epoch' = epoch + 1
  /\ next' = 0
  /\ UNCHANGED <<net, polled, vars>>

\* A packet may overtake older ones of its stream, by MaxLag counts at most; a
\* network without lag keeps the streams in order too.
Deliverable(i) ==
  /\ MaxLag = 0 => i = 1
  /\ \A j \in 1 .. i - 1 :
       net[j].data = net[i].data => net[i].count - net[j].count <= MaxLag

\* startThreadSocket hands a packet to onReceive, which calls setAudioBuf.
Receive ==
  /\ Paced => polled
  /\ polled' = FALSE
  /\ UNCHANGED senderVars
  /\ \E i \in DOMAIN net :
       /\ Deliverable(i)
       /\ setAudioBuf(net[i])
       /\ \/ net' = RemoveAt(net, i)
          \/ Lossy /\ net' = net

Lose ==
  /\ Lossy
  /\ \E i \in DOMAIN net : net' = RemoveAt(net, i)
  /\ UNCHANGED <<vars, senderVars, polled>>

\* One turn of the playback thread's loop.
Poll ==
  /\ getBufForAllUsers
  /\ polled' = TRUE
  /\ UNCHANGED <<senderVars, net>>

StreamNext == Capture \/ RestartMic \/ Receive \/ Lose \/ Poll

\* The capture and the playback thread run on and the network delivers; nothing
\* makes the user restart the microphone or the network lose a packet.
StreamSpec ==
  /\ StreamInit
  /\ [][StreamNext]_svars
  /\ WF_svars(Capture)
  /\ WF_svars(Receive)
  /\ WF_svars(Poll)

-----------------------------------------------------------------------------
\* As long as the microphone runs, late and duplicate packets are never taken
\* for a sender that started again: playback does not go back.  The network may
\* delay a packet by as many counts as setAudioBuf tolerates.
NoFalseRestart == [][epoch = 0 => lastBufCount' >= lastBufCount]_svars

\* On an orderly network, with playback as fast as arrival, the buffer neither
\* overflows nor skips: until the microphone is started again, what is played is
\* always the packet after the last one.
Gapless == [][PlayOldest /\ epoch = 0 => out'.count = lastBufCount + 1]_svars

\* Every packet but number 0 of the first run of the microphone is played,
\* provided enough packets follow it to end the wait for the slots to fill.
EventuallyHeard ==
  \A c \in Counts :
    (c > 0 /\ epoch = 0 /\ next >= c + P_CountAudioBuf) ~> (lastBufCount >= c \/ epoch > 0)

\* After the microphone was started again its new stream is heard, although its
\* counts lie below those already played, if it is long enough: at first it may
\* have to catch up with the count played last, within ResetGap of it.
Resyncs == (epoch = MaxEpoch /\ next = 0) ~> (out # Silence /\ out.data = MaxEpoch)
=============================================================================
