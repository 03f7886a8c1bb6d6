-------------------------- MODULE AudioRingsProofs --------------------------
(***************************************************************************)
(* The rings of playback and capture, for any number of buffers, any       *)
(* number of periods and callbacks that lag however they like.             *)
(*                                                                         *)
(* Counting back from the index the next buffer is given at, the buffers   *)
(* of the ring are: those the device has, then those whose callback is     *)
(* still to come.  There is always one more, and that is the one a         *)
(* callback works on.  What each of them holds follows from its distance.  *)
(***************************************************************************)
EXTENDS AudioRings, Integers, TLAPS

\* The buffer k places before b in the ring.
Back(b, k) == IF b >= k THEN b - k ELSE b - k + NUMBER_BUFFERS

AtLeast0(x) == IF x < 0 THEN 0 ELSE x
One(flag) == IF flag THEN 1 ELSE 0

-----------------------------------------------------------------------------
(* Playback. *)

PlayTypeOK ==
  /\ pstage \in {"engine", "mix", "player", "enqueue", "playing", "stopped", "done"}
  /\ read \in Ring
  /\ buffers \in [Ring -> Nat]
  /\ pqueue \in Seq(Ring)
  /\ pcalls \in Nat
  /\ filling \in BOOLEAN
  /\ filled \in Nat
  /\ heard \in Nat \X Nat

\* One buffer is always kept back.
PlayRoom == Len(pqueue) + pcalls <= NUMBER_BUFFERS - 1

PlayNothingYet ==
  pstage \in {"engine", "mix", "player", "enqueue"} => pcalls = 0 /\ ~filling /\ filled = 0

\* The device has the buffers before read, oldest first.
PlayQueueIsArc ==
  \A i \in 1..Len(pqueue) : pqueue[i] = Back(read, Len(pqueue) + 1 - i)

\* The buffers hold the last periods that were filled, or silence; not the one that
\* is being filled.
BuffersHold ==
  \A k \in 0..NUMBER_BUFFERS - 1 :
    k > 0 \/ ~filling => buffers[Back(read, k)] = AtLeast0(filled + One(filling) - k)

\* What was heard last is the period before the oldest that the device still has.
HeardUpTo ==
  /\ heard[2] = AtLeast0(filled + One(filling) - Len(pqueue) - 1)
  /\ heard[1] = AtLeast0(filled + One(filling) - Len(pqueue) - 2)

PlayObjects == pstage = "done" => pobjects = {}

PlayIInv ==
  /\ PlayTypeOK /\ PlayRoom /\ PlayNothingYet
  /\ PlayQueueIsArc /\ BuffersHold /\ HeardUpTo /\ PlayObjects

-----------------------------------------------------------------------------
(* Capture. *)

RecTypeOK ==
  /\ rstage \in {"engine", "data", "recorder", "realize", "register", "enqueue", "recording",
                 "stopped", "done"}
  /\ registered \in BOOLEAN
  /\ slot \in [Ring -> Nat]
  /\ take \in Ring /\ put \in Ring
  /\ rqueue \in Seq(Ring)
  /\ rcalls \in Nat
  /\ encoding \in BOOLEAN
  /\ recorded \in Nat /\ count \in Nat
  /\ sent \in Nat \X Nat

RecRoom == Len(rqueue) + rcalls <= NUMBER_BUFFERS - 1

RecNothingYet ==
  rstage \notin {"recording", "stopped", "done"} => rcalls = 0 /\ ~encoding

\* The device has the buffers before put, and put itself while a callback encodes.
RecQueueIsArc ==
  \A i \in 1..Len(rqueue) : rqueue[i] = Back(put, Len(rqueue) + 1 - i - One(encoding))

\* take is the oldest buffer that was recorded and not sent: behind those the device has.
TakeIsOldest == take = Back(put, Len(rqueue) + rcalls)

\* The buffers from take on hold the periods that are recorded and not sent, in order.
SlotsHold ==
  /\ recorded = count + rcalls + One(encoding)
  /\ \A j \in 0..rcalls + One(encoding) - 1 :
       slot[Back(put, Len(rqueue) + rcalls - j)] = count + 1 + j

RecObjects ==
  /\ rstage \in {"engine", "data", "recorder", "realize", "register"} => ~registered
  /\ robjects = CASE rstage = "engine" -> {}
                  [] rstage = "data" -> {"engine"}
                  [] rstage = "recorder" -> {"engine", "data"}
                  [] rstage = "done" -> robjects
                  [] OTHER -> {"engine", "data", "recorder"}
  /\ rstage = "done" => robjects \subseteq {"recorder"} /\ (registered => robjects = {})

RecIInv ==
  /\ RecTypeOK /\ RecRoom /\ RecNothingYet
  /\ RecQueueIsArc /\ TakeIsOldest /\ SlotsHold /\ SentInOrder /\ RecObjects

RingsIInv == PlayIInv /\ RecIInv

-----------------------------------------------------------------------------
(* Going back in the ring. *)

USE RingAssumption DEF Ring

\* Both rings have the same successor.
LEMMA NextIsIn ==
  ASSUME NEW b \in Ring
  PROVE  nextBuff(b) \in Ring /\ nextBuffOut(b) = nextBuff(b)
BY DEF nextBuff, nextBuffOut

LEMMA BackIsIn ==
  ASSUME NEW b \in Ring, NEW k \in 0..NUMBER_BUFFERS - 1
  PROVE  Back(b, k) \in Ring
BY DEF Back

\* Different distances lead to different buffers.
LEMMA BackDiffers ==
  ASSUME NEW b \in Ring, NEW k \in 0..NUMBER_BUFFERS - 1, NEW l \in 0..NUMBER_BUFFERS - 1,
         Back(b, k) = Back(b, l)
  PROVE  k = l
BY DEF Back

\* One place further on, every distance is one more.
LEMMA BackFromNext ==
  ASSUME NEW b \in Ring, NEW k \in 1..NUMBER_BUFFERS - 1
  PROVE  Back(nextBuff(b), k) = Back(b, k - 1)
BY DEF Back, nextBuff

\* The next buffer is the one furthest back.
LEMMA NextIsFurthest ==
  ASSUME NEW b \in Ring
  PROVE  nextBuff(b) = Back(b, NUMBER_BUFFERS - 1) /\ Back(b, 0) = b
BY DEF Back, nextBuff

-----------------------------------------------------------------------------
(* Playback keeps its invariant. *)

LEMMA PlayStarts == PlayInit => PlayIInv
<1> SUFFICES ASSUME PlayInit PROVE PlayIInv
  OBVIOUS
<1> USE DEF PlayInit
<1>1. heard \in Nat \X Nat /\ heard[1] = 0 /\ heard[2] = 0
  OBVIOUS
<1>2. pqueue \in Seq(Ring) /\ Len(pqueue) = 0
  OBVIOUS
<1>3. PlayTypeOK
  <2>1. read \in Ring /\ buffers \in [Ring -> Nat]
    OBVIOUS
  <2> QED BY <1>1, <1>2, <2>1 DEF PlayTypeOK
<1>4. PlayRoom /\ PlayNothingYet /\ PlayQueueIsArc /\ PlayObjects
  BY <1>2 DEF PlayRoom, PlayNothingYet, PlayQueueIsArc, PlayObjects
<1>5. HeardUpTo
  BY <1>1, <1>2 DEF HeardUpTo, AtLeast0, One
<1>6. BuffersHold
  BY BackIsIn DEF BuffersHold, AtLeast0, One
<1> QED BY <1>3, <1>4, <1>5, <1>6 DEF PlayIInv

\* The device takes the first buffer of its queue.
LEMMA DevicePlaysKept ==
  ASSUME PlayIInv, DevicePlays
  PROVE  PlayIInv'
<1> USE DEF PlayIInv, PlayTypeOK, DevicePlays
<1>1. /\ Len(pqueue) \in Nat /\ Len(pqueue) > 0 /\ Len(pqueue') = Len(pqueue) - 1
      /\ pqueue' \in Seq(Ring)
      /\ \A i \in 1..Len(pqueue') : pqueue'[i] = pqueue[i + 1]
      /\ Head(pqueue) = pqueue[1]
  OBVIOUS
<1>2. Head(pqueue) = Back(read, Len(pqueue)) /\ Len(pqueue) \in 1..NUMBER_BUFFERS - 1
  BY <1>1 DEF PlayQueueIsArc, PlayRoom
<1>3. buffers[Head(pqueue)] = AtLeast0(filled + One(filling) - Len(pqueue))
  BY <1>2 DEF BuffersHold
<1>4. buffers[Head(pqueue)] \in Nat
  <2>1. Back(read, Len(pqueue)) \in Ring
    <3>1. read \in Ring /\ Len(pqueue) \in 0..NUMBER_BUFFERS - 1
      BY <1>2
    <3> QED BY ONLY <3>1, BackIsIn
  <2> QED BY <1>2, <2>1
<1>5. PlayTypeOK' /\ PlayRoom' /\ PlayNothingYet' /\ PlayObjects'
  BY <1>1, <1>4 DEF PlayRoom, PlayNothingYet, PlayObjects
<1>6. PlayQueueIsArc'
  BY <1>1 DEF PlayQueueIsArc
<1>7. BuffersHold'
  BY DEF BuffersHold
<1>8. HeardUpTo'
  BY <1>1, <1>3 DEF HeardUpTo, AtLeast0, One
<1> QED BY <1>5, <1>6, <1>7, <1>8

\* A queue with room takes the buffer.
LEMMA RoomIsTaken ==
  ASSUME NEW q, NEW b, Len(q) < NUMBER_BUFFERS
  PROVE  Enqueued(q, b) = Append(q, b)
BY DEF Enqueued

\* Giving the device the buffer at read: the arc grows by one, and moves on by one.
LEMMA QueueGrows ==
  ASSUME PlayIInv, pqueue' = Append(pqueue, read), read' = nextBuffOut(read),
         Len(pqueue) < NUMBER_BUFFERS - 1
  PROVE  /\ pqueue' \in Seq(Ring) /\ Len(pqueue') = Len(pqueue) + 1
         /\ read' = nextBuff(read) /\ read' \in Ring
         /\ PlayQueueIsArc'
<1> USE DEF PlayIInv, PlayTypeOK
<1>1. /\ pqueue' \in Seq(Ring) /\ Len(pqueue') = Len(pqueue) + 1 /\ Len(pqueue) \in Nat
      /\ \A i \in 1..Len(pqueue) : pqueue'[i] = pqueue[i]
      /\ pqueue'[Len(pqueue) + 1] = read
  OBVIOUS
<1>2. read' = nextBuff(read) /\ read' \in Ring
  BY NextIsIn
<1>3. ASSUME NEW i \in 1..Len(pqueue')
      PROVE  pqueue'[i] = Back(read', Len(pqueue') + 1 - i)
  <2>1. Len(pqueue') + 1 - i \in 1..NUMBER_BUFFERS - 1
    BY <1>1
  <2>2. Back(read', Len(pqueue') + 1 - i) = Back(read, Len(pqueue) + 1 - i)
    BY <1>1, <1>2, <2>1, BackFromNext
  <2>3. CASE i = Len(pqueue) + 1
    BY <1>1, <2>2, <2>3, NextIsFurthest
  <2>4. CASE i \in 1..Len(pqueue)
    BY <1>1, <2>2, <2>4 DEF PlayQueueIsArc
  <2>5. i = Len(pqueue) + 1 \/ i \in 1..Len(pqueue)
    BY <1>1
  <2> QED BY <2>3, <2>4, <2>5
<1> QED BY <1>1, <1>2, <1>3 DEF PlayQueueIsArc

\* At the start the device is given silence.
LEMMA PlayPrepareKept ==
  ASSUME PlayIInv, PlayPrepare
  PROVE  PlayIInv'
<1> USE DEF PlayIInv, PlayTypeOK, PlayPrepare
<1>1. pcalls = 0 /\ ~filling /\ filled = 0
  BY DEF PlayNothingYet
<1>2. Len(pqueue) \in Nat /\ Len(pqueue) < NUMBER_BUFFERS - 1
  BY <1>1 DEF PlayPrepared, PlayRoom
<1>3. /\ pqueue' \in Seq(Ring) /\ Len(pqueue') = Len(pqueue) + 1
      /\ read' = nextBuff(read) /\ read' \in Ring
      /\ PlayQueueIsArc'
  BY <1>2, QueueGrows
<1>4. PlayTypeOK' /\ PlayNothingYet' /\ PlayObjects'
  BY <1>1, <1>3 DEF PlayNothingYet, PlayObjects
<1>5. PlayRoom'
  BY <1>1, <1>2, <1>3 DEF PlayRoom
<1>6. HeardUpTo'
  BY <1>1, <1>2, <1>3 DEF HeardUpTo, AtLeast0, One
<1>7. ASSUME NEW k \in 0..NUMBER_BUFFERS - 1
      PROVE  buffers[Back(read', k)] = 0
  <2>1. \A l \in 0..NUMBER_BUFFERS - 1 : buffers[Back(read, l)] = 0
    BY <1>1 DEF BuffersHold, AtLeast0, One
  <2>2. CASE k = 0
    BY <1>3, <2>1, <2>2, NextIsFurthest
  <2>3. CASE k \in 1..NUMBER_BUFFERS - 1
    BY <1>3, <2>1, <2>3, BackFromNext
  <2> QED BY <2>2, <2>3
<1>8. BuffersHold'
  BY <1>1, <1>7 DEF BuffersHold, AtLeast0, One
<1> QED BY <1>3, <1>4, <1>5, <1>6, <1>8

\* The callback gives the device the buffer at read, and is to fill the next.
LEMMA RefillKept ==
  ASSUME PlayIInv, Refill
  PROVE  PlayIInv'
<1> USE DEF PlayIInv, PlayTypeOK, Refill
<1>1. Len(pqueue) \in Nat /\ Len(pqueue) < NUMBER_BUFFERS - 1
  BY DEF PlayRoom
<1> pqueue' = Append(pqueue, read)
  BY <1>1, RoomIsTaken
<1>2. /\ pqueue' \in Seq(Ring) /\ Len(pqueue') = Len(pqueue) + 1
      /\ read' = nextBuff(read) /\ read' \in Ring
      /\ PlayQueueIsArc'
  BY <1>1, QueueGrows
<1>3. PlayTypeOK' /\ PlayNothingYet' /\ PlayObjects'
  BY <1>2 DEF PlayNothingYet, PlayObjects
<1>4. PlayRoom'
  BY <1>1, <1>2 DEF PlayRoom
<1>5. HeardUpTo'
  BY <1>1, <1>2 DEF HeardUpTo, AtLeast0, One
<1>6. ASSUME NEW k \in 1..NUMBER_BUFFERS - 1
      PROVE  buffers'[Back(read', k)] = AtLeast0(filled' + One(filling') - k)
  <2>1. Back(read', k) = Back(read, k - 1) /\ k - 1 \in 0..NUMBER_BUFFERS - 1
    BY <1>2, BackFromNext
  <2>2. buffers[Back(read, k - 1)] = AtLeast0(filled + One(filling) - (k - 1))
    BY <2>1 DEF BuffersHold
  <2>3. filled' + One(filling') - k = filled + One(filling) - (k - 1)
    BY DEF One
  <2> QED BY <2>1, <2>2, <2>3
<1>7. BuffersHold'
  <2> SUFFICES ASSUME NEW k \in 0..NUMBER_BUFFERS - 1, k > 0
               PROVE  buffers'[Back(read', k)] = AtLeast0(filled' + One(filling') - k)
    BY DEF BuffersHold
  <2>1. k \in 1..NUMBER_BUFFERS - 1
    OBVIOUS
  <2> QED BY <1>6, <2>1
<1> QED BY <1>2, <1>3, <1>4, <1>5, <1>7

\* The buffer at read is filled; it is none of the others.
LEMMA RefilledKept ==
  ASSUME PlayIInv, Refilled
  PROVE  PlayIInv'
<1> USE DEF PlayIInv, PlayTypeOK, Refilled
<1>1. PlayTypeOK' /\ PlayObjects' /\ PlayRoom' /\ PlayQueueIsArc'
  <2>1. PlayTypeOK'
    <3>1. buffers' \in [Ring -> Nat] /\ filled' \in Nat
      OBVIOUS
    <3> QED BY <3>1
  <2>2. PlayObjects' /\ PlayRoom' /\ PlayQueueIsArc'
    BY DEF PlayObjects, PlayRoom, PlayQueueIsArc
  <2> QED BY <2>1, <2>2
<1>2. PlayNothingYet'
  BY DEF PlayNothingYet
<1>3. HeardUpTo'
  BY DEF HeardUpTo, AtLeast0, One
<1>4. ASSUME NEW k \in 0..NUMBER_BUFFERS - 1
      PROVE  buffers'[Back(read, k)] = AtLeast0(filled' + One(filling') - k)
  <2>1. Back(read, 0) = read
    BY NextIsFurthest
  <2>2. CASE k = 0
    BY <2>1, <2>2 DEF AtLeast0, One
  <2>3. CASE k > 0
    <3>1. Back(read, k) # Back(read, 0)
      BY <2>3, BackDiffers
    <3>2. buffers'[Back(read, k)] = buffers[Back(read, k)]
      BY <2>1, <3>1, BackIsIn
    <3>3. buffers[Back(read, k)] = AtLeast0(filled + One(filling) - k)
      BY <2>3 DEF BuffersHold
    <3>4. filled' + One(filling') - k = filled + One(filling) - k
      BY DEF One
    <3> QED BY <3>2, <3>3, <3>4
  <2> QED BY <2>2, <2>3
<1>5. BuffersHold'
  BY <1>4 DEF BuffersHold
<1> QED BY <1>1, <1>2, <1>3, <1>5

\* Making and destroying the objects leaves the ring alone.
LEMMA RingUntouched ==
  ASSUME PlayIInv, UnchangedRing, PlayNothingYet', PlayObjects',
         pstage' \in {"engine", "mix", "player", "enqueue", "playing", "stopped", "done"}
  PROVE  PlayIInv'
BY DEF PlayIInv, UnchangedRing, PlayTypeOK, PlayRoom, PlayQueueIsArc, BuffersHold, HeardUpTo

LEMMA PlayStepKept ==
  ASSUME PlayIInv, [PlayNext]_playvars
  PROVE  PlayIInv'
<1> USE DEF PlayIInv, PlayNothingYet, PlayObjects, UnchangedRing
<1>1. CASE PlayMake
  BY <1>1, RingUntouched DEF PlayMake
<1>2. CASE PlayMakeFails
  BY <1>2, RingUntouched DEF PlayMakeFails
<1>3. CASE PlayPrepare
  BY <1>3, PlayPrepareKept
<1>4. CASE PlayStart
  BY <1>4, RingUntouched DEF PlayStart
<1>5. CASE DevicePlays
  BY <1>5, DevicePlaysKept
<1>6. CASE Refill
  BY <1>6, RefillKept
<1>7. CASE Refilled
  BY <1>7, RefilledKept
<1>8. CASE PlayStop
  BY <1>8, RingUntouched DEF PlayStop
<1>9. CASE PlayClose
  BY <1>9, RingUntouched DEF PlayClose
<1>10. CASE UNCHANGED playvars
  BY <1>10, RingUntouched DEF playvars, PlayTypeOK
<1> QED BY <1>1, <1>2, <1>3, <1>4, <1>5, <1>6, <1>7, <1>8, <1>9, <1>10 DEF PlayNext

-----------------------------------------------------------------------------
(* Capture keeps its invariant. *)

LEMMA NextOfBack ==
  ASSUME NEW b \in Ring, NEW k \in 0..NUMBER_BUFFERS - 1
  PROVE  Back(nextBuff(b), k) = nextBuff(Back(b, k))
BY DEF Back, nextBuff

LEMMA RecStarts == RecInit => RecIInv
<1> SUFFICES ASSUME RecInit PROVE RecIInv
  OBVIOUS
<1> USE DEF RecInit
<1>1. rqueue \in Seq(Ring) /\ Len(rqueue) = 0
  OBVIOUS
<1>2. sent \in Nat \X Nat /\ SentInOrder
  BY DEF SentInOrder
<1>3. slot \in [Ring -> Nat] /\ take \in Ring /\ put \in Ring
  OBVIOUS
<1>4. RecTypeOK
  BY <1>1, <1>2, <1>3 DEF RecTypeOK
<1>5. RecRoom /\ RecNothingYet /\ RecQueueIsArc /\ SlotsHold
  BY <1>1 DEF RecRoom, RecNothingYet, RecQueueIsArc, SlotsHold, One
<1>6. TakeIsOldest
  BY <1>1, <1>3, NextIsFurthest DEF TakeIsOldest
<1>7. RecObjects
  BY DEF RecObjects
<1> QED BY <1>2, <1>4, <1>5, <1>6, <1>7 DEF RecIInv

\* At the start the device is given the buffers of an empty ring.
LEMMA RecPrepareKept ==
  ASSUME RecIInv, RecPrepare
  PROVE  RecIInv'
<1> USE DEF RecIInv, RecTypeOK, RecPrepare
<1>1. rcalls = 0 /\ ~encoding
  BY DEF RecNothingYet
<1>2. Len(rqueue) \in Nat /\ Len(rqueue) < NUMBER_BUFFERS - 1
  BY <1>1 DEF RecPrepared, RecRoom
<1>3. /\ rqueue' \in Seq(Ring) /\ Len(rqueue') = Len(rqueue) + 1
      /\ \A i \in 1..Len(rqueue) : rqueue'[i] = rqueue[i]
      /\ rqueue'[Len(rqueue) + 1] = put
  BY <1>2
<1>4. put' = nextBuff(put) /\ put' \in Ring /\ Back(put, 0) = put
  BY NextIsIn, NextIsFurthest
<1>5. RecTypeOK'
  BY <1>3, <1>4
<1>6. RecRoom' /\ RecNothingYet' /\ SentInOrder' /\ RecObjects'
  BY <1>1, <1>2, <1>3 DEF RecRoom, RecNothingYet, SentInOrder, RecObjects
<1>7. RecQueueIsArc'
  <2> SUFFICES ASSUME NEW i \in 1..Len(rqueue')
               PROVE  rqueue'[i] = Back(put', Len(rqueue') + 1 - i)
    <3>1. \A i \in 1..Len(rqueue') : Len(rqueue') + 1 - i - One(encoding') = Len(rqueue') + 1 - i
      BY <1>1, <1>2, <1>3 DEF One
    <3> QED BY <3>1 DEF RecQueueIsArc
  <2>1. Len(rqueue') + 1 - i \in 1..NUMBER_BUFFERS - 1
    BY <1>2, <1>3
  <2>2. Back(put', Len(rqueue') + 1 - i) = Back(put, Len(rqueue) + 1 - i)
    BY <1>2, <1>3, <1>4, <2>1, BackFromNext
  <2>3. CASE i = Len(rqueue) + 1
    BY <1>2, <1>3, <1>4, <2>2, <2>3
  <2>4. CASE i \in 1..Len(rqueue)
    BY <1>1, <1>2, <1>3, <2>2, <2>4 DEF RecQueueIsArc, One
  <2>5. i = Len(rqueue) + 1 \/ i \in 1..Len(rqueue)
    BY <1>2, <1>3
  <2> QED BY <2>3, <2>4, <2>5
<1>8. TakeIsOldest'
  <2>1. Len(rqueue) + 1 \in 1..NUMBER_BUFFERS - 1
    BY <1>2
  <2>2. Back(put', Len(rqueue) + 1) = Back(put, Len(rqueue))
    BY <1>2, <1>4, <2>1, BackFromNext
  <2> QED BY <1>1, <1>2, <1>3, <2>2 DEF TakeIsOldest
<1>9. SlotsHold'
  BY <1>1 DEF SlotsHold, One
<1> QED BY <1>5, <1>6, <1>7, <1>8, <1>9

\* The device records the next period into the first buffer it was given, which is
\* none of those that wait to be sent.
LEMMA DeviceRecordsKept ==
  ASSUME RecIInv, DeviceRecords
  PROVE  RecIInv'
<1> DEFINE q == Len(rqueue)
           e == One(encoding)
<1> USE DEF RecIInv, RecTypeOK, DeviceRecords
<1>1. /\ q \in Nat /\ q > 0 /\ Len(rqueue') = q - 1
      /\ rqueue' \in Seq(Ring)
      /\ \A i \in 1..Len(rqueue') : rqueue'[i] = rqueue[i + 1]
      /\ Head(rqueue) = rqueue[1]
  OBVIOUS
<1>2. e \in 0..1 /\ One(encoding') = e
  BY DEF One
<1>3. Head(rqueue) = Back(put, q - e) /\ q - e \in 0..NUMBER_BUFFERS - 1
  BY <1>1, <1>2 DEF RecQueueIsArc, RecRoom
<1>4. Head(rqueue) \in Ring
  <2>1. put \in Ring
    OBVIOUS
  <2> QED BY ONLY <1>3, <2>1, BackIsIn
<1>5. RecTypeOK'
  <2>1. slot' \in [Ring -> Nat] /\ recorded' \in Nat /\ rcalls' \in Nat
    OBVIOUS
  <2> QED BY <1>1, <2>1
<1>6. RecRoom' /\ RecNothingYet' /\ SentInOrder' /\ RecObjects'
  BY <1>1 DEF RecRoom, RecNothingYet, SentInOrder, RecObjects
<1>7. RecQueueIsArc'
  <2> SUFFICES ASSUME NEW i \in 1..Len(rqueue')
               PROVE  rqueue'[i] = Back(put, Len(rqueue') + 1 - i - e)
    BY <1>2 DEF RecQueueIsArc
  <2>1. i + 1 \in 1..q /\ rqueue'[i] = rqueue[i + 1]
    BY <1>1
  <2>2. rqueue[i + 1] = Back(put, q + 1 - (i + 1) - e)
    BY <2>1 DEF RecQueueIsArc
  <2>3. q + 1 - (i + 1) - e = Len(rqueue') + 1 - i - e
    BY ONLY <1>1, <1>2, <2>1
  <2> QED BY <2>1, <2>2, <2>3
<1>8. TakeIsOldest'
  <2>1. Len(rqueue') + rcalls' = q + rcalls
    BY <1>1
  <2> QED BY <2>1 DEF TakeIsOldest
<1>9. ASSUME NEW j \in 0..rcalls + e
      PROVE  slot'[Back(put, q + rcalls - j)] = count + 1 + j
  <2>1. put \in Ring /\ q + rcalls - j \in 0..NUMBER_BUFFERS - 1
    <3>1. q + rcalls <= NUMBER_BUFFERS - 1 /\ rcalls \in Nat /\ put \in Ring
      BY DEF RecRoom
    <3> QED BY ONLY <1>1, <1>2, <3>1, RingAssumption
  <2>2. CASE j = rcalls + e
    <3>1. recorded = count + rcalls + e /\ rcalls \in Nat /\ count \in Nat
      BY DEF SlotsHold
    <3>2. q + rcalls - j = q - e /\ count + 1 + j = recorded + 1
      BY ONLY <1>1, <1>2, <2>2, <3>1
    <3> QED BY <1>3, <1>4, <3>2
  <2>3. CASE j < rcalls + e
    <3>1. j \in 0..rcalls + e - 1 /\ q + rcalls - j # q - e
      BY <1>1, <1>2, <2>3
    <3>2. Back(put, q + rcalls - j) # Head(rqueue)
      BY ONLY <1>3, <2>1, <3>1, BackDiffers
    <3>3. Back(put, q + rcalls - j) \in Ring
      BY ONLY <2>1, BackIsIn
    <3>4. slot'[Back(put, q + rcalls - j)] = slot[Back(put, q + rcalls - j)]
      BY <3>2, <3>3
    <3>5. slot[Back(put, q + rcalls - j)] = count + 1 + j
      BY <3>1 DEF SlotsHold
    <3> QED BY <3>4, <3>5
  <2> QED BY <1>2, <2>2, <2>3
<1>10. SlotsHold'
  <2>1. recorded' = count + rcalls' + e
    <3>1. /\ recorded = count + rcalls + e /\ rcalls \in Nat /\ count \in Nat
          /\ recorded' = recorded + 1 /\ rcalls' = rcalls + 1
      BY DEF SlotsHold
    <3> QED BY ONLY <1>2, <3>1
  <2>2. /\ rcalls \in Nat /\ rcalls' = rcalls + 1
        /\ q \in Nat /\ Len(rqueue') = q - 1 /\ e \in Int
    BY <1>1, <1>2
  <2>3. Len(rqueue') + rcalls' = q + rcalls /\ rcalls' + e - 1 = rcalls + e
    BY ONLY <2>2
  <2> QED BY <1>2, <1>9, <2>1, <2>3 DEF SlotsHold
<1> QED BY <1>5, <1>6, <1>7, <1>8, <1>10

\* The callback gives the device the buffer at put before it encodes the one at take.
LEMMA EncodeKept ==
  ASSUME RecIInv, Encode
  PROVE  RecIInv'
<1> USE DEF RecIInv, RecTypeOK, Encode
<1> rqueue' = Append(rqueue, put)
  <2>1. Len(rqueue) < NUMBER_BUFFERS
    BY DEF RecRoom
  <2> QED BY <2>1, RoomIsTaken
<1>1. /\ rqueue' \in Seq(Ring) /\ Len(rqueue) \in Nat /\ Len(rqueue') = Len(rqueue) + 1
      /\ \A i \in 1..Len(rqueue) : rqueue'[i] = rqueue[i]
      /\ rqueue'[Len(rqueue) + 1] = put
      /\ rcalls \in Nat \ {0} /\ rcalls' = rcalls - 1
  OBVIOUS
<1>2. One(encoding) = 0 /\ One(encoding') = 1
  BY DEF One
<1>3. Len(rqueue') + rcalls' = Len(rqueue) + rcalls
  BY ONLY <1>1
<1>4. RecTypeOK'
  BY <1>1
<1>5. RecRoom' /\ RecNothingYet' /\ SentInOrder' /\ RecObjects'
  BY <1>3 DEF RecRoom, RecNothingYet, SentInOrder, RecObjects
<1>6. RecQueueIsArc'
  <2> SUFFICES ASSUME NEW i \in 1..Len(rqueue')
               PROVE  rqueue'[i] = Back(put, Len(rqueue') + 1 - i - 1)
    BY <1>2 DEF RecQueueIsArc
  <2>1. Len(rqueue') + 1 - i - 1 = Len(rqueue) + 1 - i
    BY ONLY <1>1
  <2>2. CASE i = Len(rqueue) + 1
    BY <1>1, <2>1, <2>2, NextIsFurthest
  <2>3. CASE i \in 1..Len(rqueue)
    <3>1. Len(rqueue) + 1 - i - One(encoding) = Len(rqueue) + 1 - i
      BY ONLY <1>1, <1>2, <2>3
    <3>2. rqueue[i] = Back(put, Len(rqueue) + 1 - i - One(encoding))
      BY <2>3 DEF RecQueueIsArc
    <3> QED BY <1>1, <2>1, <2>3, <3>1, <3>2
  <2>4. i = Len(rqueue) + 1 \/ i \in 1..Len(rqueue)
    BY ONLY <1>1
  <2> QED BY <2>2, <2>3, <2>4
<1>7. TakeIsOldest'
  BY <1>3 DEF TakeIsOldest
<1>8. SlotsHold'
  <2>1. count \in Nat /\ recorded = count + rcalls + 0
    BY <1>2 DEF SlotsHold
  <2>2. recorded = count + rcalls' + 1
    BY ONLY <1>1, <2>1
  <2>3. ASSUME NEW j \in 0..rcalls - 1
        PROVE  slot[Back(put, Len(rqueue') + rcalls' - j)] = count + 1 + j
    <3>1. j \in 0..rcalls + One(encoding) - 1
      BY <1>2
    <3>2. slot[Back(put, Len(rqueue) + rcalls - j)] = count + 1 + j
      BY <3>1 DEF SlotsHold
    <3>3. Len(rqueue') + rcalls' - j = Len(rqueue) + rcalls - j
      BY <1>1
    <3> QED BY ONLY <3>2, <3>3
  <2>4. rcalls' + 1 - 1 = rcalls - 1
    BY ONLY <1>1
  <2> QED BY <2>2, <2>3, <2>4 DEF SlotsHold, One
<1> QED BY <1>4, <1>5, <1>6, <1>7, <1>8

\* What is at take is sent, and both indices move on.
LEMMA SendKept ==
  ASSUME RecIInv, Send
  PROVE  RecIInv'
<1> DEFINE q == Len(rqueue)
<1> USE DEF RecIInv, RecTypeOK, Send
<1>1. /\ q \in Nat /\ rcalls \in Nat /\ count \in Nat /\ put \in Ring
      /\ q + rcalls \in 0..NUMBER_BUFFERS - 1 /\ NUMBER_BUFFERS \in Nat
      /\ One(encoding) = 1 /\ One(encoding') = 0
  BY DEF RecRoom, One
<1>2. put' = nextBuff(put) /\ put' \in Ring /\ take' = nextBuff(take) /\ take' \in Ring
  BY NextIsIn
<1>3. ASSUME NEW k \in 1..NUMBER_BUFFERS - 1
      PROVE  Back(put', k) = Back(put, k - 1)
  BY <1>1, <1>2, BackFromNext
<1>4. ASSUME NEW j \in 0..rcalls
      PROVE  slot[Back(put, q + rcalls - j)] = count + 1 + j
  <2>1. j \in 0..rcalls + One(encoding) - 1
    BY ONLY <1>1
  <2> QED BY <2>1 DEF SlotsHold
<1>5. slot[take] = count + 1
  <2>1. 0 \in 0..rcalls /\ q + rcalls - 0 = q + rcalls /\ count + 1 + 0 = count + 1
    BY ONLY <1>1
  <2>2. slot[Back(put, q + rcalls)] = count + 1
    BY ONLY <1>4, <2>1
  <2> QED BY <2>2 DEF TakeIsOldest
<1>6. sent' \in Nat \X Nat /\ SentInOrder'
  BY <1>1, <1>5 DEF SentInOrder
<1>7. RecTypeOK'
  <2>1. count' \in Nat
    OBVIOUS
  <2>2. encoding' \in BOOLEAN
    OBVIOUS
  <2> QED BY <1>2, <1>6, <2>1, <2>2
<1>8. RecRoom' /\ RecNothingYet' /\ RecObjects'
  BY DEF RecRoom, RecNothingYet, RecObjects
<1>9. RecQueueIsArc'
  <2> SUFFICES ASSUME NEW i \in 1..q
               PROVE  rqueue[i] = Back(put', q + 1 - i - 0)
    BY <1>1 DEF RecQueueIsArc
  <2>1. /\ q + 1 - i - 0 \in 1..NUMBER_BUFFERS - 1
        /\ q + 1 - i - 0 - 1 = q + 1 - i - One(encoding)
    BY ONLY <1>1
  <2>2. rqueue[i] = Back(put, q + 1 - i - One(encoding))
    BY DEF RecQueueIsArc
  <2> QED BY ONLY <1>3, <2>1, <2>2
<1>10. TakeIsOldest'
  BY <1>1, <1>2, NextOfBack DEF TakeIsOldest
<1>11. SlotsHold'
  <2>1. recorded = count' + rcalls + One(encoding')
    <3>1. recorded = count + rcalls + One(encoding) /\ count' = count + 1
      BY DEF SlotsHold
    <3> QED BY ONLY <1>1, <3>1
  <2>2. ASSUME NEW j \in 0..rcalls - 1
        PROVE  slot[Back(put', q + rcalls - j)] = count' + 1 + j
    <3>1. /\ q + rcalls - j \in 1..NUMBER_BUFFERS - 1
          /\ q + rcalls - j - 1 = q + rcalls - (j + 1)
          /\ j + 1 \in 0..rcalls
      <4>1. q \in Nat /\ rcalls \in Nat /\ NUMBER_BUFFERS \in Nat /\ q + rcalls <= NUMBER_BUFFERS - 1
        BY <1>1
      <4> QED BY ONLY <4>1
    <3>2. Back(put', q + rcalls - j) = Back(put, q + rcalls - (j + 1))
      <4>1. Back(put', q + rcalls - j) = Back(put, q + rcalls - j - 1)
        BY <1>3, <3>1
      <4> QED BY <3>1, <4>1
    <3>3. slot[Back(put, q + rcalls - (j + 1))] = count + 1 + (j + 1)
      BY ONLY <1>4, <3>1
    <3>4. count + 1 + (j + 1) = count' + 1 + j
      BY <1>1
    <3> QED BY ONLY <3>2, <3>3, <3>4
  <2>3. rcalls + One(encoding') - 1 = rcalls - 1
    BY ONLY <1>1
  <2> QED BY <2>1, <2>2, <2>3 DEF SlotsHold
<1> QED BY <1>6, <1>7, <1>8, <1>9, <1>10, <1>11

\* Making and destroying the objects leaves the ring alone.
LEMMA TapeUntouched ==
  ASSUME RecIInv, UnchangedTape, RecNothingYet', RecObjects', registered' \in BOOLEAN,
         rstage' \in {"engine", "data", "recorder", "realize", "register", "enqueue",
                      "recording", "stopped", "done"}
  PROVE  RecIInv'
BY DEF RecIInv, UnchangedTape, RecTypeOK, RecRoom, RecQueueIsArc, TakeIsOldest, SlotsHold,
       SentInOrder

LEMMA RecStepKept ==
  ASSUME RecIInv, [RecNext]_recvars
  PROVE  RecIInv'
<1> USE DEF RecIInv, RecTypeOK, RecNothingYet, UnchangedTape
<1>1. CASE RecMake
  <2>1. RecObjects'
    BY <1>1 DEF RecMake, RecObjects
  <2> QED BY <1>1, <2>1, TapeUntouched DEF RecMake
<1>2. CASE RecMakeFails
  <2>1. RecObjects'
    BY <1>2 DEF RecMakeFails, Destroyed, RecObjects
  <2> QED BY <1>2, <2>1, TapeUntouched DEF RecMakeFails
<1>3. CASE RecPrepare
  BY <1>3, RecPrepareKept
<1>4. CASE RecStart
  <2>1. RecObjects'
    BY <1>4 DEF RecStart, RecObjects
  <2> QED BY <1>4, <2>1, TapeUntouched DEF RecStart
<1>5. CASE DeviceRecords
  BY <1>5, DeviceRecordsKept
<1>6. CASE Encode
  BY <1>6, EncodeKept
<1>7. CASE Send
  BY <1>7, SendKept
<1>8. CASE RecStop
  <2>1. RecObjects'
    BY <1>8 DEF RecStop, RecObjects
  <2> QED BY <1>8, <2>1, TapeUntouched DEF RecStop
<1>9. CASE RecClose
  <2>1. RecObjects'
    BY <1>9 DEF RecClose, Destroyed, RecObjects
  <2> QED BY <1>9, <2>1, TapeUntouched DEF RecClose
<1>10. CASE UNCHANGED recvars
  <2>1. RecObjects'
    BY <1>10 DEF recvars, RecObjects
  <2> QED BY <1>10, <2>1, TapeUntouched DEF recvars
<1> QED BY <1>1, <1>2, <1>3, <1>4, <1>5, <1>6, <1>7, <1>8, <1>9, <1>10 DEF RecNext

-----------------------------------------------------------------------------
(* What follows for the buffers. *)

\* The buffers of an arc are all different, and not the one it is counted from.
LEMMA PlayKeepsApart ==
  ASSUME PlayIInv
  PROVE  PlaySeparated
<1> USE DEF PlayIInv, PlayTypeOK
<1>1. read \in Ring /\ Len(pqueue) \in Nat /\ Len(pqueue) <= NUMBER_BUFFERS - 1
  BY DEF PlayRoom
<1>2. DOMAIN pqueue = 1..Len(pqueue)
  OBVIOUS
<1>3. ASSUME NEW i \in DOMAIN pqueue
      PROVE  /\ Len(pqueue) + 1 - i \in 1..NUMBER_BUFFERS - 1
             /\ pqueue[i] = Back(read, Len(pqueue) + 1 - i)
  <2>1. Len(pqueue) + 1 - i \in 1..NUMBER_BUFFERS - 1
    BY ONLY <1>1, <1>2, RingAssumption
  <2> QED BY <1>2, <2>1 DEF PlayQueueIsArc
<1>4. ASSUME NEW i \in DOMAIN pqueue, NEW j \in DOMAIN pqueue, pqueue[i] = pqueue[j]
      PROVE  i = j
  <2>1. ASSUME NEW l \in DOMAIN pqueue PROVE Len(pqueue) + 1 - l \in 0..NUMBER_BUFFERS - 1
    BY ONLY <1>1, <1>2, RingAssumption
  <2>2. Back(read, Len(pqueue) + 1 - i) = Back(read, Len(pqueue) + 1 - j)
    BY <1>3, <1>4
  <2>3. Len(pqueue) + 1 - i = Len(pqueue) + 1 - j
    BY ONLY <1>1, <2>1, <2>2, BackDiffers
  <2> QED BY ONLY <1>1, <1>2, <2>3
<1>5. ~Queued(read, pqueue)
  <2> SUFFICES ASSUME NEW i \in DOMAIN pqueue, pqueue[i] = read PROVE FALSE
    BY DEF Queued
  <2>1. Back(read, Len(pqueue) + 1 - i) = Back(read, 0)
    BY <1>3, NextIsFurthest
  <2>2. Len(pqueue) + 1 - i \in 0..NUMBER_BUFFERS - 1 /\ 0 \in 0..NUMBER_BUFFERS - 1
    BY <1>3
  <2>3. Len(pqueue) + 1 - i = 0
    BY ONLY <1>1, <2>1, <2>2, BackDiffers
  <2> QED BY <1>3, <2>3
<1>6. Len(pqueue) < NUMBER_BUFFERS
  BY <1>1
<1> QED BY <1>4, <1>5, <1>6 DEF PlaySeparated, Distinct

LEMMA RecKeepsApart ==
  ASSUME RecIInv
  PROVE  RecSeparated
<1> DEFINE q == Len(rqueue)
           At(i) == q + 1 - i - One(encoding)
<1> USE DEF RecIInv, RecTypeOK
<1>1. /\ put \in Ring /\ q \in Nat /\ rcalls \in Nat /\ NUMBER_BUFFERS \in Nat
      /\ q + rcalls <= NUMBER_BUFFERS - 1
  BY DEF RecRoom
<1>2. DOMAIN rqueue = 1..q
  OBVIOUS
<1>3. One(encoding) \in 0..1
  BY DEF One
<1>4. ASSUME NEW i \in DOMAIN rqueue
      PROVE  At(i) \in 0..q - One(encoding) /\ At(i) \in 0..NUMBER_BUFFERS - 1
  BY ONLY <1>1, <1>2, <1>3
<1>5. ASSUME NEW i \in DOMAIN rqueue
      PROVE  rqueue[i] = Back(put, At(i))
  BY <1>2 DEF RecQueueIsArc
<1>6. ASSUME NEW i \in DOMAIN rqueue, NEW j \in DOMAIN rqueue, rqueue[i] = rqueue[j]
      PROVE  i = j
  <2>1. Back(put, At(i)) = Back(put, At(j))
    BY <1>5, <1>6
  <2>2. At(i) = At(j)
    BY ONLY <1>1, <1>4, <2>1, BackDiffers
  <2>3. i \in Int /\ j \in Int
    BY <1>2
  <2> QED BY ONLY <1>1, <1>3, <2>2, <2>3
<1>7. ASSUME encoding, NEW i \in DOMAIN rqueue, rqueue[i] = take
      PROVE  FALSE
  <2>1. Back(put, At(i)) = Back(put, q + rcalls)
    BY <1>5, <1>7 DEF TakeIsOldest
  <2>2. q + rcalls \in 0..NUMBER_BUFFERS - 1
    BY ONLY <1>1
  <2>3. At(i) = q + rcalls
    BY ONLY <1>1, <1>4, <2>1, <2>2, BackDiffers
  <2>4. One(encoding) = 1
    BY <1>7 DEF One
  <2>5. i \in 1..q
    BY <1>2
  <2> QED BY ONLY <1>1, <2>3, <2>4, <2>5
<1>8. q < NUMBER_BUFFERS
  BY ONLY <1>1
<1> QED BY <1>6, <1>7, <1>8 DEF RecSeparated, Distinct, Queued

LEMMA RingsInvMeans ==
  RingsIInv => RingsSeparated /\ PeriodsInOrder /\ ObjectsDestroyed
<1> SUFFICES ASSUME RingsIInv PROVE RingsSeparated /\ PeriodsInOrder /\ ObjectsDestroyed
  OBVIOUS
<1> USE DEF RingsIInv
<1>1. RingsSeparated
  BY PlayKeepsApart, RecKeepsApart DEF RingsSeparated
<1>2. HeardInOrder
  <2>1. /\ heard \in Nat \X Nat
        /\ Len(pqueue) \in Nat /\ filled \in Nat /\ One(filling) \in 0..1
    BY DEF PlayIInv, PlayTypeOK, One
  <2>2. heard = <<heard[1], heard[2]>>
    BY <2>1
  <2>3. heard[2] = heard[1] + 1 \/ (heard[1] = 0 /\ heard[2] = 0)
    BY <2>1 DEF PlayIInv, HeardUpTo, AtLeast0
  <2> QED BY <2>2, <2>3 DEF HeardInOrder
<1>3. PeriodsInOrder
  BY <1>2 DEF PeriodsInOrder, RecIInv
<1>4. ObjectsDestroyed
  BY DEF ObjectsDestroyed, PlayIInv, PlayObjects, RecIInv, RecTypeOK, RecObjects
<1> QED BY <1>1, <1>3, <1>4

-----------------------------------------------------------------------------
(* The theorems. *)

\* The inductive invariant: which buffers the device has, which wait for a callback,
\* and what each of them holds.
THEOREM RingsInductiveInvariant == Spec => []RingsIInv
<1>1. Init => RingsIInv
  BY PlayStarts, RecStarts DEF Init, RingsIInv
<1>2. ASSUME RingsIInv, [Next]_vars
      PROVE  RingsIInv'
  <2>1. [PlayNext]_playvars /\ [RecNext]_recvars
    BY <1>2 DEF Next, vars
  <2> QED BY <1>2, <2>1, PlayStepKept, RecStepKept DEF RingsIInv
<1> QED BY <1>1, <1>2, PTL DEF Spec

\* No callback works on a buffer that the device has, and the device has none twice
\* (BufferQueueCallback, RecordEventCallback), for any number of buffers.
THEOREM BuffersKeptApart == Spec => []RingsSeparated
BY RingsInductiveInvariant, RingsInvMeans, PTL

\* Every period is heard once and in order, and every period is sent once, in order and
\* under the next count, however late the callbacks are.
THEOREM SoundInOrder == Spec => []PeriodsInOrder
BY RingsInductiveInvariant, RingsInvMeans, PTL

\* A thread that has ended leaves no OpenSL object but a recorder that could not be
\* realized, and no recorder that may call back outlives the callback's memory
\* (the ends of openSLPlayOpen and openSLRecOpen).
THEOREM ObjectsAreDestroyed == Spec => []ObjectsDestroyed
BY RingsInductiveInvariant, RingsInvMeans, PTL
=============================================================================
