----------------------------- MODULE RecordRing -----------------------------
(***************************************************************************)
(* Recording on Android (threadinaudio.c): the callback data and the       *)
(* OpenSL recorder that openSLRecOpen makes, and the ring of buffers that  *)
(* the device records into while RecordEventCallback encodes and sends     *)
(* what it has recorded.                                                   *)
(***************************************************************************)
EXTENDS BufferRing

VARIABLES
  rstage,     \* how far startThreadInAudio and openSLRecOpen are
  robjects,   \* what exists: OpenSL objects, and "data", the callback's memory
  registered, \* whether the recorder knows the callback
  slot,       \* Data->Buffers
  take,       \* Data->read
  put,        \* Data->write
  rqueue,     \* the buffers the device was given, in order
  rcalls,     \* buffers that are recorded, and whose callback is still to come
  encoding,   \* whether a callback is encoding
  recorded,   \* periods recorded
  count,      \* outPacket.count
  sent        \* the last packet sent: its count and the period it carries

recvars == <<rstage, robjects, registered, slot, take, put, rqueue, rcalls, encoding,
             recorded, count, sent>>

\* Faulty variant of nextBuff: back to the second buffer.
nextBuffWrong(now) == IF now + 1 = NUMBER_BUFFERS THEN 1 ELSE now + 1

nextBuff(now) == IF now + 1 = NUMBER_BUFFERS THEN 0 ELSE now + 1

RecInit ==
  /\ rstage = "engine"
  /\ robjects = {} /\ registered = FALSE
  /\ slot = [b \in Ring |-> 0]
  /\ take = 0 /\ put = 0
  /\ rqueue = <<>> /\ rcalls = 0
  /\ encoding = FALSE
  /\ recorded = 0 /\ count = 0
  /\ sent = <<0, 1>>

UnchangedTape ==
  UNCHANGED <<slot, take, put, rqueue, rcalls, encoding, recorded, count, sent>>

\* The engine, realized; cretaeCalbackData; the recorder; its realization and record
\* interface; the queue with its callback.
RecMake ==
  /\ rstage \in {"engine", "data", "recorder", "realize", "register"}
  /\ robjects' = IF rstage \in {"engine", "data", "recorder"}
                 THEN robjects \cup {rstage} ELSE robjects
  /\ registered' = (registered \/ rstage = "register")
  /\ rstage' = CASE rstage = "engine" -> "data"
                 [] rstage = "data" -> "recorder"
                 [] rstage = "recorder" -> "realize"
                 [] rstage = "realize" -> "register"
                 [] rstage = "register" -> "enqueue"
  /\ UnchangedTape

\* Faulty variant of Destroyed: the recorder is never destroyed.
DestroyedLess == {"engine", "data"}

\* The recorder is destroyed where its record interface was had; one that could not be
\* realized, or that refused this interface, stays.  The callback's memory is freed
\* after it, and the engine destroyed last.
Destroyed ==
  IF rstage = "realize" THEN {"engine", "data"} ELSE {"engine", "data", "recorder"}

RecMakeFails ==
  /\ rstage \in {"engine", "data", "recorder", "realize", "register", "enqueue"}
  /\ robjects' = robjects \ Destroyed
  /\ rstage' = "done"
  /\ UNCHANGED registered
  /\ UnchangedTape

RecPrepared == Len(rqueue) = NUMBER_BUFFERS - 1

RecPrepare ==
  /\ rstage = "enqueue" /\ ~RecPrepared
  /\ rqueue' = Append(rqueue, put)
  /\ put' = nextBuff(put)
  /\ UNCHANGED <<rstage, robjects, registered, slot, take, rcalls, encoding, recorded, count, sent>>

RecStart ==
  /\ rstage = "enqueue" /\ RecPrepared
  /\ rstage' = "recording"
  /\ UNCHANGED <<robjects, registered>>
  /\ UnchangedTape

\* The device has recorded a period into the first buffer it was given.
DeviceRecords ==
  /\ rstage = "recording" /\ rqueue # <<>> /\ recorded < MaxPeriods
  /\ recorded' = recorded + 1
  /\ slot' = [slot EXCEPT ![Head(rqueue)] = recorded + 1]
  /\ rqueue' = Tail(rqueue)
  /\ rcalls' = rcalls + 1
  /\ UNCHANGED <<rstage, robjects, registered, take, put, encoding, count, sent>>

\* RecordEventCallback: Enqueue, then encode the oldest buffer, also when Enqueue
\* failed, ...
Encode ==
  /\ rstage = "recording" /\ rcalls > 0 /\ ~encoding
  /\ rcalls' = rcalls - 1
  /\ rqueue' = Enqueued(rqueue, put)
  /\ encoding' = TRUE
  /\ UNCHANGED <<rstage, robjects, registered, slot, take, put, recorded, count, sent>>

\* ... and send it, count, and move on.
Send ==
  /\ encoding
  /\ sent' = <<count, slot[take]>>
  /\ take' = nextBuff(take)
  /\ count' = count + 1
  /\ put' = nextBuff(put)
  /\ encoding' = FALSE
  /\ UNCHANGED <<rstage, robjects, registered, slot, rqueue, rcalls, recorded>>

RecStop ==
  /\ rstage = "recording"
  /\ rstage' = "stopped"
  /\ UNCHANGED <<robjects, registered>>
  /\ UnchangedTape

\* Destroy waits for a callback that is running.
RecClose ==
  /\ rstage = "stopped" /\ ~encoding
  /\ robjects' = robjects \ Destroyed
  /\ rstage' = "done"
  /\ UNCHANGED registered
  /\ UnchangedTape

RecNext ==
  \/ RecMake \/ RecMakeFails \/ RecPrepare \/ RecStart
  \/ DeviceRecords \/ Encode \/ Send \/ RecStop \/ RecClose

-----------------------------------------------------------------------------
\* The buffer that is encoded is not one the device records into, however late the
\* callbacks are, and no buffer is given to the device twice, or when it has no room.
RecSeparated ==
  /\ encoding => ~Queued(take, rqueue)
  /\ Distinct(rqueue)
  /\ rcalls > 0 => Len(rqueue) < NUMBER_BUFFERS

\* Every period is sent once, in order, under the next count.
SentInOrder == sent[2] = sent[1] + 1
=============================================================================
