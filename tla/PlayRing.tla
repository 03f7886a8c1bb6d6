------------------------------ MODULE PlayRing ------------------------------
(***************************************************************************)
(* Playback on Android (threadoutaudio.c): the OpenSL objects that         *)
(* openSLPlayOpen makes one inside the other, and the ring of              *)
(* NUMBER_BUFFERS buffers that BufferQueueCallback fills while the device  *)
(* plays the ones it was given.  A period of sound is its number; 0 is the *)
(* silence of a buffer that was never filled.                              *)
(***************************************************************************)
EXTENDS BufferRing

VARIABLES
  pstage,    \* how far openSLPlayOpen is
  pobjects,  \* the objects that exist
  read,      \* Data.read
  buffers,   \* Data.Buffers
  pqueue,    \* the buffers the device was given, in order
  pcalls,    \* buffers that were played, and whose callback is still to come
  filling,   \* whether a callback is in getBufForAllUsers
  filled,    \* periods filled
  heard      \* the last period played, and the one before

playvars == <<pstage, pobjects, read, buffers, pqueue, pcalls, filling, filled, heard>>

nextBuffOut(now) == IF now + 1 = NUMBER_BUFFERS THEN 0 ELSE now + 1

PlayInit ==
  /\ pstage = "engine"
  /\ pobjects = {}
  /\ read = 0
  /\ buffers = [b \in Ring |-> 0]
  /\ pqueue = <<>>
  /\ pcalls = 0
  /\ filling = FALSE
  /\ filled = 0
  /\ heard = <<0, 0>>

UnchangedRing == UNCHANGED <<read, buffers, pqueue, pcalls, filling, filled, heard>>

\* The engine, the output mix and the player are each created and realized.
PlayMake ==
  /\ pstage \in {"engine", "mix", "player"}
  /\ pobjects' = pobjects \cup {pstage}
  /\ pstage' = CASE pstage = "engine" -> "mix"
                 [] pstage = "mix" -> "player"
                 [] pstage = "player" -> "enqueue"
  /\ UnchangedRing

\* What was created and not realized, or lacks an interface, is destroyed with all
\* that was made before it.
PlayMakeFails ==
  /\ pstage \in {"engine", "mix", "player", "enqueue"}
  /\ pobjects' = {}
  /\ pstage' = "done"
  /\ UnchangedRing

\* Faulty variant of PlayPrepared: the device gets all buffers at once.
PlayPreparedAll == Len(pqueue) = NUMBER_BUFFERS

\* One buffer is kept back.
PlayPrepared == Len(pqueue) = NUMBER_BUFFERS - 1

PlayPrepare ==
  /\ pstage = "enqueue" /\ ~PlayPrepared
  /\ pqueue' = Append(pqueue, read)
  /\ read' = nextBuffOut(read)
  /\ UNCHANGED <<pstage, pobjects, buffers, pcalls, filling, filled, heard>>

\* A buffer that cannot be enqueued is not counted: nothing is played.
PlayStart ==
  /\ pstage = "enqueue" /\ PlayPrepared
  /\ pstage' = "playing"
  /\ UNCHANGED pobjects
  /\ UnchangedRing

\* The device has played the first buffer it was given; callbacks may lag.
DevicePlays ==
  /\ pstage = "playing" /\ pqueue # <<>>
  /\ heard' = <<heard[2], buffers[Head(pqueue)]>>
  /\ pqueue' = Tail(pqueue)
  /\ pcalls' = pcalls + 1
  /\ UNCHANGED <<pstage, pobjects, read, buffers, filling, filled>>

\* BufferQueueCallback: Enqueue, then the next buffer is filled, also when Enqueue failed.
Refill ==
  /\ pstage = "playing" /\ pcalls > 0 /\ ~filling /\ filled < MaxPeriods
  /\ pcalls' = pcalls - 1
  /\ pqueue' = Enqueued(pqueue, read)
  /\ read' = nextBuffOut(read)
  /\ filling' = TRUE
  /\ UNCHANGED <<pstage, pobjects, buffers, filled, heard>>

Refilled ==
  /\ filling
  /\ filled' = filled + 1
  /\ buffers' = [buffers EXCEPT ![read] = filled + 1]
  /\ filling' = FALSE
  /\ UNCHANGED <<pstage, pobjects, read, pqueue, pcalls, heard>>

\* The quit mutex is free: SetPlayState.
PlayStop ==
  /\ pstage = "playing"
  /\ pstage' = "stopped"
  /\ UNCHANGED pobjects
  /\ UnchangedRing

\* Destroy waits for a callback that is running.
PlayClose ==
  /\ pstage = "stopped" /\ ~filling
  /\ pobjects' = {}
  /\ pstage' = "done"
  /\ UnchangedRing

PlayNext ==
  \/ PlayMake \/ PlayMakeFails \/ PlayPrepare \/ PlayStart
  \/ DevicePlays \/ Refill \/ Refilled \/ PlayStop \/ PlayClose

-----------------------------------------------------------------------------
\* The callback never writes a buffer that the device still has to play, however
\* late the callbacks are, and the device is never given a buffer that it has still,
\* or one that it has no room for.
PlaySeparated ==
  /\ filling => ~Queued(read, pqueue)
  /\ Distinct(pqueue)
  /\ pcalls > 0 => Len(pqueue) < NUMBER_BUFFERS

\* What is heard is what was filled, each period once and in order, after the
\* silence of the buffers that were never filled.
HeardInOrder == heard[2] = heard[1] + 1 \/ heard = <<0, 0>>
=============================================================================
