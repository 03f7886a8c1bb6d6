---------------------------- MODULE AudioThread ----------------------------
(***************************************************************************)
(* How an audio thread is started, stopped and asked for (broadcasttalk.c) *)
(* and what the thread does about it (threadoutaudio.c, threadinaudio.c).  *)
(*                                                                         *)
(* A mutex says "go on": Start locks it and creates the thread, Stop       *)
(* unlocks it and joins, and the thread ends when its trylock succeeds.    *)
(* The sound thread and the microphone thread are each an instance, with a *)
(* mutex and a handle of their own.  The calls come from one thread of the *)
(* application, one at a time; each of their steps is an action.           *)
(***************************************************************************)
EXTENDS Naturals, FiniteSets

CONSTANTS
  Threads,        \* the threads the system can give, reusable once joined
  NONE,           \* a handle that names no thread
  DeviceErrors,   \* whether opening, reading or writing the device may fail
  ErrorEnds,      \* where a device error in the loop leads: to "broken" by
                  \* break (ALSA capture), to "done" by return (ALSA playback)
  CreateFails     \* whether pthread_create may fail

ASSUME ThreadsAssumption == Threads # {} /\ NONE \notin Threads
ASSUME SwitchAssumption ==
  {DeviceErrors, CreateFails} \subseteq BOOLEAN /\ ErrorEnds \subseteq {"broken", "done"}

VARIABLES
  quit,    \* whether the quit mutex is locked
  handle,  \* threadoutaudio or threadinaudio
  th,      \* what each thread is doing
  app      \* the call the application is in

vars == <<quit, handle, th, app>>

\* "none" is not created or joined; "done" is ended and not joined.
ThreadStates == {"none", "setup", "work", "held", "broken", "closing", "done"}

\* The states in which the thread is not past its loop.
Working == {"setup", "work", "held", "broken"}

AppStates ==
  {"idle", "start", "create", "stop", "unlock", "join", "getstate", "probe", "crashed"}

TypeOK ==
  /\ quit \in BOOLEAN
  /\ handle \in Threads \cup {NONE}
  /\ th \in [Threads -> ThreadStates]
  /\ app \in AppStates

Init ==
  /\ quit = FALSE
  /\ handle = NONE
  /\ th = [x \in Threads |-> "none"]
  /\ app = "idle"

-----------------------------------------------------------------------------
\* The application.

Call(op) ==
  /\ app = "idle"
  /\ app' = op
  /\ UNCHANGED <<quit, handle, th>>

\* StartSoundThread, StartMicThread: refused while the mutex is locked.
StartBusy ==
  /\ app = "start" /\ quit
  /\ app' = "idle"
  /\ UNCHANGED <<quit, handle, th>>

\* Faulty variant of StartLock: it does not care who holds the mutex.
StartLockAnyway ==
  /\ app = "start"
  /\ quit' = TRUE
  /\ app' = "create"
  /\ UNCHANGED <<handle, th>>

StartLock ==
  /\ app = "start" /\ ~quit
  /\ quit' = TRUE
  /\ app' = "create"
  /\ UNCHANGED <<handle, th>>

CreateThread ==
  /\ app = "create"
  /\ \E x \in Threads :
       /\ th[x] = "none"
       /\ th' = [th EXCEPT ![x] = "setup"]
       /\ handle' = x
  /\ app' = "idle"
  /\ UNCHANGED quit

\* THREADCREATEERROR: the mutex stays locked, and what the handle holds now is
\* not defined.
CreateError ==
  /\ app = "create"
  /\ CreateFails \/ \A x \in Threads : th[x] # "none"
  /\ handle' \in {handle, NONE}
  /\ app' = "idle"
  /\ UNCHANGED <<quit, th>>

\* trylock in Stop and GetState succeeds: nothing runs, and the mutex is given
\* back (THREADNOTRUN).
Probe ==
  /\ app \in {"stop", "getstate"} /\ ~quit
  /\ quit' = TRUE
  /\ app' = "probe"
  /\ UNCHANGED <<handle, th>>

ProbeDone ==
  /\ app = "probe"
  /\ quit' = FALSE
  /\ app' = "idle"
  /\ UNCHANGED <<handle, th>>

\* StopSoundThread, StopMicThread find the mutex locked, unlock it and join.
StopBusy ==
  /\ app = "stop" /\ quit
  /\ app' = "unlock"
  /\ UNCHANGED <<quit, handle, th>>

\* Faulty variant of StopUnlock: the thread is not told.
StopUnlockForgotten ==
  /\ app = "unlock"
  /\ app' = "join"
  /\ UNCHANGED <<quit, handle, th>>

StopUnlock ==
  /\ app = "unlock"
  /\ quit' = FALSE
  /\ app' = "join"
  /\ UNCHANGED <<handle, th>>

Joinable == handle \in Threads /\ th[handle] # "none"

\* Faulty variant of JoinThread: no wait for the end of the thread.
JoinThreadEarly ==
  /\ app = "join"
  /\ Joinable
  /\ app' = "idle"
  /\ UNCHANGED <<quit, handle, th>>

JoinThread ==
  /\ app = "join"
  /\ Joinable /\ th[handle] = "done"
  /\ th' = [th EXCEPT ![handle] = "none"]
  /\ app' = "idle"
  /\ UNCHANGED <<quit, handle>>

\* A join of what is no thread is undefined: it returns an error or crashes.
JoinNothing ==
  /\ app = "join"
  /\ ~Joinable
  /\ app' \in {"idle", "crashed"}
  /\ UNCHANGED <<quit, handle, th>>

\* GetStateSoundThread, GetStateMicThread: EBUSY means THREAD_OK.
GetStateOK ==
  /\ app = "getstate" /\ quit
  /\ app' = "idle"
  /\ UNCHANGED <<quit, handle, th>>

-----------------------------------------------------------------------------
\* The audio thread.

DeviceReady(x) ==
  /\ th[x] = "setup"
  /\ th' = [th EXCEPT ![x] = "work"]
  /\ UNCHANGED <<quit, handle, app>>

\* Every error of the setup returns, and leaves the mutex as it is.
SetupFails(x) ==
  /\ DeviceErrors
  /\ th[x] = "setup"
  /\ th' = [th EXCEPT ![x] = "done"]
  /\ UNCHANGED <<quit, handle, app>>

\* The loop goes on while trylock gives EBUSY; an error ends it.
DeviceFails(x) ==
  /\ DeviceErrors
  /\ th[x] = "work"
  /\ \E state \in ErrorEnds : th' = [th EXCEPT ![x] = state]
  /\ UNCHANGED <<quit, handle, app>>

QuitLoop(x) ==
  /\ th[x] = "work" /\ ~quit
  /\ quit' = TRUE
  /\ th' = [th EXCEPT ![x] = "held"]
  /\ UNCHANGED <<handle, app>>

\* After the loop, whoever holds the mutex.
ReleaseQuit(x) ==
  /\ th[x] \in {"held", "broken"}
  /\ quit' = FALSE
  /\ th' = [th EXCEPT ![x] = "closing"]
  /\ UNCHANGED <<handle, app>>

CloseDevice(x) ==
  /\ th[x] = "closing"
  /\ th' = [th EXCEPT ![x] = "done"]
  /\ UNCHANGED <<quit, handle, app>>

-----------------------------------------------------------------------------
InCall ==
  \/ StartBusy \/ StartLock \/ CreateThread \/ CreateError
  \/ Probe \/ ProbeDone
  \/ StopBusy \/ StopUnlock \/ JoinThread \/ JoinNothing
  \/ GetStateOK

Advance(x) ==
  DeviceReady(x) \/ SetupFails(x) \/ QuitLoop(x) \/ ReleaseQuit(x) \/ CloseDevice(x)

Next ==
  \/ \E op \in {"start", "stop", "getstate"} : Call(op)
  \/ InCall
  \/ \E x \in Threads : Advance(x) \/ DeviceFails(x)

Spec == Init /\ [][Next]_vars

\* A call and a thread run on; the device need not fail, and the application
\* need not call.
FairSpec == Spec /\ WF_vars(InCall) /\ \A x \in Threads : WF_vars(Advance(x))

-----------------------------------------------------------------------------
\* Two threads never play, or record, at once: they would share the jitter
\* buffers and the device, and Stop would join only one of them.
OneWorker ==
  \A x, y \in Threads : th[x] \in Working /\ th[y] \in Working => x = y

\* When Stop returns from its join, no thread is left in its loop and the mutex
\* is free, so that the next Start is not refused, whether the thread was still
\* setting up, working, or had died of a device error and left the mutex locked.
StopLeavesNothing ==
  [][app = "join" /\ app' = "idle" =>
       ~quit' /\ \A x \in Threads : th'[x] \notin Working]_vars

\* Stop joins a thread that was created and has not been joined, provided that
\* pthread_create does not fail and an error ends the thread with return.  (With
\* break the mutex is free and the ended thread is never joined; once the system
\* gives no more threads, CreateError leaves nothing to join.)
JoinsAThread == app = "join" => Joinable

\* Stop returns, unless its join is of no thread and crashes: whatever state the
\* thread is in, it sees the free mutex in the end and can be joined.
StopReturns == app = "stop" ~> app \in {"idle", "crashed"}

\* The comment on GetStateSoundThread: "Return THREAD_OK if Thread for play sound
\* is running".  When it returns THREAD_OK there is a thread that has not ended.
OKMeansRunning ==
  [][app = "getstate" /\ app' = "idle" =>
       \E x \in Threads : th[x] \in Working \cup {"closing"}]_vars
=============================================================================
