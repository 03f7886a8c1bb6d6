--------------------------- MODULE ProgramProofs ---------------------------
(***************************************************************************)
(* The safety of AudioThread, and of Program around it, for any number of  *)
(* audio threads and whatever fails.                                       *)
(***************************************************************************)
EXTENDS Program, TLAPS

-----------------------------------------------------------------------------
(***************************************************************************)
(* The audio thread.                                                       *)
(*                                                                         *)
(* OneWorker is not inductive: it says nothing of the moment at which the  *)
(* next thread is created.  The invariant adds that a thread in its loop   *)
(* is the one the handle names and that it keeps the mutex locked, except  *)
(* between Stop's unlock and its join; that the mutex is locked until      *)
(* Start has created the thread; and that a mutex locked during the join   *)
(* is held by the thread that is about to end.                             *)
(***************************************************************************)

WorkerHoldsQuit ==
  \A x \in Threads : th[x] \in Working =>
    /\ handle = x
    /\ app \notin {"create", "probe", "crashed"}
    /\ quit \/ app = "join"

CallsKeepQuit ==
  /\ app \in {"create", "probe"} => quit
  /\ app = "join" /\ quit => handle \in Threads /\ th[handle] = "held"
  /\ app = "unlock" => quit \/ \A x \in Threads : th[x] \notin Working

IInv == TypeOK /\ WorkerHoldsQuit /\ CallsKeepQuit

USE DEF ThreadStates, AppStates, Working

\* Every step keeps the invariant, whatever may fail.
LEMMA StepKeepsIInv ==
  ASSUME IInv, [Next]_vars
  PROVE  IInv'
<1> USE ThreadsAssumption DEF IInv, TypeOK, WorkerHoldsQuit, CallsKeepQuit
<1>1. ASSUME NEW op \in {"start", "stop", "getstate"}, Call(op)
      PROVE  IInv'
  BY <1>1 DEF Call
<1>2. CASE StartBusy
  BY <1>2 DEF StartBusy
<1>3. CASE StartLock
  BY <1>3 DEF StartLock
<1>4. CASE CreateThread
  BY <1>4 DEF CreateThread
<1>5. CASE CreateError
  BY <1>5 DEF CreateError
<1>6. CASE Probe
  BY <1>6 DEF Probe
<1>7. CASE ProbeDone
  BY <1>7 DEF ProbeDone
<1>8. CASE StopBusy
  BY <1>8 DEF StopBusy
<1>9. CASE StopUnlock
  BY <1>9 DEF StopUnlock
<1>10. CASE JoinThread
  BY <1>10 DEF JoinThread, Joinable
<1>11. CASE JoinNothing
  BY <1>11 DEF JoinNothing, Joinable
<1>12. CASE GetStateOK
  BY <1>12 DEF GetStateOK
<1>13. ASSUME NEW x \in Threads, Advance(x) \/ DeviceFails(x)
       PROVE  IInv'
  <2>1. CASE DeviceReady(x)
    BY <2>1 DEF DeviceReady
  <2>2. CASE SetupFails(x)
    BY <2>2 DEF SetupFails
  <2>3. CASE QuitLoop(x)
    BY <2>3 DEF QuitLoop
  <2>4. CASE ReleaseQuit(x)
    BY <2>4 DEF ReleaseQuit
  <2>5. CASE CloseDevice(x)
    BY <2>5 DEF CloseDevice
  <2>6. CASE DeviceFails(x)
    BY <2>6, SwitchAssumption DEF DeviceFails
  <2> QED BY <1>13, <2>1, <2>2, <2>3, <2>4, <2>5, <2>6 DEF Advance
<1>14. CASE UNCHANGED vars
  BY <1>14 DEF vars
<1> QED
  BY <1>1, <1>2, <1>3, <1>4, <1>5, <1>6, <1>7, <1>8, <1>9, <1>10, <1>11,
     <1>12, <1>13, <1>14 DEF Next, InCall

\* The invariant holds in every reachable state, whatever may fail.
THEOREM InductiveInvariant == Spec => []IInv
<1>1. Init => IInv
  BY DEF Init, IInv, TypeOK, WorkerHoldsQuit, CallsKeepQuit
<1>2. IInv /\ [Next]_vars => IInv'
  BY StepKeepsIInv
<1> QED BY <1>1, <1>2, PTL DEF Spec

\* Every variable keeps its type.
THEOREM TypeCorrect == Spec => []TypeOK
<1>1. IInv => TypeOK
  BY DEF IInv
<1> QED BY <1>1, InductiveInvariant, PTL

\* However Start, Stop and the thread interleave, and whatever fails, there is at
\* most one thread in its loop: all of them are named by the one handle.
THEOREM SingleWorker == Spec => []OneWorker
<1>1. IInv => OneWorker
  BY DEF IInv, WorkerHoldsQuit, OneWorker
<1> QED BY <1>1, InductiveInvariant, PTL

\* The join of Stop waits for the one thread that may be in its loop.
LEMMA JoinLeavesNothing ==
  ASSUME IInv, [Next]_vars, app = "join", app' = "idle"
  PROVE  ~quit' /\ \A x \in Threads : th'[x] \notin Working
<1> USE DEF IInv, TypeOK, WorkerHoldsQuit, CallsKeepQuit
<1>1. JoinThread \/ JoinNothing
  BY DEF Next, Call, InCall, StartBusy, StartLock, CreateThread, CreateError, Probe,
         ProbeDone, StopBusy, StopUnlock, GetStateOK, Advance, DeviceReady,
         SetupFails, QuitLoop, ReleaseQuit, CloseDevice, DeviceFails, vars
<1>2. CASE JoinThread
  BY <1>2 DEF JoinThread, Joinable
<1>3. CASE JoinNothing
  BY <1>3 DEF JoinNothing, Joinable
<1> QED BY <1>1, <1>2, <1>3

\* When the join of Stop returns, the mutex is free and no thread is in its loop.
THEOREM StopIsClean == Spec => StopLeavesNothing
<1>1. IInv /\ [Next]_vars =>
        [app = "join" /\ app' = "idle" =>
           ~quit' /\ \A x \in Threads : th'[x] \notin Working]_vars
  BY JoinLeavesNothing
<1> QED BY <1>1, InductiveInvariant, PTL DEF Spec, StopLeavesNothing

-----------------------------------------------------------------------------
(***************************************************************************)
(* The playback thread, which leaves the mutex locked when it dies: a      *)
(* thread that was created and not joined is the one the handle names, and *)
(* unless Stop waits for it, it is the reason for the locked mutex or      *)
(* keeps it locked.                                                        *)
(***************************************************************************)
HandleNamesThread ==
  /\ \A x \in Threads : th[x] # "none" =>
       /\ handle = x
       /\ app \notin {"create", "probe", "crashed"}
       /\ quit \/ app = "join"
  /\ \A x \in Threads : th[x] # "broken"
  /\ \A x \in Threads : th[x] \in {"held", "closing"} => app = "join"
  /\ quit /\ app \notin {"create", "probe"} => Joinable
  /\ app \in {"create", "probe", "unlock"} => quit
  /\ app = "join" => Joinable /\ (quit => th[handle] = "held")

\* Without failures of pthread_create and with return on a device error, Stop
\* only joins what can be joined.
THEOREM JoinsOnlyThreads ==
  ASSUME ~CreateFails, "broken" \notin ErrorEnds
  PROVE  Spec => []JoinsAThread
<1> DEFINE J == TypeOK /\ HandleNamesThread
<1>1. Init => J
  BY ThreadsAssumption DEF Init, TypeOK, HandleNamesThread, Joinable
<1>2. J /\ [Next]_vars => J'
  <2> SUFFICES ASSUME J, [Next]_vars
               PROVE  J'
    OBVIOUS
  <2> USE ThreadsAssumption DEF J, TypeOK, HandleNamesThread, Joinable
  <2>1. ASSUME NEW op \in {"start", "stop", "getstate"}, Call(op)
        PROVE  J'
    BY <2>1 DEF Call
  <2>2. CASE StartBusy \/ StartLock \/ GetStateOK
    BY <2>2 DEF StartBusy, StartLock, GetStateOK
  <2>3. CASE CreateThread
    BY <2>3 DEF CreateThread
  <2>4. CASE CreateError
    BY <2>4 DEF CreateError
  <2>5. CASE Probe \/ ProbeDone
    BY <2>5 DEF Probe, ProbeDone
  <2>6. CASE StopBusy \/ StopUnlock
    BY <2>6 DEF StopBusy, StopUnlock
  <2>7. CASE JoinThread \/ JoinNothing
    BY <2>7 DEF JoinThread, JoinNothing
  <2>8. ASSUME NEW x \in Threads, Advance(x) \/ DeviceFails(x)
        PROVE  J'
    <3>1. CASE DeviceReady(x) \/ SetupFails(x)
      BY <3>1 DEF DeviceReady, SetupFails
    <3>2. CASE QuitLoop(x)
      BY <3>2 DEF QuitLoop
    <3>3. CASE ReleaseQuit(x)
      BY <3>3 DEF ReleaseQuit
    <3>4. CASE CloseDevice(x)
      BY <3>4 DEF CloseDevice
    <3>5. CASE DeviceFails(x)
      BY <3>5, SwitchAssumption DEF DeviceFails
    <3> QED BY <2>8, <3>1, <3>2, <3>3, <3>4, <3>5 DEF Advance
  <2>9. CASE UNCHANGED vars
    BY <2>9 DEF vars
  <2> QED
    BY <2>1, <2>2, <2>3, <2>4, <2>5, <2>6, <2>7, <2>8, <2>9 DEF Next, InCall
<1>3. J => JoinsAThread
  BY DEF HandleNamesThread, JoinsAThread
<1> QED BY <1>1, <1>2, <1>3, PTL DEF Spec

HIDE DEF ThreadStates, AppStates, Working

-----------------------------------------------------------------------------
(***************************************************************************)
(* The program.                                                            *)
(*                                                                         *)
(* Nothing of NoUseAfterFree or CreateAllOrNothing is inductive by itself: *)
(* what is held depends on the step the call is in, and what may still use *)
(* it on the joins the call has made.  The invariant says, for each step   *)
(* of Create, what has been acquired; for each step of Destory, which      *)
(* threads are gone; and which of the calls on the audio thread may be in  *)
(* progress.  That the last of them, the Stop inside of Destory, leaves no *)
(* audio thread at work rests on the invariant of AudioThread.             *)
(***************************************************************************)

Creating == Resources \cup {"mutexes"}

ProgTypeOK ==
  /\ call \in Creating \cup {"idle", "thread", "signal", "signalsocket", "joinmain",
                             "joinsocket", "stopaudio", "stopping", "crashed"}
  /\ static \in BOOLEAN
  /\ held \subseteq Resources /\ lost \subseteq Resources
  /\ locked \subseteq {"main", "socket"}
  /\ main \in {"none", "attach", "loop", "done"}
  /\ sock \in {"none", "loop", "done", "refused"}
  /\ gone \subseteq Threads

\* What is owned before each step of createMainData.
HeldBefore(r) ==
  CASE r = "mainData"   -> {}
    [] r = "usersArray" -> {"mainData"}
    [] r = "selfIP"     -> {"mainData", "usersArray"}
    [] r = "udpSocket"  -> {"mainData", "usersArray", "selfIP"}
    [] r = "port"       -> {"mainData", "usersArray", "selfIP", "udpSocket"}
    [] r = "mutexes"    -> Resources

HeldAsFarAsCalled ==
  /\ call \in Creating => ~static /\ held = HeldBefore(call)
  /\ static => held = Resources
  /\ call = "idle" /\ ~static => held = {}
  /\ call \in {"thread", "signal", "signalsocket", "joinmain", "joinsocket", "stopaudio",
               "stopping"} => static

LostOnlyOnce ==
  /\ lost \in {{}, Resources}
  /\ lost # {} => ~static /\ call # "mutexes"

\* The main and the socket thread live between Create and the joins of Destory.
ThreadsAsFarAsCalled ==
  /\ main \in {"loop", "done"} => sock # "none"
  /\ ~static \/ call \in {"thread", "stopaudio", "stopping"} => main = "none" /\ sock = "none"
  /\ call = "joinsocket" => main = "none" /\ sock # "none"

\* An audio thread uses mainData only between Create and the end of the Stop that
\* Destory makes; calls on it are in progress only there.
AudioAsFarAsCalled ==
  /\ app # "idle" => static /\ call \in {"idle", "stopping"}
  /\ call = "stopping" => app \notin {"start", "create", "getstate"}
  /\ ~static \/ call = "thread" \/ (call = "stopping" /\ app = "idle")
       => \A x \in Threads : ~UsesMainData(x)
  /\ \A x \in gone : th[x] \in {"broken", "closing", "done"}
  /\ \A x \in Threads : th[x] = "broken" => x \in gone

\* A thread that has seen the free mutex is on its way to the join of Stop.
EndedIsJoined ==
  \A x \in Threads :
    th[x] = "held" \/ (th[x] = "closing" /\ x \notin gone) => app = "join" /\ handle = x

ProgIInv ==
  /\ IInv
  /\ ProgTypeOK /\ HeldAsFarAsCalled /\ LostOnlyOnce
  /\ ThreadsAsFarAsCalled /\ AudioAsFarAsCalled /\ EndedIsJoined

-----------------------------------------------------------------------------
\* The steps of createMainData, spelt out.
LEMMA StepsAre ==
  /\ Len(Steps) = 5 /\ DOMAIN Steps = 1..5
  /\ Steps[1] = "mainData" /\ Steps[2] = "usersArray" /\ Steps[3] = "selfIP"
  /\ Steps[4] = "udpSocket" /\ Steps[5] = "port"
  /\ Resources = {"mainData", "usersArray", "selfIP", "udpSocket", "port"}
<1>1. Len(Steps) = 5 /\ DOMAIN Steps = 1..5
  BY DEF Steps
<1>2. 1..5 = {1, 2, 3, 4, 5}
  OBVIOUS
<1> QED
  BY <1>1, <1>2 DEF Steps, Resources

\* What happens to the audio thread while the program goes on keeps the invariant of
\* AudioThread; the other steps leave its variables alone, but for the two below.
LEMMA AudioInvariantKept ==
  ASSUME ProgIInv, [ProgNext]_progvars
  PROVE  IInv'
<1> USE DEF ProgIInv
<1>1. CASE [Next]_vars
  BY <1>1, StepKeepsIInv
<1>2. CASE InitMutexes
  <2>1. app = "idle" /\ \A x \in Threads : th[x] \notin Working
    BY <1>2 DEF InitMutexes, Creating, HeldAsFarAsCalled, AudioAsFarAsCalled, UsesMainData
  <2> QED
    BY <1>2, <2>1 DEF InitMutexes, IInv, TypeOK, WorkerHoldsQuit, CallsKeepQuit
<1>3. CASE StopAudio
  <2>1. app = "idle"
    BY <1>3 DEF StopAudio, AudioAsFarAsCalled
  <2> QED
    BY <1>3, <2>1 DEF StopAudio, IInv, TypeOK, AppStates, WorkerHoldsQuit, CallsKeepQuit
<1> QED
  BY <1>1, <1>2, <1>3
  DEF ProgNext, Create, CreateStep, Acquire, CreateFailsAt, NullWritten, CreateMainThread,
      MainThreadRefused, Destroy, DestroyStep, Signal, SignalSocket, JoinMain, JoinSocket,
      FreeAll, MainStep, StartSocketThread, SocketThreadRefused, MainQuits, SocketQuits,
      AudioCall, InAudioCall, AudioStep, AudioFails, Next, progvars

\* What Create and Destory do to the lifecycle.
LEMMA CallStepKept ==
  ASSUME ProgIInv, Create \/ CreateStep \/ Destroy \/ DestroyStep
  PROVE  /\ ProgTypeOK' /\ HeldAsFarAsCalled' /\ LostOnlyOnce' /\ ThreadsAsFarAsCalled'
         /\ AudioAsFarAsCalled' /\ EndedIsJoined'
<1> DEFINE Kept == /\ ProgTypeOK' /\ HeldAsFarAsCalled' /\ LostOnlyOnce' /\ ThreadsAsFarAsCalled'
                   /\ AudioAsFarAsCalled' /\ EndedIsJoined'
<1> SUFFICES Kept
  OBVIOUS
<1> USE StepsAre DEF ProgIInv, ProgTypeOK, Creating, HeldAsFarAsCalled, LostOnlyOnce,
                     ThreadsAsFarAsCalled, AudioAsFarAsCalled, EndedIsJoined, UsesMainData, vars
<1>1. CASE Create
  BY <1>1 DEF Create, HeldBefore
<1>2. ASSUME NEW i \in DOMAIN Steps, Acquire(i)
      PROVE  Kept
  <2>1. i \in 1..5
    OBVIOUS
  <2>2. call' \in Creating /\ held' = HeldBefore(call')
    BY <1>2, <2>1 DEF Acquire, HeldBefore
  <2>3. call' = "mutexes" => lost = {}
    BY <1>2, <2>1 DEF Acquire, Available
  <2>4. ~static /\ UNCHANGED <<vars, static, lost, locked, main, sock, gone>>
    BY <1>2, <2>1 DEF Acquire
  <2>5. ProgTypeOK' /\ HeldAsFarAsCalled'
    BY <2>2, <2>4 DEF HeldBefore
  <2>6. LostOnlyOnce' /\ ThreadsAsFarAsCalled'
    BY <2>2, <2>3, <2>4
  <2>7. AudioAsFarAsCalled' /\ EndedIsJoined'
    BY <2>2, <2>4
  <2> QED
    BY <2>5, <2>6, <2>7
<1>3. ASSUME NEW r \in {"mainData", "usersArray", "port", "mutexes"}, CreateFailsAt(r)
      PROVE  Kept
  <2>1. held' = {}
    BY <1>3 DEF CreateFailsAt, Undoes, HeldBefore
  <2> QED
    BY <1>3, <2>1 DEF CreateFailsAt
<1>4. CASE NullWritten
  BY <1>4 DEF NullWritten
<1>5. CASE InitMutexes
  BY <1>5 DEF InitMutexes, HeldBefore
<1>6. CASE CreateMainThread
  BY <1>6 DEF CreateMainThread
<1>7. CASE MainThreadRefused
  BY <1>7 DEF MainThreadRefused
<1>8. CASE Destroy
  BY <1>8 DEF Destroy
<1>9. CASE Signal \/ SignalSocket
  BY <1>9 DEF Signal, SignalSocket
<1>10. CASE JoinMain
  BY <1>10 DEF JoinMain
<1>11. CASE JoinSocket
  BY <1>11 DEF JoinSocket
<1>12. CASE StopAudio
  BY <1>12 DEF StopAudio
<1>13. CASE FreeAll
  BY <1>13 DEF FreeAll
<1> QED
  BY <1>1, <1>2, <1>3, <1>4, <1>5, <1>6, <1>7, <1>8, <1>9, <1>10, <1>11, <1>12, <1>13
  DEF CreateStep, DestroyStep

\* What the main and the socket thread do to it.
LEMMA ThreadStepKept ==
  ASSUME ProgIInv, MainStep \/ SocketQuits
  PROVE  /\ ProgTypeOK' /\ HeldAsFarAsCalled' /\ LostOnlyOnce' /\ ThreadsAsFarAsCalled'
         /\ AudioAsFarAsCalled' /\ EndedIsJoined'
<1> USE DEF ProgIInv, ProgTypeOK, HeldAsFarAsCalled, LostOnlyOnce,
            ThreadsAsFarAsCalled, AudioAsFarAsCalled, EndedIsJoined, UsesMainData, vars
<1>1. CASE StartSocketThread
  BY <1>1 DEF StartSocketThread
<1>2. CASE SocketThreadRefused
  BY <1>2 DEF SocketThreadRefused
<1>3. CASE MainQuits
  BY <1>3 DEF MainQuits
<1>4. CASE SocketQuits
  BY <1>4 DEF SocketQuits
<1> QED
  BY <1>1, <1>2, <1>3, <1>4 DEF MainStep

\* What the calls on the audio thread, and that thread, do to it.
LEMMA AudioStepKept ==
  ASSUME ProgIInv,
         AudioCall \/ InAudioCall \/ \E x \in Threads : AudioStep(x) \/ AudioFails(x)
  PROVE  /\ ProgTypeOK' /\ HeldAsFarAsCalled' /\ LostOnlyOnce' /\ ThreadsAsFarAsCalled'
         /\ AudioAsFarAsCalled' /\ EndedIsJoined'
<1> DEFINE Kept == /\ ProgTypeOK' /\ HeldAsFarAsCalled' /\ LostOnlyOnce' /\ ThreadsAsFarAsCalled'
                   /\ AudioAsFarAsCalled' /\ EndedIsJoined'
<1> SUFFICES Kept
  OBVIOUS
<1> USE DEF ProgIInv, ProgTypeOK, HeldAsFarAsCalled, LostOnlyOnce, ThreadsAsFarAsCalled,
            IInv, TypeOK, WorkerHoldsQuit, CallsKeepQuit,
            AudioAsFarAsCalled, EndedIsJoined, UsesMainData, lifecycle, Working, ThreadStates
<1>1. CASE AudioCall
  BY <1>1 DEF AudioCall, Call
<1>2. CASE InAudioCall
  <2>1. CASE StartBusy \/ StartLock \/ CreateError \/ Probe \/ StopBusy \/ StopUnlock \/ GetStateOK
    BY <1>2, <2>1
    DEF InAudioCall, StartBusy, StartLock, CreateError, Probe, StopBusy, StopUnlock, GetStateOK
  <2>2. CASE CreateThread
    BY <1>2, <2>2 DEF InAudioCall, CreateThread
  <2>3. CASE ProbeDone
    BY <1>2, <2>3 DEF InAudioCall, ProbeDone
  <2>4. CASE JoinThread
    BY <1>2, <2>4 DEF InAudioCall, JoinThread, Joinable
  <2>5. CASE JoinNothing
    BY <1>2, <2>5 DEF InAudioCall, JoinNothing, Joinable
  <2> QED
    BY <1>2, <2>1, <2>2, <2>3, <2>4, <2>5 DEF InAudioCall, InCall
<1>3. ASSUME NEW x \in Threads, AudioStep(x)
      PROVE  Kept
  <2>1. CASE DeviceReady(x) \/ SetupFails(x)
    BY <1>3, <2>1 DEF AudioStep, DeviceReady, SetupFails
  <2>2. CASE QuitLoop(x)
    BY <1>3, <2>2 DEF AudioStep, QuitLoop
  <2>3. CASE ReleaseQuit(x)
    BY <1>3, <2>3 DEF AudioStep, ReleaseQuit
  <2>4. CASE CloseDevice(x)
    BY <1>3, <2>4 DEF AudioStep, CloseDevice
  <2> QED
    BY <1>3, <2>1, <2>2, <2>3, <2>4 DEF AudioStep, Advance
<1>4. ASSUME NEW x \in Threads, AudioFails(x)
      PROVE  Kept
  BY <1>4, SwitchAssumption DEF AudioFails, DeviceFails
<1> QED
  BY <1>1, <1>2, <1>3, <1>4

LEMMA ProgStepKept ==
  ASSUME ProgIInv, [ProgNext]_progvars
  PROVE  ProgIInv'
<1>1. IInv'
  BY AudioInvariantKept
<1>2. CASE UNCHANGED progvars
  BY <1>1, <1>2
  DEF ProgIInv, ProgTypeOK, HeldAsFarAsCalled, LostOnlyOnce, ThreadsAsFarAsCalled,
      AudioAsFarAsCalled, EndedIsJoined, UsesMainData, progvars, lifecycle, vars
<1>3. CASE Create \/ CreateStep \/ Destroy \/ DestroyStep
  BY <1>1, <1>3, CallStepKept DEF ProgIInv
<1>4. CASE MainStep \/ SocketQuits
  BY <1>1, <1>4, ThreadStepKept DEF ProgIInv
<1>5. CASE AudioCall \/ InAudioCall \/ \E x \in Threads : AudioStep(x) \/ AudioFails(x)
  BY <1>1, <1>5, AudioStepKept DEF ProgIInv
<1> QED
  BY <1>2, <1>3, <1>4, <1>5 DEF ProgNext

\* The invariant holds in every reachable state of the program.
THEOREM ProgInductiveInvariant == ProgSpec => []ProgIInv
<1>1. ProgInit => ProgIInv
  BY StepsAre
  DEF ProgInit, Init, ProgIInv, IInv, TypeOK, WorkerHoldsQuit, CallsKeepQuit,
      Working, ThreadStates, AppStates,
      ProgTypeOK, Creating, HeldAsFarAsCalled, LostOnlyOnce, ThreadsAsFarAsCalled,
      AudioAsFarAsCalled, EndedIsJoined, UsesMainData
<1>2. ProgIInv /\ [ProgNext]_progvars => ProgIInv'
  BY ProgStepKept
<1> QED BY <1>1, <1>2, PTL DEF ProgSpec

-----------------------------------------------------------------------------
\* No thread works on mainData before it is complete or once it is being freed,
\* whatever has failed before and whenever Destory is called.
THEOREM NothingUsedAfterFree == ProgSpec => []NoUseAfterFree
<1>1. ProgIInv => NoUseAfterFree
  BY DEF ProgIInv, ProgTypeOK, HeldAsFarAsCalled, ThreadsAsFarAsCalled, AudioAsFarAsCalled,
         NoUseAfterFree
<1> QED BY <1>1, ProgInductiveInvariant, PTL

\* A failed Create, at whatever step, and a Destory leave nothing to free.
THEOREM CreateUndoesItself == ProgSpec => []CreateAllOrNothing
<1>1. ProgIInv => CreateAllOrNothing
  BY DEF ProgIInv, HeldAsFarAsCalled, CreateAllOrNothing
<1> QED BY <1>1, ProgInductiveInvariant, PTL

\* Memory and port are lost together, once, and then the process has no threads again.
THEOREM LossIsForGood == ProgSpec => []LossIsFinal
<1>1. ProgIInv => LossIsFinal
  BY DEF ProgIInv, LostOnlyOnce, ThreadsAsFarAsCalled, LossIsFinal
<1> QED BY <1>1, ProgInductiveInvariant, PTL

\* The socket thread was started, or refused, by the time it is joined.
THEOREM SocketThreadJoined == ProgSpec => []JoinsSocketThread
<1>1. ProgIInv => JoinsSocketThread
  BY DEF ProgIInv, ThreadsAsFarAsCalled, JoinsSocketThread
<1> QED BY <1>1, ProgInductiveInvariant, PTL

\* What AudioThread promises holds inside of the program as well, over any number of
\* Creates and Destorys: at most one audio thread is in its loop, ...
THEOREM SingleWorkerInProgram == ProgSpec => []OneWorker
<1>1. ProgIInv => OneWorker
  BY DEF ProgIInv, IInv, WorkerHoldsQuit, OneWorker
<1> QED BY <1>1, ProgInductiveInvariant, PTL

\* ... and Stop leaves the mutex free and no thread in its loop, also the Stop that
\* Destory makes.
THEOREM StopIsCleanInProgram == ProgSpec => StopLeavesNothing
<1>1. ASSUME ProgIInv, [ProgNext]_progvars, app = "join", app' = "idle"
      PROVE  ~quit' /\ \A x \in Threads : th'[x] \notin Working
  <2>1. InAudioCall
    BY <1>1
    DEF ProgNext, Create, CreateStep, Acquire, CreateFailsAt, NullWritten, InitMutexes,
        CreateMainThread, MainThreadRefused, Destroy, DestroyStep, Signal, SignalSocket,
        JoinMain, JoinSocket, StopAudio, FreeAll, MainStep, StartSocketThread,
        SocketThreadRefused, MainQuits, SocketQuits, AudioCall, Call, AudioStep, Advance,
        DeviceReady, SetupFails, QuitLoop, ReleaseQuit, CloseDevice, AudioFails,
        DeviceFails, progvars, vars
  <2>2. [Next]_vars
    BY <2>1 DEF InAudioCall, Next
  <2> QED BY <1>1, <2>2, JoinLeavesNothing DEF ProgIInv
<1>2. ProgIInv /\ [ProgNext]_progvars =>
        [app = "join" /\ app' = "idle" =>
           ~quit' /\ \A x \in Threads : th'[x] \notin Working]_vars
  BY <1>1
<1> QED BY <1>2, ProgInductiveInvariant, PTL DEF ProgSpec, StopLeavesNothing
=============================================================================
