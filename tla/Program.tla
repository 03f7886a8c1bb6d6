------------------------------ MODULE Program ------------------------------
(***************************************************************************)
(* The program from CreateBroadCastTalk to DestoryBroadCastTalk, the       *)
(* Android build: what createMainData acquires step by step and undoes     *)
(* when a step fails, the main and the socket thread with their quit       *)
(* mutexes, and the order in which destroyMainData ends the threads and    *)
(* frees what they use.  The audio thread is that of AudioThread, under    *)
(* the same calls and under the Stop that destroyMainData makes; the sound *)
(* and the microphone thread do not share any of this state.               *)
(*                                                                         *)
(* The calls of the application come one at a time.                        *)
(***************************************************************************)
EXTENDS AudioThread, Sequences

CONSTANT MayFail  \* whether memory, socket, bind and the options may fail

ASSUME MayFailAssumption == MayFail \in BOOLEAN

VARIABLES
  call,     \* the step of Create or Destory the application is in
  static,   \* whether StaticmainData is set
  held,     \* what StaticmainData owns
  lost,     \* what was acquired, and nobody owns any more
  locked,   \* which of threadMainQuit and threadSocketQuit are locked
  main,     \* the main thread
  sock,     \* the socket thread, that is the handle threadsocket
  gone      \* audio threads that left their loop by break: no Stop waits for them

lifecycle == <<call, static, held, lost, locked, main, sock, gone>>
progvars == <<vars, lifecycle>>

\* In the order of createMainData; "port" is the socket bound to PORT.
Steps == <<"mainData", "usersArray", "selfIP", "udpSocket", "port">>
Resources == {Steps[i] : i \in DOMAIN Steps}

ProgInit ==
  /\ Init
  /\ call = "idle"
  /\ static = FALSE
  /\ held = {} /\ lost = {}
  /\ locked = {}
  /\ main = "none" /\ sock = "none"
  /\ gone = {}

-----------------------------------------------------------------------------
\* CreateBroadCastTalk, which answers -3 while StaticmainData is set.

Create ==
  /\ call = "idle" /\ app = "idle" /\ ~static
  /\ call' = "mainData"
  /\ UNCHANGED <<vars, static, held, lost, locked, main, sock, gone>>

\* The port is free unless this process still has a socket bound to it.
Available(r) == r = "port" => "port" \notin lost

Acquire(i) ==
  /\ call = Steps[i]
  /\ Available(Steps[i])
  /\ held' = held \cup {Steps[i]}
  /\ call' = IF i = Len(Steps) THEN "mutexes" ELSE Steps[i + 1]
  /\ UNCHANGED <<vars, static, lost, locked, main, sock, gone>>

Refused(r) == MayFail \/ ~Available(r)

\* Faulty variant of Undoes: a failed createUdpSocket leaves selfIP.
UndoesTooLittle(r) ==
  CASE r = "mainData" -> {}
    [] r = "usersArray" -> {"mainData"}
    [] r = "port" -> {"udpSocket", "usersArray", "mainData"}
    [] r = "mutexes" -> Resources

\* What is freed when a step fails: the socket by createUdpSocket itself, also when
\* the options of the bound socket are refused, and the rest by createMainData.
Undoes(r) ==
  CASE r = "mainData" -> {}
    [] r = "usersArray" -> {"mainData"}
    [] r = "port" -> {"udpSocket", "usersArray", "selfIP", "mainData"}
    [] r = "mutexes" -> Resources

\* Faulty variant of CreateFailsAt: a socket whose options are refused stays open.
CreateFailsOpen(r) ==
  /\ call = r
  /\ IF r = "mutexes" THEN MayFail ELSE Refused(r)
  /\ held' = held \ Undoes(r)
  /\ lost' = IF r = "port" THEN lost \cup {"port"} ELSE lost
  /\ call' = "idle"
  /\ UNCHANGED <<vars, static, locked, main, sock, gone>>

\* Answers -2.
CreateFailsAt(r) ==
  /\ call = r
  /\ IF r = "mutexes" THEN MayFail ELSE Refused(r)
  /\ held' = held \ Undoes(r)
  /\ call' = "idle"
  /\ UNCHANGED <<vars, static, lost, locked, main, sock, gone>>

\* createIPArray clears, and createUdpSocket initialises the semaphore of, what
\* malloc returned before looking at it.
NullWritten ==
  /\ MayFail
  /\ call \in {"selfIP", "udpSocket"}
  /\ call' = "crashed"
  /\ UNCHANGED <<vars, static, held, lost, locked, main, sock, gone>>

\* The fresh memory says nothing about the audio thread's handle.
InitMutexes ==
  /\ call = "mutexes"
  /\ locked' = {"main", "socket"}
  /\ quit' = FALSE
  /\ handle' \in {handle, NONE}
  /\ static' = TRUE
  /\ call' = "thread"
  /\ UNCHANGED <<th, app, held, lost, main, sock, gone>>

CreateMainThread ==
  /\ call = "thread"
  /\ main' = "attach"
  /\ call' = "idle"
  /\ UNCHANGED <<vars, static, held, lost, locked, sock, gone>>

\* Answers -1: StaticmainData is cleared, and what it owned stays.
MainThreadRefused ==
  /\ CreateFails
  /\ call = "thread"
  /\ static' = FALSE
  /\ held' = {}
  /\ lost' = lost \cup held
  /\ call' = "idle"
  /\ UNCHANGED <<vars, locked, main, sock, gone>>

-----------------------------------------------------------------------------
\* thread_main and startThreadSocket.  Each ends when its trylock succeeds, and
\* then keeps the mutex.

StartSocketThread ==
  /\ main = "attach"
  /\ main' = "loop"
  /\ sock' = "loop"
  /\ UNCHANGED <<vars, call, static, held, lost, locked, gone>>

\* The main thread ends, and threadsocket was never set.
SocketThreadRefused ==
  /\ CreateFails
  /\ main = "attach"
  /\ main' = "done"
  /\ sock' = "refused"
  /\ UNCHANGED <<vars, call, static, held, lost, locked, gone>>

MainQuits ==
  /\ main = "loop" /\ "main" \notin locked
  /\ main' = "done"
  /\ locked' = locked \cup {"main"}
  /\ UNCHANGED <<vars, call, static, held, lost, sock, gone>>

\* recvFromUdpSocket returns within SO_RCVTIMEO, so that the loop comes round.
SocketQuits ==
  /\ sock = "loop" /\ "socket" \notin locked
  /\ sock' = "done"
  /\ locked' = locked \cup {"socket"}
  /\ UNCHANGED <<vars, call, static, held, lost, main, gone>>

-----------------------------------------------------------------------------
\* DestoryBroadCastTalk and destroyMainData.

Destroy ==
  /\ call = "idle" /\ app = "idle" /\ static
  /\ call' = "signal"
  /\ UNCHANGED <<vars, static, held, lost, locked, main, sock, gone>>

Signal ==
  /\ call = "signal"
  /\ locked' = locked \ {"main"}
  /\ call' = "signalsocket"
  /\ UNCHANGED <<vars, static, held, lost, main, sock, gone>>

\* Faulty variant of SignalSocket: the socket thread is joined first.
SignalSocketThenJoinIt ==
  /\ call = "signalsocket"
  /\ locked' = locked \ {"socket"}
  /\ call' = "joinsocket"
  /\ UNCHANGED <<vars, static, held, lost, main, sock, gone>>

\* Faulty variant of SignalSocket: the mutex stays locked.
SignalSocketForgotten ==
  /\ call = "signalsocket"
  /\ call' = "joinmain"
  /\ UNCHANGED <<vars, static, held, lost, locked, main, sock, gone>>

SignalSocket ==
  /\ call = "signalsocket"
  /\ locked' = locked \ {"socket"}
  /\ call' = "joinmain"
  /\ UNCHANGED <<vars, static, held, lost, main, sock, gone>>

JoinMain ==
  /\ call = "joinmain" /\ main = "done"
  /\ main' = "none"
  /\ call' = "joinsocket"
  /\ UNCHANGED <<vars, static, held, lost, locked, sock, gone>>

\* A join of a handle that was never set returns an error or crashes.
JoinSocket ==
  /\ call = "joinsocket"
  /\ \/ sock = "done" /\ call' = "stopaudio"
     \/ sock \in {"none", "refused"} /\ call' \in {"stopaudio", "crashed"}
  /\ sock' = "none"
  /\ UNCHANGED <<vars, static, held, lost, locked, main, gone>>

\* Faulty variant of StopAudio: the audio thread is left alone.
StopAudioForgotten ==
  /\ call = "stopaudio"
  /\ call' = "stopping"
  /\ UNCHANGED <<vars, static, held, lost, locked, main, sock, gone>>

\* StopSoundThread, StopMicThread: static is still set.
StopAudio ==
  /\ call = "stopaudio"
  /\ app' = "stop"
  /\ call' = "stopping"
  /\ UNCHANGED <<quit, handle, th, static, held, lost, locked, main, sock, gone>>

\* destroyUdpSocket closes the port, then the arrays and the structure are freed.
FreeAll ==
  /\ call = "stopping" /\ app = "idle"
  /\ held' = {}
  /\ static' = FALSE
  /\ call' = "idle"
  /\ UNCHANGED <<vars, lost, locked, main, sock, gone>>

-----------------------------------------------------------------------------
\* The calls on the audio thread answer MAINDATANOTINIT without StaticmainData.
AudioCall ==
  /\ call = "idle" /\ static
  /\ \E op \in {"start", "stop", "getstate"} : Call(op)
  /\ UNCHANGED lifecycle

InAudioCall ==
  /\ InCall
  /\ gone' = gone \ {x \in Threads : th'[x] \in {"none", "setup"}}
  /\ UNCHANGED <<call, static, held, lost, locked, main, sock>>

AudioStep(x) ==
  /\ Advance(x)
  /\ UNCHANGED lifecycle

AudioFails(x) ==
  /\ DeviceFails(x)
  /\ gone' = IF th'[x] = "broken" THEN gone \cup {x} ELSE gone
  /\ UNCHANGED <<call, static, held, lost, locked, main, sock>>

CreateStep ==
  \/ \E i \in DOMAIN Steps : Acquire(i)
  \/ \E r \in {"mainData", "usersArray", "port", "mutexes"} : CreateFailsAt(r)
  \/ NullWritten
  \/ InitMutexes \/ CreateMainThread \/ MainThreadRefused

DestroyStep ==
  Signal \/ SignalSocket \/ JoinMain \/ JoinSocket \/ StopAudio \/ FreeAll

MainStep == StartSocketThread \/ SocketThreadRefused \/ MainQuits

ProgNext ==
  \/ Create \/ CreateStep
  \/ Destroy \/ DestroyStep
  \/ MainStep \/ SocketQuits
  \/ AudioCall \/ InAudioCall
  \/ \E x \in Threads : AudioStep(x) \/ AudioFails(x)

\* Calls in progress and threads run on; nobody has to call.
ProgSpec ==
  /\ ProgInit /\ [][ProgNext]_progvars
  /\ WF_progvars(CreateStep) /\ WF_progvars(DestroyStep) /\ WF_progvars(InAudioCall)
  /\ WF_progvars(MainStep) /\ WF_progvars(SocketQuits)
  /\ \A x \in Threads : WF_progvars(AudioStep(x))

-----------------------------------------------------------------------------
\* An audio thread uses mainData until it has unlocked its mutex.  The OpenSL
\* callbacks use it until the device is closed, and OpenSL threads never break.
UsesMainData(x) == th[x] \in Working \/ (th[x] = "closing" /\ x \notin gone)

\* No thread uses mainData, or anything it points to, before it is complete or
\* once destroyMainData has begun to free: every thread that may use it is
\* joined, or past its last use, by then, whenever Destory is called, also
\* right after Create and in the middle of a device error.
NoUseAfterFree ==
  (main \in {"attach", "loop"} \/ sock = "loop" \/ \E x \in Threads : UsesMainData(x))
     => held = Resources

\* A Create that failed, or a Destory, leaves nothing behind that StaticmainData
\* would have to own.
CreateAllOrNothing == call = "idle" => held = IF static THEN Resources ELSE {}

\* What is lost is lost all at once, when the main thread cannot be created, and
\* with it the port: no later Create of this process gets as far as a thread.
LossIsFinal ==
  /\ lost \in {{}, Resources}
  /\ lost # {} => ~static /\ main = "none" /\ sock = "none"

\* destroyMainData joins the main thread first, which is what makes threadsocket
\* a thread when it is joined, unless that thread could not be created.
JoinsSocketThread == call = "joinsocket" => sock # "none"

\* Destory comes to an end in whatever state the threads are, unless it crashes on
\* a join of what is no thread.
DestroyReturns ==
  call = "signal" ~> (call = "idle" /\ ~static) \/ "crashed" \in {call, app}
=============================================================================
