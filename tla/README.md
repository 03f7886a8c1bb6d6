# Chataka in TLA+

Chataka is a voice intercom for one local network, without a server: every instance broadcasts a
ping once a second, sends its microphone as GSM packets to every instance it has heard a ping of,
and plays the mix of what they send. These are TLA+ models of it, the TLC runs that check them and
the TLAPS proofs about them. Source paths are relative to the repository.

## 1. The system

| part | state | operations |
| --- | --- | --- |
| **Playout buffer** (`src/users.c`, one per peer) | five slots `audioBuf`, `lastBufCount`, `useBuf`, `blockBuf` | `setAudioBuf` (socket thread), `getBufForAllUsers` (playback thread), both under `LockUsersArray` |
| **Capture** (`src/threadinaudio.c`) | the outgoing packet and its `count`, from 0 at each start | record, encode, send to all users, count |
| **Peer table** (`src/users.c`) | `users` (addresses, `pingTimOut`, buffers), `newUsers` (addresses that wait for admission) | `updateTimeOutUser`, `addNewUser` (socket thread); `incrTimeOutAllOrDeleteUsers`, `registerNewUser`, `printUseBuffForAll` (main thread) |
| **Own addresses** (`src/interfaceip.c`) | the array `selfIP` | `getAllLocalIP`, `isMyAddr`, `getBrdAddr` |
| **Socket thread** (`src/threadsocket.c`) | a received packet | `onReceive`: by type, to the peer table or the playout buffer |
| **Main thread** (`thread_main`) | `checkLoclIP` | every second: ping, age and delete, admit, print, now and then reload the own addresses |
| **Audio thread control** (`src/broadcasttalk.c`) | `threadOutaudioQuit`, `threadInaudioQuit` and two handles | `Start`, `Stop`, `GetState` for sound and microphone |
| **Audio devices** (`src/threadoutaudio.c`, `src/threadinaudio.c`) | ALSA handle, or OpenSL objects with rings of three buffers | open, read or write, close |
| **UDP socket and packets** (`src/udpsocket.c`) | socket, ping packet with the user's name | `createUdpSocket`, `sendPingPacket`, `setUserNamePacket` |
| **Program start and end** (`src/maindata.c`) | `StaticmainData` | `createMainData`, `destroyMainData`, the Java `Create`/`Destory` |
| **User names** | a name in each user | every 11th ping `UpdateUsersName`, `GetUsersBCTUser`, the callback `sendMessage` |
| **GSM codec** (`src/gsmcodec.c`, `src/gsm/`) | a `gsm_state` in the capture thread, one per peer that is heard | `encode`, `decode`: three frames per packet, each through preprocessing, linear prediction, short-term filter, long-term predictor, grid selection and packing, and back |
| **Mixing** (`sumAudio`) | the period that is played | sum of samples mod 2^16 |

**How they interact.** Four threads share one `mainData_t`: main, socket, sound, microphone; on
Android a fifth calls in from Java. `LockUsersArray` guards the array and the playout buffers,
`LockNewUsersArray` the waiting addresses. Two places do not keep to that: `registerNewUser` calls
`addUser` (which reallocates `users`) under `LockNewUsersArray` only, and the microphone thread
walks `users` under no lock. The audio threads are told to end by a mutex that is unlocked.

**What is hard, and what makes each part correct.**

- *Playout buffer*: packets come late, twice, out of order, or from a sender whose count started
  again, while another thread plays. What waits must be newer than what was played; playback must go
  forward unless a stream really restarts; a peer must not be muted for good.
- *Audio stream*: the constants of the two ends must fit (five slots, window of ten). An orderly
  network must give gapless sound, a late packet must not look like a restart, a restarted
  microphone must be heard again.
- *Peer table*: between "is this peer known?", "is it myself?" and "queue it" the socket thread holds
  no lock, and the main thread admits and deletes meanwhile. No peer twice, never oneself, no table
  over its threshold, no living peer dropped, the dead ones dropped; also when `malloc` fails.
- *Audio thread control*: Stop may find the thread setting up, working, dying or dead. It must
  return, leave nothing behind, and never must two threads play.
- *Program start and end*: each step of `createMainData` may fail and must undo the ones before it;
  `Destory` may come right after `Create`, or in the middle of a device error, and must end every thread
  before it frees what they use.
- *Users array*: deletion and admission change `users`, `lenghtArray` and the block in several stores,
  between which other threads read. The readers that take the lock must never see an array that is half
  done, nothing may leak, and Java must get to know of every change.
- *Rings of buffers*: the OpenSL callbacks may lag behind the device by any number of buffers. No
  buffer may be filled or encoded while the device has it; every period passes once and in order.
- *Codec*: 16 and 32 bit arithmetic with saturation in some places and wrap-around or asserts in others,
  a filter memory that lives as long as the talk, and a decoder that must follow the coder's state although
  `setAudioBuf` decodes only what it has a slot for: the first packet of each stream, lost and late ones never reach it.

`PROJECT.json` lists the hazards at their lines, with the properties that would catch each.

## 2. Modules and code

| module | models | state | actions |
| --- | --- | --- | --- |
| `JitterBuffer` | one peer's playout buffer | the four fields of `userFormat_t`; `out`, what the last playback period took | `StorePacket`, `DropPacket`, `RestartStream` are the branches of `setAudioBuf`; `PlayOldest`, `Underrun`, `WaitForFill` those of `getBufForAllUsers` |
| `PlayoutQueue` | what the buffer promises: a bounded set that emits its oldest packet and is flushed by a restart | `pending`, `horizon`, `out` | `Accept`, `Flush`, `Emit`, `Quiet` |
| `AudioStream` | capture, network, buffer, for one sender and one receiver (extends `JitterBuffer`) | `epoch` (which start of the microphone), `next`, `net`, `polled` | `Capture`, `RestartMic`, `Receive`, `Lose`, `Poll` |
| `PeerTable` | discovery | `users`, `newUsers`, `myIp`, the locals of the loops, program counters `main` and `sock`; auxiliary `silent` | one action per call of the socket thread, one per lock region or loop turn of the main thread |
| `Presence` | what discovery promises: a bounded set of foreign peers, none dropped before it was silent for longer than the timeout | `known`, `silent` | `Ping`, `Tick`, `Join`, `Leave` |
| `AudioThread` | Start, Stop, GetState, and the thread; sound and microphone are two instances of it | `quit` (the mutex), `handle`, `th` (what each system thread does), `app` (the call) | one action per step of a call and of the thread |
| `Program` | `Create` to `Destory`, the Android build (extends `AudioThread`) | `call` (the step of the call), `static`, `held` and `lost` resources, `locked` quit mutexes, `main` and `sock` threads, `gone` | each step of `createMainData` and its failure, the two threads' start and end, each step of `destroyMainData`, the calls on the audio thread in between |
| `UserArrayMemory` | the users array as memory | `users`, `lenghtArray`, blocks of cells, allocated records, both locks, each walker's index and pointers in hand; auxiliary `raced`, `lost`, `fresh` | each store of `delUser` and of `addUser`; each load of a walk by the socket or playback thread, by Java and by the microphone; `sendMessage` with a listener that queries at once or later |
| `BufferRing`, `PlayRing`, `RecordRing`, `AudioRings` | the OpenSL objects and the rings of three buffers of playback and capture | objects made, indices, the device's queue, callbacks to come, which period is in which buffer | make, fail, enqueue, start; the device takes a buffer, the callback begins, the callback ends; stop, close |
| `GsmWord` | `private.h`, `add.c`: 16 and 32 bit words, saturation, rounding, normalisation | none | operators |
| `GsmPreprocess` | the offset filter and preemphasis | `z1`, `L_z2`, `mp`, the output sample | one per sample |
| `GsmLpc`, `GsmShortTerm`, `GsmLongTerm`, `GsmRpe`, `GsmFrame` | autocorrelation to coded log area ratios; the lattice filters; lag and gain; grid, block quantisation and its inverse; the 33 bytes of a frame | none | operators |
| `Gsm` | `encode` of a speaker, the packet's way into the listener's playout buffer (an instance of `JitterBuffer`), `decode` | the two `gsm_state`s, the intermediate results, the buffer; auxiliary `fate`, `gap` | one per stage, the filters one per sample; `Accept`, `Discard`, `Poll` are the steps of `JitterBuffer`, with `decode` behind `Accept`; `RestartMic`, `NewListener` |
| `MC*` | the sets the runs use | | |
| `*Proofs`, `GsmLemmas` | theorems (section 5) | | |

Choices worth knowing:

- A function that runs under one lock from its first to its last line is one action. The sweep is one
  action per turn of its loop, because what its turn limit does is a question of its own; while it
  runs, `main = "sweep"` keeps out whoever needs the lock.
- A payload is an identity (in `AudioStream`, the epoch). `count` is a 64 bit number that is compared,
  and subtracted only where the result is not negative; it does not overflow in any lifetime, so it
  is a natural number.
- An address stands for `sin_addr` and `sin_port`. The host's own broadcasts come back to it: a ping
  from `Own` may arrive once the interface is up. Losing an address is left out, since what was
  recorded is never forgotten.
- `delUser` and `addUser` are modelled with what `malloc` failures do to them: the live last user
  falls off the array, a null user is stored. `printUseBuffForAll` then reads through the null
  pointer and the program is `crashed`; so is it when `realloc` fails in `addtoIPArray`.
- `addUser` runs without `LockUsersArray`. In `PeerTable` it is one atomic step; `UserArrayMemory` takes it
  and `delUser` apart, store by store, and leaves out who is admitted and deleted, and when.
- In `UserArrayMemory` a pointer to freed or unset memory is `JUNK`; a walker that would read through
  it, or Java writing past its own array, is `bad` and the behaviour ends. `raced` records whether the
  array was changed during the walk by a step that the walker's lock does not exclude. The two stores of
  `addUser` after `realloc`, `users[lenghtArray]` and `lenghtArray`, may become visible in either order.
- `Program` is the Android build, where the application calls `Start` and `Stop` and the callbacks use
  `mainData` until the device is closed. The memory a `Create` returns is fresh: its fields are not those
  of the program before. Broken-off audio threads (`gone`) are the ones no `Stop` waits for.
- In the rings a period of sound is its number, and 0 the silence of a buffer never filled. OpenSL is
  external: a buffer goes through the device once, in the order it was given; `Destroy` waits for a
  callback that is running. The callbacks do not look at what `Enqueue` returns: here it refuses a buffer when the
  device has as many as the locator said (`Enqueued`), and `RingsSeparated` shows that this never happens. A handle
  or a size that is invalid, the other reason the standard knows, cannot come up between calls that do not change them.
- The codec is modelled as it is built here, without `WAV49`, `FAST`, `USE_FLOAT_MUL` and `LTP_CUT`.
  Samples, coefficients and bytes are numbers, not identities: its properties are about
  their values. The stages are actions so that results between them can be looked at. `gsm_implode` and
  `gsm_explode`, which the library offers beside `gsm_encode` and `gsm_decode` for the same bits, are the
  two halves of the packing. Given the same signals, the model and the compiled C codec agreed in every coded
  byte and every decoded sample of three first and nine second packets.
- In `Gsm` the packet sent last is on its way until the next one is recorded and may arrive any number of times, or
  never; one that would come later counts as lost, since `AudioStream` is where packets overtake each other. `Replace`
  lets the listener get a frame the speaker never coded. `RestartMic` makes a new `gsm_state` and counts from 0,
  `NewListener` is the peer that is deleted and admitted again. That the listener decodes while the speaker codes the
  next packet is left out: they share nothing but the packet.
- The calls of the application come one at a time: on Linux only `thread_main` makes them, on Android
  they come from the Java application. A `pthread_join` of what is no thread is undefined and either
  returns or crashes.
- Operators named as *faulty variants* are not part of any specification. Each is a plausible mistake
  in the definition after it; every property is known to notice at least one of them.

## 3. Runs

| run | asks | bounds |
| --- | --- | --- |
| `jitter` | any packets in any order at one buffer: types, `PendingAreFresh`, `TallyCoversSlots`, `PlaysInOrder`, `GoesBackOnlyOnRestart`, refinement of `PlayoutQueue`, `PendingDrains`, `FullIsReleased` | 3 slots, gap 2, counts 0..5, two payloads, `useBuf` up to 5 |
| `jitter_prebuffer` | *violated*: playback is unblocked only when all slots but one are filled | the same, one payload |
| `stream_lossy` | on a network that loses, duplicates, and delays a packet by up to `ResetGap` counts: `NoFalseRestart` | 4 slots, gap 3, counts 0..7, 3 packets in flight |
| `stream` | on an orderly network: `Gapless`, `EventuallyHeard`, and `Resyncs` after a restart of the microphone at any point | 4 slots, gap 6, counts 0..12, one packet in flight, one restart |
| `peers` | enough memory: `OwnNeverAdmitted`, refinement of `Presence`, `LivelyJoin`, `DeadLeave` | 3 peers, 1 own address, 2 users, 2 waiting slots, timeout 1 |
| `peers_failures` | allocations and address loads fail at will: types and thresholds, `NoDuplicateUsers`, `NoDuplicateWaiting` | the same |
| `peers_overdue` | *violated*: a sweep leaves no user whose time is over | 4 peers, 4 users |
| `program` | `Create` and `Destory` around all threads, with every step and the device failing at will: `OneWorker`, `NoUseAfterFree`, `CreateAllOrNothing`, `LossIsFinal`, `JoinsSocketThread`, `StopLeavesNothing`, `StopReturns`, `DestroyReturns` | 3 audio threads |
| `audio_state` | *violated*: `THREAD_OK` means that a thread runs | 2 threads, errors by `return`, as in ALSA playback |
| `memory` | every interleaving of one thread that changes the array with three that walk it, allocations failing at will: `ArrayIntact`, `NothingLeaks`, `BadReadsNeedARace`, `ChangesAreTold`, `MainNeverWaitsForItself`, types | 3 blocks, 3 records, 2 users, a name every 2nd ping |
| `rings` | both rings with lagging callbacks, each OpenSL call failing at will: `RingsSeparated`, `PeriodsInOrder`, `ObjectsDestroyed` | 3 buffers as in the code, 7 periods |
| `gsm` | the codec with the listener's buffer; packets are decoded, dropped, lost, doubled or replaced, microphone and peer start again: `OffsetInRange`, `DecoderFollowsCoder`, `FrameRoundTrip`, `CodecAsserts` | 3 packets of 2 frames (3 in the code), 2 slots, gap 0; a square at full scale that falls silent, and a voice-like signal; foreign frames with all parameters least, all greatest, or without magic |

**Why the bounds suffice.** The constants of the code (5 slots, gap 10, 30 users, 10 waiting slots,
timeout 10) are scaled down so that every limit is reached: all slots are full, counts fall just
inside and just outside the gap, there are more peers than places and more waiting than slots, users
time out. In `jitter` a count may arrive at any time, so six counts already give every order around
both edges of a gap of two; `MaxUseBuf` bounds only the drift that restarts cause. In `stream` the
number of counts is not a margin but a finding: `Resyncs` fails when the new stream is shorter than
about `ResetGap + 2 * P_CountAudioBuf` packets, since a stream that restarts at 0 is first
dropped as late, then taken for a restart or caught up with, and then has to fill the slots. Three
threads let a new one start while an ended one is not joined, and then run out. Peers are symmetric
in the runs that check safety only.

In `memory`, two users and a record and a block more than that let the array grow from empty, grow with a move and
in place, shrink by copy and to nothing, and reuse memory that a walker still points to. Seven
periods take each ring round twice and more. In `gsm` the first packet is the one that `setAudioBuf` never decodes, the
second is decoded by a decoder that has missed it, and the third by one that has missed one packet or two, or after a
restart on either side; a gap of 0 lets counts restart within three packets. Two frames are enough for a state
that is handed on inside of a packet and between packets. No packet of this run finds the decoder exactly where the
coder is (`gap` is never 0 at a packet that is decoded), that takes longer than three packets. The signals are few because a
packet takes thousands of steps, and they alone would show little: all four properties of this run are therefore also
proved for every signal (section 5).

**Deadlock** is checked except where the system may stop: in `peers_failures`, `program` and
`audio_state` the program may crash, in `memory` it may end or misuse memory, in `rings` both threads may end,
and `gsm` records a bounded number of packets.

**Fairness.**

- Playback (`WF` of `getBufForAllUsers` or `Poll`): the thread polls as long as it runs. Nothing
  makes packets arrive in `jitter`; in `stream`, `Capture` and `Receive` are fair because the
  microphone delivers buffers and the network of that run loses nothing. `Paced` says that playback
  polls between any two arrivals: both are clocked by 60 ms of sound.
- Main thread (`WF_vars(MainStep)`): no lock is held for ever by another thread.
- `SF_vars(HandlePing)`: `addNewUser` needs `LockNewUsersArray`, which the main thread holds again and
  again for a moment but leaves alone for a second at a time.
- `SF_vars(ReceivePing(a))` only for the peers in `Lively`: they ping every second and not all of their
  broadcasts are lost. Other peers may stop at any time.
- `AudioThread`, `Program`: a call and a thread in progress run on (`CreateStep`, `DestroyStep`, `InAudioCall`,
  `MainStep`, `AudioStep`). `SocketQuits` is fair because `SO_RCVTIMEO` lets `recvfrom` return when nothing
  arrives. The device need not fail, the application need not call.
- `UserArrayMemory`, the rings and the codec state no fairness: only safety is checked of them.

## 4. Findings

1. **The wait for a full buffer ends early after a restart** (`jitter_prebuffer`). The restart branch of
   `setAudioBuf` releases all slots and leaves `useBuf`, which from then on counts slots that are free.
   `TallyCoversSlots` shows that the error is on the harmless side: no peer is muted by it.
2. **A sweep may leave users whose time is over** (`peers_overdue`). The loop starts over after each
   deletion and gives up after `2 * lenghtArray` turns, a limit that shrinks with the array. `DeadLeave`
   shows that later sweeps remove them.
3. **`THREAD_OK` without a thread** (`audio_state`). A playback thread that fails returns with its mutex
   locked, which is all `GetState` looks at; Start is refused until somebody calls Stop.
   `StopLeavesNothing` shows that a Stop repairs it.

Seen while modelling, in the models, but against no promise of the repository:

- *Peer table*: a failed `malloc` in `delUser` loses the last user and keeps the expired one; a failed one
  in `addUser` stores a null user, on which `printUseBuffForAll` crashes; a load of the own addresses that
  misses one lets the host take itself for a peer.
- *Users array*: `addUser` runs under the wrong lock and the microphone thread under none, so that walkers
  may read freed or unset memory, and `GetUsersBCTUser` may write past the array it made when a user is
  admitted meanwhile. `BadReadsNeedARace` shows that nothing else makes them misread: outside of such a
  race every pointer they meet is good.
- *Messages*: `UpdateUsersName` calls into Java under `LockUsersArray`. A listener that asks for the users
  inside of `onMessage` stops the socket thread for good, and with it whoever needs the lock.
- *Program*: `createIPArray` and `createUdpSocket` write to what `malloc` returned before they look at it. When the
  main thread cannot be created, `Create` forgets the memory and the bound socket: no later `Create` of the process
  succeeds (`LossIsFinal`). When the socket thread cannot be created, `Destory` joins a handle that was
  never set.
- *Devices*: a capture thread that dies of a device error is never joined; a recorder that cannot be
  realized, or refuses its record interface, is never destroyed.
- *Codec*: `decode` ignores that `gsm_decode` refuses a frame: what an older packet left in the slot is
  played again in its place. Packet 0 of every stream is dropped before it is decoded (`count > lastBufCount`, both start at
  0): the coder's state has moved on with it, the decoder's has not, on a network that loses nothing. The same goes for a
  packet that is lost, late, or finds the buffer full, and for a microphone that starts again with a new coder while
  the listener keeps the old decoder. The log area ratios agree again after one packet (`DecoderFollowsCoder`); of the
  residual's history the property says that the difference does not grow, and nothing but a gain below one takes it
  away.

## 5. Theorems

TLAPS proves them for all values of the constants that satisfy the modules' `ASSUME`s, which say no
more than that thresholds are natural numbers, switches are Booleans, samples are words, foreign frames are
bytes, and different things are different. Every invariant and every action property of a passing
run is the subject of a theorem; the few further hypotheses are named below.

**`JitterBufferProofs`**: `TypeCorrect`, `PendingFresh`, `TallyCovers`, `PlaybackInOrder`, `RewindIsRestart`, and
`Refinement`, that the slots implement `PlayoutQueue`. `TypeOK` is not inductive: `useBuf - 1` stays a
natural number only because the tally covers the slots in use. The invariant is `TypeOK`, `HoldsPackets` (a
slot in use holds what came from the network), `PendingAreFresh` and `TallyCoversSlots`. The
refinement maps the slots in use to the set of their packets; that counts are distinct makes a full
array a full set, and the smallest-count scan the choice of the oldest packet.

**`PeerTableProofs`**: `TypeCorrect`, `UsersDistinct`, `WaitingDistinct` hold whatever fails, from the invariant
`TypeOK /\ NoDuplicateUsers /\ NoDuplicateWaiting`. `OwnNotAdmitted` assumes that address loads miss nothing;
its invariant adds that an address which is waiting, or being handled, belongs to an interface that is up, and that
from the first admission of a turn on each waiting own address is recorded. `Refinement`
(`Presence`) also assumes memory; it adds that no user is null and that `pingTimOut` never exceeds
the true silence of the peer (`Aged`), which makes each deletion a permitted `Leave`.

**`ProgramProofs`**, the audio thread: `SingleWorker` and `StopIsClean` hold for any number of threads and whatever
fails. `OneWorker` says nothing of the moment the next thread is created, so the invariant adds
who keeps the mutex locked: the thread that is in its loop is the one the handle names, and the mutex
is locked unless Stop is about to join it. `JoinsOnlyThreads` says when the
join of Stop is well defined: thread creation does not fail and errors end the thread with `return`.

**`GsmProofs`**, the filter: `OffsetStaysInRange`, with no assumption at all, and `CodecOffsetInRange`, the same inside of
the codec, where the samples are those of a recorded packet: whatever is recorded and for
however long, the recursive filter of the coder keeps to the widths of its variables, so that its asserts hold and its
additions never saturate. `OffsetInRange` is not inductive: `L_z2` takes in up to twice the full scale with one
sample, and what keeps it from taking in more is how it got where it is. What the filter
subtracts, `z1 * 2^15 - L_z2`, is its estimate of the signal's mean; it moves towards each new sample by 33/2^15 of
the distance, with at most half a unit of rounding, and so never leaves the range of the samples
by more than 500 units. That is `PreIInv`; the lemmas before the theorem compute what shifts, saturating
additions and the split multiplication return on this range.

**`GsmProofs`**, the asserts: `CodecAssertsHold` (`CodecAsserts`) and `FramesCarryParameters` (`FrameRoundTrip`) hold for any
signals of 16 bit samples, any number of frames in a packet, and any frames of 33 bytes that arrive in their place.
`CodecAsserts` speaks of results only and is not inductive: that the next stage's results are good depends on
what it starts from. `AssertsInv` adds what each stage leaves to the next: the signal is 160 words from the
offset filter to the short-term filter (`SoundSignal`), the lattice holds words (`SoundFilter`), the reconstructed residual grows by
40 samples with each sub-frame and the estimate is there when it is needed (`SoundHistory`), what is in a packet
is bytes (`SoundPacket`), and so on. What a stage makes of it is a lemma of `GsmLemmas`.

**`GsmLemmas`** holds what the operators of the codec return, for every argument:

- *Packing*. The fields follow each other without a gap (`Fields`, `FieldsApart`), so each bit belongs to one
  parameter (`OwnerIs`); a value that fits its field is the sum of its bits (`ValueOfBits`); hence the words of
  a frame come out as they went in (`ExplodeImplode`), parameters too (`RoundTrip`), and what any 33 bytes unpack to fits
  its field (`CarriedInRange`), which is all the decoder may rely on when a frame is somebody else's.
- *Linear prediction*. Whatever the autocorrelation, the Schur recursion leaves coefficients other than `MIN_WORD`
  (`ReflectionIs`), which is what the table of the logarithm and its assert need, and the coded ratios are in their
  levels (`CodedIs`). No round divides by less than it divides (`DivisionsFit`), as the assert of `gsm_div` wants, and
  the division leaves 15 bits (`DivIs`).
- *Prediction and grid*. The lag is one of 40 to 120, the gain one of four (`LtpIs`), the grid one of four (`GridSelectionIs`).
- *Block quantisation*. The greatest sample of a grid is coded in six bits by cutting off its low bits; then all
  13 are shifted up by `6 - exp` and multiplied by an inverse of the mantissa. Nothing in the code says why no shift loses a
  bit and every pulse fits three bits. The reason is `Covers`: shifted by what its code says, the greatest sample stays
  below one step more than the code's mantissa (`CodeCovers`, from `QuietCovered` below 512 and `LoudCovered` above), and a sample
  that is covered fits a word and is coded to 0..7 (`PulseIs`).

Loops of the code are recursive functions on intervals. A library theorem on such functions would need an
operator as parameter; instead, a loop of `n` rounds is given a set of states that each round may leave, and
`RoundsExist` picks a run through them. Where induction is needed it is for a set of numbers, from the
well-foundedness of `<` (`LeastOf`, `AllOf`).

**`GsmProofs`**, the listener: `DecoderAlwaysFollows` (`DecoderFollowsCoder`) holds for any signals, any number of
frames in a packet and any number of slots, with no assumption on what arrives. Coder and decoder need not agree before the
packet, so the invariant `FollowInv` has two chains of histories: along `h` the packed frames lead the coder, along `g` they
would lead the decoder, if the buffer accepts the packet; the decoder is on `g` as far as it has come. Frame by
frame, `h[i]` and `g[i]` are `Near`: their samples not farther apart than at `Record`, their ratios the same. That
a frame does not take them apart is the content: both add the same excitation to their own estimate, and neither
the gain (`ScaledNear`, with its rounding) nor the saturating addition (`SumNear`)
brings two words farther from each other (`SubframeNear`). Either reconstructs the residual in a
buffer of its own shape: the coder lets 160 samples grow behind 120 and moves them once, the
decoder moves on with each sub-frame. `SameSamples` and `NewestMoved` say that the newest 120 samples come out
the same. The buffer's part is `Known`: a packet that was decoded waits, or was played, or something as old has restarted
the stream, so that a second copy is not accepted and decoded again. That a frame unpacks to what was packed,
and that lags are 40 to 120, it takes from the two theorems above.

**`AudioStreamProofs`**: `StreamDrivesBuffer`, that every step of the stream is one of `JitterBuffer` or leaves the buffer
alone, so that its theorems hold of streams on any network. `PlaybackNeverFallsBack` (`NoFalseRestart`) assumes
`MaxLag <= ResetGap` and nothing else of the network. The buffer alone does not give it: the invariant (`InOrder`, `NoneTooLate`)
says that what is in flight of the first run of the microphone is in order, and that
nothing the receiver knows, played or waiting, is more than `MaxLag` ahead of any packet still in flight; so
none of them can look like a restart. `PlaybackHasNoGaps` (`Gapless`) assumes `Orderly`: packets and
order are kept, playback polls between any two arrivals, and there are two slots at least; with one the
period that ends the wait leaves no room for the next packet, as TLC shows. `NothingLost` says that the
network holds the tail of what was captured, `NoGap` that the slots hold all that arrived after what was
played last, and `RoomLeft`, the part that was not obvious, that a slot is free at every arrival, since the wait ends with one
slot to spare.

**`ProgramProofs`**, the program: `NothingUsedAfterFree`, `CreateUndoesItself`, `LossIsForGood`, `SocketThreadJoined`, and the two
theorems of `AudioThread` again for the whole program (`SingleWorkerInProgram`, `StopIsCleanInProgram`), for any number of audio
threads and whatever fails. `NoUseAfterFree` is not inductive: what is held depends on the step of the call
(`HeldAsFarAsCalled`), and what may use it on the joins the call has made (`ThreadsAsFarAsCalled`, `AudioAsFarAsCalled`,
`EndedIsJoined`); that the `Stop` inside of `Destory` leaves no audio thread at work rests on the invariant of
the audio thread, which is part of this one.

**`AudioRingsProofs`**: `BuffersKeptApart`, `SoundInOrder`, `ObjectsAreDestroyed`, for any `NUMBER_BUFFERS` of at least two, any number of
periods, and callbacks that lag however they like. The invariant measures each buffer by its distance behind the
index the next one is given at: the device has the nearest ones (`PlayQueueIsArc`, `RecQueueIsArc`), then come those
whose callback is outstanding, there is always one more (`PlayRoom`, `RecRoom`), and the distance tells
which period a buffer holds (`BuffersHold`, `SlotsHold`).

**`UserArrayMemoryProofs`**: `MemoryTypeCorrect`, `ArrayStaysIntact`, `NothingIsLeaked`, `MisreadsNeedARace`, `JavaIsTold`, `NoSelfDeadlock`, for any
number of blocks, records and users, allocations failing or not. The invariant says for each step between two
stores which blocks are allocated and which one has the users in how many of its cells (`BlocksInUse`, `UsersAreKept`), who
holds which lock (`LocksHeld`), and that a walker which no unexcluded change has met stands where the array is
as it was when the walk began (`UnracedIsRight`).

**Only model-checked**: all liveness properties (they need fairness and `ENABLED`, which TLAPS 1.4.5
does not treat): `PendingDrains`, `FullIsReleased`, `EventuallyHeard`, `Resyncs`, `LivelyJoin`, `DeadLeave`, `StopReturns`, `DestroyReturns`;
and the three violated ones. Of the codec's arithmetic, that it computes what libgsm computes was compared, not
proved: the theorems say what its results may be.

## 6. Not modelled, and the plan

Not modelled, and why:

- `sumAudio`: one addition modulo 2^16 per sample. Several loud peers wrap around instead of clipping; the
  repository says nothing that this could be checked against.
- The array `selfIP` beneath the set `myIp` of `PeerTable`: it grows with every load and is never
  cleared, and `isMyAddr` walks it. `getBrdAddr`, which picks the broadcast address, is configuration of the host.
- The text of names and of ping packets, `SetUserName` and `setUserNamePacket`: which bytes a ping carries
  while it is rewritten under `sendPingPacket`.
- ALSA: parameters are configuration, and of reads and writes only that they may fail is modelled
  (`AudioThread`). The device that a write error leaves open is a state of the driver.
- The Java glue (`JNI_OnLoad`, attach, detach: calls of the VM without state of the program), the codec's options,
  printing and debugging that the program does not call, the helpers of `src/tools.c` that nothing calls, and
  the empty test program.

Next: composition of `PeerTable` with a `JitterBuffer` per known peer, so that a peer that leaves and
joins again starts from an empty buffer.
