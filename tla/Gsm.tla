-------------------------------- MODULE Gsm --------------------------------
(***************************************************************************)
(* The voice of one peer: the codec's coder in the capture thread of the   *)
(* speaker, the playout buffer and the decoder that the listener keeps for *)
(* this peer, and the packet of P_CountFrameDataInPocket frames between    *)
(* them.  Coder and decoder each keep a gsm_state as long as they run, but *)
(* setAudioBuf decodes only the packets it has a slot for: what is heard   *)
(* depends on how far the two states are from each other.  The stages of   *)
(* gsm_encode and gsm_decode are actions so that their intermediate        *)
(* results can be looked at.  The listener decodes under LockUsersArray,   *)
(* so that playback comes before or after; whether the speaker is coding   *)
(* meanwhile makes no difference, since the two share only the packet.     *)
(* The packet sent last is on its way until the next one is recorded, and  *)
(* may arrive any number of times; one that would come later counts as     *)
(* lost here (in AudioStream packets overtake each other).                 *)
(***************************************************************************)
EXTENDS GsmPreprocess, GsmShortTerm, GsmLongTerm, GsmRpe, GsmFrame

CONSTANTS
  P_CountFrameDataInPocket,
  P_CountAudioBuf, ResetGap,   \* of the playout buffer
  Signals,       \* what may be recorded for a packet: sequences of words
  Strange,       \* frames that some other sender packed
  MaxPackets     \* bound of the model

ASSUME FramesAssumption == P_CountFrameDataInPocket \in Nat \ {0}
ASSUME SlotsAssumption == P_CountAudioBuf \in Nat \ {0} /\ ResetGap \in Nat
ASSUME SignalsAssumption == Signals \subseteq [1 .. 160 * P_CountFrameDataInPocket -> Word]
ASSUME StrangeAssumption == Strange \subseteq [1 .. 33 -> 0 .. 255]   \* bytes

VARIABLES
  pc,            \* the next stage; "idle" between packets
  packets,       \* packets recorded so far
  frame, sub,    \* the frame of the packet and its sub-frame that are worked on
  k,             \* the sample that is filtered next
  pcm,           \* what has been recorded
  s,             \* the frame's signal, as far as it has been processed
  r,             \* its reflection coefficients
  par,           \* its parameters, as far as they have been computed
  e, dpp, xM,    \* residual, estimate and selected grid of the last sub-frame
  enc,           \* the rest of the coder's gsm_state
  packet,        \* the frames coded
  next,          \* outPacket.count: the count of the next packet
  count,         \* the count of the packet that is on its way
  audioBuf, lastBufCount, useBuf, blockBuf, played,   \* the listener's playout buffer
  slot,          \* the slot that is decoded into
  out,           \* slot -> its samples
  received,      \* parameters of the frame that is decoded
  wt,            \* its residual, as far as it has been reconstructed
  dec,           \* the decoder's gsm_state
  fate,          \* history: "coded" from Record on, "decoded" once the listener has
                 \* decoded what was coded, "other" if it is no longer that
  gap            \* history: how far apart the two histories were at Record

codervars == <<s, r, par, e, dpp, xM, enc>>
buffervars == <<audioBuf, lastBufCount, useBuf, blockBuf, played>>
decodervars == <<received, wt, dec, slot, out>>
travelvars == <<next, count, fate, gap>>
gsmvars == <<prevars, pc, packets, frame, sub, k, pcm, codervars, packet, travelvars,
             buffervars, decodervars>>

\* What the slots hold is in out: here they are only told apart.
Buffer == INSTANCE JitterBuffer WITH
  Counts <- Nat, Data <- {"voice"}, Silence <- "silence", out <- played

Zeros(n) == [i \in 1 .. n |-> 0]

\* gsm_create: all zero, but for the lag.
NewState == [dp0 |-> Zeros(120), LARpp |-> [i \in 0 .. 1 |-> Zeros(8)], j |-> 0,
             u |-> Zeros(8), nrp |-> 40, v |-> [i \in 0 .. 8 |-> 0], msr |-> 0]

NoParameters == [LARc |-> Zeros(8), Nc |-> <<>>, bc |-> <<>>, Mc |-> <<>>,
                 xmaxc |-> <<>>, xMc |-> <<>>]

Silent == [i \in Buffer!Slot |-> Zeros(160 * P_CountFrameDataInPocket)]

\* How far apart the samples are that coder and decoder predict from.
Distance(dp0, other) ==
  LET difference == [i \in 1 .. 120 |-> IF dp0[i] > other[i] THEN dp0[i] - other[i]
                                                           ELSE other[i] - dp0[i]]
  IN  Max({difference[i] : i \in 1 .. 120})

\* The packet on its way, as setAudioBuf sees it.
Arriving == [count |-> count, data |-> "voice"]
Spoiled == IF fate = "none" THEN "none" ELSE "other"
OnItsWay == pc = "idle" /\ fate # "none"

GsmInit ==
  /\ PreInit
  /\ pc = "idle" /\ packets = 0 /\ frame = 1 /\ sub = 1 /\ k = 1
  /\ pcm = <<>> /\ s = <<>> /\ r = Zeros(8) /\ par = NoParameters
  /\ e = Zeros(40) /\ dpp = Zeros(40) /\ xM = Zeros(13)
  /\ enc = NewState /\ dec = NewState
  /\ packet = <<>> /\ received = NoParameters /\ wt = <<>>
  /\ Buffer!Init /\ slot = 1 /\ out = Silent
  /\ next = 0 /\ count = 0 /\ fate = "none" /\ gap = 0

-----------------------------------------------------------------------------
(* encode *)

\* The capture thread has read the samples of a packet.
Record ==
  /\ pc = "idle" /\ packets < MaxPackets
  /\ pcm' \in Signals
  /\ packets' = packets + 1 /\ frame' = 1 /\ packet' = <<>> /\ s' = <<>>
  /\ pc' = "preprocess"
  /\ fate' = "coded" /\ gap' = Distance(enc.dp0, dec.dp0)
  /\ UNCHANGED <<prevars, sub, k, r, par, e, dpp, xM, enc, next, count, buffervars,
                 decodervars>>

\* Gsm_Preprocess, sample by sample.
Preprocess ==
  /\ pc = "preprocess"
  /\ Sample(pcm[160 * (frame - 1) + Len(s) + 1])
  /\ s' = Append(s, so')
  /\ pc' = IF Len(s') = 160 THEN "lpc" ELSE pc
  /\ UNCHANGED <<packets, frame, sub, k, pcm, r, par, e, dpp, xM, enc, packet,
                 travelvars, buffervars, decodervars>>

\* Gsm_LPC_Analysis.
LpcAnalysis ==
  /\ pc = "lpc"
  /\ LET n == scalauto(s)
         sc == Scaled(s, n)
     IN  /\ r' = Reflection_coefficients(L_ACF(sc))
         /\ s' = Rescaled(sc, n)
  /\ par' = [NoParameters EXCEPT !.LARc = Coded(r')]
  /\ pc' = "ratios"
  /\ UNCHANGED <<prevars, packets, frame, sub, k, pcm, e, dpp, xM, enc, packet,
                 travelvars, buffervars, decodervars>>

\* The two sets of ratios change places: the new set overwrites the older one.
NewRatios(state, LARc) ==
  [state EXCEPT !.LARpp[state.j] = Decoding_of_the_coded_Log_Area_Ratios(LARc),
                !.j = 1 - @]
Coefficients(state) == Reflections(state.LARpp[state.j], state.LARpp[1 - state.j], k)

\* Gsm_Short_Term_Analysis_Filter: first the ratios, then sample by sample.
AnalysisRatios ==
  /\ pc = "ratios"
  /\ enc' = NewRatios(enc, par.LARc)
  /\ k' = 1 /\ pc' = "analysis"
  /\ UNCHANGED <<prevars, packets, frame, sub, pcm, s, r, par, e, dpp, xM, packet,
                 travelvars, buffervars, decodervars>>

ShortTermAnalysis ==
  /\ pc = "analysis"
  /\ LET f == AnalysisStages(Coefficients(enc), enc.u, s[k])
     IN  /\ enc' = [enc EXCEPT !.u = f.u]
         /\ s' = [s EXCEPT ![k] = f.di]
  /\ k' = (k % 160) + 1 /\ sub' = 1
  /\ pc' = IF k = 160 THEN "ltp" ELSE pc
  /\ UNCHANGED <<prevars, packets, frame, pcm, r, par, e, dpp, xM, packet,
                 travelvars, buffervars, decodervars>>

\* Gsm_Long_Term_Predictor.
LongTermPredictor ==
  /\ pc = "ltp"
  /\ LET d == SubSeq(s, 40 * sub - 39, 40 * sub)
         ltp == Calculation_of_the_LTP_parameters(d, enc.dp0)
     IN  /\ par' = [par EXCEPT !.Nc = Append(@, ltp.Nc), !.bc = Append(@, ltp.bc)]
         /\ dpp' = Estimate(ltp.bc, ltp.Nc, enc.dp0)
         /\ e' = Remainder(d, dpp')
  /\ pc' = "rpe"
  /\ UNCHANGED <<prevars, packets, frame, sub, k, pcm, s, r, xM, enc, packet,
                 travelvars, buffervars, decodervars>>

\* Faulty variant of Moved: one sub-frame too early.
MovedShort(dp0) == IF sub = 4 THEN SubSeq(dp0, 121, 240) ELSE dp0

\* The reconstructed residual grows behind the 120 samples of history and is moved to
\* the front once, after the last sub-frame.
Moved(dp0) == IF sub = 4 THEN SubSeq(dp0, 161, 280) ELSE dp0

\* Gsm_RPE_Encoding, and the reconstruction of the residual that ends the loop of Gsm_Coder.
RpeEncoding ==
  /\ pc = "rpe"
  /\ LET x == Weighting_filter(e)
         Mc == RPE_grid_selection(x)
         xmaxc == CodedMaximum(xM')
         xMc == Array([i \in 1 .. 13 |-> CodedPulse(xM'[i], xmaxc)])
     IN  /\ xM' = Grid(x, Mc)
         /\ par' = [par EXCEPT !.Mc = Append(@, Mc), !.xmaxc = Append(@, xmaxc),
                               !.xMc = Append(@, xMc)]
         /\ e' = Excitation(Mc, xmaxc, xMc)
  /\ enc' = [enc EXCEPT !.dp0 = Moved(@ \o [i \in 1 .. 40 |-> GSM_ADD(e'[i], dpp[i])])]
  /\ sub' = (sub % 4) + 1
  /\ pc' = IF sub = 4 THEN "pack" ELSE "ltp"
  /\ UNCHANGED <<prevars, packets, frame, k, pcm, s, r, dpp, packet, travelvars, buffervars,
                 decodervars>>

\* The end of gsm_encode, and of the loop of encode; then the packet is sent.
Pack ==
  /\ pc = "pack"
  /\ packet' = Append(packet, gsm_implode(Words(par)))
  /\ IF frame < P_CountFrameDataInPocket
     THEN frame' = frame + 1 /\ s' = <<>> /\ pc' = "preprocess"
          /\ UNCHANGED <<next, count>>
     ELSE frame' = 1 /\ s' = s /\ pc' = "idle"
          /\ count' = next /\ next' = next + 1
  /\ UNCHANGED <<prevars, packets, sub, k, pcm, r, par, e, dpp, xM, enc, fate, gap,
                 buffervars, decodervars>>

\* The capture thread ends and is started again: a new gsm_state, and counts from 0.
RestartMic ==
  /\ pc = "idle"
  /\ enc' = NewState /\ next' = 0
  /\ z1' = 0 /\ L_z2' = 0 /\ mp' = 0 /\ so' = 0
  /\ fate' = Spoiled
  /\ UNCHANGED <<pc, packets, frame, sub, k, pcm, s, r, par, e, dpp, xM, packet, count, gap,
                 buffervars, decodervars>>

-----------------------------------------------------------------------------
(* The packet arrives, once, several times or never. *)

\* setAudioBuf has a slot for a packet that is new, and decodes it into that slot.
Accept ==
  /\ OnItsWay
  /\ Buffer!StorePacket(Arriving)
  /\ slot' \in {i \in Buffer!Slot : Buffer!FirstFree(i)}
  /\ pc' = "unpack"
  /\ UNCHANGED <<prevars, packets, frame, sub, k, pcm, codervars, packet, travelvars, received,
                 wt, dec, out>>

\* A packet that is not new, or for which no slot is free, is not decoded.
Discard ==
  /\ OnItsWay
  /\ Buffer!DropPacket(Arriving) \/ Buffer!RestartStream(Arriving)
  /\ UNCHANGED <<prevars, pc, packets, frame, sub, k, pcm, codervars, packet, travelvars,
                 decodervars>>

\* The first frame of the packet is not the one the speaker coded.
Replace ==
  /\ OnItsWay /\ fate = "coded"
  /\ \E c \in Strange : packet' = [packet EXCEPT ![1] = c]
  /\ fate' = "other"
  /\ UNCHANGED <<prevars, pc, packets, frame, sub, k, pcm, codervars, next, count, gap,
                 buffervars, decodervars>>

\* A playback period takes what waits, in getBufForAllUsers.
Poll ==
  /\ pc = "idle"
  /\ Buffer!getBufForAllUsers
  /\ UNCHANGED <<prevars, pc, packets, frame, sub, k, pcm, codervars, packet, travelvars,
                 decodervars>>

\* The listener has removed the peer as overdue and admits it again: createUser.
NewListener ==
  /\ pc = "idle"
  /\ dec' = NewState /\ out' = Silent
  /\ audioBuf' = [i \in Buffer!Slot |-> [use |-> 0, count |-> 0, bufData |-> "silence"]]
  /\ lastBufCount' = 0 /\ useBuf' = 0 /\ blockBuf' = 1
  /\ fate' = Spoiled
  /\ UNCHANGED <<prevars, pc, packets, frame, sub, k, pcm, codervars, packet, next, count, gap,
                 played, received, wt, slot>>

-----------------------------------------------------------------------------
(* decode *)

\* The loop of decode, which does not look at what gsm_decode returns.
NextFrame ==
  IF frame < P_CountFrameDataInPocket
  THEN frame' = frame + 1 /\ pc' = "unpack" /\ fate' = fate
  ELSE frame' = 1 /\ pc' = "idle" /\ fate' = IF fate = "coded" THEN "decoded" ELSE fate

\* gsm_decode refuses a frame without the magic: its samples stay what the slot held.
Refuse ==
  /\ pc = "unpack" /\ ~HasMagic(packet[frame])
  /\ NextFrame
  /\ UNCHANGED <<prevars, packets, sub, k, pcm, codervars, packet, next, count, gap, buffervars,
                 decodervars>>

Unpack ==
  /\ pc = "unpack" /\ HasMagic(packet[frame])
  /\ received' = Parameters(gsm_explode(packet[frame]))
  /\ wt' = <<>> /\ sub' = 1 /\ pc' = "decode"
  /\ UNCHANGED <<prevars, packets, frame, k, pcm, codervars, packet, travelvars, buffervars,
                 dec, slot, out>>

\* Gsm_RPE_Decoding and Gsm_Long_Term_Synthesis_Filtering; here the history moves on with
\* every sub-frame.
DecodeSubframe ==
  /\ pc = "decode"
  /\ LET erp == Excitation(received.Mc[sub], received.xmaxc[sub], received.xMc[sub])
         Nr == ReceivedLag(received.Nc[sub], dec.nrp)
         drp == Synthesized(erp, Nr, received.bc[sub], dec.dp0)
     IN  /\ dec' = [dec EXCEPT !.nrp = Nr, !.dp0 = SubSeq(@ \o drp, 41, 160)]
         /\ wt' = wt \o drp
  /\ sub' = (sub % 4) + 1
  /\ pc' = IF sub = 4 THEN "newratios" ELSE pc
  /\ UNCHANGED <<prevars, packets, frame, k, pcm, codervars, packet, travelvars, buffervars,
                 received, slot, out>>

\* Gsm_Short_Term_Synthesis_Filter: first the ratios, then sample by sample.
SynthesisRatios ==
  /\ pc = "newratios"
  /\ dec' = NewRatios(dec, received.LARc)
  /\ k' = 1 /\ pc' = "synthesis"
  /\ UNCHANGED <<prevars, packets, frame, sub, pcm, codervars, packet, travelvars,
                 buffervars, received, wt, slot, out>>

\* Postprocessing of a sample: deemphasis, scaling up, and the three lowest bits cleared.
Upscaled(msr) == SASR(GSM_ADD(msr, msr), 3) * 8

ShortTermSynthesis ==
  /\ pc = "synthesis"
  /\ LET v == SynthesisStages(Coefficients(dec), dec.v, wt[k])
         msr == GSM_ADD(v[0], GSM_MULT_R(dec.msr, 28180))
     IN  /\ dec' = [dec EXCEPT !.v = v, !.msr = msr]
         /\ out' = [out EXCEPT ![slot][160 * (frame - 1) + k] = Upscaled(msr)]
  /\ k' = (k % 160) + 1
  /\ IF k = 160 THEN NextFrame ELSE UNCHANGED <<pc, frame, fate>>
  /\ UNCHANGED <<prevars, packets, sub, pcm, codervars, packet, next, count, gap, buffervars,
                 received, wt, slot>>

-----------------------------------------------------------------------------
Encode == Record \/ Preprocess \/ LpcAnalysis \/ AnalysisRatios \/ ShortTermAnalysis
          \/ LongTermPredictor \/ RpeEncoding \/ Pack \/ RestartMic
Travel == Accept \/ Discard \/ Replace \/ Poll \/ NewListener
Decode == Refuse \/ Unpack \/ DecodeSubframe
          \/ SynthesisRatios \/ ShortTermSynthesis

GsmSpec == GsmInit /\ [][Encode \/ Travel \/ Decode]_gsmvars

-----------------------------------------------------------------------------
\* Packets that are not decoded leave the listener's decoder behind: the first packet of
\* every stream (count 0 is never greater than lastBufCount), what is lost, what finds no
\* slot.  But a packet that was accepted, decoded once and perhaps played since, takes the
\* decoder nowhere farther from the coder than it was before the packet: with the samples
\* they predict from no farther apart, the same if they were the same, and filtering with
\* the coder's new ratios, whatever was missed before, and after two frames with the
\* older ones, too.
DecoderFollowsCoder ==
  pc = "idle" /\ fate = "decoded" =>
    /\ Distance(enc.dp0, dec.dp0) <= gap
    /\ dec.LARpp[1 - dec.j] = enc.LARpp[1 - enc.j]
    /\ P_CountFrameDataInPocket > 1 => dec.LARpp[dec.j] = enc.LARpp[enc.j]

\* What the coder computes fits the fields of a frame, and comes out of it as it went in.
FrameRoundTrip ==
  pc = "pack" =>
    LET c == gsm_implode(Words(par))
    IN  /\ HasMagic(c) /\ \A i \in 1 .. 33 : c[i] \in 0 .. 255
        /\ Parameters(gsm_explode(c)) = par

\* The asserts of add.c, lpc.c, long_term.c and rpe.c hold, for the coder's own frames and for
\* those of others, and no shift loses the high bits of a sample.
CodecAsserts ==
  /\ \A i \in 1 .. 8 : r[i] > MIN_WORD /\ par.LARc[i] \in 0 .. gsm_MAC[i] - gsm_MIC[i]
  /\ \A p \in {par, received} :
       /\ \A i \in DOMAIN p.bc : p.bc[i] \in 0 .. 3
       /\ \A i \in DOMAIN p.xmaxc :
            /\ p.Mc[i] \in 0 .. 3
            /\ ExpMant(p.xmaxc[i]).exp \in -4 .. 6
            /\ ExpMant(p.xmaxc[i]).mant \in 0 .. 7
            /\ \A n \in 1 .. 13 : p.xMc[i][n] \in 0 .. 7
  /\ \A i \in DOMAIN par.Nc : par.Nc[i] \in 40 .. 120
  /\ dec.nrp \in 40 .. 120
  /\ par.xmaxc # <<>> =>
       \A i \in 1 .. 13 :
         xM[i] * 2^(6 - ExpMant(par.xmaxc[Len(par.xmaxc)]).exp) \in Word
  /\ pc = "lpc" => DivisionsFit(L_ACF(Scaled(s, scalauto(s))))
=============================================================================
