------------------------ MODULE SessionCalls_proofs ------------------------
(* What a call of a session finds, for every number of outputs and calls    *)
(* and every set of codecs.  If each call asks for the number of outputs    *)
(* the handle was opened with, it reads the file it was given, and only an  *)
(* MPEG-TS demuxer is kept, without its file.  If moreover no call is       *)
(* refused for its options and open_input never fails, no demuxer or        *)
(* decoder is opened over one that is still open.  In transcoding sessions  *)
(* the demuxer knows the audio it reads, and, under the faults that Calm    *)
(* allows, frames, encoders, streams and muxers are there for each packet.  *)
EXTENDS TranscodeSession_proofs

\* pcs once lpms_transcode has accepted the call.
Accepted == {"init", "pixfmt", "decoders", "outputs", "loop", "flush"}

\* pcs at which the call has not been handed to the C core, or has returned.
Outside == {"idle", "stopped", "crashed"}

\* The demuxer is open on the file of this call.
Own == ictx.ic /\ ictx.file = seg.id

\* The input as transcode_shutdown leaves its demuxer, and its decoders.
Parked == ictx.ic => cfg.mpegts /\ ictx.file = 0
NoDecoders == ~ictx.ac /\ (ictx.vc => ictx.hw)

\* Every call asks for the outputs the handle was opened with.
CountKept ==
  /\ pc \notin Outside => seg.nb = cfg.nb
  /\ h.initialized \/ pc \in Accepted => h.nb = cfg.nb

InputKept ==
  /\ pc \in {"idle", "reopen"} => Parked
  /\ pc \in {"lpms", "init"} => Parked \/ Own
  /\ pc \in Accepted \ {"init"} => Own

InputInv == CountKept /\ InputKept

\* A call that was started goes on to open its outputs.
StartedOpens ==
  /\ go.started /\ pc \in {"idle", "reopen"} => h.initialized
  /\ pc = "reopen" => h.initialized
  /\ pc \in {"init", "pixfmt"} /\ ~h.initialized => Own
  /\ pc = "pixfmt" /\ loop.redec => h.initialized

TransmuxKept ==
  /\ h.initialized \/ pc \in Accepted => ictx.transmuxing = cfg.transmux
  /\ cfg.transmux => ~ictx.vc /\ ~ictx.ac
  /\ pc \in {"pixfmt", "decoders"} /\ loop.redec => ~cfg.transmux

\* What may be left of the decoders where open_input or reopen_decoders is
\* called next.
DecodersFreed ==
  /\ ~h.initialized /\ pc \in {"idle", "lpms"} => ~ictx.ic /\ ~ictx.vc /\ ~ictx.ac
  /\ pc \in {"idle", "reopen"} => NoDecoders
  /\ pc \in {"lpms", "init"} => Own \/ NoDecoders
  /\ pc \in {"pixfmt", "decoders"} /\ loop.redec => NoDecoders
  /\ pc = "decoders" => loop.redec

DecoderInv == StartedOpens /\ TransmuxKept /\ DecodersFreed /\ InputNeverLeaks

\* The faults under which the input is left open.
Steady == Faults \cap {"count", "params", "demux", "info", "vdec", "adec"} = {}

-----------------------------------------------------------------------------
(* What the steps do to the input.                                          *)

LEMMA InputFields ==
  ASSUME TypeOK, NEW c \in InputCtx
  PROVE  /\ OpenDemuxer(c).ic /\ OpenDemuxer(c).file = seg.id
         /\ OpenDemuxer(c).vc = c.vc /\ OpenDemuxer(c).ac = c.ac /\ OpenDemuxer(c).hw = c.hw
         /\ ~FreeInput(c).ic /\ ~FreeInput(c).vc /\ ~FreeInput(c).ac
         /\ CloseInput(c).ic = (c.ic /\ cfg.mpegts) /\ CloseInput(c).file = 0
         /\ ~CloseInput(c).ac
         /\ CloseInput(c).vc = (c.vc /\ c.hw) /\ CloseInput(c).hw = c.hw
         /\ OpenVideoDecoder(c).ic = c.ic /\ OpenVideoDecoder(c).file = c.file
         /\ OpenAudioDecoder(c).ic = c.ic /\ OpenAudioDecoder(c).file = c.file
BY DEF InputCtx, OpenDemuxer, FreeInput, CloseInput, OpenVideoDecoder, OpenAudioDecoder, OpensVideo, OpensAudio

LEMMA OpenedInput ==
  ASSUME TypeOK, NEW c \in InputCtx
  PROVE  /\ OpenInput(c).ic /\ OpenInput(c).file = seg.id
         /\ cfg.transmux => OpenInput(c).vc = c.vc /\ OpenInput(c).ac = c.ac
<1> DEFINE t == [c EXCEPT !.transmuxing = cfg.transmux]
<1>1. t \in InputCtx /\ t.vc = c.vc /\ t.ac = c.ac
  BY CallFields DEF InputCtx
<1>2. OpenInput(c) = IF cfg.transmux THEN OpenDemuxer(t)
        ELSE [OpenAudioDecoder(OpenVideoDecoder(OpenDemuxer(t))) EXCEPT !.lastFrame = TRUE]
  BY DEF OpenInput
<1> HIDE DEF t
<1> DEFINE d == OpenDemuxer(t)
           v == OpenVideoDecoder(d)
           a == OpenAudioDecoder(v)
<1>3. d \in InputCtx /\ d.ic /\ d.file = seg.id /\ d.vc = t.vc /\ d.ac = t.ac
  BY <1>1, InputOperations, InputFields
<1> HIDE DEF d
<1>4. v \in InputCtx /\ v.ic /\ v.file = seg.id
  BY <1>3, InputOperations, InputFields
<1> HIDE DEF v
<1>5. a \in InputCtx /\ a.ic /\ a.file = seg.id
  BY <1>4, InputOperations, InputFields
<1> HIDE DEF a
<1>6. [a EXCEPT !.lastFrame = TRUE].ic /\ [a EXCEPT !.lastFrame = TRUE].file = seg.id
  BY <1>5 DEF InputCtx
<1>7. OpenInput(c) = IF cfg.transmux THEN d ELSE [a EXCEPT !.lastFrame = TRUE]
  BY <1>2 DEF a, v, d
<1>8. CASE cfg.transmux
  BY <1>1, <1>3, <1>7, <1>8
<1>9. CASE ~cfg.transmux
  BY <1>6, <1>7, <1>9
<1> QED BY <1>8, <1>9

\* transcode_shutdown, called on the input c.
Parks(c) == ictx' = CloseInput(c) /\ pc' = "idle" /\ UNCHANGED <<cfg, seg>>

LEMMA ParkedInput ==
  ASSUME TypeOK, NEW c \in InputCtx, Parks(c)
  PROVE  Parked' /\ NoDecoders' /\ ictx'.transmuxing = c.transmuxing
<1>1. ictx' = CloseInput(c) /\ cfg' = cfg
  BY DEF Parks
<1>2. /\ CloseInput(c).ic = (c.ic /\ cfg.mpegts) /\ CloseInput(c).file = 0
      /\ ~CloseInput(c).ac
      /\ CloseInput(c).vc = (c.vc /\ c.hw) /\ CloseInput(c).hw = c.hw
      /\ CloseInput(c).transmuxing = c.transmuxing
  BY InputFields, InputOperations
<1> QED BY <1>1, <1>2 DEF Parked, NoDecoders

\* Without the fault every segment asks for the outputs of the session.
LEMMA SegmentCounts ==
  ASSUME "count" \notin Faults, NEW s \in Segments
  PROVE  s.nb = cfg.nb
BY DEF Segments, May

\* The steps of Go: they touch neither the handle nor the input.
LEMMA GoShape ==
  ASSUME "count" \notin Faults, TranscodeRejects \/ TranscodeBadParams \/ TranscodeStart
  PROVE  /\ pc = "idle" /\ pc' \in {"idle", "reopen", "lpms"}
         /\ UNCHANGED <<cfg, h, ictx, out, loop, leaked, bad>>
         /\ seg'.nb = cfg.nb
<1>1. PICK s \in Segments : BeginCall(s) /\ (UNCHANGED pc \/ pc' \in {"reopen", "lpms"})
  BY DEF TranscodeRejects, TranscodeBadParams, TranscodeStart
<1>2. s.nb = cfg.nb
  BY SegmentCounts
<1> QED BY <1>1, <1>2 DEF BeginCall

\* Once the outputs are being set up the input stays as it is until the call
\* ends, with transcode_shutdown or, transmuxing, with the input closed.
LaterShape ==
  /\ pc \in {"outputs", "loop", "flush"}
  /\ UNCHANGED session
  /\ h'.nb = h.nb
  /\ leaked' \cap {"ic", "vc", "ac"} = leaked \cap {"ic", "vc", "ac"}
  /\ \/ UNCHANGED <<h, ictx>> /\ pc' \in {"loop", "flush", "crashed"}
     \/ h'.initialized /\ Parks(ictx)
     \/ /\ h'.initialized /\ pc' = "idle" /\ ictx.transmuxing
        /\ ictx' = [ictx EXCEPT !.ic = FALSE, !.file = 0]

\* The outputs of a call are outputs of the handle.
LEMMA OutputOfHandle ==
  ASSUME TypeOK, NEW i \in Active
  PROVE  i \in OutputIds /\ out[i] \in OutputCtx
BY ConstantsAssumption DEF TypeOK, Active, OutputIds

LEMMA LaterSteps ==
  ASSUME TypeOK,
         \/ SetupOutputs \/ SetupOutputsCrash \/ QueuePacket \/ QueueForeignPacket
         \/ ForceOpen \/ EmptyInput \/ Process \/ EncoderLost \/ ProcessCrash
         \/ ReadError \/ EndOfInput \/ FlushCrash \/ FlushOutputs
  PROVE  LaterShape
<1> USE DEF session
<1>1. ASSUME NEW o, Shutdown(ictx, o), UNCHANGED session
      PROVE  Parks(ictx)
  BY <1>1 DEF Shutdown, Parks
<1>2. ASSUME EndTranscode
      PROVE  h'.initialized /\ h'.nb = h.nb
  BY <1>2 DEF EndTranscode, TypeOK
<1>3. \A i, o : OutputOverwrites(i, o) \cap {"ic", "vc", "ac"} = {}
  BY DEF OutputOverwrites
<1>4. ASSUME NEW s, OpenAll(s) \/ OpenFails(s)
      PROVE  leaked' \cap {"ic", "vc", "ac"} = leaked \cap {"ic", "vc", "ac"}
  <2>1. CASE OpenAll(s)
    <3>1. leaked' = leaked \cup UNION {OutputOverwrites(i, out[i]) : i \in s}
      BY <2>1 DEF OpenAll
    <3> QED BY <1>3, <3>1
  <2>2. CASE OpenFails(s)
    <3>1. PICK j \in s :
            leaked' = leaked \cup UNION {OutputOverwrites(i, out[i]) : i \in {n \in s : n <= j}}
      BY <2>2 DEF OpenFails
    <3> QED BY <1>3, <3>1
  <2> QED BY <1>4, <2>1, <2>2
<1>5. ASSUME NEW s, OpenFails(s), UNCHANGED session
      PROVE  h'.initialized /\ h'.nb = h.nb /\ Parks(ictx)
  BY <1>1, <1>2, <1>5 DEF OpenFails
<1>6. CASE SetupOutputs
  <2>1. leaked' \cap {"ic", "vc", "ac"} = leaked \cap {"ic", "vc", "ac"}
    <3>1. PICK n : leaked' = leaked \cup UNION {OutputOverwrites(i, Populated(out[i])) :
                                                 i \in {m \in Active : m <= n /\ Reopens(out[m])}}
      BY <1>6 DEF SetupOutputs
    <3> QED BY <1>3, <3>1
  <2>2. pc = "outputs" /\ UNCHANGED <<session, h, bad>>
    BY <1>6 DEF SetupOutputs
  <2>3. \/ pc' = "loop" /\ UNCHANGED ictx
        \/ h.initialized /\ \E o : Shutdown(ictx, o)
    <3>1. \/ pc' = "loop" /\ UNCHANGED ictx
          \/ \E i \in Active : Reopens(out[i]) /\ \E o : Shutdown(ictx, o)
      BY <1>6 DEF SetupOutputs
    <3>2. ASSUME NEW i \in Active, Reopens(out[i])
          PROVE  h.initialized
      BY <3>2, OutputOfHandle, OpenedOutputs DEF Reopens
    <3> QED BY <3>1, <3>2
  <2> QED BY <1>1, <2>1, <2>2, <2>3 DEF LaterShape
<1>7. CASE SetupOutputsCrash \/ QueueForeignPacket \/ ProcessCrash \/ FlushCrash
           \/ (EmptyInput /\ ~ictx.ac)
  <2>1. pc \in {"outputs", "loop", "flush"} /\ \E r : Crash(r)
    BY <1>7 DEF SetupOutputsCrash, QueueForeignPacket, ProcessCrash, FlushCrash, EmptyInput,
                NextPackets
  <2> QED BY <2>1 DEF Crash, LaterShape
<1>8. CASE QueuePacket
  <2>1. PICK k \in Readable :
          /\ pc = "loop" /\ UNCHANGED session
          /\ \/ OpenAll(Triggered(k)) /\ UNCHANGED <<h, ictx, pc>>
             \/ OpenFails(Triggered(k))
    BY <1>8 DEF QueuePacket
  <2> QED BY <1>4, <1>5, <2>1 DEF LaterShape
<1>9. CASE ForceOpen
  <2>1. /\ pc = "loop" /\ UNCHANGED session
        /\ \/ OpenAll(Triggered("eof")) /\ UNCHANGED <<h, ictx, pc>>
           \/ OpenFails(Triggered("eof"))
    BY <1>9 DEF ForceOpen
  <2> QED BY <1>4, <1>5, <2>1 DEF LaterShape
<1>10. CASE EmptyInput /\ ictx.ac
  BY <1>10 DEF EmptyInput, LaterShape
<1>11. CASE Process \/ EncoderLost \/ ReadError \/ FlushOutputs
  <2>1. /\ pc \in {"loop", "flush"} /\ UNCHANGED <<session, leaked>>
        /\ \/ UNCHANGED <<h, ictx, pc>>
           \/ EndTranscode /\ \E o : Shutdown(ictx, o)
    BY <1>11 DEF Process, EncoderLost, ReadError, FlushOutputs, NextPackets
  <2> QED BY <1>1, <1>2, <2>1 DEF LaterShape
<1>12. CASE EndOfInput
  <2>1. /\ pc = "loop" /\ UNCHANGED <<session, leaked>>
        /\ \/ /\ ictx.transmuxing /\ EndTranscode /\ pc' = "idle"
              /\ ictx' = [ictx EXCEPT !.ic = FALSE, !.file = 0]
           \/ UNCHANGED <<h, ictx>> /\ pc' = "flush"
    BY <1>12 DEF EndOfInput
  <2> QED BY <1>2, <2>1 DEF LaterShape
<1> QED BY <1>6, <1>7, <1>8, <1>9, <1>10, <1>11, <1>12

\* The first call that reaches the handle opens an input that keeps what is
\* open in ictx.
LEMMA FirstOpenShape ==
  ASSUME TypeOK, FirstOpen
  PROVE  /\ pc = "lpms" /\ UNCHANGED <<cfg, go, seg, calls, loop>>
         /\ ~h.initialized /\ ~h'.initialized /\ h'.nb = seg.nb
         /\ \E c \in InputCtx :
              /\ c.ic = ictx.ic /\ c.vc = ictx.vc /\ c.ac = ictx.ac /\ c.hw = ictx.hw
              /\ c.dv = SkipDecode(ictx.dv, cfg.video) /\ c.da = SkipDecode(ictx.da, cfg.audio)
              /\ \/ /\ ictx' = OpenInput(c) /\ pc' = "init"
                    /\ leaked' = leaked \cup Overwritten(c, "none")
                 \/ /\ \E f \in OpenInputFaults(c) : ictx' \in FailedInputs(c, f)
                    /\ pc' = "idle"
<1> DEFINE dv == SkipDecode(ictx.dv, cfg.video)
           da == SkipDecode(ictx.da, cfg.audio)
           c == [ictx EXCEPT !.dv = dv, !.da = da]
<1>1. dv \in BOOLEAN /\ da \in BOOLEAN
  BY DEF SkipDecode, TypeOK, InputCtx
<1>2. /\ pc = "lpms" /\ UNCHANGED <<cfg, go, seg, calls, loop>>
      /\ ~h.initialized /\ ~h'.initialized /\ h'.nb = seg.nb
  BY DEF FirstOpen, TypeOK
<1>3. \/ /\ ictx' = OpenInput(c) /\ pc' = "init"
         /\ leaked' = leaked \cup Overwritten(c, "none")
      \/ (\E f \in OpenInputFaults(c) : ictx' \in FailedInputs(c, f)) /\ pc' = "idle"
  BY DEF FirstOpen
<1> HIDE DEF dv, da
<1>4. /\ c \in InputCtx /\ c.dv = dv /\ c.da = da
      /\ c.ic = ictx.ic /\ c.vc = ictx.vc /\ c.ac = ictx.ac /\ c.hw = ictx.hw
  BY <1>1 DEF TypeOK, InputCtx
<1> HIDE DEF c
<1> QED BY <1>2, <1>3, <1>4 DEF dv, da

\* transcode_init either leaves an input that transcode_shutdown has closed,
\* or goes on with the demuxer open on the file of the call.
LEMMA InitSteps ==
  ASSUME TypeOK, InputKept,
         ReopenDemuxer \/ ReopenIO \/ ReuseInput \/ CheckPixfmt \/ ReopenDecoders
  PROVE  /\ UNCHANGED <<cfg, go, seg, calls, h>>
         /\ pc \in {"init", "pixfmt", "decoders"}
         /\ \/ Own' /\ pc' \in {"pixfmt", "decoders", "outputs"}
            \/ \E c \in InputCtx : Parks(c)
<1> USE DEF session, Own, Parks
<1>1. /\ ictx \in InputCtx /\ OpenDemuxer(ictx) \in InputCtx
      /\ FreeInput(ictx) \in InputCtx
  BY InputOperations DEF TypeOK
<1>2. CASE ReopenDemuxer
  BY <1>1, <1>2, InputFields DEF ReopenDemuxer, Shutdown
<1>3. CASE ReopenIO
  <2>1. CASE ictx' = [ictx EXCEPT !.file = seg.id] /\ pc' = "pixfmt"
    BY <1>1, <1>3, <2>1 DEF ReopenIO, InputCtx
  <2> QED BY <1>1, <1>3, <2>1 DEF ReopenIO, Shutdown
<1>4. CASE ReuseInput
  BY <1>4 DEF ReuseInput, InputKept, Parked
<1>5. CASE CheckPixfmt
  <2>1. UNCHANGED <<cfg, go, seg, calls, h>> /\ pc = "pixfmt" /\ Own
    BY <1>5 DEF CheckPixfmt, InputKept, Accepted
  <2>2. /\ OpenInput(FreeInput(ictx)).ic /\ OpenInput(FreeInput(ictx)).file = seg.id
        /\ \A f : \A d \in FailedInputs(FreeInput(ictx), f) : d \in InputCtx
    BY <1>1, OpenedInput, InputOperations
  <2>3. CASE ictx' = OpenInput(FreeInput(ictx)) /\ pc' = "outputs"
    BY <2>1, <2>2, <2>3
  <2>4. CASE /\ ictx' = [ictx EXCEPT !.fmtKnown = ictx.fmtKnown \/ (ictx.hw /\ ictx.vi)]
             /\ pc' \in {"decoders", "outputs"}
    <3>1. ictx'.ic = ictx.ic /\ ictx'.file = ictx.file
      BY <1>1, <2>4 DEF InputCtx
    <3> QED BY <2>1, <2>4, <3>1
  <2>5. CASE \E f : \E d \in FailedInputs(FreeInput(ictx), f) : Shutdown(d, out)
    BY <2>1, <2>2, <2>5 DEF Shutdown
  <2> QED BY <1>5, <2>3, <2>4, <2>5 DEF CheckPixfmt
<1>6. CASE ReopenDecoders
  <2> DEFINE v == IF ictx.hw THEN ictx ELSE OpenVideoDecoder(ictx)
             a == OpenAudioDecoder(v)
             e == AudioDecoderFails(v)
  <2>1. v \in InputCtx /\ v.ic = ictx.ic /\ v.file = ictx.file
    BY <1>1, InputOperations, InputFields
  <2>2. /\ a \in InputCtx /\ a.ic = v.ic /\ a.file = v.file
        /\ e \in InputCtx
    BY <2>1, InputOperations, InputFields
  <2>3. \A c \in VideoDecoderFails(ictx) : c \in InputCtx
    BY <1>1, InputOperations
  <2>4. pc = "decoders" /\ UNCHANGED <<cfg, go, seg, calls, h>> /\ Own
    BY <1>6 DEF ReopenDecoders, InputKept, Accepted
  <2>5. \/ ictx' = a /\ pc' = "outputs"
        \/ \E c \in VideoDecoderFails(ictx) : Shutdown(c, out)
        \/ Shutdown(e, out)
    BY <1>6 DEF ReopenDecoders
  <2> HIDE DEF v, a, e
  <2> QED BY <2>1, <2>2, <2>3, <2>4, <2>5 DEF Shutdown
<1> QED BY <1>2, <1>3, <1>4, <1>5, <1>6

-----------------------------------------------------------------------------
(* Each call reads its own file.                                            *)

LEMMA InputPreserved ==
  ASSUME "count" \notin Faults, TypeOK, InputInv, [Next]_vars
  PROVE  InputInv'
<1> USE DEF InputInv, CountKept, InputKept, Accepted, Outside
<1>1. CASE TranscodeRejects \/ TranscodeBadParams \/ TranscodeStart
  BY <1>1, GoShape DEF Parked
<1>2. ASSUME Own' \/ ~ictx'.ic, UNCHANGED <<cfg, seg>>,
             pc' \in {"idle", "lpms", "init"}, pc' = "idle" => ~ictx'.ic
      PROVE  InputKept'
  BY <1>2 DEF Own, Parked
<1>3. CASE ReopenDemux
  <2>1. FreeInput(ictx) \in InputCtx
    BY InputOperations DEF TypeOK
  <2>2. /\ OpenInput(FreeInput(ictx)).ic /\ OpenInput(FreeInput(ictx)).file = seg.id
        /\ \A f : \A d \in FailedInputs(FreeInput(ictx), f) : ~d.ic
    BY <2>1, OpenedInput, InputOperations
  <2>3. UNCHANGED <<cfg, seg, h>> /\ pc = "reopen"
    BY <1>3 DEF ReopenDemux, session
  <2>4. \/ ictx' = OpenInput(FreeInput(ictx)) /\ pc' = "lpms"
        \/ (\E f : ictx' \in FailedInputs(FreeInput(ictx), f)) /\ pc' = "idle"
    BY <1>3 DEF ReopenDemux
  <2>5. InputKept'
    BY <1>2, <2>2, <2>3, <2>4 DEF Own
  <2>6. CountKept'
    BY <2>3, <2>4
  <2> QED BY <2>5, <2>6
<1>4. CASE TooManyOutputs
  <2>1. seg.nb \in OutputIds
    BY <1>4 DEF TooManyOutputs, TypeOK, Config
  <2> QED BY <1>4, <2>1, ConstantsAssumption DEF TooManyOutputs, FitsHandle, OutputIds
<1>5. CASE FirstOpen
  <2>1. PICK c \in InputCtx :
          \/ ictx' = OpenInput(c) /\ pc' = "init"
          \/ (\E f : ictx' \in FailedInputs(c, f)) /\ pc' = "idle"
    BY <1>5, FirstOpenShape
  <2>2. /\ OpenInput(c).ic /\ OpenInput(c).file = seg.id
        /\ \A f : \A d \in FailedInputs(c, f) : ~d.ic
    BY OpenedInput, InputOperations
  <2>3. /\ UNCHANGED <<cfg, seg>> /\ pc = "lpms"
        /\ ~h'.initialized /\ h'.nb = seg.nb
    BY <1>5, FirstOpenShape
  <2>4. InputKept'
    BY <1>2, <2>1, <2>2, <2>3 DEF Own
  <2>5. CountKept'
    BY <2>1, <2>3
  <2> QED BY <2>4, <2>5
<1>6. CASE CheckCount
  BY <1>6 DEF CheckCount, session, Own, Parked
<1>7. CASE ReopenDemuxer \/ ReopenIO \/ ReuseInput \/ CheckPixfmt \/ ReopenDecoders
  <2>1. /\ UNCHANGED <<cfg, go, seg, calls, h>>
        /\ pc \in {"init", "pixfmt", "decoders"}
        /\ \/ Own' /\ pc' \in {"pixfmt", "decoders", "outputs"}
           \/ \E c \in InputCtx : Parks(c)
    BY <1>7, InitSteps
  <2> QED BY <2>1, ParkedInput DEF Parks
<1>8. CASE LaterShape
  <2>1. ictx \in InputCtx /\ UNCHANGED <<cfg, seg>>
    BY <1>8 DEF TypeOK, LaterShape, session
  <2>2. CASE UNCHANGED <<h, ictx>> /\ pc' \in {"loop", "flush", "crashed"}
    BY <1>8, <2>1, <2>2 DEF LaterShape, Own
  <2>3. CASE Parks(ictx)
    BY <1>8, <2>1, <2>3, ParkedInput DEF LaterShape, Parks
  <2>4. CASE pc' = "idle" /\ ictx' = [ictx EXCEPT !.ic = FALSE, !.file = 0]
    <3>1. ~ictx'.ic
      BY <2>1, <2>4 DEF InputCtx
    <3> QED BY <1>8, <2>1, <2>4, <3>1 DEF LaterShape, Parked
  <2> QED BY <1>8, <2>2, <2>3, <2>4 DEF LaterShape
<1>9. CASE StopTranscoder
  BY <1>9 DEF StopTranscoder, session
<1>10. CASE UNCHANGED vars
  BY <1>10 DEF vars, Own, Parked
<1> HIDE DEF InputInv, CountKept, InputKept, Accepted, Outside
<1> QED BY <1>1, <1>3, <1>4, <1>5, <1>6, <1>7, <1>8, <1>9, <1>10, LaterSteps DEF Next

\* If every call asks for the outputs the handle was opened with, what a call
\* decodes comes from the file it was given (lpms_transcode, transcode_init).
THEOREM CallsReadTheirOwnInput ==
  ASSUME "count" \notin Faults
  PROVE  Spec => []ReadsOwnInput
<1>1. Init => InputInv
  BY DEF Init, InputInv, CountKept, InputKept, Accepted, Outside, Parked
<1>2. TypeOK /\ InputInv /\ [Next]_vars => InputInv'
  BY InputPreserved
<1>3. InputInv => ReadsOwnInput
  BY DEF InputInv, InputKept, Accepted, Own, ReadsOwnInput
<1> QED BY <1>1, <1>2, <1>3, SessionTypes, PTL DEF Spec

\* ... and between calls only an MPEG-TS demuxer stays open, without its file
\* (transcode_shutdown).
THEOREM OnlyMpegtsStaysOpen ==
  ASSUME "count" \notin Faults
  PROVE  Spec => []OnlyMpegtsKeepsDemuxer
<1>1. Init => InputInv
  BY DEF Init, InputInv, CountKept, InputKept, Accepted, Outside, Parked
<1>2. TypeOK /\ InputInv /\ [Next]_vars => InputInv'
  BY InputPreserved
<1>3. InputInv => OnlyMpegtsKeepsDemuxer
  BY DEF InputInv, InputKept, Parked, OnlyMpegtsKeepsDemuxer
<1> QED BY <1>1, <1>2, <1>3, SessionTypes, PTL DEF Spec

-----------------------------------------------------------------------------
(* No demuxer or decoder is opened over one that is open.                   *)

LEMMA SteadyCalls ==
  ASSUME Steady
  PROVE  /\ "count" \notin Faults /\ \A c : OpenInputFaults(c) = {}
         /\ ~May("params") /\ ~May("demux") /\ ~May("info") /\ ~May("vdec") /\ ~May("adec")
BY DEF Steady, OpenInputFaults, May

LEMMA NothingOverwritten ==
  ASSUME TypeOK, NEW c \in InputCtx, ~c.ic, ~c.vc, ~c.ac
  PROVE  Overwritten(c, "none") = {}
BY DEF Overwritten, DecoderOverwrites

\* open_input, called on an input that was freed.
LEMMA ReopenedInput ==
  ASSUME TypeOK, ictx' = OpenInput(FreeInput(ictx)), UNCHANGED <<cfg, seg>>,
         leaked' = leaked \cup Overwritten(FreeInput(ictx), "none")
  PROVE  /\ Own' /\ leaked' = leaked /\ ictx'.transmuxing = cfg.transmux
         /\ cfg.transmux => ~ictx'.vc /\ ~ictx'.ac
<1> DEFINE c == FreeInput(ictx)
<1>1. c \in InputCtx /\ ~c.ic /\ ~c.vc /\ ~c.ac
  BY InputOperations, InputFields DEF TypeOK
<1>2. ictx' = OpenInput(c) /\ leaked' = leaked \cup Overwritten(c, "none")
  OBVIOUS
<1> HIDE DEF c
<1>3. /\ OpenInput(c).ic /\ OpenInput(c).file = seg.id
      /\ cfg.transmux => OpenInput(c).vc = c.vc /\ OpenInput(c).ac = c.ac
      /\ OpenInput(c).transmuxing = cfg.transmux
      /\ Overwritten(c, "none") = {}
  BY <1>1, OpenedInput, InputOperations, NothingOverwritten
<1> QED BY <1>1, <1>2, <1>3 DEF Own

LEMMA DecodersPreserved ==
  ASSUME Steady, TypeOK, InputInv, DecoderInv, [Next]_vars
  PROVE  DecoderInv'
<1> USE DEF DecoderInv, StartedOpens, TransmuxKept, DecodersFreed, InputNeverLeaks, Accepted
<1>1. CASE TranscodeRejects \/ TranscodeBadParams \/ TranscodeStart
  <2>1. /\ pc = "idle" /\ UNCHANGED <<cfg, h, ictx, loop, leaked>>
        /\ pc' \in {"idle", "reopen", "lpms"}
    BY <1>1, GoShape, SteadyCalls
  <2>2. /\ pc' = "reopen" => go.started
        /\ pc' = "idle" => UNCHANGED go
    <3>1. CASE TranscodeRejects
      BY <2>1, <3>1 DEF TranscodeRejects
    <3>2. ~TranscodeBadParams
      BY SteadyCalls DEF TranscodeBadParams
    <3>3. CASE TranscodeStart
      BY <3>3 DEF TranscodeStart, NeedsReopen
    <3> QED BY <1>1, <3>1, <3>2, <3>3
  <2> QED BY <2>1, <2>2 DEF NoDecoders
<1>2. CASE ReopenDemux
  <2>1. /\ pc = "reopen" /\ pc' = "lpms" /\ UNCHANGED <<cfg, seg, h>>
        /\ ictx' = OpenInput(FreeInput(ictx))
        /\ leaked' = leaked \cup Overwritten(FreeInput(ictx), "none")
    BY <1>2, SteadyCalls DEF ReopenDemux, session
  <2> QED BY <2>1, ReopenedInput
<1>3. CASE TooManyOutputs
  <2>1. seg.nb \in OutputIds
    BY <1>3 DEF TooManyOutputs, InputInv, CountKept, Outside, TypeOK, Config
  <2> QED BY <1>3, <2>1, ConstantsAssumption DEF TooManyOutputs, FitsHandle, OutputIds
<1>4. CASE FirstOpen
  <2>1. PICK c \in InputCtx :
          /\ c.ic = ictx.ic /\ c.vc = ictx.vc /\ c.ac = ictx.ac
          /\ ictx' = OpenInput(c) /\ pc' = "init"
          /\ leaked' = leaked \cup Overwritten(c, "none")
    BY <1>4, FirstOpenShape, SteadyCalls
  <2>2. pc = "lpms" /\ UNCHANGED <<cfg, seg>> /\ ~h.initialized /\ ~h'.initialized
    BY <1>4, FirstOpenShape
  <2>3. ~c.ic /\ ~c.vc /\ ~c.ac
    BY <2>1, <2>2
  <2>4. /\ OpenInput(c).ic /\ OpenInput(c).file = seg.id
        /\ cfg.transmux => ~OpenInput(c).vc /\ ~OpenInput(c).ac
        /\ OpenInput(c).transmuxing = cfg.transmux
        /\ Overwritten(c, "none") = {}
    BY <2>3, OpenedInput, InputOperations, NothingOverwritten
  <2> QED BY <2>1, <2>2, <2>4 DEF Own
<1>5. CASE CheckCount
  <2>1. /\ pc = "lpms" /\ h.initialized /\ pc' = "init"
        /\ UNCHANGED <<cfg, go, seg, h, ictx, loop, leaked>>
    BY <1>5 DEF CheckCount, session, InputInv, CountKept, Outside
  <2> QED BY <2>1 DEF Own, NoDecoders
<1>6. CASE ReopenDemuxer
  <2>1. /\ pc = "init" /\ ~ictx.ic /\ pc' = "pixfmt"
        /\ ictx' = OpenDemuxer(ictx)
        /\ loop' = [loop EXCEPT !.redec = ~ictx.transmuxing]
        /\ UNCHANGED <<cfg, go, seg, h, leaked>>
    BY <1>6, SteadyCalls DEF ReopenDemuxer, session
  <2>2. /\ ictx'.vc = ictx.vc /\ ictx'.ac = ictx.ac /\ ictx'.hw = ictx.hw
        /\ ictx'.transmuxing = ictx.transmuxing
    BY <2>1, InputFields, InputOperations DEF TypeOK
  <2>3. loop'.redec = ~ictx.transmuxing
    BY <2>1 DEF TypeOK
  <2> QED BY <2>1, <2>2, <2>3 DEF Own, NoDecoders
<1>7. CASE ReopenIO
  <2>1. pc = "init" /\ ictx.file = 0 /\ UNCHANGED <<cfg, go, seg, h, leaked>>
    BY <1>7 DEF ReopenIO, session
  <2>2. h.initialized /\ NoDecoders
    BY <2>1 DEF Own, TypeOK, Segment
  <2>3. CASE ictx' = [ictx EXCEPT !.file = seg.id] /\ pc' = "pixfmt"
    <3>1. /\ ictx'.vc = ictx.vc /\ ictx'.ac = ictx.ac /\ ictx'.hw = ictx.hw
          /\ ictx'.transmuxing = ictx.transmuxing
      BY <2>3 DEF TypeOK, InputCtx
    <3>2. loop'.redec = ~ictx.transmuxing
      BY <1>7, <2>3 DEF ReopenIO, Shutdown, TypeOK
    <3> QED BY <2>1, <2>2, <2>3, <3>1, <3>2 DEF NoDecoders
  <2>4. CASE Shutdown(ictx, out)
    <3>1. Parks(ictx) /\ ictx \in InputCtx
      BY <2>1, <2>4 DEF Shutdown, Parks, TypeOK
    <3>2. NoDecoders' /\ ictx'.transmuxing = ictx.transmuxing
      BY <3>1, ParkedInput
    <3>3. ictx'.vc = (ictx.vc /\ ictx.hw) /\ pc' = "idle"
      BY <3>1, InputFields DEF Parks
    <3> QED BY <2>1, <2>2, <3>2, <3>3 DEF NoDecoders
  <2> QED BY <1>7, <2>3, <2>4 DEF ReopenIO
<1>8. CASE ReuseInput
  <2>1. /\ pc = "init" /\ pc' = "pixfmt" /\ loop' = [loop EXCEPT !.redec = FALSE]
        /\ UNCHANGED <<cfg, go, seg, h, ictx, leaked>>
    BY <1>8 DEF ReuseInput, session
  <2>2. ~loop'.redec
    BY <2>1 DEF TypeOK
  <2> QED BY <2>1, <2>2 DEF Own
<1>9. CASE CheckPixfmt
  <2>1. pc = "pixfmt" /\ UNCHANGED <<cfg, go, seg, h>>
    BY <1>9 DEF CheckPixfmt, session
  <2>2. CASE /\ ictx' = OpenInput(FreeInput(ictx)) /\ pc' = "outputs"
             /\ leaked' = leaked \cup Overwritten(FreeInput(ictx), "none")
    BY <2>1, <2>2, ReopenedInput
  <2>3. CASE /\ ictx' = [ictx EXCEPT !.fmtKnown = ictx.fmtKnown \/ (ictx.hw /\ ictx.vi)]
             /\ pc' = (IF loop.redec THEN "decoders" ELSE "outputs")
             /\ UNCHANGED <<loop, leaked>>
    <3>1. /\ ictx'.vc = ictx.vc /\ ictx'.ac = ictx.ac /\ ictx'.hw = ictx.hw
          /\ ictx'.transmuxing = ictx.transmuxing
      BY <2>3 DEF TypeOK, InputCtx
    <3> QED BY <2>1, <2>3, <3>1 DEF NoDecoders
  <2> QED BY <1>9, <2>2, <2>3, SteadyCalls DEF CheckPixfmt
<1>10. CASE ReopenDecoders
  <2> DEFINE v == IF ictx.hw THEN ictx ELSE OpenVideoDecoder(ictx)
  <2>1. pc = "decoders" /\ NoDecoders /\ ~cfg.transmux /\ UNCHANGED <<cfg, go, seg, h>>
    BY <1>10 DEF ReopenDecoders, session
  <2>2. /\ ictx' = OpenAudioDecoder(v) /\ pc' = "outputs"
        /\ leaked' = leaked \cup (DecoderOverwrites(ictx, ictx) \
                                   IF ictx.hw THEN {"vc"} ELSE {})
    BY <1>10, SteadyCalls DEF ReopenDecoders
  <2>3. v \in InputCtx /\ v.transmuxing = ictx.transmuxing
    BY InputOperations DEF TypeOK
  <2> HIDE DEF v
  <2>4. ictx'.transmuxing = ictx.transmuxing
    BY <2>2, <2>3, InputOperations
  <2>5. leaked' = leaked
    BY <2>1, <2>2 DEF DecoderOverwrites, NoDecoders, OpensVideo, OpensAudio
  <2> QED BY <2>1, <2>2, <2>4, <2>5
<1>11. CASE LaterShape
  <2>1. /\ pc \in {"outputs", "loop", "flush"} /\ ictx \in InputCtx
        /\ UNCHANGED <<cfg, go, seg>>
        /\ leaked' \cap {"ic", "vc", "ac"} = leaked \cap {"ic", "vc", "ac"}
    BY <1>11 DEF LaterShape, TypeOK, session
  <2>2. CASE UNCHANGED <<h, ictx>> /\ pc' \in {"loop", "flush", "crashed"}
    BY <2>1, <2>2
  <2>3. CASE h'.initialized /\ Parks(ictx)
    <3>1. NoDecoders' /\ ictx'.transmuxing = ictx.transmuxing
      BY <2>1, <2>3, ParkedInput
    <3>2. ictx'.vc = (ictx.vc /\ ictx.hw) /\ pc' = "idle"
      BY <2>1, <2>3, InputFields DEF Parks
    <3> QED BY <2>1, <2>3, <3>1, <3>2 DEF NoDecoders
  <2>4. CASE /\ h'.initialized /\ pc' = "idle" /\ ictx.transmuxing
             /\ ictx' = [ictx EXCEPT !.ic = FALSE, !.file = 0]
    <3>1. /\ ictx'.vc = ictx.vc /\ ictx'.ac = ictx.ac
          /\ ictx'.transmuxing = ictx.transmuxing
      BY <2>1, <2>4 DEF InputCtx
    <3> QED BY <2>1, <2>4, <3>1 DEF NoDecoders
  <2> QED BY <1>11, <2>2, <2>3, <2>4 DEF LaterShape
<1>12. CASE StopTranscoder
  <2>1. /\ ictx' = FreeInput(ictx) /\ pc' = "stopped"
        /\ UNCHANGED <<cfg, h, leaked>>
    BY <1>12 DEF StopTranscoder, session
  <2>2. ~ictx'.vc /\ ~ictx'.ac /\ ictx'.transmuxing = ictx.transmuxing
    BY <2>1, InputFields, InputOperations DEF TypeOK
  <2> QED BY <2>1, <2>2
<1>13. CASE UNCHANGED vars
  BY <1>13 DEF vars, Own, NoDecoders
<1> HIDE DEF DecoderInv, StartedOpens, TransmuxKept, DecodersFreed, InputNeverLeaks, Accepted
<1> QED BY <1>1, <1>2, <1>3, <1>4, <1>5, <1>6, <1>7, <1>8, <1>9, <1>10, <1>11, <1>12, <1>13,
           LaterSteps DEF Next

\* If moreover no call is refused for its options and open_input does not fail,
\* no demuxer or decoder is opened over one that is still open, whatever else
\* fails in transcode_init and transcode.
THEOREM InputsAreNeverOverwritten ==
  ASSUME Steady
  PROVE  Spec => []InputNeverLeaks
<1>1. Init => InputInv /\ DecoderInv
  BY DEF Init, InputInv, CountKept, InputKept, Accepted, Outside, Parked, DecoderInv,
         StartedOpens, TransmuxKept, DecodersFreed, NoDecoders, InputNeverLeaks
<1>2. TypeOK /\ InputInv /\ DecoderInv /\ [Next]_vars => InputInv' /\ DecoderInv'
  BY InputPreserved, DecodersPreserved, SteadyCalls
<1>3. DecoderInv => InputNeverLeaks
  BY DEF DecoderInv
<1> QED BY <1>1, <1>2, <1>3, SessionTypes, PTL DEF Spec

-----------------------------------------------------------------------------
(* The demuxer knows the audio of the segment it reads.                     *)

WantsAudio == \E i \in 1..cfg.nb : cfg.audio[i] # "drop"

OneFormat == ~seg.newfmt /\ ~cfg.transmux

GoStarted == cfg.probed /\ (h.initialized \/ pc \notin Outside) => go.started

\* The demuxer of an MPEG-TS session stays open once a call has used it.
MpegtsKept ==
  cfg.mpegts /\ h.initialized /\ pc \in {"idle", "reopen", "lpms", "init"} => ictx.ic

\* lastacodec is the codec of the demuxer that is kept, also while segments
\* without audio are read.
AudioKept ==
  cfg.probed /\ WantsAudio =>
    /\ pc \in {"idle", "lpms", "init"} /\ ictx.ic => ictx.acodec = go.lastacodec
    /\ pc = "reopen" => seg.acodec = go.lastacodec
    /\ pc \in {"lpms", "init"} => seg.acodec \in {NoAudio, go.lastacodec}
    /\ pc \in {"lpms", "init"} /\ ~h.initialized => seg.acodec = go.lastacodec
    /\ pc \in Accepted \ {"init"} =>
         /\ seg.acodec # NoAudio => ictx.acodec = seg.acodec
         /\ cfg.mpegts => ictx.acodec = go.lastacodec

AudioInv == OneFormat /\ GoStarted /\ MpegtsKept /\ AudioKept

LEMMA AudioFields ==
  ASSUME TypeOK, NEW c \in InputCtx
  PROVE  /\ OpenDemuxer(c).acodec = seg.acodec
         /\ CloseInput(c).acodec = c.acodec
         /\ OpenVideoDecoder(c).acodec = c.acodec
         /\ OpenAudioDecoder(c).acodec = c.acodec
BY DEF InputCtx, OpenDemuxer, CloseInput, OpenVideoDecoder, OpenAudioDecoder, OpensVideo, OpensAudio

LEMMA OpenedAudio ==
  ASSUME TypeOK, NEW c \in InputCtx, ~cfg.transmux
  PROVE  OpenInput(c).ic /\ OpenInput(c).acodec = seg.acodec
<1> DEFINE d == OpenDemuxer([c EXCEPT !.transmuxing = cfg.transmux])
           v == OpenVideoDecoder(d)
           a == OpenAudioDecoder(v)
<1>1. d \in InputCtx /\ d.acodec = seg.acodec
  <2>1. [c EXCEPT !.transmuxing = cfg.transmux] \in InputCtx
    BY CallFields DEF InputCtx
  <2> QED BY <2>1, InputOperations, AudioFields
<1>2. OpenInput(c) = [a EXCEPT !.lastFrame = TRUE]
  BY DEF OpenInput
<1> HIDE DEF d
<1>3. v \in InputCtx /\ v.acodec = seg.acodec
  BY <1>1, InputOperations, AudioFields
<1> HIDE DEF v
<1>4. a \in InputCtx /\ a.acodec = seg.acodec
  BY <1>3, InputOperations, AudioFields
<1> HIDE DEF a
<1>5. [a EXCEPT !.lastFrame = TRUE].acodec = seg.acodec
  BY <1>4 DEF InputCtx
<1> QED BY <1>2, <1>5, OpenedInput

\* Go notices every codec that the open demuxer does not know.
LEMMA AudioNoticed ==
  ASSUME Steady, TypeOK, "pixfmt" \notin Faults, InputInv, DecoderInv, AudioInv,
         TranscodeRejects \/ TranscodeBadParams \/ TranscodeStart
  PROVE  AudioInv'
<1> USE DEF AudioInv
<1>1. /\ pc = "idle" /\ UNCHANGED <<cfg, h, ictx>>
      /\ pc' \in {"idle", "reopen", "lpms"}
  BY GoShape, SteadyCalls
<1>2. PICK s \in Segments :
        /\ seg' = s
        /\ \/ UNCHANGED <<go, pc>>
           \/ go' = GoAfter(s) /\ pc' = (IF NeedsReopen(s) THEN "reopen" ELSE "lpms")
  BY SteadyCalls DEF TranscodeRejects, TranscodeBadParams, TranscodeStart, BeginCall
<1>3. s.nb = cfg.nb /\ ~s.newfmt
  BY SegmentCounts, SteadyCalls DEF Segments, May
<1>4. OneFormat' /\ MpegtsKept' /\ (WantsAudio' <=> WantsAudio)
  BY <1>1, <1>2, <1>3 DEF OneFormat, MpegtsKept, WantsAudio
<1>5. CASE UNCHANGED <<go, pc>>
  BY <1>1, <1>4, <1>5 DEF GoStarted, AudioKept, Outside, Accepted
<1>6. CASE /\ go' = GoAfter(s) /\ cfg.probed
           /\ pc' = (IF NeedsReopen(s) THEN "reopen" ELSE "lpms")
  <2>1. go \in [started : BOOLEAN, lastacodec : AnyCodec]
    BY DEF TypeOK
  <2>2. CASE ~go.started
    <3>1. /\ go'.started /\ go'.lastacodec = s.acodec /\ pc' = "lpms"
      BY <1>6, <2>2 DEF GoAfter, NeedsReopen
    <3>2. ~ictx.ic
      BY <1>1, <1>6, <2>2 DEF GoStarted, DecoderInv, DecodersFreed
    <3> QED BY <1>1, <1>2, <1>4, <3>1, <3>2 DEF GoStarted, AudioKept, Accepted
  <2>3. CASE go.started
    <3>1. h.initialized
      BY <1>1, <2>3 DEF DecoderInv, StartedOpens
    <3>2. CASE /\ s.acodec # NoAudio /\ go.lastacodec # s.acodec
               /\ \E i \in OutputIds \cap (1..s.nb) : cfg.audio[i] # "drop"
      <4>1. go' = [go EXCEPT !.lastacodec = s.acodec]
        BY <1>6, <2>3, <3>2 DEF GoAfter
      <4>2. go'.started /\ go'.lastacodec = s.acodec
        BY <2>1, <2>3, <4>1
      <4>3. pc' = "reopen"
        BY <1>6, <2>3, <3>2, <4>2 DEF NeedsReopen
      <4> QED BY <1>1, <1>2, <1>4, <4>2, <4>3 DEF GoStarted, AudioKept, Accepted
    <3>3. CASE ~(/\ s.acodec # NoAudio /\ go.lastacodec # s.acodec
                 /\ \E i \in OutputIds \cap (1..s.nb) : cfg.audio[i] # "drop")
      <4>1. go' = go
        BY <1>6, <2>3, <3>3 DEF GoAfter
      <4>2. pc' = "lpms"
        BY <1>6, <4>1 DEF NeedsReopen
      <4>3. WantsAudio => s.acodec \in {NoAudio, go.lastacodec}
        BY <1>3, <3>3, ConstantsAssumption DEF WantsAudio, OutputIds, TypeOK, Config
      <4> QED BY <1>1, <1>2, <1>4, <2>3, <3>1, <4>1, <4>2, <4>3 DEF GoStarted, AudioKept, Accepted
    <3> QED BY <3>2, <3>3
  <2> QED BY <2>2, <2>3
<1>7. CASE ~cfg.probed
  BY <1>1, <1>4, <1>7 DEF GoStarted, AudioKept
<1> QED BY <1>2, <1>5, <1>6, <1>7

LEMMA AudioPreserved ==
  ASSUME Steady, TypeOK, "pixfmt" \notin Faults, InputInv, DecoderInv, AudioInv, [Next]_vars
  PROVE  AudioInv'
<1> USE DEF AudioInv, OneFormat, GoStarted, MpegtsKept, Outside, Accepted
<1>1. CASE TranscodeRejects \/ TranscodeBadParams \/ TranscodeStart
  BY <1>1, AudioNoticed
<1>2. ASSUME UNCHANGED <<cfg, go, seg>>, pc \notin Outside
      PROVE  OneFormat' /\ GoStarted' /\ (WantsAudio' <=> WantsAudio)
  BY <1>2 DEF WantsAudio
<1>3. ictx \in InputCtx /\ FreeInput(ictx) \in InputCtx
  BY InputOperations DEF TypeOK
\* A failed step of transcode_init or transcode: the demuxer is parked.
<1>4. ASSUME Parks(ictx), UNCHANGED <<cfg, go, seg>>, pc \notin Outside,
             cfg.mpegts => ictx.ic,
             cfg.probed /\ WantsAudio /\ cfg.mpegts => ictx.acodec = go.lastacodec
      PROVE  AudioInv'
  <2>1. /\ ictx'.ic = (ictx.ic /\ cfg.mpegts) /\ ictx'.acodec = ictx.acodec
        /\ pc' = "idle"
    BY <1>3, <1>4, InputFields, AudioFields DEF Parks
  <2> QED BY <1>2, <1>4, <2>1 DEF AudioKept
<1>5. CASE ReopenDemux
  <2>1. /\ pc = "reopen" /\ pc' = "lpms" /\ UNCHANGED <<cfg, go, seg, h>>
        /\ ictx' = OpenInput(FreeInput(ictx))
    BY <1>5, SteadyCalls DEF ReopenDemux, session
  <2>2. ictx'.ic /\ ictx'.acodec = seg.acodec
    BY <1>3, <2>1, OpenedAudio
  <2>3. h.initialized
    BY <2>1 DEF DecoderInv, StartedOpens
  <2> QED BY <1>2, <2>1, <2>2, <2>3 DEF AudioKept
<1>6. CASE TooManyOutputs
  <2>1. seg.nb \in OutputIds
    BY <1>6 DEF TooManyOutputs, InputInv, CountKept, TypeOK, Config
  <2> QED BY <1>6, <2>1, ConstantsAssumption DEF TooManyOutputs, FitsHandle, OutputIds
<1>7. CASE FirstOpen
  <2>1. PICK c \in InputCtx : ictx' = OpenInput(c) /\ pc' = "init"
    BY <1>7, FirstOpenShape, SteadyCalls
  <2>2. /\ pc = "lpms" /\ UNCHANGED <<cfg, go, seg>>
        /\ ~h.initialized /\ ~h'.initialized
    BY <1>7, FirstOpenShape
  <2>3. ictx'.ic /\ ictx'.acodec = seg.acodec
    BY <2>1, OpenedAudio
  <2> QED BY <1>2, <2>1, <2>2, <2>3 DEF AudioKept
<1>8. CASE CheckCount
  <2>1. /\ pc = "lpms" /\ h.initialized /\ pc' = "init"
        /\ UNCHANGED <<cfg, go, seg, h, ictx>>
    BY <1>8 DEF CheckCount, session, InputInv, CountKept
  <2> QED BY <1>2, <2>1 DEF AudioKept
<1>9. CASE ReopenDemuxer
  <2>1. /\ pc = "init" /\ ~ictx.ic /\ pc' = "pixfmt"
        /\ ictx' = OpenDemuxer(ictx)
        /\ UNCHANGED <<cfg, go, seg, h>>
    BY <1>9, SteadyCalls DEF ReopenDemuxer, session
  <2>2. ictx'.acodec = seg.acodec
    BY <1>3, <2>1, AudioFields
  <2>3. ~cfg.mpegts
    BY <2>1 DEF DecoderInv, StartedOpens, Own
  <2> QED BY <1>2, <2>1, <2>2, <2>3 DEF AudioKept
<1>10. CASE ReopenIO
  <2>1. pc = "init" /\ ictx.ic /\ UNCHANGED <<cfg, go, seg, h>>
    BY <1>10 DEF ReopenIO, session
  <2>2. CASE ictx' = [ictx EXCEPT !.file = seg.id] /\ pc' = "pixfmt"
    <3>1. ictx'.acodec = ictx.acodec
      BY <1>3, <2>2 DEF InputCtx
    <3> QED BY <1>2, <2>1, <2>2, <3>1 DEF AudioKept
  <2>3. CASE Shutdown(ictx, out)
    BY <1>4, <2>1, <2>3 DEF Shutdown, Parks, AudioKept
  <2> QED BY <1>10, <2>2, <2>3 DEF ReopenIO
<1>11. CASE ReuseInput
  <2>1. /\ pc = "init" /\ ictx.ic /\ pc' = "pixfmt"
        /\ UNCHANGED <<cfg, go, seg, h, ictx>>
    BY <1>11 DEF ReuseInput, session
  <2> QED BY <1>2, <2>1 DEF AudioKept
<1>12. CASE CheckPixfmt
  <2>1. /\ pc = "pixfmt" /\ UNCHANGED <<cfg, go, seg, h>>
        /\ ictx' = [ictx EXCEPT !.fmtKnown = ictx.fmtKnown \/ (ictx.hw /\ ictx.vi)]
        /\ pc' \in {"decoders", "outputs"}
    BY <1>12 DEF CheckPixfmt, session
  <2>2. ictx'.acodec = ictx.acodec
    BY <1>3, <2>1 DEF InputCtx
  <2> QED BY <1>2, <2>1, <2>2 DEF AudioKept
<1>13. CASE ReopenDecoders
  <2> DEFINE v == IF ictx.hw THEN ictx ELSE OpenVideoDecoder(ictx)
  <2>1. /\ pc = "decoders" /\ UNCHANGED <<cfg, go, seg, h>>
        /\ ictx' = OpenAudioDecoder(v) /\ pc' = "outputs"
    BY <1>13, SteadyCalls DEF ReopenDecoders, session
  <2>2. v \in InputCtx /\ v.acodec = ictx.acodec
    BY <1>3, InputOperations, AudioFields
  <2> HIDE DEF v
  <2>3. ictx'.acodec = ictx.acodec
    BY <2>1, <2>2, AudioFields
  <2> QED BY <1>2, <2>1, <2>3 DEF AudioKept
<1>14. CASE LaterShape
  <2>1. pc \in {"outputs", "loop", "flush"} /\ UNCHANGED <<cfg, go, seg>>
    BY <1>14 DEF LaterShape, session
  <2>2. CASE UNCHANGED <<h, ictx>> /\ pc' \in {"loop", "flush", "crashed"}
    BY <1>2, <2>1, <2>2 DEF AudioKept
  <2>3. CASE Parks(ictx)
    BY <1>4, <2>1, <2>3 DEF InputInv, InputKept, Own, AudioKept
  <2>4. ~ictx.transmuxing
    BY <2>1 DEF DecoderInv, TransmuxKept
  <2> QED BY <1>14, <2>2, <2>3, <2>4 DEF LaterShape
<1>15. CASE StopTranscoder
  BY <1>15 DEF StopTranscoder, session, AudioKept
<1>16. CASE UNCHANGED vars
  BY <1>16 DEF vars, WantsAudio, AudioKept
<1> HIDE DEF AudioInv, OneFormat, GoStarted, MpegtsKept, Outside, Accepted
<1> QED BY <1>1, <1>5, <1>6, <1>7, <1>8, <1>9, <1>10, <1>11, <1>12, <1>13, <1>14, <1>15, <1>16,
           LaterSteps DEF Next

\* In transcoding sessions whose input keeps its pixel format, the demuxer that
\* reads a segment with audio knows the codec of that audio: Transcode reopens
\* it whenever a codec appears or changes.
THEOREM DemuxersKnowTheirAudio ==
  ASSUME Steady, "pixfmt" \notin Faults, \A c \in Sessions : ~c.transmux
  PROVE  Spec => []DemuxerKnowsAudio
<1>1. Init => InputInv /\ DecoderInv /\ AudioInv
  BY DEF Init, InputInv, CountKept, InputKept, Accepted, Outside, Parked, DecoderInv,
         StartedOpens, TransmuxKept, DecodersFreed, NoDecoders, InputNeverLeaks,
         AudioInv, OneFormat, GoStarted, MpegtsKept, AudioKept
<1>2. TypeOK /\ InputInv /\ DecoderInv /\ AudioInv /\ [Next]_vars
        => InputInv' /\ DecoderInv' /\ AudioInv'
  BY InputPreserved, DecodersPreserved, AudioPreserved, SteadyCalls
<1>3. TypeOK /\ InputInv /\ AudioInv => DemuxerKnowsAudio
  BY DEF InputInv, CountKept, AudioInv, AudioKept, WantsAudio, Accepted, DemuxerKnowsAudio,
         Active
<1> QED BY <1>1, <1>2, <1>3, SessionTypes, PTL DEF Spec

-----------------------------------------------------------------------------
(* What transcode assumes of the packets it processes: the input.           *)

\* The faults after which a session may go on processing what it should not
\* are left out: a stream that is missing or comes late, an input or encoder
\* torn down in the middle, a segment without a packet.
Calm == Faults \subseteq {"noaudio", "probe", "io", "open", "reopen", "read", "encode"}

Transcoding == \A c \in Sessions : ~c.transmux

\* The handle has opened its input, and still has it.
Used == (h.initialized \/ pc \in Accepted) /\ pc \notin {"stopped", "crashed"}

AllSkip(mode) == \A i \in 1..cfg.nb : ~Encodes(mode[i])

VideoThere == seg.video /\ ictx.vi /\ (ictx.ic => ictx.video)

FramesThere == Used => ictx.lastFrame

SkipsSet ==
  pc \notin {"stopped", "crashed"} =>
    /\ (ictx.dv <=> Used /\ AllSkip(cfg.video))
    /\ (ictx.da <=> Used /\ AllSkip(cfg.audio))

HwDecoder == pc # "stopped" /\ ictx.hw => ictx.vc /\ ~ictx.dv

\* The decoders an input needs are open.
Decodes(c) ==
  /\ ~c.dv => c.vc
  /\ c.ai = (c.acodec # NoAudio)
  /\ c.ai /\ ~c.da => c.ac

DecodersOpen ==
  \/ pc \in {"lpms", "init"} /\ Own
  \/ pc = "pixfmt" /\ ~loop.redec
  \/ pc \in {"outputs", "loop", "flush"}
  => Decodes(ictx)

InputFits == VideoThere /\ FramesThere /\ SkipsSet /\ HwDecoder /\ DecodersOpen

LEMMA CalmCalls ==
  ASSUME Calm
  PROVE  /\ Steady /\ "pixfmt" \notin Faults
         /\ \A f \in {"novideo", "audiofirst", "empty", "resize", "openlate"} : ~May(f)
BY DEF Calm, Steady, May

\* Fields that the operations on the input leave alone.
LEMMA KeptFields ==
  ASSUME TypeOK, NEW c \in InputCtx
  PROVE  /\ OpenDemuxer(c).video = seg.video /\ OpenDemuxer(c).acodec = seg.acodec
         /\ \A d \in {OpenDemuxer(c), CloseInput(c), FreeInput(c)} :
              d.vi = c.vi /\ d.dv = c.dv /\ d.da = c.da /\ d.hw = c.hw /\ d.ai = c.ai
         /\ OpenDemuxer(c).lastFrame = c.lastFrame
         /\ CloseInput(c).lastFrame = c.lastFrame /\ CloseInput(c).video = c.video
BY DEF InputCtx, OpenDemuxer, CloseInput, FreeInput

LEMMA OpenedDecoders ==
  ASSUME TypeOK, NEW c \in InputCtx, c.video
  PROVE  /\ OpenVideoDecoder(c).vi
         /\ ~c.dv => OpenVideoDecoder(c).vc
         /\ OpenVideoDecoder(c).hw = (IF c.dv THEN c.hw ELSE cfg.hw)
         /\ OpenVideoDecoder(c).video
         /\ OpenVideoDecoder(c).dv = c.dv /\ OpenVideoDecoder(c).da = c.da
         /\ OpenVideoDecoder(c).acodec = c.acodec
         /\ OpenVideoDecoder(c).lastFrame = c.lastFrame
BY DEF InputCtx, OpenVideoDecoder, OpensVideo

LEMMA OpenedAudioDecoder ==
  ASSUME TypeOK, NEW c \in InputCtx
  PROVE  /\ OpenAudioDecoder(c).ai = (c.acodec # NoAudio)
         /\ c.acodec # NoAudio /\ ~c.da => OpenAudioDecoder(c).ac
         /\ OpenAudioDecoder(c).vi = c.vi /\ OpenAudioDecoder(c).vc = c.vc
         /\ OpenAudioDecoder(c).hw = c.hw /\ OpenAudioDecoder(c).video = c.video
         /\ OpenAudioDecoder(c).dv = c.dv /\ OpenAudioDecoder(c).da = c.da
         /\ OpenAudioDecoder(c).acodec = c.acodec
         /\ OpenAudioDecoder(c).lastFrame = c.lastFrame
BY DEF InputCtx, OpenAudioDecoder, OpensAudio

\* open_input in a transcoding session leaves an input that fits.
LEMMA InputOpened ==
  ASSUME TypeOK, NEW c \in InputCtx, ~cfg.transmux, seg.video, c.hw => ~c.dv
  PROVE  /\ OpenInput(c).vi /\ OpenInput(c).video /\ OpenInput(c).lastFrame
         /\ OpenInput(c).dv = c.dv /\ OpenInput(c).da = c.da
         /\ OpenInput(c).hw => OpenInput(c).vc /\ ~c.dv
         /\ Decodes(OpenInput(c))
<1> DEFINE t == [c EXCEPT !.transmuxing = cfg.transmux]
           d == OpenDemuxer(t)
           v == OpenVideoDecoder(d)
           a == OpenAudioDecoder(v)
<1>1. t \in InputCtx /\ t.dv = c.dv /\ t.da = c.da /\ t.hw = c.hw
  BY CallFields DEF InputCtx
<1>2. OpenInput(c) = [a EXCEPT !.lastFrame = TRUE]
  BY DEF OpenInput
<1> HIDE DEF t
<1>3. /\ d \in InputCtx /\ d.video
      /\ d.dv = c.dv /\ d.da = c.da /\ d.hw = c.hw
  BY <1>1, InputOperations, KeptFields
<1> HIDE DEF d
<1>4. /\ v \in InputCtx /\ v.vi /\ v.video /\ v.dv = c.dv /\ v.da = c.da
      /\ ~c.dv => v.vc
      /\ v.hw => v.vc /\ ~c.dv
  BY <1>3, InputOperations, OpenedDecoders
<1> HIDE DEF v
<1>5. /\ a \in InputCtx /\ a.vi /\ a.video /\ a.dv = c.dv /\ a.da = c.da
      /\ a.hw => a.vc /\ ~c.dv
      /\ Decodes(a)
  <2>1. a \in InputCtx
    BY <1>4, InputOperations
  <2>2. /\ a.vi = v.vi /\ a.vc = v.vc /\ a.hw = v.hw /\ a.video = v.video
        /\ a.dv = v.dv /\ a.da = v.da /\ a.acodec = v.acodec
        /\ a.ai = (v.acodec # NoAudio) /\ (v.acodec # NoAudio /\ ~v.da => a.ac)
    BY <1>4, OpenedAudioDecoder
  <2>3. Decodes(a)
    <3> HIDE DEF a
    <3> QED BY <1>4, <2>2 DEF Decodes
  <2> QED BY <1>4, <2>1, <2>2, <2>3
<1> HIDE DEF a
<1>6. [a EXCEPT !.lastFrame = TRUE].lastFrame
  BY <1>5 DEF InputCtx
<1>7. \A f \in {"vi", "video", "dv", "da", "hw", "vc", "ai", "acodec", "ac"} :
        [a EXCEPT !.lastFrame = TRUE][f] = a[f]
  BY <1>5 DEF InputCtx
<1> QED BY <1>2, <1>5, <1>6, <1>7 DEF Decodes

\* The loop over the outputs skips a decoder if no output needs it.
LEMMA SkipsAll ==
  ASSUME TypeOK, seg.nb = cfg.nb, NEW mode
  PROVE  SkipDecode(FALSE, mode) = AllSkip(mode)
<1>1. OutputIds \cap (1..seg.nb) = 1..cfg.nb /\ 1 \in 1..cfg.nb
  BY ConstantsAssumption DEF TypeOK, Config, OutputIds
<1>2. CASE \A i \in 1..cfg.nb : Encodes(mode[i])
  BY <1>1, <1>2 DEF SkipDecode, AllSkip
<1>3. CASE \E i \in 1..cfg.nb : ~Encodes(mode[i])
  <2>1. {i \in 1..cfg.nb : ~Encodes(mode[i])} # {}
    BY <1>3
  <2>2. SkipDecode(FALSE, mode) = ({i \in 1..cfg.nb : ~Encodes(mode[i])} = 1..cfg.nb)
    BY <1>1, <2>1 DEF SkipDecode
  <2> QED BY <2>2 DEF AllSkip
<1> QED BY <1>2, <1>3

\* A step that parks the input, or leaves it alone, keeps what fits.
LEMMA ParkedFits ==
  ASSUME TypeOK, InputFits, Parks(ictx), pc \in Accepted, h'.initialized
  PROVE  InputFits'
<1> USE DEF InputFits
<1>1. ictx \in InputCtx /\ pc' = "idle" /\ UNCHANGED <<cfg, seg>> /\ ictx' = CloseInput(ictx)
  BY DEF Parks, TypeOK
<1>2. /\ ictx'.ic = (ictx.ic /\ cfg.mpegts) /\ ictx'.vc = (ictx.vc /\ ictx.hw)
      /\ ictx'.hw = ictx.hw /\ ictx'.vi = ictx.vi /\ ictx'.video = ictx.video
      /\ ictx'.dv = ictx.dv /\ ictx'.da = ictx.da /\ ictx'.lastFrame = ictx.lastFrame
  BY <1>1, InputFields, KeptFields
<1>3. Used /\ Used'
  BY <1>1 DEF Used, Accepted
<1>4. AllSkip(cfg.video)' = AllSkip(cfg.video) /\ AllSkip(cfg.audio)' = AllSkip(cfg.audio)
  BY <1>1 DEF AllSkip
<1> QED BY <1>1, <1>2, <1>3, <1>4 DEF VideoThere, FramesThere, SkipsSet, HwDecoder,
           DecodersOpen, Accepted

LEMMA GoFits ==
  ASSUME Calm, TypeOK, InputInv, InputFits,
         TranscodeRejects \/ TranscodeBadParams \/ TranscodeStart
  PROVE  InputFits'
<1> USE DEF InputFits
<1>1. /\ pc = "idle" /\ UNCHANGED <<cfg, h, ictx, loop>>
      /\ pc' \in {"idle", "reopen", "lpms"}
  BY GoShape, CalmCalls, SteadyCalls
<1>2. PICK s \in Segments : seg' = s
  BY DEF TranscodeRejects, TranscodeBadParams, TranscodeStart, BeginCall
<1>3. seg'.video /\ seg'.id # 0
  BY <1>2, CalmCalls DEF Segments, Segment
<1>4. ~Own'
  BY <1>1, <1>3 DEF InputInv, InputKept, Parked, Own
<1>5. Used' = Used /\ AllSkip(cfg.video)' = AllSkip(cfg.video)
      /\ AllSkip(cfg.audio)' = AllSkip(cfg.audio)
  BY <1>1 DEF Used, AllSkip, Accepted
<1> QED BY <1>1, <1>3, <1>4, <1>5 DEF VideoThere, FramesThere, SkipsSet, HwDecoder, DecodersOpen

LEMMA FitsPreserved ==
  ASSUME Calm, TypeOK, InputInv, DecoderInv, AudioInv, InputFits, [Next]_vars
  PROVE  InputFits'
<1> USE DEF InputFits
<1>1. ~cfg.transmux /\ ~seg.newfmt /\ ictx \in InputCtx
  BY DEF AudioInv, OneFormat, TypeOK
<1>2. FreeInput(ictx) \in InputCtx
  BY <1>1, InputOperations
<1>3. ASSUME UNCHANGED cfg
      PROVE  /\ AllSkip(cfg.video)' = AllSkip(cfg.video)
             /\ AllSkip(cfg.audio)' = AllSkip(cfg.audio)
  BY <1>3 DEF AllSkip
<1>4. CASE TranscodeRejects \/ TranscodeBadParams \/ TranscodeStart
  BY <1>4, GoFits
<1>5. CASE ReopenDemux
  <2>1. /\ pc = "reopen" /\ pc' = "lpms" /\ UNCHANGED <<cfg, seg, h>>
        /\ ictx' = OpenInput(FreeInput(ictx))
    BY <1>5, CalmCalls, SteadyCalls DEF ReopenDemux, session
  <2> DEFINE c == FreeInput(ictx)
  <2>2. /\ c.hw = ictx.hw /\ c.dv = ictx.dv /\ c.da = ictx.da
        /\ c.hw => ~c.dv
    BY <1>1, <2>1, KeptFields DEF HwDecoder
  <2>3. /\ ictx'.vi /\ ictx'.video /\ ictx'.lastFrame
        /\ ictx'.dv = c.dv /\ ictx'.da = c.da
        /\ ictx'.hw => ictx'.vc /\ ~c.dv
        /\ Decodes(ictx')
    BY <1>1, <1>2, <2>1, <2>2, InputOpened DEF VideoThere
  <2> HIDE DEF c
  <2>4. Used' = Used
    BY <2>1 DEF Used, Accepted
  <2> QED BY <1>3, <2>1, <2>2, <2>3, <2>4 DEF VideoThere, FramesThere, SkipsSet, HwDecoder,
             DecodersOpen, Decodes
<1>6. CASE TooManyOutputs
  <2>1. seg.nb \in OutputIds
    BY <1>6 DEF TooManyOutputs, InputInv, CountKept, Outside, TypeOK, Config
  <2> QED BY <1>6, <2>1, ConstantsAssumption DEF TooManyOutputs, FitsHandle, OutputIds
<1>7. CASE FirstOpen
  <2>1. PICK c \in InputCtx :
          /\ c.vc = ictx.vc /\ c.hw = ictx.hw
          /\ c.dv = SkipDecode(ictx.dv, cfg.video) /\ c.da = SkipDecode(ictx.da, cfg.audio)
          /\ ictx' = OpenInput(c) /\ pc' = "init"
    BY <1>7, FirstOpenShape, CalmCalls, SteadyCalls
  <2>2. pc = "lpms" /\ UNCHANGED <<cfg, seg>> /\ ~h.initialized /\ ~h'.initialized
    BY <1>7, FirstOpenShape
  <2>3. ~ictx.vc /\ ~ictx.hw /\ ictx.dv = FALSE /\ ictx.da = FALSE /\ seg.nb = cfg.nb
    BY <1>1, <2>2
      DEF InputCtx, DecoderInv, DecodersFreed, HwDecoder, SkipsSet, Used, Accepted, InputInv,
          CountKept, Outside
  <2>4. (c.dv <=> AllSkip(cfg.video)) /\ (c.da <=> AllSkip(cfg.audio)) /\ ~c.hw
    BY <2>1, <2>3, SkipsAll
  <2>5. /\ ictx'.vi /\ ictx'.video /\ ictx'.lastFrame
        /\ ictx'.dv = c.dv /\ ictx'.da = c.da
        /\ ictx'.hw => ictx'.vc /\ ~c.dv
        /\ Decodes(ictx')
    BY <1>1, <2>1, <2>4, InputOpened DEF VideoThere
  <2>6. Used'
    BY <2>1 DEF Used, Accepted
  <2>7. SkipsSet'
    <3>1. /\ AllSkip(cfg.video)' = AllSkip(cfg.video)
          /\ AllSkip(cfg.audio)' = AllSkip(cfg.audio)
      BY <1>3, <2>2
    <3> QED BY <2>4, <2>5, <2>6, <3>1 DEF SkipsSet
  <2> QED BY <2>1, <2>2, <2>5, <2>6, <2>7 DEF VideoThere, FramesThere, HwDecoder,
             DecodersOpen, Decodes
<1>8. CASE CheckCount
  <2>1. /\ pc = "lpms" /\ h.initialized /\ pc' = "init"
        /\ UNCHANGED <<cfg, seg, h, ictx>>
    BY <1>8 DEF CheckCount, session, InputInv, CountKept, Outside
  <2>2. Used /\ Used'
    BY <2>1 DEF Used
  <2> QED BY <1>3, <2>1, <2>2 DEF VideoThere, FramesThere, SkipsSet, HwDecoder, DecodersOpen,
             Decodes, Own
<1>9. CASE ReopenDemuxer
  <2>1. /\ pc = "init" /\ ~ictx.ic /\ pc' = "pixfmt"
        /\ ictx' = OpenDemuxer(ictx)
        /\ loop' = [loop EXCEPT !.redec = ~ictx.transmuxing]
        /\ UNCHANGED <<cfg, seg, h>>
    BY <1>9, CalmCalls, SteadyCalls DEF ReopenDemuxer, session
  <2>2. loop'.redec
    BY <1>1, <2>1 DEF TypeOK, DecoderInv, TransmuxKept, Accepted
  <2>3. /\ ictx'.video = seg.video /\ ictx'.vi = ictx.vi /\ ictx'.dv = ictx.dv
        /\ ictx'.da = ictx.da /\ ictx'.hw = ictx.hw /\ ictx'.vc = ictx.vc
        /\ ictx'.lastFrame = ictx.lastFrame
    BY <1>1, <2>1, KeptFields, InputFields
  <2>4. Used /\ Used'
    BY <2>1 DEF Used, Accepted
  <2> QED BY <1>3, <2>1, <2>2, <2>3, <2>4 DEF VideoThere, FramesThere, SkipsSet, HwDecoder,
             DecodersOpen
<1>10. CASE ReopenIO
  <2>1. pc = "init" /\ ictx.file = 0 /\ UNCHANGED <<cfg, seg, h>>
    BY <1>10 DEF ReopenIO, session
  <2>2. CASE ictx' = [ictx EXCEPT !.file = seg.id] /\ pc' = "pixfmt"
    <3>1. loop'.redec
      BY <1>1, <1>10, <2>2 DEF ReopenIO, Shutdown, TypeOK, DecoderInv, TransmuxKept, Accepted
    <3>2. \A f \in {"ic", "video", "vi", "dv", "da", "hw", "vc", "lastFrame"} : ictx'[f] = ictx[f]
      BY <1>1, <2>2 DEF InputCtx
    <3>3. Used /\ Used'
      BY <2>1, <2>2 DEF Used, Accepted
    <3> QED BY <1>3, <2>1, <2>2, <3>1, <3>2, <3>3 DEF VideoThere, FramesThere, SkipsSet,
               HwDecoder, DecodersOpen
  <2>3. CASE Shutdown(ictx, out)
    <3>1. h.initialized
      BY <2>1 DEF DecoderInv, StartedOpens, Own, TypeOK, Segment
    <3> QED BY <2>1, <2>3, <3>1, ParkedFits DEF Shutdown, Parks, Accepted
  <2> QED BY <1>10, <2>2, <2>3 DEF ReopenIO
<1>11. CASE ReuseInput
  <2>1. /\ pc = "init" /\ ictx.ic /\ ~(cfg.mpegts /\ ictx.file = 0) /\ pc' = "pixfmt"
        /\ UNCHANGED <<cfg, seg, h, ictx>>
    BY <1>11 DEF ReuseInput, session
  <2>2. Own /\ Used /\ Used'
    BY <2>1 DEF InputInv, InputKept, Parked, Used, Accepted
  <2> QED BY <1>3, <2>1, <2>2 DEF VideoThere, FramesThere, SkipsSet, HwDecoder, DecodersOpen,
             Decodes
<1>12. CASE CheckPixfmt
  <2>1. /\ pc = "pixfmt" /\ UNCHANGED <<cfg, seg, h, loop>>
        /\ ictx' = [ictx EXCEPT !.fmtKnown = ictx.fmtKnown \/ (ictx.hw /\ ictx.vi)]
        /\ pc' = (IF loop.redec THEN "decoders" ELSE "outputs")
    BY <1>1, <1>12 DEF CheckPixfmt, session
  <2>2. \A f \in {"ic", "video", "vi", "dv", "da", "hw", "vc", "ac", "ai", "acodec", "lastFrame"} :
          ictx'[f] = ictx[f]
    BY <1>1, <2>1 DEF InputCtx
  <2>3. Used /\ Used'
    BY <2>1 DEF Used, Accepted
  <2> QED BY <1>3, <2>1, <2>2, <2>3 DEF VideoThere, FramesThere, SkipsSet, HwDecoder,
             DecodersOpen, Decodes
<1>13. CASE ReopenDecoders
  <2> DEFINE v == IF ictx.hw THEN ictx ELSE OpenVideoDecoder(ictx)
  <2>1. /\ pc = "decoders" /\ UNCHANGED <<cfg, seg, h>>
        /\ ictx' = OpenAudioDecoder(v) /\ pc' = "outputs"
    BY <1>13, CalmCalls, SteadyCalls DEF ReopenDecoders, session
  <2>2. ictx.video /\ ictx.lastFrame /\ Used /\ Used'
    BY <2>1 DEF InputInv, InputKept, Own, VideoThere, FramesThere, Used, Accepted
  <2>3. /\ v \in InputCtx /\ v.vi /\ v.video /\ v.lastFrame
        /\ v.dv = ictx.dv /\ v.da = ictx.da /\ v.acodec = ictx.acodec
        /\ ~v.dv => v.vc
        /\ v.hw => v.vc /\ ~v.dv
    <3>1. CASE ictx.hw
      BY <1>1, <2>1, <2>2, <3>1 DEF VideoThere, HwDecoder
    <3>2. CASE ~ictx.hw
      BY <1>1, <2>2, <3>2, OpenedDecoders, InputOperations
    <3> QED BY <3>1, <3>2
  <2> HIDE DEF v
  <2>4. /\ ictx'.vi = v.vi /\ ictx'.vc = v.vc /\ ictx'.hw = v.hw /\ ictx'.video = v.video
        /\ ictx'.dv = v.dv /\ ictx'.da = v.da /\ ictx'.acodec = v.acodec
        /\ ictx'.lastFrame = v.lastFrame
        /\ ictx'.ai = (v.acodec # NoAudio) /\ (v.acodec # NoAudio /\ ~v.da => ictx'.ac)
    BY <2>1, <2>3, OpenedAudioDecoder
  <2> QED BY <1>3, <2>1, <2>2, <2>3, <2>4 DEF VideoThere, FramesThere, SkipsSet, HwDecoder,
             DecodersOpen, Decodes
<1>14. CASE LaterShape
  <2>1. /\ pc \in {"outputs", "loop", "flush"} /\ UNCHANGED <<cfg, seg>>
        /\ ~ictx.transmuxing
    BY <1>1, <1>14 DEF LaterShape, session, DecoderInv, TransmuxKept, Accepted
  <2>2. CASE UNCHANGED <<h, ictx>> /\ pc' \in {"loop", "flush", "crashed"}
    <3>1. pc' # "crashed" => Used /\ Used'
      BY <2>1, <2>2 DEF Used, Accepted
    <3>2. Used' => Used
      BY <2>1, <2>2 DEF Used, Accepted
    <3> QED BY <1>3, <2>1, <2>2, <3>1, <3>2 DEF VideoThere, FramesThere, SkipsSet, HwDecoder,
               DecodersOpen, Decodes
  <2>3. CASE h'.initialized /\ Parks(ictx)
    BY <2>1, <2>3, ParkedFits DEF Accepted
  <2> QED BY <1>14, <2>1, <2>2, <2>3 DEF LaterShape
<1>15. CASE StopTranscoder
  <2>1. /\ ictx' = FreeInput(ictx) /\ pc' = "stopped" /\ UNCHANGED seg
    BY <1>15 DEF StopTranscoder, session
  <2>2. ictx'.vi = ictx.vi /\ ~ictx'.ic
    BY <1>1, <2>1, KeptFields, InputFields
  <2> QED BY <2>1, <2>2 DEF VideoThere, FramesThere, SkipsSet, HwDecoder, DecodersOpen, Used
<1>16. CASE UNCHANGED vars
  BY <1>3, <1>16 DEF vars, VideoThere, FramesThere, SkipsSet, HwDecoder, DecodersOpen, Decodes,
             Used, Own
<1> HIDE DEF InputFits
<1> QED BY <1>4, <1>5, <1>6, <1>7, <1>8, <1>9, <1>10, <1>11, <1>12, <1>13, <1>14, <1>15, <1>16,
           LaterSteps DEF Next

-----------------------------------------------------------------------------
(* ... and the outputs.                                                     *)

\* An output that has a hardware encoder encodes video.
HwFits(i, o) == o.hw => o.vc /\ Encodes(cfg.video[i])

HwOutputs == pc # "stopped" => \A i \in OutputIds : HwFits(i, out[i])

\* What output i must have for the packets transcode gives it.
Fits(i, o) ==
  /\ o.oc /\ (o.sv <=> ~DV(i)) /\ (o.sa <=> ~DA(i))
  /\ Encodes(cfg.video[i]) => o.vc
  /\ Encodes(cfg.audio[i]) /\ ictx.ac => o.ac

OutputsFit ==
  pc \in {"loop", "flush"} => \A i \in Active : out[i].init => Fits(i, out[i])

ReadyOpen ==
  pc = "loop" => (loop.ready => AllInit) /\ loop.heard \subseteq Readable

OutputsInv == HwOutputs /\ OutputsFit /\ ReadyOpen /\ bad = {}

\* The decoder of an output that encodes is open once the outputs are set up.
LEMMA EncodersDecode ==
  ASSUME TypeOK, InputInv, InputFits, pc \in {"outputs", "loop", "flush"}, NEW i \in Active
  PROVE  /\ Encodes(cfg.video[i]) => ictx.vc
         /\ Encodes(cfg.audio[i]) /\ ictx.ai => ictx.ac
         /\ ictx.vi
<1>1. i \in 1..cfg.nb
  BY DEF Active, InputInv, CountKept, Accepted
<1>2. Decodes(ictx) /\ Used /\ ictx.vi
  BY DEF InputFits, DecodersOpen, VideoThere, Used, Accepted
<1>3. (ictx.dv => AllSkip(cfg.video)) /\ (ictx.da => AllSkip(cfg.audio))
  BY DEF InputFits, SkipsSet
<1> QED BY <1>1, <1>2, <1>3 DEF Decodes, AllSkip

\* So an output can be opened, and then has what it needs.
LEMMA OpenedFits ==
  ASSUME TypeOK, InputInv, InputFits, pc \in {"loop", "flush"}, ~ictx.transmuxing,
         NEW i \in Active, NEW o \in OutputCtx, HwFits(i, o)
  PROVE  /\ CanOpen(i)
         /\ Fits(i, Opened(i, o))
         /\ HwFits(i, Opened(i, o))
         /\ i \in OutputIds
<1>1. /\ Encodes(cfg.video[i]) => ictx.vc
      /\ Encodes(cfg.audio[i]) /\ ictx.ai => ictx.ac
  BY EncodersDecode
<1>2. i \in OutputIds
  BY OutputOfHandle
<1>3. cfg.video[i] \in VideoModes /\ cfg.audio[i] \in AudioModes
  BY <1>2 DEF TypeOK, Config
<1>4. CanOpen(i)
  BY <1>1, <1>3 DEF CanOpen, DV, DA, Encodes, VideoModes, AudioModes
<1>5. Fits(i, Opened(i, o))
  BY <1>1 DEF Fits, Opened
<1>6. HwFits(i, Opened(i, o))
  BY <1>1 DEF HwFits, Opened
<1> QED BY <1>2, <1>4, <1>5, <1>6

\* An output with a hardware encoder that is opened again has it, too.
LEMMA ReopenedFits ==
  ASSUME TypeOK, InputInv, InputFits, pc = "outputs",
         NEW i \in Active, NEW o \in OutputCtx, HwFits(i, o), o.hw
  PROVE  Fits(i, Reopened(i, o))
<1>1. o.vc /\ Encodes(cfg.video[i]) /\ ictx.vi
  BY EncodersDecode DEF HwFits
<1>2. ~DV(i)
  BY <1>1 DEF DV, Encodes
<1> QED BY <1>1, <1>2 DEF Fits, Reopened, OutputCtx

\* transcode_shutdown keeps an output's hardware encoder with its marks.
LEMMA ShutdownFits ==
  ASSUME NEW c, NEW o \in [OutputIds -> OutputCtx], Shutdown(c, o), UNCHANGED cfg,
         \A i \in OutputIds : HwFits(i, o[i]), bad' = {}
  PROVE  OutputsInv'
<1>1. pc' = "idle"
  BY DEF Shutdown
<1>2. ASSUME NEW i \in OutputIds
      PROVE  HwFits(i, out[i])'
  <2>1. out'[i] = CloseOutput(o[i]) \/ out'[i] = o[i]
    BY DEF Shutdown
  <2>2. o[i] \in OutputCtx
    OBVIOUS
  <2>3. o[i].hw => CloseOutput(o[i]).vc = o[i].vc
    BY <2>2 DEF CloseOutput, OutputCtx
  <2>4. CloseOutput(o[i]).hw = o[i].hw
    BY <2>2, ClosedOutputs
  <2> QED BY <2>1, <2>3, <2>4 DEF HwFits
<1> QED BY <1>1, <1>2 DEF OutputsInv, HwOutputs, OutputsFit, ReadyOpen

\* A packet goes only to outputs that are fit for it.
LEMMA PacketFits ==
  ASSUME TypeOK, InputInv, InputFits, OutputsInv, ~ictx.transmuxing,
         NEW k \in NextPackets
  PROVE  /\ pc = "loop" /\ AllInit
         /\ \A i \in Receivers(k) : out[i].oc /\ TargetStream(i, k) = k
         /\ Misused(k) = {}
<1>1. pc = "loop" /\ AllInit
  BY DEF NextPackets, OutputsInv, ReadyOpen
<1>2. k \in Readable /\ k \in Kinds
  BY DEF NextPackets, OutputsInv, ReadyOpen, Readable
<1>3. ASSUME NEW i \in Receivers(k)
      PROVE  /\ out[i].oc /\ TargetStream(i, k) = k
             /\ ~HasEncoder(i, k) =>
                  ~Encodes(IF k = "video" THEN cfg.video[i] ELSE cfg.audio[i])
  <2>1. i \in Active /\ Fits(i, out[i]) /\ ~Dropped(i, k)
    BY <1>1, <1>3 DEF Receivers, AllInit, OutputsInv, OutputsFit
  <2>2. /\ Encodes(cfg.video[i]) => ictx.vc
        /\ Encodes(cfg.audio[i]) /\ ictx.ai => ictx.ac
    BY <1>1, <2>1, EncodersDecode
  <2>3. CASE k = "video"
    BY <2>1, <2>2, <2>3 DEF Fits, Dropped, TargetStream, StreamAt, HasEncoder
  <2>4. CASE k = "audio"
    <3>1. ictx.ai
      BY <1>2, <2>4 DEF Readable
    <3> QED BY <2>1, <2>2, <2>4, <3>1 DEF Fits, Dropped, TargetStream, StreamAt, HasEncoder
  <2> QED BY <1>2, <2>3, <2>4 DEF Kinds
<1> QED BY <1>1, <1>3 DEF Misused

\* Setting up the outputs: those that keep a hardware encoder are reopened.
LEMMA SetupFits ==
  ASSUME IInv, InputInv, InputFits, OutputsInv, ~ictx.transmuxing, SetupOutputs
  PROVE  OutputsInv'
<1> DEFINE p(i) == Populated(out[i])
           setup(n) == [i \in OutputIds |->
             IF i \in Active /\ i <= n
             THEN IF Reopens(out[i]) THEN Reopened(i, p(i)) ELSE p(i)
             ELSE out[i]]
<1>1. /\ pc = "outputs" /\ UNCHANGED <<cfg, h, seg>> /\ bad' = {}
      /\ \/ /\ out' = setup(h.nb) /\ pc' = "loop" /\ UNCHANGED ictx
            /\ loop' = [loop EXCEPT !.ready = FALSE, !.eof = FALSE, !.heard = {}]
         \/ \E n : Shutdown(ictx, setup(n))
  BY DEF SetupOutputs, session, OutputsInv
<1>2. TypeOK
  BY DEF IInv
<1>3. ASSUME NEW i \in OutputIds
      PROVE  /\ out[i] \in OutputCtx /\ HwFits(i, out[i])
             /\ p(i) \in OutputCtx /\ HwFits(i, p(i))
             /\ p(i).init => p(i).hw /\ Reopens(out[i])
             /\ Reopened(i, p(i)) \in OutputCtx /\ HwFits(i, Reopened(i, p(i)))
             /\ Reopens(out[i]) => p(i).hw
  <2>1. out[i] \in OutputCtx /\ HwFits(i, out[i])
    BY <1>1, <1>2 DEF TypeOK, OutputsInv, HwOutputs
  <2>2. /\ p(i) \in OutputCtx /\ p(i).vc = out[i].vc /\ p(i).hw = out[i].hw
        /\ p(i).init = (h.initialized /\ (out[i].hw \/ ictx.transmuxing))
    BY <1>2, <2>1, OpenedOutputs
  <2>3. Reopens(out[i]) <=> p(i).init
    BY DEF Reopens
  <2> HIDE DEF p
  <2>4. /\ Reopened(i, p(i)) \in OutputCtx /\ Reopened(i, p(i)).vc = p(i).vc
        /\ Reopened(i, p(i)).hw = p(i).hw
    BY <1>2, <2>2, OpenedOutputs
  <2> QED BY <2>1, <2>2, <2>3, <2>4 DEF HwFits
<1> HIDE DEF p
<1>4. ASSUME NEW n
      PROVE  /\ setup(n) \in [OutputIds -> OutputCtx]
             /\ \A i \in OutputIds : HwFits(i, setup(n)[i])
  BY <1>3
<1>5. CASE \E n : Shutdown(ictx, setup(n))
  <2>1. PICK n : Shutdown(ictx, setup(n))
    BY <1>5
  <2> HIDE DEF setup
  <2> QED BY <1>1, <1>4, <2>1, ShutdownFits
<1>6. CASE /\ out' = setup(h.nb) /\ pc' = "loop" /\ UNCHANGED ictx
           /\ loop' = [loop EXCEPT !.ready = FALSE, !.eof = FALSE, !.heard = {}]
  <2>1. HwOutputs'
    BY <1>1, <1>4, <1>6 DEF HwOutputs, HwFits
  <2>2. ReadyOpen'
    BY <1>2, <1>6 DEF ReadyOpen, TypeOK
  <2>3. ASSUME NEW i \in Active, out'[i].init
        PROVE  Fits(i, out[i])'
    <3>1. i \in OutputIds /\ i <= h.nb
      BY <1>2, OutputOfHandle, ConstantsAssumption DEF Active, TypeOK
    <3>2. out'[i] = IF Reopens(out[i]) THEN Reopened(i, p(i)) ELSE p(i)
      BY <1>6, <2>3, <3>1
    <3>3. Reopens(out[i]) /\ out'[i] = Reopened(i, p(i)) /\ p(i).hw
      BY <1>3, <2>3, <3>1, <3>2
    <3>4. Fits(i, out'[i])
      BY <1>1, <1>2, <1>3, <3>1, <3>3, ReopenedFits
    <3> QED BY <1>1, <1>6, <3>4 DEF Fits, DV, DA
  <2>4. OutputsFit'
    BY <1>1, <2>3 DEF OutputsFit, Active
  <2> QED BY <1>1, <2>1, <2>2, <2>4 DEF OutputsInv
<1> QED BY <1>1, <1>5, <1>6

\* Opening the outputs of s, in the loop.
LEMMA OpenAllFits ==
  ASSUME IInv, InputInv, InputFits, OutputsInv, ~ictx.transmuxing, pc = "loop",
         NEW s \in SUBSET Active, OpenAll(s), UNCHANGED <<cfg, h, ictx>>
  PROVE  /\ \A i \in OutputIds : HwFits(i, out[i])'
         /\ \A i \in Active : out'[i].init => Fits(i, out[i])'
         /\ \A i \in s : out'[i].init
         /\ \A i \in Active \ s : out'[i] = out[i]
<1>1. TypeOK
  BY DEF IInv
<1>2. \A i \in OutputIds : out'[i] = IF i \in s THEN Opened(i, out[i]) ELSE out[i]
  BY DEF OpenAll
<1>3. \A i \in Active : i \in OutputIds /\ out[i] \in OutputCtx
  BY <1>1, OutputOfHandle
<1>4. \A i \in OutputIds : HwFits(i, out[i])
  BY DEF OutputsInv, HwOutputs
<1>5. ASSUME NEW i \in s
      PROVE  /\ out'[i] = Opened(i, out[i]) /\ Opened(i, out[i]).init
             /\ Fits(i, Opened(i, out[i])) /\ HwFits(i, Opened(i, out[i]))
  BY <1>1, <1>2, <1>3, <1>4, OpenedFits DEF Opened
<1>6. ASSUME NEW i \in OutputIds
      PROVE  HwFits(i, out[i])'
  BY <1>2, <1>4, <1>5 DEF HwFits
<1>7. ASSUME NEW i \in Active, out'[i].init
      PROVE  Fits(i, out[i])'
  <2>1. Fits(i, out'[i])
    BY <1>2, <1>3, <1>5, <1>7 DEF OutputsInv, OutputsFit
  <2> QED BY <2>1 DEF Fits, DV, DA
<1> QED BY <1>2, <1>3, <1>5, <1>6, <1>7

\* An output that fails to open had no hardware encoder.
LEMMA OpenFailsFits ==
  ASSUME Calm, IInv, InputInv, InputFits, OutputsInv, ~ictx.transmuxing, pc = "loop",
         NEW s \in SUBSET {i \in Active : ~out[i].init}, OpenFails(s), UNCHANGED <<cfg, bad>>
  PROVE  OutputsInv'
<1>1. PICK j \in s, f \in {"open", "openlate"} :
        /\ May(f) \/ ~CanOpen(j)
        /\ Shutdown(ictx, [i \in OutputIds |->
             IF i \in s /\ i < j THEN Opened(i, out[i])
             ELSE IF i = j THEN OpenFailed(i, out[i], f) ELSE out[i]])
  BY DEF OpenFails
<1> DEFINE o == [i \in OutputIds |->
             IF i \in s /\ i < j THEN Opened(i, out[i])
             ELSE IF i = j THEN OpenFailed(i, out[i], f) ELSE out[i]]
<1>2. TypeOK
  BY DEF IInv
<1>3. \A i \in Active : i \in OutputIds /\ out[i] \in OutputCtx
  BY <1>2, OutputOfHandle
<1>4. \A i \in OutputIds : HwFits(i, out[i]) /\ out[i] \in OutputCtx
  BY <1>2 DEF OutputsInv, HwOutputs, TypeOK
<1>5. \A i \in s : /\ CanOpen(i) /\ HwFits(i, Opened(i, out[i]))
                  /\ Opened(i, out[i]) \in OutputCtx
  BY <1>2, <1>3, <1>4, OpenedFits, OpenedOutputs
<1>6. f = "open"
  BY <1>1, <1>5, CalmCalls
<1>7. OpenFailed(j, out[j], f) \in OutputCtx /\ HwFits(j, OpenFailed(j, out[j], f))
  <2>1. ~out[j].hw
    BY <1>3, <1>4 DEF IInv, UninitBlank, Blank, HwFits
  <2>2. OpenFailed(j, out[j], f) = FreeOutput([out[j] EXCEPT !.hw = out[j].hw])
    BY <1>6 DEF OpenFailed
  <2>3. [out[j] EXCEPT !.hw = out[j].hw] = out[j]
    BY <1>3 DEF OutputCtx
  <2>4. ~FreeOutput(out[j]).hw /\ FreeOutput(out[j]) \in OutputCtx
    BY <1>3, <2>1 DEF FreeOutput, CloseOutput, OutputCtx
  <2> QED BY <2>2, <2>3, <2>4 DEF HwFits
<1>8. o \in [OutputIds -> OutputCtx] /\ \A i \in OutputIds : HwFits(i, o[i])
  BY <1>4, <1>5, <1>7
<1>9. Shutdown(ictx, o) /\ bad' = {}
  BY <1>1 DEF OutputsInv
<1> HIDE DEF o
<1> QED BY <1>8, <1>9, ShutdownFits

\* None of the steps that end the process is possible.
LEMMA NoCrash ==
  ASSUME Calm, TypeOK, InputInv, InputFits, OutputsInv, ~ictx.transmuxing
  PROVE  ~SetupOutputsCrash /\ ~QueueForeignPacket /\ ~EmptyInput /\ ~ProcessCrash /\ ~FlushCrash
<1>1. ~SetupOutputsCrash
  BY DEF SetupOutputsCrash, NoVideoTiming, InputFits, VideoThere
<1>2. ~QueueForeignPacket /\ ~EmptyInput
  BY CalmCalls DEF QueueForeignPacket, EmptyInput
<1>3. pc \in {"loop", "flush"} => ictx.lastFrame
  BY DEF InputFits, FramesThere, Used, Accepted
<1>4. ~FlushCrash
  BY <1>3 DEF FlushCrash
<1>5. ASSUME NEW k \in NextPackets
      PROVE  /\ ictx.lastFrame
             /\ \A i \in Receivers(k) : out[i].oc /\ TargetStream(i, k) # "none"
  <2>1. pc = "loop" /\ \A i \in Receivers(k) : out[i].oc /\ TargetStream(i, k) = k
    BY PacketFits
  <2>2. k # "none"
    BY DEF NextPackets, OutputsInv, ReadyOpen, Readable, Kinds
  <2> QED BY <1>3, <2>1, <2>2
<1>6. ~ProcessCrash
  BY <1>5 DEF ProcessCrash
<1> QED BY <1>1, <1>2, <1>4, <1>6

\* The steps of transcode.
LEMMA LoopFits ==
  ASSUME Calm, IInv, InputInv, InputFits, OutputsInv, ~ictx.transmuxing,
         \/ QueuePacket \/ ForceOpen \/ Process \/ EncoderLost
         \/ ReadError \/ EndOfInput \/ FlushOutputs
  PROVE  OutputsInv'
<1>1. TypeOK /\ out \in [OutputIds -> OutputCtx]
  BY DEF IInv, TypeOK
<1>2. /\ ~EncoderLost
      /\ pc # "stopped" => \A i \in OutputIds : HwFits(i, out[i])
  BY CalmCalls DEF EncoderLost, OutputsInv, HwOutputs
<1>3. ASSUME Shutdown(ictx, out), UNCHANGED <<cfg, bad>>, pc # "stopped"
      PROVE  OutputsInv'
  BY <1>1, <1>2, <1>3, ShutdownFits DEF OutputsInv
\* All that are not opened by a packet were open before it.
<1>4. CASE QueuePacket
  <2>1. PICK k \in Readable :
          /\ pc = "loop" /\ UNCHANGED <<cfg, seg, bad>>
          /\ \/ /\ OpenAll(Triggered(k)) /\ UNCHANGED <<h, ictx, pc>>
                /\ loop' = [loop EXCEPT !.ready = Active \ Triggered(k) \subseteq
                                                   {i \in Active : out[i].init},
                                        !.heard = loop.heard \cup {k}]
             \/ OpenFails(Triggered(k))
    BY <1>4 DEF QueuePacket, session
  <2>2. Triggered(k) \in SUBSET {i \in Active : ~out[i].init}
    BY DEF Triggered
  <2> DEFINE s == Triggered(k)
             ready == Active \ s \subseteq {i \in Active : out[i].init}
  <2> HIDE DEF s
  <2>3. CASE OpenAll(s) /\ UNCHANGED <<h, ictx, pc>>
             /\ loop' = [loop EXCEPT !.ready = ready, !.heard = loop.heard \cup {k}]
    <3>1. /\ \A i \in OutputIds : HwFits(i, out[i])'
          /\ \A i \in Active : out'[i].init => Fits(i, out[i])'
          /\ \A i \in s : out'[i].init
          /\ \A i \in Active \ s : out'[i] = out[i]
      BY <2>1, <2>2, <2>3, OpenAllFits DEF s
    <3>2. (loop'.ready <=> ready) /\ loop'.heard = loop.heard \cup {k}
      <4> HIDE DEF ready
      <4> QED BY <1>1, <2>3 DEF TypeOK
    <3>3. ReadyOpen'
      BY <2>1, <2>3, <3>1, <3>2 DEF OutputsInv, ReadyOpen, AllInit, Active, Readable
    <3> QED BY <2>1, <2>3, <3>1, <3>3 DEF OutputsInv, HwOutputs, OutputsFit, Active
  <2>4. CASE OpenFails(s)
    BY <2>1, <2>2, <2>4, OpenFailsFits DEF s
  <2> QED BY <2>1, <2>3, <2>4 DEF s
<1>5. CASE ForceOpen
  <2> DEFINE s == Triggered("eof")
  <2>1. s = {i \in Active : ~out[i].init}
    BY DEF Triggered
  <2>2. /\ pc = "loop" /\ UNCHANGED <<cfg, seg, bad>>
        /\ \/ /\ OpenAll(s) /\ UNCHANGED <<h, ictx, pc>>
              /\ loop' = [loop EXCEPT !.ready = TRUE, !.eof = TRUE]
           \/ OpenFails(s)
    BY <1>5 DEF ForceOpen, session
  <2> HIDE DEF s
  <2>3. CASE OpenAll(s) /\ UNCHANGED <<h, ictx, pc>>
             /\ loop' = [loop EXCEPT !.ready = TRUE, !.eof = TRUE]
    <3>1. /\ \A i \in OutputIds : HwFits(i, out[i])'
          /\ \A i \in Active : out'[i].init => Fits(i, out[i])'
          /\ \A i \in s : out'[i].init
          /\ \A i \in Active \ s : out'[i] = out[i]
      BY <2>1, <2>2, <2>3, OpenAllFits
    <3>2. loop'.heard = loop.heard
      BY <1>1, <2>3 DEF TypeOK
    <3>3. ReadyOpen'
      BY <2>1, <2>2, <2>3, <3>1, <3>2 DEF OutputsInv, ReadyOpen, AllInit, Active, Readable
    <3> QED BY <2>2, <2>3, <3>1, <3>3 DEF OutputsInv, HwOutputs, OutputsFit, Active
  <2>4. CASE OpenFails(s)
    BY <2>1, <2>2, <2>4, OpenFailsFits
  <2> QED BY <2>2, <2>3, <2>4
<1>6. CASE Process
  <2>1. PICK k \in NextPackets :
          /\ bad' = bad \cup Misused(k) /\ UNCHANGED <<cfg, seg>>
          /\ \/ /\ loop' = [loop EXCEPT !.ready = TRUE, !.heard = loop.heard \ {k}]
                /\ UNCHANGED <<h, ictx, out, pc>>
             \/ Shutdown(ictx, out)
    BY <1>6 DEF Process, session
  <2>2. pc = "loop" /\ AllInit /\ bad' = bad
    BY <1>1, <2>1, PacketFits
  <2>3. CASE /\ loop' = [loop EXCEPT !.ready = TRUE, !.heard = loop.heard \ {k}]
             /\ UNCHANGED <<h, ictx, out, pc>>
    <3>1. loop'.heard \subseteq loop.heard
      BY <1>1, <2>3 DEF TypeOK
    <3> QED BY <2>1, <2>2, <2>3, <3>1 DEF OutputsInv, HwOutputs, HwFits, OutputsFit, Fits, DV, DA,
               ReadyOpen, AllInit, Active, Readable
  <2> QED BY <1>3, <2>1, <2>2, <2>3
<1>7. CASE ReadError \/ FlushOutputs
  BY <1>3, <1>7 DEF ReadError, FlushOutputs, session
<1>8. CASE EndOfInput
  <2>1. pc = "loop" /\ pc' = "flush" /\ UNCHANGED <<cfg, h, ictx, out, bad>>
    BY <1>8 DEF EndOfInput, session
  <2> QED BY <2>1 DEF OutputsInv, HwOutputs, HwFits, OutputsFit, Fits, DV, DA, ReadyOpen, Active
<1> QED BY <1>2, <1>4, <1>5, <1>6, <1>7, <1>8

LEMMA OutputsPreserved ==
  ASSUME Calm, IInv, InputInv, DecoderInv, AudioInv, InputFits, OutputsInv, [Next]_vars
  PROVE  OutputsInv'
<1>1. TypeOK /\ out \in [OutputIds -> OutputCtx]
  BY DEF IInv, TypeOK
<1>2. ASSUME UNCHANGED <<cfg, out, bad>>, pc # "stopped",
             pc' \in {"idle", "reopen", "lpms", "init", "pixfmt", "decoders", "outputs"}
      PROVE  OutputsInv'
  BY <1>2 DEF OutputsInv, HwOutputs, HwFits, OutputsFit, ReadyOpen
<1>3. CASE TranscodeRejects \/ TranscodeBadParams \/ TranscodeStart
  BY <1>2, <1>3, GoShape, CalmCalls, SteadyCalls
<1>4. CASE ReopenDemux \/ TooManyOutputs \/ FirstOpen \/ CheckCount
  BY <1>2, <1>4 DEF ReopenDemux, TooManyOutputs, FirstOpen, CheckCount, session
<1>5. CASE ReopenDemuxer \/ ReopenIO \/ ReuseInput \/ CheckPixfmt \/ ReopenDecoders
  <2>1. /\ UNCHANGED <<cfg, bad>> /\ pc \in {"init", "pixfmt", "decoders"}
        /\ \/ UNCHANGED out /\ pc' \in {"pixfmt", "decoders", "outputs"}
           \/ \E c : Shutdown(c, out)
    BY <1>5 DEF ReopenDemuxer, ReopenIO, ReuseInput, CheckPixfmt, ReopenDecoders, session
  <2>2. ASSUME NEW c, Shutdown(c, out)
        PROVE  OutputsInv'
    BY <1>1, <2>1, <2>2, ShutdownFits DEF OutputsInv, HwOutputs
  <2> QED BY <1>2, <2>1, <2>2
<1>6. ASSUME pc \in {"outputs", "loop", "flush"}
      PROVE  ~ictx.transmuxing
  BY <1>6 DEF DecoderInv, TransmuxKept, Accepted, AudioInv, OneFormat
<1>7. CASE SetupOutputs
  BY <1>6, <1>7, SetupFits DEF SetupOutputs
<1>8. CASE SetupOutputsCrash \/ QueueForeignPacket \/ EmptyInput \/ ProcessCrash \/ FlushCrash
  <2>1. pc \in {"outputs", "loop", "flush"}
    BY <1>8 DEF SetupOutputsCrash, QueueForeignPacket, EmptyInput, ProcessCrash, FlushCrash,
                NextPackets
  <2> QED BY <1>1, <1>6, <1>8, <2>1, NoCrash
<1>9. CASE \/ QueuePacket \/ ForceOpen \/ Process \/ EncoderLost
           \/ ReadError \/ EndOfInput \/ FlushOutputs
  <2>1. pc \in {"outputs", "loop", "flush"}
    BY <1>1, <1>9, LaterSteps DEF LaterShape
  <2> QED BY <1>6, <1>9, <2>1, LoopFits
<1>10. CASE StopTranscoder
  BY <1>10 DEF StopTranscoder, OutputsInv, HwOutputs, OutputsFit, ReadyOpen
<1>11. CASE UNCHANGED vars
  BY <1>11 DEF vars, OutputsInv, HwOutputs, HwFits, OutputsFit, Fits, DV, DA, ReadyOpen, AllInit,
               Active, Readable
<1> QED BY <1>3, <1>4, <1>5, <1>7, <1>8, <1>9, <1>10, <1>11 DEF Next

\* In calm transcoding sessions no packet is decoded without buffers for the
\* last frames, copied where it should be encoded, muxed into a stream of
\* another type or into an output without a muxer: what each call of transcode
\* relies on, the calls before it have left.
THEOREM PacketsProcessedRightly ==
  ASSUME Calm, Transcoding
  PROVE  Spec => []ProcessesRightly
<1> DEFINE Inv == InputInv /\ DecoderInv /\ AudioInv /\ InputFits /\ OutputsInv
<1>1. Init => Inv
  <2>1. Init => InputInv /\ DecoderInv /\ AudioInv
    BY DEF Transcoding, Init, InputInv, CountKept, InputKept, Accepted, Outside, Parked, DecoderInv,
           StartedOpens, TransmuxKept, DecodersFreed, NoDecoders, InputNeverLeaks,
           AudioInv, OneFormat, GoStarted, MpegtsKept, AudioKept
  <2>2. Init => InputFits
    BY DEF Init, InputFits, VideoThere, FramesThere, SkipsSet, HwDecoder, DecodersOpen, Used,
           Accepted, Own
  <2>3. Init => OutputsInv
    BY DEF Init, OutputsInv, HwOutputs, HwFits, OutputsFit, ReadyOpen
  <2> QED BY <2>1, <2>2, <2>3
<1>2. IInv /\ Inv /\ [Next]_vars => Inv'
  <2>1. IInv => TypeOK
    BY DEF IInv
  <2> QED BY <2>1, InputPreserved, DecodersPreserved, AudioPreserved, FitsPreserved,
             OutputsPreserved, CalmCalls, SteadyCalls
<1>3. Inv => ProcessesRightly
  BY DEF InputFits, FramesThere, Used, Accepted, OutputsInv, ProcessesRightly, DecodingHasFrames,
         EncodesDecoded, RightStream, MuxersOpen
<1> QED BY <1>1, <1>2, <1>3, SessionInvariant, PTL DEF Spec
=============================================================================
