------------------------- MODULE TranscodeSession -------------------------
(* The life of one transcoding session: a Go Transcoder and the C handle it *)
(* owns, from NewTranscoder through any number of Transcode calls to        *)
(* StopTranscoder.  The Go mutex serialises the calls, so a call is a run   *)
(* of steps from pc = "idle" back to "idle"; what makes the session hard is *)
(* that demuxer, decoders, encoders and muxers each survive a call under    *)
(* different conditions, and that every step of a call may fail.            *)
EXTENDS Integers, FiniteSets

CONSTANTS MaxOutputs,  \* size of the output array (MAX_OUTPUT_SIZE)
          MaxCalls,    \* bound on the Transcode calls of a behaviour
          Codecs,      \* audio codecs a segment may carry
          NoAudio,     \* the codec of a segment without audio
          Faults,      \* what the environment may do to a call, of FaultKinds
          Sessions     \* session configurations, a subset of Config

FaultKinds ==
  {"novideo", "noaudio", "probe", "params", "count", "demux", "info", "vdec", "adec", "io", "pixfmt",
   "open", "openlate", "reopen", "read", "empty", "audiofirst", "encode", "resize"}

OutputIds == 1..MaxOutputs
Kinds == {"video", "audio"}
VideoModes == {"encode", "copy", "drop"}
AudioModes == {"encode", "copy", "drop"}

\* What the caller keeps fixed for a session: acceleration, transmuxing, the
\* container, whether its segments are files GetCodecInfo can read (probed)
\* and the renditions.
Config ==
  [hw : BOOLEAN, transmux : BOOLEAN, mpegts : BOOLEAN, probed : BOOLEAN,
   nb : OutputIds, fps : BOOLEAN,
   video : [OutputIds -> VideoModes], audio : [OutputIds -> AudioModes]]

ASSUME ConstantsAssumption ==
  /\ MaxOutputs \in Nat \ {0}
  /\ MaxCalls \in Nat \ {0}
  /\ NoAudio \notin Codecs
  /\ Faults \subseteq FaultKinds
  /\ Sessions \subseteq Config

VARIABLES
  cfg,     \* the session's configuration, constant
  go,      \* the Transcoder struct
  h,       \* the transcode_thread, less its contexts
  ictx,    \* the input context
  out,     \* the output contexts
  seg,     \* arguments of the call under way
  loop,    \* locals of transcode_init and transcode
  pc,      \* where the call is
  calls,   \* number of Transcode calls made
  leaked,  \* contexts whose last pointer was overwritten
  bad      \* what a loop iteration did that no caller asked for

vars == <<cfg, go, h, ictx, out, seg, loop, pc, calls, leaked, bad>>
session == <<cfg, go, seg, calls>>

AnyCodec == Codecs \cup {NoAudio}
Files == 0..MaxCalls     \* the file of the n-th call is n, 0 is no file

Segment ==
  [id : 1..MaxCalls, nb : 1..(MaxOutputs + 1), video : BOOLEAN,
   acodec : AnyCodec, newfmt : BOOLEAN]

\* ic: a demuxer is open; file: the file its IO context reads, 0 for none;
\* video, acodec: the streams the demuxer found when it was opened;
\* lastFrame: last_frame_v and last_frame_a are allocated; fmtKnown:
\* last_format is set.
InputCtx ==
  [ic : BOOLEAN, file : Files, video : BOOLEAN, acodec : AnyCodec, vc : BOOLEAN,
   ac : BOOLEAN, hw : BOOLEAN, transmuxing : BOOLEAN, vi : BOOLEAN,
   ai : BOOLEAN, dv : BOOLEAN, da : BOOLEAN, lastFrame : BOOLEAN,
   fmtKnown : BOOLEAN]

\* oc: a muxer is open, with a video (sv) and an audio (sa) stream in it.
OutputCtx ==
  [init : BOOLEAN, oc : BOOLEAN, sv : BOOLEAN, sa : BOOLEAN, vc : BOOLEAN,
   ac : BOOLEAN, hw : BOOLEAN]

PCs == {"idle", "reopen", "lpms", "init", "pixfmt", "decoders", "outputs",
        "loop", "flush", "stopped", "crashed"}
Crashes == {"null_frame", "no_muxer", "no_stream", "eof_index"}
Misuses == {"raw_copy", "wrong_stream"}

TypeOK ==
  /\ cfg \in Config
  /\ go \in [started : BOOLEAN, lastacodec : AnyCodec]
  /\ h \in [initialized : BOOLEAN, nb : 0..MaxOutputs]
  /\ ictx \in InputCtx
  /\ out \in [OutputIds -> OutputCtx]
  /\ seg \in Segment
  /\ loop \in [redec : BOOLEAN, ready : BOOLEAN, eof : BOOLEAN,
               heard : SUBSET Kinds]
  /\ pc \in PCs
  /\ calls \in 0..MaxCalls
  /\ leaked \subseteq {"ic", "vc", "ac", "oc", "ovc", "oac"}
  /\ bad \subseteq Crashes \cup Misuses

-----------------------------------------------------------------------------
(* Helpers on the two contexts.                                             *)

May(f) == f \in Faults
Encodes(mode) == mode = "encode"      \* needs_decoder
DV(i) == ~ictx.vi \/ cfg.video[i] = "drop"
DA(i) == ~ictx.ai \/ cfg.audio[i] = "drop"
Active == 1..h.nb
AllInit == \A i \in Active : out[i].init

\* Mutant: the video decoder is forgotten.
FreeInputKeepsDecoder(c) ==
  [c EXCEPT !.ic = FALSE, !.file = 0, !.ac = FALSE, !.lastFrame = FALSE]

FreeInput(c) ==
  [c EXCEPT !.ic = FALSE, !.file = 0, !.vc = FALSE, !.ac = FALSE,
            !.lastFrame = FALSE]

OpenDemuxer(c) ==
  [c EXCEPT !.ic = TRUE, !.file = seg.id, !.video = seg.video,
            !.acodec = seg.acodec]

\* A decoder is opened for what the demuxer knows, not for the new segment.
OpensVideo(c) == c.video /\ ~c.dv
OpensAudio(c) == c.acodec # NoAudio /\ ~c.da

OpenVideoDecoder(c) ==
  [c EXCEPT !.vi = c.video, !.vc = OpensVideo(c) \/ c.vc,
            !.hw = IF OpensVideo(c) THEN cfg.hw ELSE c.hw]

OpenAudioDecoder(c) ==
  [c EXCEPT !.ai = c.acodec # NoAudio, !.ac = OpensAudio(c) \/ c.ac]

\* What a decoder that fails to open leaves: the whole input is freed, but the
\* stream index was set, and hw_type too if the failure came after it.
VideoDecoderFails(c) ==
  {FreeInput([c EXCEPT !.vi = TRUE, !.hw = hw]) : hw \in {c.hw, cfg.hw}}

AudioDecoderFails(c) == FreeInput([c EXCEPT !.ai = TRUE])

\* Where open_input(c) may fail.
OpenInputFaults(c) ==
  {f \in {"demux", "info", "vdec", "adec"} :
     /\ May(f)
     /\ f = "vdec" => ~cfg.transmux /\ OpensVideo(OpenDemuxer(c))
     /\ f = "adec" => ~cfg.transmux /\ OpensAudio(OpenDemuxer(c))}

OpenInput(c) ==
  LET d == OpenDemuxer([c EXCEPT !.transmuxing = cfg.transmux])
  IN  IF cfg.transmux THEN d
      ELSE [OpenAudioDecoder(OpenVideoDecoder(d)) EXCEPT !.lastFrame = TRUE]

\* The inputs it may leave when it fails at f.
FailedInputs(c, f) ==
  LET t == [c EXCEPT !.transmuxing = cfg.transmux]
  IN  CASE f = "vdec" -> VideoDecoderFails(OpenDemuxer(t))
        [] f = "adec" -> {AudioDecoderFails(OpenVideoDecoder(OpenDemuxer(t)))}
        [] OTHER      -> {FreeInput(t)}

\* Decoders whose pointer opening the decoders of d overwrites in c.
DecoderOverwrites(c, d) ==
  {x \in {"vc", "ac"} : c[x] /\ IF x = "vc" THEN OpensVideo(d) ELSE OpensAudio(d)}

\* Contexts whose pointer open_input overwrites, when it fails at f ("none":
\* does not fail), if it is called on an input that is still open.
Overwritten(c, f) ==
  LET reached == CASE f = "demux" -> {}
                   [] f = "info"  -> {"ic"}
                   [] f = "vdec"  -> {"ic", "vc"}
                   [] OTHER       -> {"ic", "vc", "ac"}
  IN  reached \cap ({x \in {"ic"} : c.ic} \cup
        IF cfg.transmux THEN {} ELSE DecoderOverwrites(c, OpenDemuxer(c)))

\* Mutants: the audio encoder stays, every video encoder stays, none stays.
CloseOutputKeepsAudio(o) ==
  [o EXCEPT !.oc = FALSE, !.sv = FALSE, !.sa = FALSE, !.vc = o.vc /\ o.hw]
CloseOutputKeepsEncoder(o) ==
  [o EXCEPT !.oc = FALSE, !.sv = FALSE, !.sa = FALSE, !.ac = FALSE]
CloseOutputFreesEncoder(o) ==
  [o EXCEPT !.oc = FALSE, !.sv = FALSE, !.sa = FALSE, !.ac = FALSE, !.vc = FALSE]

CloseOutput(o) ==
  [o EXCEPT !.oc = FALSE, !.sv = FALSE, !.sa = FALSE, !.ac = FALSE,
            !.vc = o.vc /\ o.hw]

FreeOutput(o) == [CloseOutput(o) EXCEPT !.vc = FALSE]

\* Mutants: the file stays open, every demuxer stays.
CloseInputKeepsFile(c) ==
  [c EXCEPT !.ic = c.ic /\ cfg.mpegts, !.ac = FALSE, !.vc = c.vc /\ c.hw]
CloseInputKeepsDemuxer(c) ==
  [c EXCEPT !.file = 0, !.ac = FALSE, !.vc = c.vc /\ c.hw]

\* transcode_shutdown, applied to the contexts c and o that the failing or
\* finished step left; sets every variable but session, and ends the call.
CloseInput(c) ==
  [c EXCEPT !.ic = c.ic /\ cfg.mpegts, !.file = 0, !.ac = FALSE,
            !.vc = c.vc /\ c.hw]

Shutdown(c, o) ==
  /\ ictx' = CloseInput(c)
  /\ out' = [i \in OutputIds |-> IF i \in Active THEN CloseOutput(o[i]) ELSE o[i]]
  /\ pc' = "idle"
  /\ UNCHANGED loop

Crash(reason) ==
  /\ pc' = "crashed"
  /\ bad' = bad \cup {reason}
  /\ UNCHANGED <<cfg, go, h, ictx, out, seg, loop, calls, leaked>>

-----------------------------------------------------------------------------
(* Go: Transcode up to the C calls.                                         *)

\* Segments are files with video, audio or both; only a CUDA session looks at
\* the pixel format, and a transmuxed stream always has video.
Segments ==
  {s \in Segment :
     /\ s.id = calls + 1
     /\ s.nb # cfg.nb => May("count")
     /\ ~s.video => May("novideo") /\ s.acodec # NoAudio /\ ~cfg.transmux
     /\ s.acodec = NoAudio => May("noaudio")
     /\ s.newfmt => May("pixfmt") /\ cfg.hw}

\* What the call leaves in the Transcoder, once GetCodecInfo has answered.
GoAfter(s) ==
  LET changed == /\ s.acodec # NoAudio
                 /\ \E i \in OutputIds \cap (1..s.nb) : cfg.audio[i] # "drop"
                 /\ go.lastacodec # s.acodec
  IN  CASE ~cfg.probed -> [go EXCEPT !.started = go.started \/ cfg.transmux]
        [] cfg.probed /\ ~go.started -> [started |-> TRUE, lastacodec |-> s.acodec]
        [] cfg.probed /\ go.started ->
             IF changed THEN [go EXCEPT !.lastacodec = s.acodec] ELSE go

\* Mutant: only a changed codec counts, not audio that appears.
NeedsReopenChanged(s) ==
  cfg.probed /\ go.started /\ GoAfter(s) # go /\ go.lastacodec # NoAudio

\* The demuxer must be reopened because the audio codec changed.
NeedsReopen(s) == cfg.probed /\ go.started /\ GoAfter(s) # go

VideoMissing(s) == cfg.probed /\ ~go.started /\ ~s.video

BeginCall(s) ==
  /\ pc = "idle"
  /\ calls < MaxCalls
  /\ calls' = calls + 1
  /\ seg' = s
  /\ UNCHANGED <<cfg, h, ictx, out, loop, leaked, bad>>

\* GetCodecInfo fails, or the first segment has no video.
TranscodeRejects ==
  \E s \in Segments :
    /\ BeginCall(s)
    /\ (May("probe") /\ cfg.probed) \/ VideoMissing(s)
    /\ UNCHANGED <<go, pc>>

\* The options are refused, after started and lastacodec were assigned.
TranscodeBadParams ==
  \E s \in Segments :
    /\ BeginCall(s)
    /\ May("params")
    /\ ~VideoMissing(s)
    /\ go' = GoAfter(s)
    /\ UNCHANGED pc

TranscodeStart ==
  \E s \in Segments :
    /\ BeginCall(s)
    /\ ~VideoMissing(s)
    /\ go' = GoAfter(s)
    /\ pc' = IF NeedsReopen(s) THEN "reopen" ELSE "lpms"

-----------------------------------------------------------------------------
(* C: lpms_transcode_reopen_demux and the head of lpms_transcode.           *)

ReopenDemux ==
  /\ pc = "reopen"
  /\ LET c == FreeInput(ictx)
     IN  \/ /\ ictx' = OpenInput(c)
            /\ leaked' = leaked \cup Overwritten(c, "none")
            /\ pc' = "lpms"
         \/ \E f \in OpenInputFaults(c) :
              /\ ictx' \in FailedInputs(c, f)
              /\ leaked' = leaked \cup Overwritten(c, f)
              /\ pc' = "idle"
  /\ UNCHANGED <<session, h, out, loop, bad>>

\* ictx.dv (da) after the loop over the outputs: it is assigned only when
\* some output does not need the decoder.
SkipDecode(old, mode) ==
  LET asked == OutputIds \cap (1..seg.nb)
      skips == {i \in asked : ~Encodes(mode[i])}
  IN  IF skips = {} THEN old ELSE skips = asked

\* Mutant: off by one.
FitsHandleOffByOne(n) == n <= MaxOutputs + 1

FitsHandle(n) == n <= MaxOutputs

TooManyOutputs ==
  /\ pc = "lpms"
  /\ ~h.initialized
  /\ ~FitsHandle(seg.nb)
  /\ pc' = "idle"
  /\ UNCHANGED <<session, h, ictx, out, loop, leaked, bad>>

FirstOpen ==
  /\ pc = "lpms"
  /\ ~h.initialized
  /\ FitsHandle(seg.nb)
  /\ h' = [h EXCEPT !.nb = seg.nb]
  /\ LET c == [ictx EXCEPT !.dv = SkipDecode(ictx.dv, cfg.video),
                           !.da = SkipDecode(ictx.da, cfg.audio)]
     IN  \/ /\ ictx' = OpenInput(c)
            /\ leaked' = leaked \cup Overwritten(c, "none")
            /\ pc' = "init"
         \/ \E f \in OpenInputFaults(c) :
              /\ ictx' \in FailedInputs(c, f)
              /\ leaked' = leaked \cup Overwritten(c, f)
              /\ pc' = "idle"
  /\ UNCHANGED <<cfg, go, seg, calls, out, loop, bad>>

CheckCount ==
  /\ pc = "lpms"
  /\ h.initialized
  /\ pc' = IF seg.nb # h.nb THEN "idle" ELSE "init"
  /\ UNCHANGED <<session, h, ictx, out, loop, leaked, bad>>

-----------------------------------------------------------------------------
(* C: transcode_init.                                                       *)

ReopenDemuxer ==
  /\ pc = "init"
  /\ ~ictx.ic
  /\ \/ /\ ictx' = OpenDemuxer(ictx)
        /\ loop' = [loop EXCEPT !.redec = ~ictx.transmuxing]
        /\ pc' = "pixfmt"
        /\ UNCHANGED out
     \/ May("demux") /\ Shutdown(ictx, out)
     \/ May("info") /\ Shutdown(OpenDemuxer(ictx), out)
  /\ UNCHANGED <<session, h, leaked, bad>>

ReopenIO ==
  /\ pc = "init"
  /\ ictx.ic /\ cfg.mpegts /\ ictx.file = 0
  /\ \/ /\ ictx' = [ictx EXCEPT !.file = seg.id]
        /\ loop' = [loop EXCEPT !.redec = ~ictx.transmuxing]
        /\ pc' = "pixfmt"
        /\ UNCHANGED out
     \/ May("io") /\ Shutdown(ictx, out)
  /\ UNCHANGED <<session, h, leaked, bad>>

ReuseInput ==
  /\ pc = "init"
  /\ ictx.ic /\ ~(cfg.mpegts /\ ictx.file = 0)
  /\ loop' = [loop EXCEPT !.redec = FALSE]
  /\ pc' = "pixfmt"
  /\ UNCHANGED <<session, h, ictx, out, leaked, bad>>

\* A CUDA session whose input changed pixel format reopens its whole input.
CheckPixfmt ==
  /\ pc = "pixfmt"
  /\ LET cuda == ictx.hw /\ ictx.vi
         c == FreeInput(ictx)
     IN  IF cuda /\ ictx.fmtKnown /\ seg.newfmt
         THEN \/ /\ ictx' = OpenInput(c)
                 /\ leaked' = leaked \cup Overwritten(c, "none")
                 /\ loop' = [loop EXCEPT !.redec = FALSE]
                 /\ pc' = "outputs"
                 /\ UNCHANGED out
              \/ \E f \in OpenInputFaults(c) :
                   /\ leaked' = leaked \cup Overwritten(c, f)
                   /\ \E d \in FailedInputs(c, f) : Shutdown(d, out)
         ELSE /\ ictx' = [ictx EXCEPT !.fmtKnown = ictx.fmtKnown \/ cuda]
              /\ pc' = IF loop.redec THEN "decoders" ELSE "outputs"
              /\ UNCHANGED <<out, loop, leaked>>
  /\ UNCHANGED <<session, h, bad>>

ReopenDecoders ==
  /\ pc = "decoders"
  /\ LET v == IF ictx.hw THEN ictx ELSE OpenVideoDecoder(ictx)
     IN  \/ /\ ictx' = OpenAudioDecoder(v)
            /\ pc' = "outputs"
            /\ UNCHANGED <<out, loop>>
         \/ /\ May("vdec") /\ ~ictx.hw /\ OpensVideo(ictx)
            /\ \E c \in VideoDecoderFails(ictx) : Shutdown(c, out)
         \/ May("adec") /\ OpensAudio(v) /\ Shutdown(AudioDecoderFails(v), out)
  /\ leaked' = leaked \cup (DecoderOverwrites(ictx, ictx) \
                            IF ictx.hw THEN {"vc"} ELSE {})
  /\ UNCHANGED <<session, h, bad>>

-----------------------------------------------------------------------------
(* C: opening and reopening the outputs.                                    *)

\* Does open_output find what the streams it adds need?
CanOpen(i) ==
  \/ ictx.transmuxing
  \/ /\ DV(i) \/ cfg.video[i] = "copy" \/ ictx.vc
     /\ DA(i) \/ cfg.audio[i] = "copy" \/ ictx.ac

Opened(i, o) ==
  LET v == ictx.vc /\ Encodes(cfg.video[i])
      a == ~ictx.transmuxing /\ ictx.ac /\ Encodes(cfg.audio[i])
  IN  [init |-> TRUE, oc |-> TRUE,
       sv |-> IF ictx.transmuxing THEN ictx.video ELSE ~DV(i),
       sa |-> IF ictx.transmuxing THEN ictx.acodec # NoAudio ELSE ~DA(i),
       vc |-> v \/ o.vc, ac |-> a \/ o.ac,
       hw |-> IF v THEN ictx.hw ELSE o.hw]

\* open_output fails before ("open") or after ("openlate") it has copied
\* hw_type from the input; either way it frees the output.
OpenFailed(i, o, f) ==
  FreeOutput([o EXCEPT !.hw = IF f = "openlate" THEN Opened(i, o).hw ELSE o.hw])

\* Mutant: the video stream is not added again.
ReopenedWithoutVideo(i, o) ==
  [o EXCEPT !.oc = TRUE, !.sv = FALSE, !.sa = ~DA(i),
            !.ac = (ictx.ac /\ Encodes(cfg.audio[i])) \/ o.ac]

Reopened(i, o) ==
  [o EXCEPT !.oc = TRUE, !.sv = o.vc, !.sa = ~DA(i),
            !.ac = (ictx.ac /\ Encodes(cfg.audio[i])) \/ o.ac]

\* Muxers and encoders whose pointer (re)opening an output overwrites.
OutputOverwrites(i, o) ==
  {x \in {"oc", "ovc", "oac"} :
     CASE x = "oc"  -> o.oc
       [] x = "ovc" -> o.vc /\ ~o.init /\ ictx.vc /\ Encodes(cfg.video[i])
       [] x = "oac" -> o.ac /\ ictx.ac /\ Encodes(cfg.audio[i])}

Populated(o) ==
  [o EXCEPT !.init = h.initialized /\ (o.hw \/ ictx.transmuxing)]

Reopens(o) == Populated(o).init /\ ~ictx.transmuxing

\* add_video_stream asks the input's video stream for its timing.
NoVideoTiming(o) == Reopens(o) /\ o.vc /\ ~ictx.vi /\ ~cfg.fps

\* open_audio_output finds the encoder that the stream it adds needs.
CanReopen(i) == DA(i) \/ cfg.audio[i] = "copy" \/ ictx.ac \/ out[i].ac

\* No output before n stops the loop over the outputs.
ReopenedUpTo(n) ==
  \A i \in Active : i < n /\ Reopens(out[i]) => CanReopen(i) /\ ~NoVideoTiming(out[i])

SetupOutputs ==
  /\ pc = "outputs"
  /\ LET reopened(n) == {i \in Active : i <= n /\ Reopens(out[i])}
         setup(n) == [i \in OutputIds |->
           IF i \in Active /\ i <= n
           THEN IF Reopens(out[i]) THEN Reopened(i, Populated(out[i])) ELSE Populated(out[i])
           ELSE out[i]]
         overwritten(n) == UNION {OutputOverwrites(i, Populated(out[i])) : i \in reopened(n)}
     IN  \/ /\ ReopenedUpTo(h.nb + 1)
            /\ leaked' = leaked \cup overwritten(h.nb)
            /\ out' = setup(h.nb)
            /\ pc' = "loop"
            /\ loop' = [loop EXCEPT !.ready = FALSE, !.eof = FALSE, !.heard = {}]
            /\ UNCHANGED ictx
         \/ \E n \in reopened(h.nb) :
              /\ ReopenedUpTo(n)
              /\ May("reopen") \/ (~NoVideoTiming(out[n]) /\ ~CanReopen(n))
              /\ leaked' = leaked \cup overwritten(n)
              /\ Shutdown(ictx, setup(n))
  /\ UNCHANGED <<session, h, bad>>

SetupOutputsCrash ==
  /\ pc = "outputs"
  /\ \E n \in Active : ReopenedUpTo(n) /\ NoVideoTiming(out[n])
  /\ Crash("no_stream")

-----------------------------------------------------------------------------
(* C: the loop of transcode.  Packets of a kind are "heard" when they were  *)
(* read before all outputs were ready, and wait in the frame queue.         *)

\* Kinds of packets the input can still deliver to this session.
Readable ==
  {k \in Kinds : IF k = "video" THEN ictx.vi /\ seg.video
                 ELSE ictx.ai /\ seg.acodec # NoAudio}

\* Outputs a packet of kind k, or the end of the input ("eof"), makes open.
Triggered(k) ==
  {i \in Active : /\ ~out[i].init
                  /\ k \in {"video", "eof"} \/ ~ictx.vi \/ DV(i)}

EndTranscode == h' = [h EXCEPT !.initialized = TRUE]

OpenAll(s) ==
  /\ s \subseteq {i \in Active : CanOpen(i)}
  /\ out' = [i \in OutputIds |-> IF i \in s THEN Opened(i, out[i]) ELSE out[i]]
  /\ leaked' = leaked \cup UNION {OutputOverwrites(i, out[i]) : i \in s}

\* The outputs of s before j open, j fails, the call shuts down.
OpenFails(s) ==
  /\ \E j \in s, f \in {"open", "openlate"} :
       /\ May(f) \/ ~CanOpen(j)
       /\ \A i \in s : i < j => CanOpen(i)
       /\ leaked' = leaked \cup UNION {OutputOverwrites(i, out[i]) : i \in {n \in s : n <= j}}
       /\ Shutdown(ictx, [i \in OutputIds |->
            IF i \in s /\ i < j THEN Opened(i, out[i])
            ELSE IF i = j THEN OpenFailed(i, out[i], f) ELSE out[i]])
  /\ EndTranscode

\* A packet read while some output is not open: it is queued.  In a transmuxed
\* session vi is 0, so only packets of stream 0, the video, open the outputs.
QueuePacket ==
  \E k \in Readable :
    /\ pc = "loop" /\ ~loop.ready /\ ~AllInit
    /\ ~(ictx.transmuxing /\ k = "audio")
    /\ \/ /\ OpenAll(Triggered(k))
          /\ loop' = [loop EXCEPT !.ready = Active \ Triggered(k) \subseteq
                                             {i \in Active : out[i].init},
                                  !.heard = loop.heard \cup {k}]
          /\ UNCHANGED <<h, ictx, pc>>
       \/ OpenFails(Triggered(k))
    /\ UNCHANGED <<session, bad>>

\* Flags are set on the muxer of an output this packet did not open.
QueueForeignPacket ==
  /\ pc = "loop" /\ ~loop.ready /\ ~AllInit
  /\ May("audiofirst")
  /\ ictx.transmuxing /\ "audio" \in Readable
  /\ Crash("no_muxer")

\* The input ends while some output is not open: all are forced open.
ForceOpen ==
  /\ pc = "loop" /\ ~loop.ready /\ ~AllInit
  /\ \/ /\ OpenAll(Triggered("eof"))
        /\ loop' = [loop EXCEPT !.ready = TRUE, !.eof = TRUE]
        /\ UNCHANGED <<h, ictx, pc>>
     \/ OpenFails(Triggered("eof"))
  /\ UNCHANGED <<session, bad>>

\* The very first read of a call whose outputs are all open already ends the
\* input: the loop goes on to process it.  flush_in has set the stream index
\* only if there is an audio decoder.
EmptyInput ==
  /\ pc = "loop" /\ ~loop.ready /\ AllInit
  /\ May("empty")
  /\ IF ictx.ac
     THEN /\ loop' = [loop EXCEPT !.ready = TRUE, !.eof = TRUE]
          /\ UNCHANGED <<session, h, ictx, out, pc, leaked, bad>>
     ELSE Crash("eof_index")

\* The type of the stream of o that transcode picks for packets of kind k:
\* by input index when transmuxing, else video first and audio after it.
StreamAt(o, n) ==
  IF n = 0 THEN (IF o.sv THEN "video" ELSE IF o.sa THEN "audio" ELSE "none")
           ELSE (IF o.sv /\ o.sa THEN "audio" ELSE "none")

TargetStream(i, k) ==
  StreamAt(out[i], IF k = "video" \/ (~ictx.transmuxing /\ DV(i)) THEN 0 ELSE 1)

Dropped(i, k) ==
  ~ictx.transmuxing /\ IF k = "video" THEN DV(i) ELSE DA(i)

HasEncoder(i, k) ==
  ~ictx.transmuxing /\ IF k = "video" THEN ictx.vc /\ out[i].vc ELSE ictx.ac /\ out[i].ac

Receivers(k) == {i \in Active : ~Dropped(i, k)}

Misused(k) ==
  {m \in Misuses : \E i \in Receivers(k) :
     IF m = "wrong_stream" THEN TargetStream(i, k) # k
     ELSE /\ ~ictx.transmuxing /\ ~HasEncoder(i, k)
          /\ Encodes(IF k = "video" THEN cfg.video[i] ELSE cfg.audio[i])}

\* The kinds the next iteration may process: queued packets go first.
NextPackets ==
  IF pc = "loop" /\ (loop.ready \/ AllInit)
  THEN IF loop.heard # {} THEN loop.heard ELSE IF loop.eof THEN {} ELSE Readable
  ELSE {}

\* A packet is decoded, when there is a decoder, encoded or copied to the
\* outputs and muxed.
Process ==
  \E k \in NextPackets, frame \in BOOLEAN :
    /\ frame => IF k = "video" THEN ictx.vc ELSE ictx.ac
    /\ frame => ictx.lastFrame
    /\ \A i \in Receivers(k) : out[i].oc /\ TargetStream(i, k) # "none"
    /\ bad' = bad \cup Misused(k)
    /\ \/ /\ loop' = [loop EXCEPT !.ready = TRUE, !.heard = loop.heard \ {k}]
          /\ UNCHANGED <<h, ictx, out, pc>>
       \/ May("encode") /\ EndTranscode /\ Shutdown(ictx, out)
    /\ UNCHANGED <<session, leaked>>

\* A frame of another size: encode frees the encoder and fails to open one of
\* the new size.
EncoderLost ==
  /\ May("resize")
  /\ "video" \in NextPackets /\ ictx.vc /\ ictx.lastFrame
  /\ \A i \in Receivers("video") : out[i].oc /\ TargetStream(i, "video") # "none"
  /\ bad' = bad \cup Misused("video")
  /\ \E i \in Receivers("video") :
       HasEncoder(i, "video") /\ Shutdown(ictx, [out EXCEPT ![i].vc = FALSE])
  /\ EndTranscode
  /\ UNCHANGED <<session, leaked>>

ProcessCrash ==
  \E k \in NextPackets :
    \/ (IF k = "video" THEN ictx.vc ELSE ictx.ac) /\ ~ictx.lastFrame /\ Crash("null_frame")
    \/ (\E i \in Receivers(k) : ~out[i].oc) /\ Crash("no_muxer")
    \/ (\E i \in Receivers(k) : out[i].oc /\ TargetStream(i, k) = "none") /\ Crash("no_stream")

\* Reading or decoding fails, no keyframe at the end included.
ReadError ==
  /\ pc = "loop"
  /\ May("read")
  /\ ~loop.eof /\ (loop.ready => loop.heard = {})
  /\ EndTranscode
  /\ Shutdown(ictx, out)
  /\ UNCHANGED <<session, leaked, bad>>

\* A transmuxed call leaves its outputs open and closes its input.
EndOfInput ==
  /\ pc = "loop" /\ loop.ready /\ loop.heard = {}
  /\ IF ictx.transmuxing
     THEN /\ ictx' = [ictx EXCEPT !.ic = FALSE, !.file = 0]
          /\ pc' = "idle"
          /\ EndTranscode
     ELSE pc' = "flush" /\ UNCHANGED <<ictx, h>>
  /\ UNCHANGED <<session, out, loop, leaked, bad>>

\* A filter that produced nothing is flushed with a copy of the last frame.
FlushCrash ==
  /\ pc = "flush"
  /\ ~ictx.lastFrame
  /\ \E i \in Active : out[i].ac \/ (out[i].vc /\ ~out[i].hw)
  /\ Crash("null_frame")

FlushOutputs ==
  /\ pc = "flush"
  /\ \A i \in Active : ictx.lastFrame \/ ~(out[i].ac \/ (out[i].vc /\ ~out[i].hw))
  /\ EndTranscode
  /\ Shutdown(ictx, out)
  /\ UNCHANGED <<session, leaked, bad>>

-----------------------------------------------------------------------------
StopTranscoder ==
  /\ pc = "idle"
  /\ pc' = "stopped"
  /\ ictx' = FreeInput(ictx)
  /\ out' = [i \in OutputIds |-> FreeOutput(out[i])]
  /\ UNCHANGED <<session, h, loop, leaked, bad>>

Init ==
  /\ cfg \in Sessions
  /\ go = [started |-> FALSE, lastacodec |-> NoAudio]
  /\ h = [initialized |-> FALSE, nb |-> 0]
  /\ ictx = [ic |-> FALSE, file |-> 0, video |-> FALSE, acodec |-> NoAudio,
             vc |-> FALSE, ac |-> FALSE, hw |-> FALSE, transmuxing |-> FALSE,
             vi |-> TRUE, ai |-> TRUE, dv |-> FALSE, da |-> FALSE,
             lastFrame |-> FALSE, fmtKnown |-> FALSE]
  /\ out = [i \in OutputIds |->
             [init |-> FALSE, oc |-> FALSE, sv |-> FALSE, sa |-> FALSE,
              vc |-> FALSE, ac |-> FALSE, hw |-> FALSE]]
  /\ seg = [id |-> 1, nb |-> 1, video |-> TRUE, acodec |-> NoAudio, newfmt |-> FALSE]
  /\ loop = [redec |-> FALSE, ready |-> FALSE, eof |-> FALSE, heard |-> {}]
  /\ pc = "idle"
  /\ calls = 0
  /\ leaked = {}
  /\ bad = {}

Next ==
  \/ TranscodeRejects \/ TranscodeBadParams \/ TranscodeStart
  \/ ReopenDemux \/ TooManyOutputs \/ FirstOpen \/ CheckCount
  \/ ReopenDemuxer \/ ReopenIO \/ ReuseInput \/ CheckPixfmt \/ ReopenDecoders
  \/ SetupOutputs \/ SetupOutputsCrash
  \/ QueuePacket \/ QueueForeignPacket \/ ForceOpen \/ EmptyInput
  \/ Process \/ EncoderLost \/ ProcessCrash \/ ReadError \/ EndOfInput
  \/ FlushCrash \/ FlushOutputs
  \/ StopTranscoder

Spec == Init /\ [][Next]_vars

-----------------------------------------------------------------------------
(* Properties.                                                              *)

\* Whatever step of a call failed, a call that has returned (and a stopped
\* session) holds no output file, audio encoder or software video encoder:
\* transcode_shutdown and free_output close them on every path.
IdleOutputsClosed ==
  pc \in {"idle", "stopped"} /\ ~ictx.transmuxing =>
    \A i \in OutputIds : ~out[i].oc /\ ~out[i].ac /\ (out[i].vc => out[i].hw)

\* No call opens a muxer or encoder over one that is still open, however the
\* calls before it ended.
OutputsNeverLeak == leaked \cap {"oc", "ovc", "oac"} = {}

\* No call opens a demuxer or decoder over one that is still open.
InputNeverLeaks == leaked \cap {"ic", "vc", "ac"} = {}

\* The encoder of a hardware output, once open, outlives every call, failed
\* ones included: it is freed only with the session, or when it cannot be
\* replaced by one for another frame size.
HwEncoderKept ==
  [][\A i \in OutputIds :
       out[i].vc /\ out[i].hw /\ pc' # "stopped" /\ ~EncoderLost =>
         out'[i].vc /\ out'[i].hw]_vars

\* What a call decodes comes from the file it was given, not from one that
\* an earlier call left open.
ReadsOwnInput == pc \in {"loop", "flush"} => ictx.ic /\ ictx.file = seg.id

\* Between calls only an MPEG-TS demuxer stays open, and without its file.
OnlyMpegtsKeepsDemuxer ==
  pc = "idle" /\ ictx.ic => cfg.mpegts /\ ictx.file = 0

\* While something is decoded the last-frame buffers that transcode and the
\* filter flush write to are allocated.
DecodingHasFrames ==
  pc \in {"loop", "flush"} /\ (ictx.vc \/ ictx.ac) => ictx.lastFrame

\* The packets of an output that is to be encoded are never copied into it
\* undecoded.
EncodesDecoded == "raw_copy" \notin bad

\* A packet is muxed into a stream of its own type: the stream index that
\* transcode computes and the streams (re)opening added agree.
RightStream == bad \cap {"wrong_stream", "no_stream"} = {}

\* No packet is muxed into an output that has no muxer.
MuxersOpen == "no_muxer" \notin bad

\* What transcode assumes of each packet it decodes, encodes or muxes, whatever
\* the calls before did to decoders, encoders and streams.
ProcessesRightly == DecodingHasFrames /\ EncodesDecoded /\ RightStream /\ MuxersOpen

\* Once the end of the input is read there is no more processing.
EofFlushes == "eof_index" \notin bad

\* The demuxer that reads a segment with audio is aware of that audio.
DemuxerKnowsAudio ==
  pc = "loop" /\ cfg.probed /\ seg.acodec # NoAudio
    /\ (\E i \in Active : cfg.audio[i] # "drop")
  => ictx.acodec = seg.acodec

\* The muxers of a transmuxed session are closed only by StopTranscoder.
TransmuxClosedByStop ==
  [][\A i \in OutputIds :
       ictx.transmuxing /\ out[i].oc /\ ~out'[i].oc => pc' = "stopped"]_vars
=============================================================================
