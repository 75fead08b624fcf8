---------------------- MODULE TranscodeSession_proofs ----------------------
(* For every number of outputs, bound on the calls, set of codecs, set of   *)
(* faults and set of session configurations: whatever fails, a session      *)
(* closes its outputs before it returns, never opens a muxer or an encoder  *)
(* over one that is open, and keeps the hardware encoders it has.           *)
EXTENDS TranscodeSession, TLAPS

\* An output nothing has been opened in.
Blank(o) == ~o.oc /\ ~o.ac /\ ~o.vc

\* An output as transcode_shutdown leaves it.
Closed(o) == ~o.oc /\ ~o.ac /\ (o.vc => o.hw)

\* pcs at which no output of this call has been opened.
Resting == {"idle", "reopen", "lpms", "init", "pixfmt", "decoders", "outputs", "stopped"}

OnlyTransmuxersTransmux == ictx.transmuxing => cfg.transmux

\* Outputs beyond the number the handle was opened with are never touched.
UnusedBlank == \A i \in OutputIds : i > h.nb => Blank(out[i])

\* Before the first call has reached transcode no output has been opened.
FreshBlank == ~h.initialized /\ pc \in Resting => \A i \in OutputIds : Blank(out[i])

RestingClosed ==
  pc \in Resting /\ ~ictx.transmuxing => \A i \in OutputIds : Closed(out[i])

\* The loop opens an output only where nothing is left of an earlier call.
UninitBlank ==
  pc = "loop" => \A i \in OutputIds : i \in Active /\ ~out[i].init => Blank(out[i])

IInv ==
  /\ TypeOK
  /\ OnlyTransmuxersTransmux
  /\ UnusedBlank
  /\ FreshBlank
  /\ RestingClosed
  /\ UninitBlank
  /\ OutputsNeverLeak

\* The step HwEncoderKept allows.
EncodersKept ==
  \A i \in OutputIds :
    out[i].vc /\ out[i].hw /\ pc' # "stopped" => out'[i].vc /\ out'[i].hw

-----------------------------------------------------------------------------
(* What the helpers do to the contexts they are given.                      *)

\* What the input operations take from the call and the configuration.
LEMMA CallFields ==
  ASSUME TypeOK
  PROVE  /\ 0 \in Files /\ seg.id \in Files
         /\ seg.video \in BOOLEAN /\ seg.acodec \in AnyCodec
         /\ cfg.transmux \in BOOLEAN /\ cfg.hw \in BOOLEAN /\ cfg.mpegts \in BOOLEAN
BY ConstantsAssumption DEF TypeOK, Segment, Config, Files

\* Every operation on the input context yields an input context, and only
\* open_input changes whether the session transmuxes.
LEMMA InputOperations ==
  ASSUME TypeOK, NEW c \in InputCtx
  PROVE  /\ FreeInput(c) \in InputCtx
         /\ CloseInput(c) \in InputCtx
         /\ OpenDemuxer(c) \in InputCtx
         /\ OpenVideoDecoder(c) \in InputCtx
         /\ OpenAudioDecoder(c) \in InputCtx
         /\ OpenInput(c) \in InputCtx
         /\ AudioDecoderFails(c) \in InputCtx
         /\ FreeInput(c).transmuxing = c.transmuxing
         /\ CloseInput(c).transmuxing = c.transmuxing
         /\ OpenDemuxer(c).transmuxing = c.transmuxing
         /\ OpenVideoDecoder(c).transmuxing = c.transmuxing
         /\ OpenAudioDecoder(c).transmuxing = c.transmuxing
         /\ OpenInput(c).transmuxing = cfg.transmux
         /\ AudioDecoderFails(c).transmuxing = c.transmuxing
         /\ \A d \in VideoDecoderFails(c) :
              d \in InputCtx /\ d.transmuxing = c.transmuxing /\ ~d.ic
         /\ \A f : \A d \in FailedInputs(c, f) :
              d \in InputCtx /\ d.transmuxing = cfg.transmux /\ ~d.ic
<1> USE CallFields DEF InputCtx
<1>1. ASSUME NEW d \in InputCtx
      PROVE  /\ FreeInput(d) \in InputCtx
             /\ FreeInput(d).transmuxing = d.transmuxing
             /\ ~FreeInput(d).ic
  BY DEF FreeInput
<1>2. /\ CloseInput(c) \in InputCtx
      /\ CloseInput(c).transmuxing = c.transmuxing
  <2> DEFINE keepIc == c.ic /\ cfg.mpegts
             keepVc == c.vc /\ c.hw
  <2>1. keepIc \in BOOLEAN /\ keepVc \in BOOLEAN
    OBVIOUS
  <2>2. CloseInput(c) = [c EXCEPT !.ic = keepIc, !.file = 0, !.ac = FALSE, !.vc = keepVc]
    BY DEF CloseInput
  <2> HIDE DEF keepIc, keepVc
  <2> QED BY <2>1, <2>2
<1>3. ASSUME NEW d \in InputCtx
      PROVE  /\ OpenDemuxer(d) \in InputCtx
             /\ OpenDemuxer(d).transmuxing = d.transmuxing
  BY DEF OpenDemuxer
<1>4. ASSUME NEW d \in InputCtx
      PROVE  /\ OpenVideoDecoder(d) \in InputCtx
             /\ OpenVideoDecoder(d).transmuxing = d.transmuxing
  <2> DEFINE vc == OpensVideo(d) \/ d.vc
             hw == IF OpensVideo(d) THEN cfg.hw ELSE d.hw
  <2>1. vc \in BOOLEAN /\ hw \in BOOLEAN
    OBVIOUS
  <2>2. OpenVideoDecoder(d) = [d EXCEPT !.vi = d.video, !.vc = vc, !.hw = hw]
    BY DEF OpenVideoDecoder
  <2> HIDE DEF vc, hw
  <2> QED BY <2>1, <2>2
<1>5. ASSUME NEW d \in InputCtx
      PROVE  /\ OpenAudioDecoder(d) \in InputCtx
             /\ OpenAudioDecoder(d).transmuxing = d.transmuxing
  <2> DEFINE ai == d.acodec # NoAudio
             ac == OpensAudio(d) \/ d.ac
  <2>1. ai \in BOOLEAN /\ ac \in BOOLEAN
    OBVIOUS
  <2>2. OpenAudioDecoder(d) = [d EXCEPT !.ai = ai, !.ac = ac]
    BY DEF OpenAudioDecoder
  <2> HIDE DEF ai, ac
  <2> QED BY <2>1, <2>2
<1> DEFINE t == [c EXCEPT !.transmuxing = cfg.transmux]
<1>6. t \in InputCtx /\ t.transmuxing = cfg.transmux
  OBVIOUS
<1>7. ASSUME NEW d \in InputCtx
      PROVE  /\ AudioDecoderFails(d) \in InputCtx
             /\ AudioDecoderFails(d).transmuxing = d.transmuxing
             /\ ~AudioDecoderFails(d).ic
             /\ \A e \in VideoDecoderFails(d) :
                  e \in InputCtx /\ e.transmuxing = d.transmuxing /\ ~e.ic
  <2>1. /\ [d EXCEPT !.ai = TRUE] \in InputCtx
        /\ [d EXCEPT !.ai = TRUE].transmuxing = d.transmuxing
    OBVIOUS
  <2>2. ASSUME NEW hw \in {d.hw, cfg.hw}
        PROVE  /\ [d EXCEPT !.vi = TRUE, !.hw = hw] \in InputCtx
               /\ [d EXCEPT !.vi = TRUE, !.hw = hw].transmuxing = d.transmuxing
    <3>1. hw \in BOOLEAN
      OBVIOUS
    <3> QED BY <3>1
  <2>3. /\ AudioDecoderFails(d) \in InputCtx
        /\ AudioDecoderFails(d).transmuxing = d.transmuxing
        /\ ~AudioDecoderFails(d).ic
    <3> HIDE DEF InputCtx
    <3> QED BY <1>1, <2>1 DEF AudioDecoderFails
  <2>4. ASSUME NEW e \in VideoDecoderFails(d)
        PROVE  e \in InputCtx /\ e.transmuxing = d.transmuxing /\ ~e.ic
    <3>1. PICK hw \in {d.hw, cfg.hw} : e = FreeInput([d EXCEPT !.vi = TRUE, !.hw = hw])
      BY <2>4 DEF VideoDecoderFails
    <3> DEFINE g == [d EXCEPT !.vi = TRUE, !.hw = hw]
    <3>2. g \in InputCtx /\ g.transmuxing = d.transmuxing
      BY <2>2
    <3>3. e = FreeInput(g)
      BY <3>1
    <3> HIDE DEF InputCtx, g
    <3> QED BY <1>1, <3>2, <3>3
  <2> QED BY <2>3, <2>4
<1> DEFINE av == OpenAudioDecoder(OpenVideoDecoder(OpenDemuxer(t)))
<1>8. OpenInput(c) = IF cfg.transmux THEN OpenDemuxer(t)
                     ELSE [av EXCEPT !.lastFrame = TRUE]
  BY DEF OpenInput
<1> HIDE DEF t
<1>9. av \in InputCtx /\ av.transmuxing = cfg.transmux
  BY <1>3, <1>4, <1>5, <1>6
<1> HIDE DEF av
<1>10. /\ [av EXCEPT !.lastFrame = TRUE] \in InputCtx
       /\ [av EXCEPT !.lastFrame = TRUE].transmuxing = cfg.transmux
  BY <1>9
<1>11. OpenInput(c) \in InputCtx /\ OpenInput(c).transmuxing = cfg.transmux
  <2>1. CASE cfg.transmux
    BY <1>3, <1>6, <1>8, <2>1 DEF OpenInput
  <2>2. CASE ~cfg.transmux
    BY <1>10, <1>8, <2>2
  <2> QED BY <2>1, <2>2
<1>12. ASSUME NEW f, NEW d \in FailedInputs(c, f)
       PROVE  d \in InputCtx /\ d.transmuxing = cfg.transmux /\ ~d.ic
  <2>1. \/ d \in VideoDecoderFails(OpenDemuxer(t))
        \/ d = AudioDecoderFails(OpenVideoDecoder(OpenDemuxer(t)))
        \/ d = FreeInput(t)
    BY <1>12 DEF FailedInputs, t
  <2> QED BY <1>1, <1>3, <1>4, <1>6, <1>7, <2>1
<1> QED BY <1>1, <1>2, <1>3, <1>4, <1>5, <1>6, <1>7, <1>11, <1>12

\* What closing and freeing leave of an output.
LEMMA ClosedOutputs ==
  ASSUME NEW o \in OutputCtx
  PROVE  /\ CloseOutput(o) \in OutputCtx
         /\ FreeOutput(o) \in OutputCtx
         /\ Closed(CloseOutput(o))
         /\ Blank(FreeOutput(o))
         /\ Blank(o) => Blank(CloseOutput(o))
         /\ CloseOutput(o).hw = o.hw
         /\ CloseOutput(o).init = o.init
         /\ o.vc /\ o.hw => CloseOutput(o).vc
BY DEF OutputCtx, CloseOutput, FreeOutput, Closed, Blank

\* What opening, reopening and populating make of an output.
LEMMA OpenedOutputs ==
  ASSUME TypeOK, NEW i \in OutputIds, NEW o \in OutputCtx, NEW f
  PROVE  /\ Opened(i, o) \in OutputCtx
         /\ OpenFailed(i, o, f) \in OutputCtx
         /\ Reopened(i, o) \in OutputCtx
         /\ Populated(o) \in OutputCtx
         /\ Blank(OpenFailed(i, o, f))
         /\ Opened(i, o).init
         /\ Reopened(i, o).init = o.init
         /\ Reopened(i, o).vc = o.vc /\ Reopened(i, o).hw = o.hw
         /\ Populated(o).vc = o.vc /\ Populated(o).hw = o.hw
         /\ Populated(o).oc = o.oc /\ Populated(o).ac = o.ac
         /\ Populated(o).init = (h.initialized /\ (o.hw \/ ictx.transmuxing))
<1>1. Opened(i, o) \in OutputCtx /\ Opened(i, o).init
  <2> DEFINE v == ictx.vc /\ Encodes(cfg.video[i])
             sv == IF ictx.transmuxing THEN ictx.video ELSE ~DV(i)
             sa == IF ictx.transmuxing THEN ictx.acodec # NoAudio ELSE ~DA(i)
             vc == v \/ o.vc
             ac == (~ictx.transmuxing /\ ictx.ac /\ Encodes(cfg.audio[i])) \/ o.ac
             hw == IF v THEN ictx.hw ELSE o.hw
  <2>1. /\ sv \in BOOLEAN /\ sa \in BOOLEAN /\ vc \in BOOLEAN
        /\ ac \in BOOLEAN /\ hw \in BOOLEAN
    BY DEF TypeOK, InputCtx, OutputCtx
  <2>2. Opened(i, o) = [init |-> TRUE, oc |-> TRUE, sv |-> sv, sa |-> sa,
                        vc |-> vc, ac |-> ac, hw |-> hw]
    BY DEF Opened
  <2> HIDE DEF v, sv, sa, vc, ac, hw
  <2> QED BY <2>1, <2>2 DEF OutputCtx
<1>2. OpenFailed(i, o, f) \in OutputCtx /\ Blank(OpenFailed(i, o, f))
  <2> DEFINE hw == IF f = "openlate" THEN Opened(i, o).hw ELSE o.hw
             g == [o EXCEPT !.hw = hw]
  <2>1. hw \in BOOLEAN
    BY <1>1 DEF OutputCtx
  <2>2. OpenFailed(i, o, f) = FreeOutput(g)
    BY DEF OpenFailed
  <2> HIDE DEF hw
  <2>3. g \in OutputCtx
    BY <2>1 DEF OutputCtx
  <2> QED BY <2>2, <2>3, ClosedOutputs
<1>3. /\ Reopened(i, o) \in OutputCtx
      /\ Reopened(i, o).init = o.init
      /\ Reopened(i, o).vc = o.vc /\ Reopened(i, o).hw = o.hw
  <2> DEFINE sa == ~DA(i)
             ac == (ictx.ac /\ Encodes(cfg.audio[i])) \/ o.ac
  <2>1. sa \in BOOLEAN /\ ac \in BOOLEAN
    OBVIOUS
  <2>2. Reopened(i, o) = [o EXCEPT !.oc = TRUE, !.sv = o.vc, !.sa = sa, !.ac = ac]
    BY DEF Reopened
  <2> HIDE DEF sa, ac
  <2> QED BY <2>1, <2>2 DEF OutputCtx
<1>4. /\ Populated(o) \in OutputCtx
      /\ Populated(o).vc = o.vc /\ Populated(o).hw = o.hw
      /\ Populated(o).oc = o.oc /\ Populated(o).ac = o.ac
      /\ Populated(o).init = (h.initialized /\ (o.hw \/ ictx.transmuxing))
  <2> DEFINE init == h.initialized /\ (o.hw \/ ictx.transmuxing)
  <2>1. init \in BOOLEAN
    OBVIOUS
  <2>2. Populated(o) = [o EXCEPT !.init = init]
    BY DEF Populated
  <2>3. /\ Populated(o) \in OutputCtx
        /\ Populated(o).vc = o.vc /\ Populated(o).hw = o.hw
        /\ Populated(o).oc = o.oc /\ Populated(o).ac = o.ac
        /\ Populated(o).init = init
    <3> HIDE DEF init
    <3> QED BY <2>1, <2>2 DEF OutputCtx
  <2> QED BY <2>3
<1> QED BY <1>1, <1>2, <1>3, <1>4

\* transcode_shutdown closes every output of the call, keeps hardware
\* encoders and ends the call.
LEMMA ShutdownCloses ==
  ASSUME TypeOK, NEW c \in InputCtx, NEW o \in [OutputIds -> OutputCtx],
         Shutdown(c, o), \A i \in OutputIds : i > h.nb => Blank(o[i])
  PROVE  /\ ictx' \in InputCtx
         /\ ictx'.transmuxing = c.transmuxing
         /\ out' \in [OutputIds -> OutputCtx]
         /\ pc' = "idle"
         /\ loop' = loop
         /\ \A i \in OutputIds : i > h.nb => Blank(out'[i])
         /\ \A i \in OutputIds : Closed(out'[i])
         /\ \A i \in OutputIds : Blank(o[i]) => Blank(out'[i])
         /\ \A i \in OutputIds :
              o[i].vc /\ o[i].hw => out'[i].vc /\ out'[i].hw
<1>1. ictx' \in InputCtx /\ ictx'.transmuxing = c.transmuxing
  BY InputOperations DEF Shutdown
<1>2. pc' = "idle" /\ loop' = loop
  BY DEF Shutdown
<1>3. out' = [i \in OutputIds |-> IF i \in Active THEN CloseOutput(o[i]) ELSE o[i]]
  BY DEF Shutdown
<1>4. ASSUME NEW i \in OutputIds
      PROVE  /\ out'[i] \in OutputCtx
             /\ i > h.nb => Blank(out'[i])
             /\ Closed(out'[i])
             /\ Blank(o[i]) => Blank(out'[i])
             /\ o[i].vc /\ o[i].hw => out'[i].vc /\ out'[i].hw
  <2>1. o[i] \in OutputCtx
    OBVIOUS
  <2>2. CASE i \in Active
    <3>1. out'[i] = CloseOutput(o[i])
      BY <1>3, <2>2
    <3>2. ~(i > h.nb)
      BY <2>2, ConstantsAssumption DEF Active, TypeOK, OutputIds
    <3>3. /\ CloseOutput(o[i]) \in OutputCtx
          /\ Closed(CloseOutput(o[i]))
          /\ Blank(o[i]) => Blank(CloseOutput(o[i]))
          /\ o[i].vc /\ o[i].hw => CloseOutput(o[i]).vc
          /\ CloseOutput(o[i]).hw = o[i].hw
      BY <2>1, ClosedOutputs
    <3> QED BY <3>1, <3>2, <3>3
  <2>3. CASE i \notin Active
    <3>1. out'[i] = o[i]
      BY <1>3, <2>3
    <3>2. i > h.nb
      BY <2>3, ConstantsAssumption DEF Active, TypeOK, OutputIds
    <3> QED BY <2>1, <3>1, <3>2 DEF Closed, Blank
  <2> QED BY <2>2, <2>3
<1>5. out' \in [OutputIds -> OutputCtx]
  BY <1>3, <1>4
<1> QED BY <1>1, <1>2, <1>4, <1>5

-----------------------------------------------------------------------------
(* The invariant is preserved by every action.                              *)

\* The parts of the invariant about outputs survive a step that leaves the
\* outputs alone and does not enter the loop.
LEMMA QuietStep ==
  ASSUME IInv, UNCHANGED <<cfg, out, h>>,
         pc \in Resting, pc' \in Resting \cup {"crashed"},
         ictx'.transmuxing = ictx.transmuxing \/ ictx'.transmuxing = cfg.transmux,
         leaked' \subseteq leaked \cup {"ic", "vc", "ac"}
  PROVE  /\ OnlyTransmuxersTransmux'
         /\ UnusedBlank'
         /\ FreshBlank'
         /\ RestingClosed'
         /\ UninitBlank'
         /\ OutputsNeverLeak'
<1> USE DEF IInv, Resting
<1>1. OnlyTransmuxersTransmux'
  BY DEF OnlyTransmuxersTransmux
<1>2. UnusedBlank'
  BY DEF UnusedBlank, Blank
<1>3. FreshBlank'
  BY DEF FreshBlank, Blank
<1>4. ~ictx'.transmuxing => ~ictx.transmuxing
  BY DEF OnlyTransmuxersTransmux
<1>5. RestingClosed'
  BY <1>4 DEF RestingClosed, Closed
<1>6. UninitBlank'
  BY DEF UninitBlank
<1>7. OutputsNeverLeak'
  BY DEF OutputsNeverLeak
<1> QED BY <1>1, <1>2, <1>3, <1>5, <1>6, <1>7

\* A crash leaves everything as it is.
LEMMA CrashStep ==
  ASSUME IInv, NEW r \in Crashes, Crash(r)
  PROVE  IInv'
<1> USE DEF IInv, Crash
<1>1. TypeOK'
  BY DEF TypeOK, PCs
<1>2. UnusedBlank' /\ OnlyTransmuxersTransmux' /\ OutputsNeverLeak'
  BY DEF UnusedBlank, Blank, OnlyTransmuxersTransmux, OutputsNeverLeak
<1>3. FreshBlank' /\ RestingClosed' /\ UninitBlank'
  BY DEF FreshBlank, RestingClosed, UninitBlank, Resting
<1> QED BY <1>1, <1>2, <1>3

\* transcode_shutdown, called on contexts c and o that a failing or finished
\* step has left.
LEMMA ShutdownStep ==
  ASSUME IInv, NEW c \in InputCtx, NEW o \in [OutputIds -> OutputCtx], Shutdown(c, o),
         c.transmuxing = ictx.transmuxing \/ c.transmuxing = cfg.transmux,
         \A i \in OutputIds : i > h.nb => Blank(o[i]),
         h' \in [initialized : BOOLEAN, nb : 0..MaxOutputs], h'.nb = h.nb,
         ~h'.initialized => \A i \in OutputIds : Blank(o[i]),
         UNCHANGED session,
         bad' \subseteq Crashes \cup Misuses,
         leaked' \subseteq leaked \cup {"ic", "vc", "ac"}
  PROVE  /\ IInv'
         /\ (\A i \in OutputIds : out[i].vc /\ out[i].hw => o[i].vc /\ o[i].hw) => EncodersKept
<1>1. /\ ictx' \in InputCtx
      /\ ictx'.transmuxing = c.transmuxing
      /\ out' \in [OutputIds -> OutputCtx]
      /\ pc' = "idle"
      /\ loop' = loop
      /\ \A i \in OutputIds : i > h.nb => Blank(out'[i])
      /\ \A i \in OutputIds : Closed(out'[i])
      /\ \A i \in OutputIds : Blank(o[i]) => Blank(out'[i])
      /\ \A i \in OutputIds : o[i].vc /\ o[i].hw => out'[i].vc /\ out'[i].hw
  BY ShutdownCloses DEF IInv
<1>2. TypeOK'
  BY <1>1 DEF IInv, TypeOK, session, PCs
<1>3. OnlyTransmuxersTransmux'
  BY <1>1 DEF IInv, OnlyTransmuxersTransmux, session
<1>4. UnusedBlank'
  BY <1>1 DEF UnusedBlank, Blank
<1>5. FreshBlank'
  BY <1>1 DEF FreshBlank, Blank
<1>6. RestingClosed'
  BY <1>1 DEF RestingClosed, Closed
<1>7. UninitBlank' /\ OutputsNeverLeak'
  BY <1>1 DEF IInv, UninitBlank, OutputsNeverLeak
<1>8. ASSUME \A i \in OutputIds : out[i].vc /\ out[i].hw => o[i].vc /\ o[i].hw
      PROVE  EncodersKept
  BY <1>1, <1>8 DEF EncodersKept
<1> QED BY <1>2, <1>3, <1>4, <1>5, <1>6, <1>7, <1>8 DEF IInv

\* transcode_shutdown called before the outputs are set up.
LEMMA RestingShutdown ==
  ASSUME IInv, NEW c \in InputCtx, Shutdown(c, out),
         c.transmuxing = ictx.transmuxing \/ c.transmuxing = cfg.transmux,
         UNCHANGED <<session, h, bad>>,
         pc \in Resting \ {"stopped"},
         leaked' \subseteq leaked \cup {"ic", "vc", "ac"}
  PROVE  IInv' /\ EncodersKept
<1>1. /\ out \in [OutputIds -> OutputCtx]
      /\ h' \in [initialized : BOOLEAN, nb : 0..MaxOutputs]
      /\ bad' \subseteq Crashes \cup Misuses
  BY DEF IInv, TypeOK
<1>2. \A i \in OutputIds : i > h.nb => Blank(out[i])
  BY DEF IInv, UnusedBlank
<1>3. ~h'.initialized => \A i \in OutputIds : Blank(out[i])
  BY DEF IInv, FreshBlank
<1> QED BY <1>1, <1>2, <1>3, ShutdownStep

LEMMA OverwrittenKinds ==
  ASSUME NEW c, NEW d, NEW f
  PROVE  /\ DecoderOverwrites(c, d) \subseteq {"vc", "ac"}
         /\ Overwritten(c, f) \subseteq {"ic", "vc", "ac"}
<1>1. DecoderOverwrites(c, d) \subseteq {"vc", "ac"}
  BY DEF DecoderOverwrites
<1>2. Overwritten(c, f) \subseteq {"ic", "vc", "ac"}
  BY DEF Overwritten, DecoderOverwrites
<1> QED BY <1>1, <1>2

\* The steps before the C calls.
LEMMA GoSteps ==
  ASSUME IInv, TranscodeRejects \/ TranscodeBadParams \/ TranscodeStart
  PROVE  IInv'
<1>1. PICK s \in Segments :
        /\ BeginCall(s)
        /\ go' = go \/ go' = GoAfter(s)
        /\ pc' = pc \/ pc' = "reopen" \/ pc' = "lpms"
  BY DEF TranscodeRejects, TranscodeBadParams, TranscodeStart
<1>2. s \in Segment
  BY DEF Segments
<1>3. go' \in [started : BOOLEAN, lastacodec : AnyCodec]
  <2>1. s.acodec \in AnyCodec
    BY <1>2 DEF Segment
  <2>2. go \in [started : BOOLEAN, lastacodec : AnyCodec] /\ cfg.transmux \in BOOLEAN
    BY CallFields DEF IInv, TypeOK
  <2>3. [go EXCEPT !.started = go.started \/ cfg.transmux]
          \in [started : BOOLEAN, lastacodec : AnyCodec]
    BY <2>2
  <2>4. [go EXCEPT !.lastacodec = s.acodec] \in [started : BOOLEAN, lastacodec : AnyCodec]
    BY <2>1, <2>2
  <2>5. [started |-> TRUE, lastacodec |-> s.acodec]
          \in [started : BOOLEAN, lastacodec : AnyCodec]
    BY <2>1
  <2>6. GoAfter(s) \in [started : BOOLEAN, lastacodec : AnyCodec]
    BY <2>2, <2>3, <2>4, <2>5 DEF GoAfter
  <2> QED BY <1>1, <2>2, <2>6
<1>4. calls' \in 0..MaxCalls /\ pc' \in PCs
  BY <1>1, ConstantsAssumption DEF BeginCall, IInv, TypeOK, PCs
<1>5. TypeOK'
  BY <1>1, <1>2, <1>3, <1>4 DEF BeginCall, IInv, TypeOK
<1>6. pc \in Resting /\ pc' \in Resting
  BY <1>1 DEF BeginCall, Resting
<1> QED BY <1>1, <1>5, <1>6, QuietStep DEF BeginCall, IInv

LEMMA ReopenDemuxStep ==
  ASSUME IInv, ReopenDemux
  PROVE  IInv'
<1>1. ictx \in InputCtx /\ FreeInput(ictx) \in InputCtx
  BY InputOperations DEF IInv, TypeOK
<1>2. ictx' \in InputCtx /\ ictx'.transmuxing = cfg.transmux
  BY <1>1, InputOperations DEF ReopenDemux, IInv
<1>3. leaked' \subseteq leaked \cup {"ic", "vc", "ac"}
  BY OverwrittenKinds DEF ReopenDemux
<1>4. pc \in Resting /\ pc' \in Resting /\ pc' \in PCs
  BY DEF ReopenDemux, Resting, PCs
<1>5. TypeOK'
  BY <1>2, <1>3, <1>4 DEF ReopenDemux, session, IInv, TypeOK
<1> QED BY <1>2, <1>3, <1>4, <1>5, QuietStep DEF ReopenDemux, session, IInv

LEMMA CountSteps ==
  ASSUME IInv, TooManyOutputs \/ CheckCount
  PROVE  IInv'
<1> USE DEF TooManyOutputs, CheckCount
<1>1. pc \in Resting /\ pc' \in Resting /\ pc' \in PCs
  BY DEF Resting, PCs
<1>2. TypeOK'
  BY <1>1 DEF session, IInv, TypeOK
<1> QED BY <1>1, <1>2, QuietStep DEF session, IInv

\* The first open may change the number of outputs: none is open yet.
LEMMA FirstOpenStep ==
  ASSUME IInv, FirstOpen
  PROVE  IInv'
<1> DEFINE dv == SkipDecode(ictx.dv, cfg.video)
           da == SkipDecode(ictx.da, cfg.audio)
           c == [ictx EXCEPT !.dv = dv, !.da = da]
<1>1. dv \in BOOLEAN /\ da \in BOOLEAN
  BY DEF SkipDecode, IInv, TypeOK, InputCtx
<1>2. /\ ictx' = OpenInput(c) \/ \E f : ictx' \in FailedInputs(c, f)
      /\ \E f : leaked' = leaked \cup Overwritten(c, f)
      /\ pc' \in {"init", "idle"}
  BY DEF FirstOpen
<1> HIDE DEF dv, da
<1>3. c \in InputCtx
  BY <1>1 DEF IInv, TypeOK, InputCtx
<1> HIDE DEF c
<1>4. ictx' \in InputCtx /\ ictx'.transmuxing = cfg.transmux
  BY <1>2, <1>3, InputOperations DEF IInv
<1>5. leaked' \subseteq leaked \cup {"ic", "vc", "ac"}
  BY <1>2, OverwrittenKinds
<1>6. /\ h' \in [initialized : BOOLEAN, nb : 0..MaxOutputs]
      /\ h'.initialized = h.initialized
  BY ConstantsAssumption DEF FirstOpen, FitsHandle, IInv, TypeOK, Segment
<1>7. TypeOK'
  BY <1>2, <1>4, <1>5, <1>6 DEF FirstOpen, IInv, TypeOK, PCs
<1>8. \A i \in OutputIds : Blank(out[i]) /\ out'[i] = out[i]
  BY DEF FirstOpen, IInv, FreshBlank, Resting
<1>9. UnusedBlank' /\ FreshBlank' /\ RestingClosed'
  BY <1>8 DEF UnusedBlank, FreshBlank, RestingClosed, Blank, Closed
<1>10. OnlyTransmuxersTransmux' /\ UninitBlank' /\ OutputsNeverLeak'
  BY <1>2, <1>4, <1>5 DEF FirstOpen, IInv, OnlyTransmuxersTransmux, UninitBlank, OutputsNeverLeak
<1> QED BY <1>7, <1>9, <1>10 DEF IInv

\* The steps of transcode_init on the input: each succeeds, touching only the
\* input, or shuts down.
LEMMA InitInputSteps ==
  ASSUME IInv, ReopenDemuxer \/ ReopenIO \/ ReuseInput \/ CheckPixfmt \/ ReopenDecoders
  PROVE  IInv' /\ EncodersKept
<1> DEFINE opened(c) ==
      /\ c \in InputCtx
      /\ c.transmuxing = ictx.transmuxing \/ c.transmuxing = cfg.transmux
<1>1. opened(ictx)
  BY DEF IInv, TypeOK
<1>2. ASSUME NEW c, opened(c)
      PROVE  /\ opened(FreeInput(c)) /\ opened(OpenDemuxer(c)) /\ opened(OpenInput(c))
             /\ opened(OpenVideoDecoder(c)) /\ opened(OpenAudioDecoder(c))
             /\ opened(AudioDecoderFails(c))
             /\ \A d \in VideoDecoderFails(c) : opened(d)
             /\ \A f : \A d \in FailedInputs(c, f) : opened(d)
  BY <1>2, InputOperations DEF IInv
<1>3. opened([ictx EXCEPT !.file = seg.id])
  BY CallFields DEF IInv, TypeOK, InputCtx
<1>4. ASSUME NEW b \in BOOLEAN PROVE opened([ictx EXCEPT !.fmtKnown = b])
  BY DEF IInv, TypeOK, InputCtx
<1>5. ASSUME NEW b \in BOOLEAN
      PROVE  [loop EXCEPT !.redec = b] \in [redec : BOOLEAN, ready : BOOLEAN,
                                            eof : BOOLEAN, heard : SUBSET Kinds]
  BY DEF IInv, TypeOK
<1>6. (~ictx.transmuxing) \in BOOLEAN /\ (ictx.fmtKnown \/ (ictx.hw /\ ictx.vi)) \in BOOLEAN
  OBVIOUS
<1> DEFINE succeeds == /\ opened(ictx')
                       /\ loop' = loop \/ \E b \in BOOLEAN : loop' = [loop EXCEPT !.redec = b]
                       /\ pc' \in {"pixfmt", "decoders", "outputs"}
                       /\ UNCHANGED out
           fails == \E c : opened(c) /\ Shutdown(c, out)
           common == /\ UNCHANGED <<session, h, bad>>
                     /\ pc \in {"init", "pixfmt", "decoders"}
                     /\ leaked' \subseteq leaked \cup {"ic", "vc", "ac"}
<1>7. ASSUME ReopenDemuxer PROVE (succeeds \/ fails) /\ common
  <2>1. common
    BY <1>7 DEF ReopenDemuxer
  <2>2. CASE Shutdown(ictx, out)
    BY <1>1, <2>1, <2>2
  <2>3. CASE Shutdown(OpenDemuxer(ictx), out)
    BY <1>1, <1>2, <2>1, <2>3
  <2>4. CASE /\ ictx' = OpenDemuxer(ictx)
             /\ loop' = [loop EXCEPT !.redec = ~ictx.transmuxing]
             /\ pc' = "pixfmt"
             /\ UNCHANGED out
    <3>1. opened(ictx')
      BY <1>1, <1>2, <2>4
    <3> HIDE DEF opened
    <3> QED BY <1>6, <2>1, <2>4, <3>1
  <2> QED BY <1>7, <2>2, <2>3, <2>4 DEF ReopenDemuxer
<1>8. ASSUME ReopenIO PROVE (succeeds \/ fails) /\ common
  <2> HIDE DEF opened
  <2> QED BY <1>1, <1>3, <1>6, <1>8 DEF ReopenIO
<1>9. ASSUME ReuseInput PROVE (succeeds \/ fails) /\ common
  <2> HIDE DEF opened
  <2>1. opened(ictx')
    BY <1>1, <1>9 DEF ReuseInput, opened
  <2> QED BY <2>1, <1>9 DEF ReuseInput
<1>10. ASSUME CheckPixfmt PROVE (succeeds \/ fails) /\ common
  <2>1. leaked' \subseteq leaked \cup {"ic", "vc", "ac"}
    BY <1>10, OverwrittenKinds DEF CheckPixfmt
  <2>2. /\ opened(OpenInput(FreeInput(ictx)))
        /\ \A f : \A d \in FailedInputs(FreeInput(ictx), f) : opened(d)
    BY <1>1, <1>2
  <2>3. opened([ictx EXCEPT !.fmtKnown = ictx.fmtKnown \/ (ictx.hw /\ ictx.vi)])
    BY <1>4, <1>6
  <2> HIDE DEF opened
  <2> QED BY <1>10, <2>1, <2>2, <2>3 DEF CheckPixfmt
<1>11. ASSUME ReopenDecoders PROVE (succeeds \/ fails) /\ common
  <2>1. leaked' \subseteq leaked \cup {"ic", "vc", "ac"}
    BY <1>11, OverwrittenKinds DEF ReopenDecoders
  <2> DEFINE v == IF ictx.hw THEN ictx ELSE OpenVideoDecoder(ictx)
  <2>2. opened(v)
    BY <1>1, <1>2
  <2>3. /\ opened(OpenAudioDecoder(v)) /\ opened(AudioDecoderFails(v))
        /\ \A d \in VideoDecoderFails(ictx) : opened(d)
    BY <1>1, <1>2, <2>2
  <2> HIDE DEF opened
  <2> QED BY <1>11, <2>1, <2>3 DEF ReopenDecoders
<1>12. (succeeds \/ fails) /\ common
  BY <1>7, <1>8, <1>9, <1>10, <1>11
<1>13. CASE succeeds
  <2>1. pc \in Resting /\ pc' \in Resting /\ pc' \in PCs
    BY <1>12, <1>13 DEF Resting, PCs
  <2>2. loop' \in [redec : BOOLEAN, ready : BOOLEAN, eof : BOOLEAN, heard : SUBSET Kinds]
    BY <1>5, <1>13 DEF IInv, TypeOK
  <2>3. TypeOK'
    BY <1>12, <1>13, <2>1, <2>2 DEF session, IInv, TypeOK
  <2>4. EncodersKept
    BY <1>13 DEF EncodersKept
  <2> QED BY <1>12, <1>13, <2>1, <2>3, <2>4, QuietStep DEF session, IInv
<1>14. CASE fails
  BY <1>12, <1>14, RestingShutdown DEF Resting
<1> QED BY <1>12, <1>13, <1>14

\* Populating and reopening the outputs of the call leaves closed what they
\* do not reopen and overwrites nothing.
LEMMA SetupOutputsStep ==
  ASSUME IInv, SetupOutputs
  PROVE  IInv' /\ EncodersKept
<1> DEFINE setup(n) == [i \in OutputIds |->
             IF i \in Active /\ i <= n
             THEN IF Reopens(out[i]) THEN Reopened(i, Populated(out[i])) ELSE Populated(out[i])
             ELSE out[i]]
           reopened(n) == {i \in Active : i <= n /\ Reopens(out[i])}
           overwritten(n) == UNION {OutputOverwrites(i, Populated(out[i])) : i \in reopened(n)}
<1>1. pc = "outputs" /\ out \in [OutputIds -> OutputCtx] /\ h.nb \in 0..MaxOutputs /\ TypeOK
  BY DEF SetupOutputs, IInv, TypeOK
<1>2. ASSUME NEW i \in OutputIds, i \in Active
      PROVE  LET p == Populated(out[i])
             IN /\ p \in OutputCtx
                /\ Reopened(i, p) \in OutputCtx
                /\ Reopened(i, p).init = p.init
                /\ Reopened(i, p).vc = out[i].vc /\ Reopened(i, p).hw = out[i].hw
                /\ p.vc = out[i].vc /\ p.hw = out[i].hw /\ p.oc = out[i].oc /\ p.ac = out[i].ac
                /\ p.init = (h.initialized /\ (out[i].hw \/ ictx.transmuxing))
                /\ Reopens(out[i]) = (p.init /\ ~ictx.transmuxing)
  <2>1. out[i] \in OutputCtx
    BY <1>1
  <2>2. /\ Populated(out[i]) \in OutputCtx
        /\ Populated(out[i]).vc = out[i].vc /\ Populated(out[i]).hw = out[i].hw
        /\ Populated(out[i]).oc = out[i].oc /\ Populated(out[i]).ac = out[i].ac
        /\ Populated(out[i]).init = (h.initialized /\ (out[i].hw \/ ictx.transmuxing))
    BY <1>1, <2>1, OpenedOutputs
  <2>3. /\ Reopened(i, Populated(out[i])) \in OutputCtx
        /\ Reopened(i, Populated(out[i])).init = Populated(out[i]).init
        /\ Reopened(i, Populated(out[i])).vc = Populated(out[i]).vc
        /\ Reopened(i, Populated(out[i])).hw = Populated(out[i]).hw
    BY <1>1, <2>2, OpenedOutputs
  <2>4. Reopens(out[i]) = (Populated(out[i]).init /\ ~ictx.transmuxing)
    BY DEF Reopens
  <2> QED BY <2>2, <2>3, <2>4
<1>3. \A i \in OutputIds : ~ictx.transmuxing => Closed(out[i])
  BY <1>1 DEF IInv, RestingClosed, Resting
<1>4. \A i \in OutputIds : ~h.initialized => Blank(out[i])
  BY <1>1 DEF IInv, FreshBlank, Resting
<1>5. Active \subseteq OutputIds /\ \A i \in Active : ~(i > h.nb) /\ i <= h.nb
  BY <1>1, ConstantsAssumption DEF Active, OutputIds
<1>6. ASSUME NEW n, NEW i \in OutputIds
      PROVE  /\ setup(n)[i] \in OutputCtx
             /\ i > h.nb => Blank(setup(n)[i])
             /\ out[i].vc /\ out[i].hw => setup(n)[i].vc /\ setup(n)[i].hw
             /\ i \in Active /\ i <= n /\ ~setup(n)[i].init => Blank(setup(n)[i])
             /\ ~h.initialized => Blank(setup(n)[i])
  <2>0. ~h.initialized => Blank(out[i])
    BY <1>4
  <2>1. CASE ~(i \in Active /\ i <= n)
    <3>1. setup(n)[i] = out[i]
      BY <2>1
    <3>2. i > h.nb => Blank(out[i])
      BY DEF IInv, UnusedBlank
    <3> HIDE DEF setup
    <3> QED BY <1>1, <2>0, <2>1, <3>1, <3>2
  <2>2. CASE i \in Active /\ i <= n /\ Reopens(out[i])
    <3>1. setup(n)[i] = Reopened(i, Populated(out[i]))
      BY <2>2
    <3> HIDE DEF setup
    <3> QED BY <1>2, <1>5, <2>2, <3>1
  <2>3. CASE i \in Active /\ i <= n /\ ~Reopens(out[i])
    <3>1. setup(n)[i] = Populated(out[i])
      BY <2>3
    <3>2. ~ictx.transmuxing => ~out[i].oc /\ ~out[i].ac /\ (out[i].vc => out[i].hw)
      BY <1>3 DEF Closed
    <3> HIDE DEF setup
    <3> QED BY <1>2, <1>5, <2>0, <2>3, <3>1, <3>2 DEF Blank
  <2> QED BY <2>1, <2>2, <2>3
<1>7. \A n : setup(n) \in [OutputIds -> OutputCtx]
  BY <1>6
<1>8. PICK m : leaked' = leaked \cup overwritten(m)
  BY DEF SetupOutputs
<1>9. ASSUME NEW i \in reopened(m)
      PROVE  OutputOverwrites(i, Populated(out[i])) = {}
  <2>1. i \in OutputIds /\ Populated(out[i]).init /\ ~ictx.transmuxing
    BY <1>2, <1>5
  <2>2. ~Populated(out[i]).oc /\ ~Populated(out[i]).ac
    BY <1>2, <1>3, <1>5, <2>1 DEF Closed
  <2> QED BY <2>1, <2>2 DEF OutputOverwrites
<1>10. leaked' = leaked
  <2> HIDE DEF reopened
  <2> QED BY <1>8, <1>9
<1>11. UNCHANGED <<session, h, bad>>
  BY DEF SetupOutputs
<1>12. \/ /\ out' = setup(h.nb)
          /\ pc' = "loop"
          /\ loop' = [loop EXCEPT !.ready = FALSE, !.eof = FALSE, !.heard = {}]
          /\ UNCHANGED ictx
       \/ \E n : Shutdown(ictx, setup(n))
  BY DEF SetupOutputs
<1> HIDE DEF setup, reopened, overwritten
<1>13. CASE /\ out' = setup(h.nb)
            /\ pc' = "loop"
            /\ loop' = [loop EXCEPT !.ready = FALSE, !.eof = FALSE, !.heard = {}]
            /\ UNCHANGED ictx
  <2>1. TypeOK'
    BY <1>7, <1>10, <1>11, <1>13 DEF session, IInv, TypeOK, PCs
  <2>2. OnlyTransmuxersTransmux' /\ OutputsNeverLeak'
    BY <1>10, <1>11, <1>13 DEF session, IInv, OnlyTransmuxersTransmux, OutputsNeverLeak
  <2>3. UnusedBlank'
    BY <1>6, <1>11, <1>13 DEF UnusedBlank, Blank
  <2>4. FreshBlank' /\ RestingClosed'
    BY <1>13 DEF FreshBlank, RestingClosed, Resting
  <2>5. Active' = Active
    BY <1>11 DEF Active
  <2>6. UninitBlank'
    BY <1>5, <1>6, <1>13, <2>5 DEF UninitBlank, Blank
  <2>7. EncodersKept
    BY <1>6, <1>13 DEF EncodersKept
  <2> QED BY <2>1, <2>2, <2>3, <2>4, <2>6, <2>7 DEF IInv
<1>14. CASE \E n : Shutdown(ictx, setup(n))
  <2>1. PICK n : Shutdown(ictx, setup(n))
    BY <1>14
  <2>2. \A i \in OutputIds : i > h.nb => Blank(setup(n)[i])
    BY <1>6
  <2>3. \A i \in OutputIds : out[i].vc /\ out[i].hw => setup(n)[i].vc /\ setup(n)[i].hw
    BY <1>6
  <2>4. ~h'.initialized => \A i \in OutputIds : Blank(setup(n)[i])
    BY <1>6, <1>11
  <2>5. setup(n) \in [OutputIds -> OutputCtx]
    BY <1>7
  <2>6. /\ h' \in [initialized : BOOLEAN, nb : 0..MaxOutputs] /\ h'.nb = h.nb
        /\ ictx \in InputCtx
        /\ bad' \subseteq Crashes \cup Misuses
    BY <1>11 DEF IInv, TypeOK
  <2> QED BY <1>10, <1>11, <2>1, <2>2, <2>3, <2>4, <2>5, <2>6, ShutdownStep
<1> QED BY <1>12, <1>13, <1>14

LEMMA SetupOutputsCrashStep ==
  ASSUME IInv, SetupOutputsCrash
  PROVE  IInv' /\ EncodersKept
<1>1. Crash("no_stream") /\ "no_stream" \in Crashes
  BY DEF SetupOutputsCrash, Crashes
<1>2. IInv'
  BY <1>1, CrashStep
<1>3. EncodersKept
  BY <1>1 DEF Crash, EncodersKept
<1> QED BY <1>2, <1>3

-----------------------------------------------------------------------------
(* The loop of transcode.                                                   *)

\* The outputs the loop opens hold nothing, so opening them overwrites nothing.
LEMMA OpensBlank ==
  ASSUME IInv, pc = "loop", NEW k, NEW i \in Triggered(k)
  PROVE  /\ i \in OutputIds /\ ~(i > h.nb)
         /\ out[i] \in OutputCtx
         /\ Blank(out[i])
         /\ OutputOverwrites(i, out[i]) = {}
<1>1. i \in Active /\ ~out[i].init
  BY DEF Triggered
<1>2. i \in OutputIds /\ ~(i > h.nb)
  BY <1>1, ConstantsAssumption DEF Active, OutputIds, IInv, TypeOK
<1>3. out[i] \in OutputCtx
  BY <1>2 DEF IInv, TypeOK
<1>4. Blank(out[i])
  BY <1>1, <1>2 DEF IInv, UninitBlank
<1>5. OutputOverwrites(i, out[i]) = {}
  BY <1>4 DEF OutputOverwrites, Blank
<1> QED BY <1>2, <1>3, <1>4, <1>5

\* Opening all the outputs a packet triggers.
LEMMA OpenAllStep ==
  ASSUME IInv, pc = "loop", NEW k, OpenAll(Triggered(k)),
         UNCHANGED <<session, h, ictx, pc, bad>>,
         loop' \in [redec : BOOLEAN, ready : BOOLEAN, eof : BOOLEAN, heard : SUBSET Kinds]
  PROVE  IInv' /\ EncodersKept
<1> DEFINE s == Triggered(k)
<1>1. \A i \in s : /\ i \in OutputIds /\ ~(i > h.nb)
                   /\ out[i] \in OutputCtx
                   /\ Blank(out[i])
                   /\ OutputOverwrites(i, out[i]) = {}
  BY OpensBlank
<1>2. leaked' = leaked
  BY <1>1 DEF OpenAll
<1>3. out' = [i \in OutputIds |-> IF i \in s THEN Opened(i, out[i]) ELSE out[i]]
  BY DEF OpenAll
<1> HIDE DEF s
<1>4. ASSUME NEW i \in OutputIds
      PROVE  /\ out'[i] \in OutputCtx
             /\ i > h.nb => out'[i] = out[i]
             /\ ~out'[i].init => out'[i] = out[i]
             /\ out[i].vc => out'[i] = out[i]
  <2>1. CASE i \in s
    <3>1. out'[i] = Opened(i, out[i])
      BY <1>3, <2>1
    <3>2. Opened(i, out[i]) \in OutputCtx /\ Opened(i, out[i]).init
      BY <1>1, <2>1, OpenedOutputs DEF IInv
    <3> QED BY <1>1, <2>1, <3>1, <3>2 DEF Blank
  <2>2. CASE i \notin s
    BY <1>3, <2>2 DEF IInv, TypeOK
  <2> QED BY <2>1, <2>2
<1>5. out' \in [OutputIds -> OutputCtx]
  BY <1>3, <1>4
<1>6. TypeOK'
  BY <1>2, <1>5 DEF session, IInv, TypeOK
<1>7. OnlyTransmuxersTransmux' /\ OutputsNeverLeak'
  BY <1>2 DEF session, IInv, OnlyTransmuxersTransmux, OutputsNeverLeak
<1>8. FreshBlank' /\ RestingClosed'
  BY DEF FreshBlank, RestingClosed, Resting
<1>9. UnusedBlank'
  BY <1>4 DEF IInv, UnusedBlank, Blank
<1>10. Active' = Active
  BY DEF Active
<1>11. UninitBlank'
  BY <1>4, <1>10 DEF IInv, UninitBlank, Blank
<1>12. EncodersKept
  BY <1>4 DEF EncodersKept
<1> QED BY <1>6, <1>7, <1>8, <1>9, <1>11, <1>12 DEF IInv

\* The call ends in the loop or after it.
LEMMA EndTranscodeSets ==
  ASSUME IInv, EndTranscode
  PROVE  /\ h' \in [initialized : BOOLEAN, nb : 0..MaxOutputs]
         /\ h'.initialized /\ h'.nb = h.nb
BY DEF IInv, TypeOK, EndTranscode

\* Some of the outputs a packet triggers open, then one fails and the call
\* shuts down.
LEMMA OpenFailsStep ==
  ASSUME IInv, pc = "loop", NEW k, OpenFails(Triggered(k)), UNCHANGED <<session, bad>>
  PROVE  IInv' /\ EncodersKept
<1> DEFINE s == Triggered(k)
           o(j, f) == [i \in OutputIds |->
             IF i \in s /\ i < j THEN Opened(i, out[i])
             ELSE IF i = j THEN OpenFailed(i, out[i], f) ELSE out[i]]
<1>1. \A i \in s : /\ i \in OutputIds /\ ~(i > h.nb)
                   /\ out[i] \in OutputCtx
                   /\ Blank(out[i])
                   /\ OutputOverwrites(i, out[i]) = {}
  BY OpensBlank
<1>2. PICK j \in s, f \in {"open", "openlate"} :
        /\ leaked' = leaked \cup UNION {OutputOverwrites(i, out[i]) : i \in {n \in s : n <= j}}
        /\ Shutdown(ictx, o(j, f))
  BY DEF OpenFails
<1>3. leaked' = leaked
  BY <1>1, <1>2
<1>4. EndTranscode
  BY DEF OpenFails
<1> HIDE DEF s
<1>5. ASSUME NEW i \in OutputIds
      PROVE  /\ o(j, f)[i] \in OutputCtx
             /\ i > h.nb => Blank(o(j, f)[i])
             /\ out[i].vc => o(j, f)[i] = out[i]
  <2>1. CASE i \in s /\ i < j
    <3>1. o(j, f)[i] = Opened(i, out[i])
      BY <2>1
    <3>2. Opened(i, out[i]) \in OutputCtx
      BY <1>1, <2>1, OpenedOutputs DEF IInv
    <3> HIDE DEF o
    <3> QED BY <1>1, <2>1, <3>1, <3>2 DEF Blank
  <2>2. CASE ~(i \in s /\ i < j) /\ i = j
    <3>1. o(j, f)[i] = OpenFailed(i, out[i], f)
      BY <2>2
    <3>2. OpenFailed(i, out[i], f) \in OutputCtx
      BY <1>1, <1>2, <2>2, OpenedOutputs DEF IInv
    <3> HIDE DEF o
    <3> QED BY <1>1, <1>2, <2>2, <3>1, <3>2 DEF Blank
  <2>3. CASE ~(i \in s /\ i < j) /\ i # j
    <3>1. o(j, f)[i] = out[i]
      BY <2>3
    <3>2. i > h.nb => Blank(out[i])
      BY DEF IInv, UnusedBlank
    <3>3. out[i] \in OutputCtx
      BY DEF IInv, TypeOK
    <3> HIDE DEF o
    <3> QED BY <3>1, <3>2, <3>3
  <2> QED BY <2>1, <2>2, <2>3
<1>6. o(j, f) \in [OutputIds -> OutputCtx]
  BY <1>5
<1>7. /\ \A i \in OutputIds : i > h.nb => Blank(o(j, f)[i])
      /\ \A i \in OutputIds : out[i].vc /\ out[i].hw => o(j, f)[i].vc /\ o(j, f)[i].hw
  BY <1>5
<1> HIDE DEF o
<1>8. ictx \in InputCtx /\ bad' \subseteq Crashes \cup Misuses
  BY DEF IInv, TypeOK
<1> QED BY <1>2, <1>3, <1>4, <1>6, <1>7, <1>8, EndTranscodeSets, ShutdownStep

\* The call ends with its contexts as they are.
LEMMA LoopShutdown ==
  ASSUME IInv, EndTranscode, Shutdown(ictx, out), UNCHANGED <<session, leaked>>,
         bad' \subseteq Crashes \cup Misuses
  PROVE  IInv' /\ EncodersKept
<1>1. out \in [OutputIds -> OutputCtx] /\ ictx \in InputCtx
  BY DEF IInv, TypeOK
<1>2. \A i \in OutputIds : i > h.nb => Blank(out[i])
  BY DEF IInv, UnusedBlank
<1> QED BY <1>1, <1>2, EndTranscodeSets, ShutdownStep

\* A step of the loop that only moves it along.
LEMMA LoopMoves ==
  ASSUME IInv, UNCHANGED <<session, h, ictx, out, leaked>>,
         pc \in {"loop", "flush"}, pc' = pc \/ pc' = "flush",
         loop' \in [redec : BOOLEAN, ready : BOOLEAN, eof : BOOLEAN, heard : SUBSET Kinds],
         bad' \subseteq Crashes \cup Misuses
  PROVE  IInv' /\ EncodersKept
<1>1. TypeOK'
  BY DEF session, IInv, TypeOK, PCs
<1>2. OnlyTransmuxersTransmux' /\ OutputsNeverLeak'
  BY DEF session, IInv, OnlyTransmuxersTransmux, OutputsNeverLeak
<1>3. FreshBlank' /\ RestingClosed'
  BY DEF FreshBlank, RestingClosed, Resting
<1>4. Active' = Active
  BY DEF Active
<1>5. UnusedBlank' /\ UninitBlank' /\ EncodersKept
  BY <1>4 DEF IInv, UnusedBlank, UninitBlank, EncodersKept, Blank
<1> QED BY <1>1, <1>2, <1>3, <1>5 DEF IInv

LEMMA LoopSteps ==
  ASSUME IInv, QueuePacket \/ QueueForeignPacket \/ ForceOpen \/ EmptyInput
  PROVE  IInv' /\ EncodersKept
<1> DEFINE Loops == [redec : BOOLEAN, ready : BOOLEAN, eof : BOOLEAN, heard : SUBSET Kinds]
<1>1. ASSUME NEW b \in BOOLEAN, NEW k \in Kinds
      PROVE  [loop EXCEPT !.ready = b, !.heard = loop.heard \cup {k}] \in Loops
  BY DEF IInv, TypeOK
<1>2. [loop EXCEPT !.ready = TRUE, !.eof = TRUE] \in Loops
  BY DEF IInv, TypeOK
<1> HIDE DEF Loops
<1>3. CASE QueuePacket
  <2>1. PICK k \in Readable :
          /\ pc = "loop"
          /\ UNCHANGED <<session, bad>>
          /\ \/ /\ OpenAll(Triggered(k))
                /\ loop' = [loop EXCEPT !.ready = Active \ Triggered(k) \subseteq
                                                   {i \in Active : out[i].init},
                                        !.heard = loop.heard \cup {k}]
                /\ UNCHANGED <<h, ictx, pc>>
             \/ OpenFails(Triggered(k))
    BY <1>3 DEF QueuePacket
  <2>2. CASE OpenAll(Triggered(k)) /\ UNCHANGED <<h, ictx, pc>> /\ loop' \in Loops
    BY <2>1, <2>2, OpenAllStep DEF Loops
  <2>3. CASE OpenFails(Triggered(k))
    BY <2>1, <2>3, OpenFailsStep
  <2> DEFINE b == Active \ Triggered(k) \subseteq {i \in Active : out[i].init}
  <2>4. b \in BOOLEAN /\ k \in Kinds
    BY DEF Readable
  <2>5. \/ loop' = [loop EXCEPT !.ready = b, !.heard = loop.heard \cup {k}]
        \/ OpenFails(Triggered(k))
    BY <2>1
  <2> HIDE DEF b
  <2>6. loop' \in Loops \/ OpenFails(Triggered(k))
    BY <1>1, <2>4, <2>5
  <2> QED BY <2>1, <2>2, <2>3, <2>6
<1>4. CASE ForceOpen
  <2>1. CASE OpenFails(Triggered("eof"))
    BY <1>4, <2>1, OpenFailsStep DEF ForceOpen
  <2>2. CASE /\ OpenAll(Triggered("eof"))
             /\ loop' = [loop EXCEPT !.ready = TRUE, !.eof = TRUE]
             /\ UNCHANGED <<h, ictx, pc>>
    <3>1. loop' \in Loops
      BY <1>2, <2>2
    <3> QED BY <1>4, <2>2, <3>1, OpenAllStep DEF ForceOpen, Loops
  <2> QED BY <1>4, <2>1, <2>2 DEF ForceOpen
<1>5. CASE EmptyInput /\ ictx.ac
  <2>1. loop' \in Loops
    BY <1>2, <1>5 DEF EmptyInput
  <2>2. bad' \subseteq Crashes \cup Misuses
    BY <1>5 DEF EmptyInput, IInv, TypeOK
  <2> QED BY <1>5, <2>1, <2>2, LoopMoves DEF EmptyInput, Loops
<1>6. CASE QueueForeignPacket \/ (EmptyInput /\ ~ictx.ac)
  <2>1. PICK r \in Crashes : Crash(r)
    BY <1>6 DEF QueueForeignPacket, EmptyInput, Crashes
  <2>2. IInv'
    BY <2>1, CrashStep
  <2>3. EncodersKept
    BY <2>1 DEF Crash, EncodersKept
  <2> QED BY <2>2, <2>3
<1> QED BY <1>3, <1>4, <1>5, <1>6

LEMMA ProcessSteps ==
  ASSUME IInv, Process \/ ReadError \/ EndOfInput
  PROVE  IInv' /\ EncodersKept
<1> DEFINE Loops == [redec : BOOLEAN, ready : BOOLEAN, eof : BOOLEAN, heard : SUBSET Kinds]
<1>1. CASE Process
  <2>1. PICK k \in NextPackets :
          /\ bad' = bad \cup Misused(k)
          /\ \/ /\ loop' = [loop EXCEPT !.ready = TRUE, !.heard = loop.heard \ {k}]
                /\ UNCHANGED <<h, ictx, out, pc>>
             \/ EndTranscode /\ Shutdown(ictx, out)
          /\ UNCHANGED <<session, leaked>>
    BY <1>1 DEF Process
  <2>3. bad' \subseteq Crashes \cup Misuses
    BY <2>1 DEF IInv, TypeOK, Misused
  <2>4. pc = "loop"
    BY DEF NextPackets
  <2>5. [loop EXCEPT !.ready = TRUE, !.heard = loop.heard \ {k}] \in Loops
    BY DEF IInv, TypeOK
  <2> HIDE DEF Loops
  <2>6. CASE loop' \in Loops /\ UNCHANGED <<h, ictx, out, pc>>
    BY <2>1, <2>3, <2>4, <2>6, LoopMoves DEF Loops
  <2>7. CASE EndTranscode /\ Shutdown(ictx, out)
    BY <2>1, <2>3, <2>7, LoopShutdown
  <2> QED BY <2>1, <2>5, <2>6, <2>7
<1>2. CASE ReadError
  <2>1. bad' \subseteq Crashes \cup Misuses
    BY <1>2 DEF ReadError, IInv, TypeOK
  <2> QED BY <1>2, <2>1, LoopShutdown DEF ReadError
<1>3. CASE EndOfInput /\ ~ictx.transmuxing
  <2>1. /\ bad' \subseteq Crashes \cup Misuses
        /\ loop' \in Loops
    BY <1>3 DEF EndOfInput, IInv, TypeOK
  <2> QED BY <1>3, <2>1, LoopMoves DEF EndOfInput
<1>4. CASE EndOfInput /\ ictx.transmuxing
  <2>1. /\ ictx' = [ictx EXCEPT !.ic = FALSE, !.file = 0]
        /\ pc' = "idle" /\ EndTranscode
        /\ UNCHANGED <<session, out, loop, leaked, bad>>
    BY <1>4 DEF EndOfInput
  <2>2. ictx' \in InputCtx /\ ictx'.transmuxing
    BY <1>4, <2>1, CallFields DEF IInv, TypeOK, InputCtx
  <2>3. TypeOK'
    BY <2>1, <2>2, EndTranscodeSets DEF session, IInv, TypeOK, PCs
  <2>4. OnlyTransmuxersTransmux' /\ OutputsNeverLeak'
    BY <1>4, <2>1 DEF session, IInv, OnlyTransmuxersTransmux, OutputsNeverLeak
  <2>5. FreshBlank' /\ RestingClosed' /\ UninitBlank'
    BY <2>1, <2>2, EndTranscodeSets DEF FreshBlank, RestingClosed, UninitBlank
  <2>6. UnusedBlank' /\ EncodersKept
    BY <2>1, EndTranscodeSets DEF IInv, UnusedBlank, EncodersKept, Blank
  <2> QED BY <2>3, <2>4, <2>5, <2>6 DEF IInv
<1> QED BY <1>1, <1>2, <1>3, <1>4

\* An encoder that is lost was in an output of this call.
LEMMA EncoderLostStep ==
  ASSUME IInv, EncoderLost
  PROVE  IInv'
<1>1. PICK i \in Receivers("video") : Shutdown(ictx, [out EXCEPT ![i].vc = FALSE])
  BY DEF EncoderLost
<1> DEFINE o == [out EXCEPT ![i].vc = FALSE]
<1>2. EndTranscode /\ UNCHANGED <<session, leaked>> /\ bad' = bad \cup Misused("video")
  BY DEF EncoderLost
<1>3. bad' \subseteq Crashes \cup Misuses
  BY <1>2 DEF IInv, TypeOK, Misused
<1>4. /\ o \in [OutputIds -> OutputCtx]
      /\ \A j \in OutputIds : Blank(out[j]) => Blank(o[j])
  <2>1. out \in [OutputIds -> OutputCtx]
    BY DEF IInv, TypeOK
  <2>2. o = [j \in OutputIds |-> IF j = i THEN [out[j] EXCEPT !.vc = FALSE] ELSE out[j]]
    BY <2>1
  <2>3. ASSUME NEW j \in OutputIds
        PROVE  /\ [out[j] EXCEPT !.vc = FALSE] \in OutputCtx
               /\ Blank(out[j]) => Blank([out[j] EXCEPT !.vc = FALSE])
    BY <2>1 DEF OutputCtx, Blank
  <2> QED BY <2>1, <2>2, <2>3
<1>5. \A j \in OutputIds : j > h.nb => Blank(o[j])
  BY <1>4 DEF IInv, UnusedBlank
<1>6. ictx \in InputCtx
  BY DEF IInv, TypeOK
<1> HIDE DEF o
<1>7. Shutdown(ictx, o)
  BY <1>1 DEF o
<1>8. /\ h' \in [initialized : BOOLEAN, nb : 0..MaxOutputs]
      /\ h'.initialized /\ h'.nb = h.nb
      /\ UNCHANGED session /\ leaked' \subseteq leaked \cup {"ic", "vc", "ac"}
  BY <1>2, EndTranscodeSets
<1> HIDE DEF IInv
<1> QED BY <1>3, <1>4, <1>5, <1>6, <1>7, <1>8, ShutdownStep

LEMMA LoopCrashSteps ==
  ASSUME IInv, ProcessCrash \/ FlushCrash
  PROVE  IInv' /\ EncodersKept
<1>1. PICK r \in Crashes : Crash(r)
  BY DEF ProcessCrash, FlushCrash, Crashes
<1>2. IInv'
  BY <1>1, CrashStep
<1>3. EncodersKept
  BY <1>1 DEF Crash, EncodersKept
<1> QED BY <1>2, <1>3

LEMMA FlushOutputsStep ==
  ASSUME IInv, FlushOutputs
  PROVE  IInv' /\ EncodersKept
<1>1. bad' \subseteq Crashes \cup Misuses
  BY DEF FlushOutputs, IInv, TypeOK
<1> QED BY <1>1, LoopShutdown DEF FlushOutputs

LEMMA StopStep ==
  ASSUME IInv, StopTranscoder
  PROVE  IInv' /\ EncodersKept
<1>1. /\ ictx' = FreeInput(ictx)
      /\ out' = [i \in OutputIds |-> FreeOutput(out[i])]
      /\ pc' = "stopped"
      /\ UNCHANGED <<session, h, loop, leaked, bad>>
  BY DEF StopTranscoder
<1>2. ictx' \in InputCtx /\ ictx'.transmuxing = ictx.transmuxing
  BY <1>1, InputOperations DEF IInv, TypeOK
<1>3. \A i \in OutputIds : out'[i] \in OutputCtx /\ Blank(out'[i])
  BY <1>1, ClosedOutputs DEF IInv, TypeOK
<1>4. out' \in [OutputIds -> OutputCtx]
  BY <1>1, <1>3
<1>6. TypeOK'
  BY <1>1, <1>2, <1>4 DEF session, IInv, TypeOK, PCs
<1>7. OnlyTransmuxersTransmux' /\ OutputsNeverLeak' /\ EncodersKept
  BY <1>1, <1>2 DEF session, IInv, OnlyTransmuxersTransmux, OutputsNeverLeak, EncodersKept
<1>8. UnusedBlank' /\ FreshBlank' /\ RestingClosed' /\ UninitBlank'
  BY <1>1, <1>3 DEF UnusedBlank, FreshBlank, RestingClosed, UninitBlank, Blank, Closed
<1> QED BY <1>6, <1>7, <1>8 DEF IInv

-----------------------------------------------------------------------------
(* The theorems.                                                            *)

\* A new session satisfies the invariant.
LEMMA InitHolds ==
  ASSUME Init
  PROVE  IInv
<1>1. ictx \in InputCtx
  BY ConstantsAssumption DEF Init, InputCtx, Files, AnyCodec
<1>2. out \in [OutputIds -> OutputCtx] /\ \A i \in OutputIds : Blank(out[i])
  BY DEF Init, OutputCtx, Blank
<1>3. seg \in Segment
  BY ConstantsAssumption DEF Init, Segment, AnyCodec
<1>4. /\ h \in [initialized : BOOLEAN, nb : 0..MaxOutputs]
      /\ calls \in 0..MaxCalls
      /\ go \in [started : BOOLEAN, lastacodec : AnyCodec]
      /\ loop \in [redec : BOOLEAN, ready : BOOLEAN, eof : BOOLEAN, heard : SUBSET Kinds]
  BY ConstantsAssumption DEF Init, AnyCodec
<1>5. cfg \in Config
  BY ConstantsAssumption DEF Init
<1>6. TypeOK
  <2>1. pc \in PCs /\ bad \subseteq Crashes \cup Misuses
        /\ leaked \subseteq {"ic", "vc", "ac", "oc", "ovc", "oac"}
    BY DEF Init, PCs
  <2> QED BY <1>1, <1>2, <1>3, <1>4, <1>5, <2>1 DEF TypeOK
<1>7. OnlyTransmuxersTransmux /\ OutputsNeverLeak /\ UninitBlank
  BY DEF Init, OnlyTransmuxersTransmux, OutputsNeverLeak, UninitBlank
<1>8. UnusedBlank /\ FreshBlank /\ RestingClosed
  BY <1>2 DEF UnusedBlank, FreshBlank, RestingClosed, Blank, Closed
<1> QED BY <1>6, <1>7, <1>8 DEF IInv

\* Every step preserves the invariant, and but for EncoderLost keeps the open
\* hardware encoders.
LEMMA NextPreserves ==
  ASSUME IInv, [Next]_vars
  PROVE  IInv' /\ (EncoderLost \/ EncodersKept)
<1>1. CASE TranscodeRejects \/ TranscodeBadParams \/ TranscodeStart
  <2>1. UNCHANGED out
    BY <1>1 DEF TranscodeRejects, TranscodeBadParams, TranscodeStart, BeginCall
  <2> QED BY <1>1, <2>1, GoSteps DEF EncodersKept
<1>2. CASE ReopenDemux
  BY <1>2, ReopenDemuxStep DEF ReopenDemux, EncodersKept
<1>3. CASE TooManyOutputs \/ CheckCount
  BY <1>3, CountSteps DEF TooManyOutputs, CheckCount, EncodersKept
<1>4. CASE FirstOpen
  BY <1>4, FirstOpenStep DEF FirstOpen, EncodersKept
<1>5. CASE ReopenDemuxer \/ ReopenIO \/ ReuseInput \/ CheckPixfmt \/ ReopenDecoders
  BY <1>5, InitInputSteps
<1>6. CASE SetupOutputs
  BY <1>6, SetupOutputsStep
<1>7. CASE SetupOutputsCrash
  BY <1>7, SetupOutputsCrashStep
<1>8. CASE QueuePacket \/ QueueForeignPacket \/ ForceOpen \/ EmptyInput
  BY <1>8, LoopSteps
<1>9. CASE Process \/ ReadError \/ EndOfInput
  BY <1>9, ProcessSteps
<1>10. CASE ProcessCrash \/ FlushCrash
  BY <1>10, LoopCrashSteps
<1>11. CASE FlushOutputs
  BY <1>11, FlushOutputsStep
<1>12. CASE StopTranscoder
  BY <1>12, StopStep
<1>13. CASE UNCHANGED vars
  <2>1. IInv'
    BY <1>13 DEF vars, IInv, TypeOK, OnlyTransmuxersTransmux, UnusedBlank, FreshBlank,
                 RestingClosed, UninitBlank, OutputsNeverLeak, Blank, Closed, Active
  <2> QED BY <1>13, <2>1 DEF vars, EncodersKept
<1>14. CASE EncoderLost
  BY <1>14, EncoderLostStep
<1> QED BY <1>1, <1>2, <1>3, <1>4, <1>5, <1>6, <1>7, <1>8, <1>9, <1>10, <1>11, <1>12,
           <1>13, <1>14 DEF Next

\* IInv is an inductive invariant of the session.
THEOREM SessionInvariant == Spec => []IInv
<1>1. Init => IInv
  BY InitHolds
<1>2. IInv /\ [Next]_vars => IInv'
  BY NextPreserves
<1> QED BY <1>1, <1>2, PTL DEF Spec

\* Every variable of a session keeps its type, whatever its calls do.
THEOREM SessionTypes == Spec => []TypeOK
<1>1. IInv => TypeOK
  BY DEF IInv
<1> QED BY <1>1, SessionInvariant, PTL

\* Whatever failed, a call that has returned has closed the muxer, the audio
\* encoder and the software video encoder of each output (transcode_shutdown).
THEOREM ReturnedCallsCloseOutputs == Spec => []IdleOutputsClosed
<1>1. IInv => IdleOutputsClosed
  BY DEF IInv, RestingClosed, Resting, IdleOutputsClosed, Closed
<1> QED BY <1>1, SessionInvariant, PTL

\* No call opens a muxer or an encoder over one that is still open.
THEOREM OutputsAreNeverOverwritten == Spec => []OutputsNeverLeak
<1>1. IInv => OutputsNeverLeak
  BY DEF IInv
<1> QED BY <1>1, SessionInvariant, PTL

\* Stopping the session frees the encoder of a hardware output, a failed
\* change of its frame size loses it, and nothing else does.
THEOREM HwEncodersOutliveCalls == Spec => HwEncoderKept
<1>1. IInv /\ [Next]_vars =>
        [\A i \in OutputIds :
           out[i].vc /\ out[i].hw /\ pc' # "stopped" /\ ~EncoderLost =>
             out'[i].vc /\ out'[i].hw]_vars
  BY NextPreserves DEF EncodersKept
<1> QED BY <1>1, SessionInvariant, PTL DEF Spec, HwEncoderKept
=============================================================================
