----------------------------- MODULE EncodeFrames -----------------------------
(* What one output does with decoded frames: process_out with its filter     *)
(* graph and encoder, and flush_outputs at the end of a call.  Video goes    *)
(* through an fps filter or keeps its times; audio keeps them.  A frame is   *)
(* clipped, shifted, marked as a keyframe, moved to the ticks of the encoder *)
(* and counted before it is encoded.  The filter and encoder themselves are  *)
(* external: the filter holds one frame, which it repeats until the next,    *)
(* the encoder holds back EncDelay.                                          *)
(*                                                                           *)
(* An output outlives the calls of its session, and so does what no call     *)
(* resets: the audio filter, the start of the clip, a hardware encoder.      *)
(* Frames are numbered in the order they are decoded.                        *)
EXTENDS Integers, Sequences

CONSTANTS
  Sessions,   \* the sessions to look at, a subset of Config
  Tick,       \* times of the input in a tick of the fps filter and the encoder
  Dur,        \* the duration of a frame
  Starts,     \* times of the first frame of a segment
  Gaps,       \* distances from one frame to the next, maybe not positive
  NoPts,      \* AV_NOPTS_VALUE
  EncDelay,   \* packets an encoder holds back
  Runaway,    \* 25 in the code: encoded frames per decoded one
  MaxVideo, MaxAudio, MaxCalls,  \* bounds on a call and on a session
  MaxFaults   \* bound on the encoder's failures

\* hw: hardware encoder; video, audio: which streams are encoded; fps: is the
\* frame rate set?  gop, from and to are times of the input, 0 if not set.
Config == [hw : BOOLEAN, video : BOOLEAN, audio : BOOLEAN, fps : BOOLEAN,
           gop : Nat, from : Nat, to : Nat]

ASSUME EncodeAssumption ==
  /\ Sessions \subseteq
       {c \in Config : /\ c.video \/ c.audio
                       /\ ~c.video => ~c.hw /\ c.gop = 0 /\ c.from = 0 /\ c.to = 0
                       /\ c.to # 0 => c.from <= c.to}
  /\ Tick \in Nat \ {0} /\ Dur \in Nat \ {0}
  /\ Starts \subseteq Nat /\ Gaps \subseteq Int
  /\ NoPts \in Int /\ NoPts < 0
  /\ EncDelay \in Nat /\ Runaway \in Nat \ {0}
  /\ MaxVideo \in Nat /\ MaxAudio \in Nat /\ MaxCalls \in Nat /\ MaxFaults \in Nat

VARIABLES
  cfg,      \* the session, fixed
  src,      \* the decoder's side: last times, and which last frames exist
  filters,  \* vf and af
  enc,      \* the encoders: packets they hold back
  octx,     \* the fields of the output process_out counts and marks with
  pc, cur,  \* what process_out works on
  outcome,
  fed,      \* the frames of this call
  sent,     \* what this call gave the video encoder
  muxed,    \* what the muxer got in this call
  first,    \* the first time of each stream of the session
  lost,     \* did this call lose an encoder's error?
  upset,    \* has a call failed or lost an error?
  calls, faults

vars == <<cfg, src, filters, enc, octx, pc, cur, outcome, fed, sent, muxed, first,
          lost, upset, calls, faults>>

Kinds == {"video", "audio"}
Both(x) == [k \in Kinds |-> x]

FlushFrame == 0
Frame == [n : Nat, pts : Int]
NoFrame == [n |-> FlushFrame, pts |-> NoPts]

\* custom: the time of the last frame written; held, out: the frame in the
\* filter and those ready to be read; eof: nothing more will be written.
Filter == [active : BOOLEAN, closed : BOOLEAN, flushed : BOOLEAN, flushing : BOOLEAN,
           custom : Int, held : Frame, out : Seq(Frame), eof : BOOLEAN]
Fresh(active) ==
  [active |-> active, closed |-> FALSE, flushed |-> FALSE, flushing |-> FALSE,
   custom |-> NoPts, held |-> NoFrame, out |-> <<>>, eof |-> FALSE]

\* A packet: its frame, the time in the clip, the encoder's time, the muxer's.
Packet == [n : Nat, at : Int, enc : Int, pts : Int, key : BOOLEAN]

\* frames is res->frames, start the clip_start_pts of both streams.
OutputCtx ==
  [frames : Nat, next_kf : Int, last_enc : Int, clip_started : BOOLEAN,
   start : [Kinds -> Int]]

EncodeTypeOK ==
  /\ cfg \in Sessions
  /\ src \in [last : [Kinds -> Int], seen : SUBSET Kinds]
  /\ filters \in [Kinds -> Filter]
  /\ enc \in [Kinds -> Seq(Packet)]
  /\ octx \in OutputCtx
  /\ pc \in {"idle", "decode", "read", "flush"}
  /\ cur \in [kind : Kinds, flush : BOOLEAN]
  /\ outcome \in {"none", "done", "runaway"}
  /\ fed \in [Kinds -> Seq(Frame)]
  /\ sent \in Seq(Packet) /\ muxed \in [Kinds -> Seq(Packet)]
  /\ first \in [Kinds -> Int]
  /\ lost \in BOOLEAN /\ upset \in BOOLEAN
  /\ calls \in Nat /\ faults \in Nat

-----------------------------------------------------------------------------
(* Times.                                                                   *)

\* av_rescale_q to ticks: the nearest, the later one of two.
Ticks(t) == (2 * t + Tick) \div (2 * Tick)

\* The time base after filtering: ticks if the frame rate is set.
Filtered(k, t) == IF k = "video" /\ cfg.fps THEN Ticks(t) ELSE t
From(k) == Filtered(k, cfg.from)
To(k) == Filtered(k, cfg.to)

\* Audio of a clip waits for the first frame of the video in it, unless the clip
\* begins at the first frame itself, to the nearest tick.
AudioWaits == From("video") # 0 /\ ~octx.clip_started
GopLen == Filtered("video", cfg.gop)

\* Mutant: a time that does not increase is kept.
FixedIfKnown(raw, last) ==
  IF raw # NoPts THEN raw ELSE IF last = NoPts THEN Dur ELSE last + Dur

\* fix_video_pts: no time is missing, and times increase.
Fixed(raw, last) ==
  IF raw = NoPts THEN (IF last = NoPts THEN Dur ELSE last + Dur)
  ELSE IF last # NoPts /\ raw <= last THEN last + 1
  ELSE raw

-----------------------------------------------------------------------------
(* The filter graphs.                                                       *)

\* f's frame, repeated up to the tick.
Repeated(f, upto) ==
  IF f.held = NoFrame THEN <<>>
  ELSE [i \in 1..(IF upto > f.held.pts THEN upto - f.held.pts ELSE 0) |->
         [n |-> f.held.n, pts |-> f.held.pts + i - 1]]

\* av_buffersrc_write_frame of a frame.
Written(f, k, x) ==
  IF k = "video" /\ cfg.fps
  THEN [f EXCEPT !.out = @ \o Repeated(f, Ticks(x.pts)),
                 !.held = [n |-> x.n, pts |-> Ticks(x.pts)], !.custom = x.pts]
  ELSE [f EXCEPT !.out = Append(@, x), !.custom = x.pts]

\* And of NULL: the last frame is repeated for as long as it lasts.
Ended(f) ==
  [f EXCEPT !.out = @ \o Repeated(f, Ticks(f.custom + Dur)), !.held = NoFrame, !.eof = TRUE]

\* Mutant: the graph is closed even if it has given no frame yet.
FlushedAtOnce(f, k) == [Ended(f) EXCEPT !.closed = TRUE]

\* filtergraph_write of a flush.  With video encoded the graph is closed;
\* without, the last frame is written again to push the others out.
Flushed(f, k) ==
  LET step == IF k = "video" /\ cfg.fps THEN Tick ELSE Dur
  IN  IF octx.frames > 0 THEN [Ended(f) EXCEPT !.closed = TRUE]
      ELSE Written([f EXCEPT !.flushing = TRUE], k,
                   [n |-> FlushFrame, pts |-> f.custom + step])

-----------------------------------------------------------------------------
(* Begin and end of a call.                                                 *)

\* Mutant: the time of the next keyframe is kept.
StreamAddedKeepsGop(o) == [o EXCEPT !.frames = 0, !.last_enc = NoPts]

\* add_video_stream, and the new result of the call.
StreamAdded(o) ==
  [o EXCEPT !.frames = 0, !.last_enc = NoPts, !.next_kf = IF cfg.gop # 0 THEN 0 ELSE @]

\* open_output, which sets the video filter up, or reopen_output, which leaves
\* that to the first frame.
BeginCall ==
  /\ pc = "idle" /\ calls < MaxCalls
  /\ calls' = calls + 1
  /\ pc' = "decode" /\ outcome' = "none"
  /\ src' = [src EXCEPT !.last = Both(NoPts)]
  /\ filters' = [filters EXCEPT !["video"] = Fresh(~cfg.hw \/ calls = 0)]
  /\ octx' = StreamAdded(octx)
  /\ fed' = Both(<<>>) /\ sent' = <<>> /\ muxed' = Both(<<>>)
  /\ lost' = FALSE
  /\ UNCHANGED <<cfg, enc, cur, first, upset, faults>>

\* close_output: of the audio filter only the marks of the flush are reset, and
\* a hardware encoder stays.
EndCall(how, f, e) ==
  /\ pc' = "idle" /\ outcome' = how
  /\ upset' = (upset \/ lost' \/ how # "done")
  /\ filters' = [video |-> Fresh(FALSE),
                 audio |-> [f["audio"] EXCEPT !.flushed = FALSE, !.flushing = FALSE]]
  /\ enc' = [video |-> IF cfg.hw THEN e["video"] ELSE <<>>, audio |-> <<>>]

-----------------------------------------------------------------------------
(* A decoded frame goes into its filter, unless that is closed.             *)

\* The time of the next frame as the decoder tells it.
RawTimes(k) ==
  IF src.last[k] = NoPts THEN Starts
  ELSE IF k = "audio" THEN {src.last[k] + Dur}
  ELSE {NoPts} \cup {src.last[k] + g : g \in Gaps}

Decode(k, max) ==
  /\ pc = "decode" /\ cfg[k] /\ Len(fed[k]) < max
  /\ \E raw \in RawTimes(k) :
       LET x == [n |-> Len(fed[k]) + 1, pts |-> Fixed(raw, src.last[k])]
           f == IF filters[k].active THEN filters[k] ELSE Fresh(TRUE)
       IN  /\ src' = [last |-> [src.last EXCEPT ![k] = x.pts], seen |-> src.seen \cup {k}]
           /\ fed' = [fed EXCEPT ![k] = Append(@, x)]
           /\ first' = [first EXCEPT ![k] = IF @ = NoPts THEN x.pts ELSE @]
           /\ filters' = [filters EXCEPT ![k] = IF f.closed THEN f ELSE Written(f, k, x)]
  /\ pc' = "read" /\ cur' = [kind |-> k, flush |-> FALSE]
  /\ UNCHANGED <<cfg, enc, octx, outcome, sent, muxed, lost, upset, calls, faults>>

DecodeVideo == Decode("video", MaxVideo)
DecodeAudio == Decode("audio", MaxAudio)

-----------------------------------------------------------------------------
(* flush_outputs: process_out without a frame, until it returns EOF.        *)

EndOfInput ==
  /\ pc = "decode"
  /\ pc' = "flush"
  /\ cur' = [kind |-> IF cfg.video THEN "video" ELSE "audio", flush |-> TRUE]
  /\ UNCHANGED <<cfg, src, filters, enc, octx, outcome, fed, sent, muxed, first, lost,
                 upset, calls, faults>>

\* The stream is flushed; what it returned but EOF is forgotten.
NextStream(f, e) ==
  IF cur.kind = "video" /\ cfg.audio
  THEN /\ pc' = "flush" /\ cur' = [cur EXCEPT !.kind = "audio"]
       /\ filters' = f /\ enc' = e
       /\ UNCHANGED <<outcome, upset>>
  ELSE EndCall("done", f, e) /\ UNCHANGED cur

\* Nothing was ever sent to the filter, or there is no frame to flush it with.
NothingToFlush ==
  \/ ~filters[cur.kind].active
  \/ /\ ~filters[cur.kind].closed /\ ~filters[cur.kind].flushed
     /\ octx.frames = 0 /\ cur.kind \notin src.seen

WriteFlush ==
  /\ pc = "flush"
  /\ UNCHANGED lost
  /\ LET f == filters[cur.kind]
     IN  IF NothingToFlush THEN NextStream(filters, enc)
         ELSE /\ filters' = [filters EXCEPT ![cur.kind] =
                               IF f.closed \/ f.flushed THEN f ELSE Flushed(f, cur.kind)]
              /\ pc' = "read"
              /\ UNCHANGED <<enc, cur, outcome, upset>>
  /\ UNCHANGED <<cfg, src, octx, fed, sent, muxed, first, calls, faults>>

-----------------------------------------------------------------------------
(* process_out: a frame of the filter.                                      *)

Incoming == Head(filters[cur.kind].out)

\* A frame of kind k is out of the filter.
Reads(k) == pc = "read" /\ cur.kind = k /\ filters[k].out # <<>> /\ Incoming.n # FlushFrame
Taken == filters' = [filters EXCEPT ![cur.kind].out = Tail(@)]

\* The frame written to flush comes out again.
ReadFlushFrame ==
  /\ pc = "read" /\ filters[cur.kind].out # <<>> /\ Incoming.n = FlushFrame
  /\ filters' = [filters EXCEPT ![cur.kind].out = Tail(@),
                                ![cur.kind].flushed = @ \/ filters[cur.kind].flushing]
  /\ UNCHANGED <<cfg, src, enc, octx, pc, cur, outcome, fed, sent, muxed, first, lost,
                 upset, calls, faults>>

\* The first frame of the session sets the start of the clip.
StartOf(k) == IF octx.start[k] = NoPts THEN Incoming.pts ELSE octx.start[k]

\* Mutant: audio does not wait for the video.
ClippedAlone(k) ==
  \/ cfg.to # 0 /\ Incoming.pts > To(k) + StartOf(k)
  \/ cfg.from # 0 /\ Incoming.pts < From(k) + StartOf(k)

\* Outside the clip, or audio before the first frame of the video in it.
Clipped(k) ==
  \/ cfg.to # 0 /\ Incoming.pts > To(k) + StartOf(k)
  \/ cfg.from # 0 /\ Incoming.pts < From(k) + StartOf(k)
  \/ k = "audio" /\ AudioWaits

SkipFrame ==
  /\ Reads(cur.kind) /\ Clipped(cur.kind)
  /\ Taken
  /\ octx' = [octx EXCEPT !.start[cur.kind] = StartOf(cur.kind)]
  /\ UNCHANGED <<cfg, src, enc, pc, cur, outcome, fed, sent, muxed, first, lost, upset,
                 calls, faults>>

\* The time in the clip.
Shifted(k) == IF cfg.from = 0 THEN Incoming.pts ELSE Incoming.pts - From(k) - StartOf(k)

\* Mutant: equal times are taken for increasing.
EncoderTimeOrEqual(at) ==
  IF cfg.fps THEN at
  ELSE IF octx.last_enc # NoPts /\ Ticks(at) < octx.last_enc THEN octx.last_enc + 1
  ELSE Ticks(at)

\* Two frames in one tick of the encoder are moved apart.
EncoderTime(at) ==
  IF cfg.fps THEN at
  ELSE IF octx.last_enc # NoPts /\ Ticks(at) <= octx.last_enc THEN octx.last_enc + 1
  ELSE Ticks(at)

\* A packet is muxed with the time of its frame in the filter, if the frame was
\* not moved; fps frames keep the encoder's.
MuxedTime(at) ==
  IF cfg.fps THEN at
  ELSE IF EncoderTime(at) # Ticks(at) THEN EncoderTime(at) * Tick
  ELSE Incoming.pts

\* Mutant: it stops one frame too early.
RunsAwayEarly == octx.frames + 1 >= Runaway * Len(fed["video"])

\* Too many frames for those decoded.
RunsAway == octx.frames + 1 > Runaway * Len(fed["video"])

\* The clip begins with a keyframe, and the next one is due a GOP later; but
\* this is reckoned before the frame is shifted.
ClipStarts == cfg.from # 0 /\ ~octx.clip_started
NextKf == IF ClipStarts /\ GopLen # 0 THEN Incoming.pts + GopLen ELSE octx.next_kf
GopDue == GopLen # 0 /\ Shifted("video") >= NextKf

\* octx with the marks of this frame.
Marked ==
  [octx EXCEPT !.start["video"] = StartOf("video"),
               !.clip_started = @ \/ cfg.from # 0,
               !.next_kf = IF GopDue THEN Shifted("video") + GopLen ELSE NextKf,
               !.last_enc = IF cfg.fps THEN @ ELSE EncoderTime(Shifted("video"))]

VideoPacket ==
  LET at == Shifted("video")
  IN  [n |-> Incoming.n, at |-> at, enc |-> EncoderTime(at), pts |-> MuxedTime(at),
       key |-> ClipStarts \/ GopDue \/ octx.frames = 0]

\* The encoder takes a frame and gives a packet once it holds enough.
Encoded(k, p) ==
  LET held == Append(enc[k], p)
  IN  IF Len(held) > EncDelay
      THEN /\ enc' = [enc EXCEPT ![k] = Tail(held)]
           /\ muxed' = [muxed EXCEPT ![k] = Append(@, Head(held))]
      ELSE enc' = [enc EXCEPT ![k] = held] /\ UNCHANGED muxed

\* An error of the encoder: the next frame of the filter, or that there is none,
\* is what process_out returns.
EncoderFails == faults < MaxFaults /\ faults' = faults + 1 /\ lost' = TRUE

EncodeVideo ==
  /\ Reads("video") /\ ~Clipped("video") /\ ~RunsAway
  /\ Taken
  /\ octx' = [Marked EXCEPT !.frames = @ + 1]
  /\ sent' = Append(sent, VideoPacket)
  /\ \/ Encoded("video", VideoPacket) /\ UNCHANGED <<lost, faults>>
     \/ EncoderFails /\ UNCHANGED <<enc, muxed>>
  /\ UNCHANGED <<cfg, src, pc, cur, outcome, fed, first, upset, calls>>

\* lpms_ERR_ENC_RUNAWAY: the call fails, unless it is flushing.
EncodeRunsAway ==
  /\ Reads("video") /\ ~Clipped("video") /\ RunsAway
  /\ octx' = Marked
  /\ LET rest == [filters EXCEPT !["video"].out = Tail(@)]
     IN  IF cur.flush THEN lost' = TRUE /\ NextStream(rest, enc)
         ELSE UNCHANGED <<lost, cur>> /\ EndCall("runaway", rest, enc)
  /\ UNCHANGED <<cfg, src, fed, sent, muxed, first, calls, faults>>

EncodeAudio ==
  /\ Reads("audio") /\ ~Clipped("audio")
  /\ Taken
  /\ octx' = [octx EXCEPT !.start["audio"] = StartOf("audio")]
  /\ LET at == Shifted("audio")
     IN  Encoded("audio", [n |-> Incoming.n, at |-> at, enc |-> at, pts |-> at, key |-> FALSE])
  /\ UNCHANGED <<cfg, src, pc, cur, outcome, fed, sent, first, lost, upset, calls, faults>>

-----------------------------------------------------------------------------
(* process_out: the filter has no frame.                                    *)

Empty == pc = "read" /\ filters[cur.kind].out = <<>>

ReturnToDecode ==
  /\ Empty /\ ~cur.flush
  /\ pc' = "decode"
  /\ UNCHANGED <<cfg, src, filters, enc, octx, cur, outcome, fed, sent, muxed, first, lost,
                 upset, calls, faults>>

\* Mutant: a hardware encoder's EAGAIN is returned as it is.
ReturnedAgain(ret) == ret

\* A hardware encoder stays open and never says EOF.
Returned(ret) == IF cfg.hw /\ ret = "again" THEN "eof" ELSE ret

\* Audio whose clip has no video yet is skipped, and so is the end of it.
WaitsForVideo == cur.kind = "audio" /\ AudioWaits

FlushReturns(ret, e) ==
  IF Returned(ret) = "eof" THEN NextStream(filters, e)
  ELSE /\ pc' = "flush" /\ enc' = e
       /\ UNCHANGED <<filters, cur, outcome, upset>>

\* encode without a frame: the encoder gives all it has.
FlushEncoder ==
  /\ Empty /\ cur.flush /\ ~WaitsForVideo
  /\ UNCHANGED <<lost, faults>>
  /\ muxed' = [muxed EXCEPT ![cur.kind] = @ \o enc[cur.kind]]
  /\ FlushReturns(IF cfg.hw /\ cur.kind = "video" THEN "again" ELSE "eof",
                  [enc EXCEPT ![cur.kind] = <<>>])
  /\ UNCHANGED <<cfg, src, octx, fed, sent, first, calls>>

FlushEncoderFails ==
  /\ Empty /\ cur.flush /\ ~WaitsForVideo
  /\ EncoderFails
  /\ NextStream(filters, enc)
  /\ UNCHANGED <<cfg, src, octx, fed, sent, muxed, first, calls>>

SkipFlush ==
  /\ Empty /\ cur.flush /\ WaitsForVideo
  /\ UNCHANGED lost
  /\ FlushReturns(IF filters["audio"].eof THEN "eof" ELSE "again", enc)
  /\ UNCHANGED <<cfg, src, octx, fed, sent, muxed, first, calls, faults>>

-----------------------------------------------------------------------------
Init ==
  /\ cfg \in Sessions
  /\ src = [last |-> Both(NoPts), seen |-> {}]
  /\ filters = [video |-> Fresh(FALSE), audio |-> Fresh(TRUE)]
  /\ enc = Both(<<>>)
  /\ octx = [frames |-> 0, next_kf |-> 0, last_enc |-> NoPts, clip_started |-> FALSE,
             start |-> Both(NoPts)]
  /\ pc = "idle" /\ cur = [kind |-> "video", flush |-> FALSE] /\ outcome = "none"
  /\ fed = Both(<<>>) /\ sent = <<>> /\ muxed = Both(<<>>)
  /\ first = Both(NoPts)
  /\ lost = FALSE /\ upset = FALSE /\ calls = 0 /\ faults = 0

\* The work of a call.
Process ==
  \/ DecodeVideo \/ DecodeAudio \/ EndOfInput \/ WriteFlush
  \/ ReadFlushFrame \/ SkipFrame \/ EncodeVideo \/ EncodeRunsAway \/ EncodeAudio
  \/ ReturnToDecode \/ FlushEncoder \/ FlushEncoderFails \/ SkipFlush

Next == BeginCall \/ Process

Spec == Init /\ [][Next]_vars

\* transcode runs until it returns.
FairSpec == Spec /\ WF_vars(Process)

-----------------------------------------------------------------------------
(* Properties.                                                              *)

\* The frame to show at tick t of the fps filter: the last one not after it.
ShownAt(t) ==
  LET before == {i \in DOMAIN fed["video"] : Ticks(fed["video"][i].pts) <= t}
  IN  CHOOSE i \in before : \A j \in before : j <= i

InClip(k, t) ==
  LET start == Filtered(k, first[k])
  IN  (cfg.to # 0 => t <= To(k) + start) /\ (cfg.from # 0 => t >= From(k) + start)

\* Where the frames of this call are after the filter, unshifted, with a start
\* of the clip as the documentation has it: the first frame of the session.
SentAt == [i \in DOMAIN sent |->
             [n |-> sent[i].n,
              t |-> sent[i].at + IF cfg.from = 0 THEN 0
                                 ELSE From("video") + Filtered("video", first["video"])]]

\* No frame is lost or doubled between decoder and encoder.  With its own frame
\* rate the output has one frame for every tick of the clip from the first frame
\* to the last, the one to show then, and for a segment of one frame at least
\* this one; without, it has the frames in the clip, each once and in order.
\* (The graph is flushed for this at filter.c:335-357.)
EveryFrameEncoded ==
  outcome = "done" /\ ~lost /\ fed["video"] # <<>> =>
    LET v == fed["video"]
        s == {SentAt[i] : i \in DOMAIN sent}
        ticks == {t \in Ticks(v[1].pts)..Ticks(v[Len(v)].pts) - 1 : InClip("video", t)}
    IN  /\ \A i, j \in DOMAIN sent : i < j => SentAt[i].t < SentAt[j].t
        /\ IF cfg.fps
           THEN /\ {[n |-> ShownAt(t), t |-> t] : t \in ticks} \subseteq s
                /\ \A x \in s : InClip("video", x.t) /\ x.n = ShownAt(x.t)
                /\ cfg.from = 0 /\ cfg.to = 0 => sent # <<>>
           ELSE s = {[n |-> i, t |-> v[i].pts] :
                       i \in {j \in DOMAIN v : InClip("video", v[j].pts)}}

\* Whatever times the decoder gives, the encoder gets increasing ones, also
\* where several frames fall into one of its ticks, and the muxer gets every
\* packet of this call, in order and with increasing times (encoder.c:653-664).
TimesIncrease ==
  /\ \A i \in 1..Len(sent) - 1 : sent[i].enc < sent[i + 1].enc
  /\ cfg.from = 0 => \A i \in 1..Len(sent) - 1 : sent[i].pts < sent[i + 1].pts
  /\ outcome = "done" /\ ~upset => muxed["video"] = sent

\* Every segment begins with a keyframe, and the others are the first frames at
\* least one GOP after the keyframe before them (encoder.c:634-637, 45).
KeyframesOnTime ==
  cfg.from = 0 =>
    \A i \in DOMAIN sent :
      sent[i].key <=>
        \/ i = 1
        \/ /\ GopLen # 0
           /\ \A j \in 1..i - 1 : sent[j].key => sent[i].at - sent[j].at >= GopLen

\* The muxer gets all audio of the segment, in order; in a clip only audio of
\* the clip, and none before the first frame of the video in it, if From is at
\* least half a tick of the video.  Where video is encoded too this holds for the
\* first segment only.
AudioComplete ==
  (cfg.video => calls <= 1) =>
    LET got == muxed["audio"]
    IN  /\ outcome = "done" /\ cfg.to = 0 /\ cfg.from = 0 /\ ~lost =>
             [i \in DOMAIN got |-> got[i].n] = [i \in DOMAIN fed["audio"] |-> i]
        /\ \A i \in DOMAIN got : InClip("audio", fed["audio"][got[i].n].pts)
        /\ From("video") # 0 /\ sent = <<>> => got = <<>> /\ enc["audio"] = <<>>

\* An output never has more than Runaway frames for each decoded one, and a call
\* fails for it only if its frames are further apart than that (encoder.c:676).
RunawayStopped ==
  LET v == fed["video"]
  IN  /\ octx.frames <= Runaway * Len(v)
      /\ outcome = "runaway" =>
           Ticks(v[Len(v)].pts) - Ticks(v[1].pts) > Runaway * Len(v)

\* Every call returns.
CallEnds == pc # "idle" ~> pc = "idle"

\* "Error encoding" and "Unable to fully flush outputs" (transcoder.c:544, 563):
\* a call whose encoder failed says so.
ErrorsReported == outcome = "done" => ~lost

\* AudioComplete for every segment of a session: the audio filter works on.
AudioOfEverySegment ==
  outcome = "done" /\ cfg.from = 0 /\ cfg.to = 0 /\ ~lost =>
    Len(muxed["audio"]) = Len(fed["audio"])

\* "Additional check is in place to skip all audio frames preceeding first video
\* frame" (doc/trim_output_tracks.md:8).
AudioAfterVideo == cfg.from # 0 /\ sent = <<>> /\ calls <= 1 => muxed["audio"] = <<>>

\* A clip begins at time 0 for its audio and its video.
ClipBeginsAtZero ==
  cfg.from # 0 => \A i \in DOMAIN sent : sent[i].pts = sent[i].at
=============================================================================
