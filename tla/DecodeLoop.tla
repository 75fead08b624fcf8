------------------------------ MODULE DecodeLoop ------------------------------
(* The decoding side of transcode, packet by packet: process_in, decode_in,  *)
(* flush_in and the queue that holds what is read before the outputs are     *)
(* open.  A hardware decoder lives on between the calls of a session, so at  *)
(* the end of a segment it is not drained but flushed: copies of the last    *)
(* keyframe, sentinels, push out the frames it still holds.  The decoder     *)
(* itself is external: a queue that holds back up to Delay frames, in which  *)
(* the faults of a run happen, at most MaxFaults times.                      *)
(*                                                                           *)
(* Packets are numbered in the order they are demuxed, and a frame has the   *)
(* number of its packet.  What the loop gives the outputs is recorded:       *)
(* frames to encode, packets to copy.                                        *)
EXTENDS Integers, Sequences

CONSTANTS
  Sessions,     \* the sessions to look at, a subset of Config
  Streams,      \* the kinds of streams of the input
  Delay,        \* frames the video decoder holds back at most
  AudioDelay,   \* frames the audio decoder holds back
  SentinelMax,  \* SENTINEL_MAX
  DiffMod,      \* pkt_diff and sentinel_count are unsigned: 2^16
  MaxPackets,   \* bound on the packets of a segment
  MaxCalls,     \* bound on the segments of a session
  Faults, MaxFaults

FaultKinds == {"drop",     \* a packet never comes out as a frame
               "extra",    \* a packet comes out as two frames
               "refuse",   \* the decoder has to drain before it takes the packet
               "error",    \* sending or receiving fails
               "nokey"}    \* the segment does not begin with a keyframe

Kinds == {"video", "audio", "other"}

\* hw: hardware decoder; kept: all outputs have hardware encoders and stay
\* open for the session; vdec, adec: some output encodes video, audio;
\* zero: the kind of stream 0; cuts: not every packet is copied, as the output
\* that copies the audio is clipped, or packets have no time.
Config ==
  [hw : BOOLEAN, kept : BOOLEAN, vdec : BOOLEAN, adec : BOOLEAN, zero : Streams,
   cuts : BOOLEAN]

ASSUME LoopAssumption ==
  /\ Streams \subseteq Kinds
  /\ Sessions \subseteq {c \in Config : (c.hw => c.vdec) /\ (c.kept => c.hw)}
  /\ Delay \in Nat /\ AudioDelay \in Nat
  /\ SentinelMax \in Nat
  /\ DiffMod \in Nat /\ Delay + 1 < DiffMod /\ SentinelMax + 1 < DiffMod
  /\ MaxPackets \in Nat /\ MaxCalls \in Nat /\ MaxFaults \in Nat
  /\ Faults \subseteq FaultKinds

VARIABLES
  cfg,    \* the session, fixed
  ictx,   \* the fields of input_ctx for decoding and flushing
  dec,    \* the video decoder: what it holds, and whether it must drain first
  adec,   \* the audio decoder: what it holds
  loop,   \* outputs_ready, the outputs' initialized and frame_queue of transcode
  it,     \* the locals of an iteration: stream_index, ipkt, dframe, ret
  pc, outcome,
  read,   \* what this call has demuxed, and the packets before it
  given,  \* what this call gave the outputs
  calls, faults,
  upset   \* has a call failed, or the decoder lost or doubled a frame?

vars == <<cfg, ictx, dec, adec, loop, it, pc, outcome, read, given, calls, faults, upset>>

Sentinel == 0

\* No packet, a packet without data (av_packet_unref), no frame.
NoPacket == [kind |-> "none", n |-> 0]
Blank == [kind |-> "blank", n |-> 0]
NoFrame == [kind |-> "none", n |-> 0]
Frame(kind, n) == [kind |-> kind, n |-> n]

\* What decoding returned: 0, lpms_ERR_PACKET_ONLY, EAGAIN or AVERROR_EOF.
Rets == {"ok", "packet_only", "again", "eof"}
Demuxable == [kind : Kinds, n : Nat \ {Sentinel}]
Packet == [kind : Kinds \cup {"none", "blank"}, n : Nat]
Item == [stream : Kinds \cup {"none"}, pkt : Packet, frame : Packet, ret : Rets]

PCs == {"idle", "read", "receive", "audio", "handle"}
Outcomes == {"none", "done", "nokf", "decoder", "queue"}

InputCtx ==
  [pkt_diff : 0..DiffMod - 1, sentinel_count : 0..DiffMod - 1, flushed : BOOLEAN,
   flushing : BOOLEAN, flush_pkt : BOOLEAN, blocked : {NoPacket} \cup Demuxable]
Decoder == [buf : Seq(Nat), draining : BOOLEAN]
Loop == [ready : BOOLEAN, open : BOOLEAN, queue : Seq(Item)]
Reading == [first : Nat, last : Nat, eof : BOOLEAN, video : Seq(Nat), audio : Seq(Nat)]
Giving == [video : Seq(Nat), audio : Seq(Nat), copied : Seq(Nat)]

LoopTypeOK ==
  /\ cfg \in Sessions
  /\ ictx \in InputCtx /\ dec \in Decoder /\ adec \in Seq(Nat)
  /\ loop \in Loop /\ it \in Item
  /\ pc \in PCs /\ outcome \in Outcomes
  /\ read \in Reading /\ given \in Giving
  /\ calls \in Nat /\ faults \in Nat /\ upset \in BOOLEAN

-----------------------------------------------------------------------------
(* Begin and end of a call.                                                 *)

Fault(f) == f \in Faults /\ faults < MaxFaults /\ faults' = faults + 1

\* Mutant: the next segment is taken for flushed.
ShutdownKeepsFlushed(c) ==
  [c EXCEPT !.flushing = FALSE, !.pkt_diff = 0, !.sentinel_count = 0, !.flush_pkt = FALSE]

\* What transcode_shutdown resets; a blocked packet stays.
Shutdown(c) ==
  [c EXCEPT !.flushed = FALSE, !.flushing = FALSE, !.pkt_diff = 0,
            !.sentinel_count = 0, !.flush_pkt = FALSE]

EndCall(how, c) ==
  /\ pc' = "idle"
  /\ outcome' = how
  /\ ictx' = Shutdown(c)
  /\ upset' = (upset \/ how # "done")

\* A software decoder is opened anew, and so is the audio decoder.
BeginCall ==
  /\ pc = "idle" /\ calls < MaxCalls
  /\ calls' = calls + 1
  /\ pc' = "read" /\ outcome' = "none"
  /\ dec' = IF cfg.hw THEN dec ELSE [buf |-> <<>>, draining |-> FALSE]
  /\ adec' = <<>>
  /\ loop' = [ready |-> FALSE, open |-> cfg.kept /\ loop.open, queue |-> <<>>]
  /\ read' = [first |-> read.last, last |-> read.last, eof |-> FALSE,
              video |-> <<>>, audio |-> <<>>]
  /\ given' = [video |-> <<>>, audio |-> <<>>, copied |-> <<>>]
  /\ UNCHANGED <<cfg, ictx, it, faults, upset>>

-----------------------------------------------------------------------------
(* The decoder.                                                             *)

Accept(x) ==
  /\ ~dec.draining \/ dec.buf = <<>>
  /\ dec' = [buf |-> Append(dec.buf, x), draining |-> FALSE]
  /\ UNCHANGED faults

\* It refuses until it is empty, and only if it has something to give.
Refuse ==
  /\ dec.buf # <<>>
  /\ IF dec.draining THEN UNCHANGED faults ELSE Fault("refuse")
  /\ dec' = [dec EXCEPT !.draining = TRUE]

\* The oldest frame.
Give ==
  /\ dec.buf # <<>>
  /\ \/ /\ dec' = [dec EXCEPT !.buf = Tail(dec.buf)]
        /\ UNCHANGED <<faults, upset>>
     \/ /\ Head(dec.buf) # Sentinel /\ Fault("extra")
        /\ upset' = TRUE
        /\ UNCHANGED dec

MayWait(d) == Len(d.buf) <= Delay /\ (d.draining => d.buf = <<>>)

\* EAGAIN, with or without the loss of a frame.
Wait ==
  \/ MayWait(dec) /\ UNCHANGED <<dec, faults, upset>>
  \/ /\ dec.buf # <<>> /\ Head(dec.buf) # Sentinel /\ Fault("drop")
     /\ dec' = [dec EXCEPT !.buf = Tail(dec.buf)]
     /\ MayWait(dec')
     /\ upset' = TRUE

-----------------------------------------------------------------------------
(* process_in and decode_in: a packet is read and sent, a frame received.   *)

\* The queue is empty, or must not be read yet.
Processing == pc = "read" /\ (loop.ready => loop.queue = <<>>)

\* The packet that was held back, or the next one of the segment.
Incoming ==
  IF ictx.blocked # NoPacket THEN {ictx.blocked}
  ELSE IF read.eof \/ read.last - read.first >= MaxPackets THEN {}
  ELSE {[kind |-> k, n |-> read.last + 1] : k \in Streams}

\* p is out of the demuxer.
Demuxed(p) ==
  read' = IF ictx.blocked # NoPacket THEN read
          ELSE [read EXCEPT !.last = p.n,
                            !.video = IF p.kind = "video" THEN Append(@, p.n) ELSE @,
                            !.audio = IF p.kind = "audio" THEN Append(@, p.n) ELSE @]

Got(stream, pkt, frame, ret) ==
  it' = [stream |-> stream, pkt |-> pkt, frame |-> frame, ret |-> ret]

\* lpms_send_packet and, for a keyframe, the copy to flush with.
SendVideo ==
  /\ Processing
  /\ \E p \in Incoming, key \in BOOLEAN :
       /\ p.kind = "video" /\ cfg.vdec
       /\ ictx.flush_pkt \/ key \/ "nokey" \in Faults
       /\ Demuxed(p)
       /\ Got("video", p, NoFrame, "ok")
       /\ \/ /\ Accept(p.n)
             /\ ictx' = [ictx EXCEPT !.pkt_diff = (@ + 1) % DiffMod,
                                     !.flush_pkt = @ \/ key, !.blocked = NoPacket]
          \/ /\ Refuse
             /\ ictx' = [ictx EXCEPT !.flush_pkt = @ \/ key, !.blocked = p]
  /\ pc' = "receive"
  /\ UNCHANGED <<cfg, adec, loop, outcome, given, calls, upset>>

\* Mutant: the count is a signed number.
ReceivedUnwrapped(c, x) ==
  IF x = Sentinel THEN c
  ELSE [c EXCEPT !.pkt_diff = @ - 1, !.sentinel_count = IF c.flushing THEN 0 ELSE @]

\* lpms_receive_frame: a frame that is no sentinel is counted.
Received(c, x) ==
  IF x = Sentinel THEN c
  ELSE [c EXCEPT !.pkt_diff = (@ + DiffMod - 1) % DiffMod,
                 !.sentinel_count = IF c.flushing THEN 0 ELSE @]

ReceiveDecoded ==
  /\ pc = "receive" /\ ~ictx.flushing
  /\ \/ /\ Give
        /\ ictx' = Received(ictx, Head(dec.buf))
        /\ it' = [it EXCEPT !.frame = Frame("video", Head(dec.buf))]
     \/ /\ Wait
        /\ it' = [it EXCEPT !.ret = "packet_only"]
        /\ UNCHANGED ictx
  /\ pc' = "handle"
  /\ UNCHANGED <<cfg, adec, loop, outcome, read, given, calls>>

\* A packet that was sent before the error is lost; one that is held back is not.
DecoderFails ==
  /\ \/ /\ pc = "receive" /\ ~ictx.flushing
        /\ UNCHANGED read
        /\ EndCall("decoder", ictx)
     \/ /\ Processing
        /\ \E p \in Incoming : p.kind = "video" /\ cfg.vdec /\ Demuxed(p)
        /\ EndCall("decoder", [ictx EXCEPT !.blocked = NoPacket])
  /\ Fault("error")
  /\ UNCHANGED <<cfg, dec, adec, loop, it, given, calls>>

DecodeAudio ==
  /\ Processing
  /\ \E p \in Incoming :
       /\ p.kind = "audio" /\ cfg.adec
       /\ Demuxed(p)
       /\ LET held == Append(adec, p.n)
          IN  IF Len(held) > AudioDelay
              THEN /\ adec' = Tail(held)
                   /\ Got("audio", p, Frame("audio", Head(held)), "ok")
              ELSE adec' = held /\ Got("audio", p, NoFrame, "packet_only")
  /\ pc' = "handle"
  /\ UNCHANGED <<cfg, ictx, dec, loop, outcome, given, calls, faults, upset>>

\* No decoder: the packet goes on alone, or without its data if no output can
\* use it.
PassPacket ==
  /\ Processing
  /\ \E p \in Incoming :
       /\ IF p.kind = "video" THEN ~cfg.vdec ELSE p.kind = "audio" => ~cfg.adec
       /\ Demuxed(p)
       /\ Got(p.kind, IF p.kind = "other" THEN Blank ELSE p, NoFrame, "ok")
  /\ pc' = "handle"
  /\ UNCHANGED <<cfg, ictx, dec, adec, loop, outcome, given, calls, faults, upset>>

-----------------------------------------------------------------------------
(* flush_in.                                                                *)

\* The demuxer is at the end.  (A call whose outputs are all open and whose
\* first read ends the input is a matter of TranscodeSession.)
AtEnd ==
  /\ Processing /\ ictx.blocked = NoPacket
  /\ read.last > read.first \/ ~loop.open

NeedsFlush == cfg.vdec /\ ~ictx.flushed /\ ictx.pkt_diff > 0

\* Mutant: the sentinels are not counted.
CountedNever(c) == [c EXCEPT !.flushing = TRUE]

\* send_flush_pkt when the decoder takes the sentinel.
CountedSentinel(c) == [c EXCEPT !.flushing = TRUE, !.sentinel_count = (@ + 1) % DiffMod]

SendSentinel ==
  /\ AtEnd /\ NeedsFlush /\ ictx.flush_pkt
  /\ read' = [read EXCEPT !.eof = TRUE]
  /\ Got("video", Blank, NoFrame, "ok")
  /\ \/ Accept(Sentinel) /\ ictx' = CountedSentinel(ictx)
     \/ Refuse /\ ictx' = [ictx EXCEPT !.flushing = TRUE]
  /\ pc' = "receive"
  /\ UNCHANGED <<cfg, adec, loop, outcome, given, calls, upset>>

\* There is no keyframe to flush with, or it cannot be sent.
FlushFails ==
  /\ AtEnd /\ NeedsFlush
  /\ \/ ~ictx.flush_pkt /\ EndCall("nokf", ictx) /\ UNCHANGED faults
     \/ ictx.flush_pkt /\ EndCall("decoder", ictx) /\ Fault("error")
  /\ UNCHANGED <<cfg, dec, adec, loop, it, read, given, calls>>

\* Mutant: one sentinel less.
GoesOnShort(c) == c.pkt_diff # 0 /\ c.sentinel_count < SentinelMax

\* Frames are missing, and not too many sentinels were sent for nothing.
GoesOn(c) == c.pkt_diff # 0 /\ c.sentinel_count <= SentinelMax

ReceiveFlushed ==
  /\ pc = "receive" /\ ictx.flushing
  /\ \/ /\ Give
        /\ LET c == Received(ictx, Head(dec.buf))
           IN  ictx' = [c EXCEPT !.flushed = ~GoesOn(c)]
        /\ it' = [it EXCEPT !.frame = Frame("video", Head(dec.buf))]
        /\ pc' = "handle"
     \/ /\ Wait
        /\ ictx' = [ictx EXCEPT !.flushed = ~GoesOn(ictx)]
        /\ it' = [it EXCEPT !.ret = "again"]
        /\ pc' = IF GoesOn(ictx) THEN "handle" ELSE "audio"
     \/ /\ Fault("error") /\ upset' = TRUE
        /\ ictx' = [ictx EXCEPT !.flushed = TRUE]
        /\ pc' = "audio"
        /\ UNCHANGED <<dec, it>>
  /\ UNCHANGED <<cfg, adec, loop, outcome, read, given, calls>>

\* The audio decoder is drained; when it is empty the input is at its end.
\* Without it stream_index is what it was.
FlushAudio ==
  /\ pc = "audio" \/ (AtEnd /\ ~NeedsFlush)
  /\ read' = [read EXCEPT !.eof = TRUE]
  /\ IF cfg.adec /\ adec # <<>>
     THEN /\ Got("audio", Blank, Frame("audio", Head(adec)), "ok")
          /\ adec' = Tail(adec)
     ELSE /\ Got(IF cfg.adec THEN "audio" ELSE IF pc = "audio" THEN "video" ELSE "none",
                 Blank, NoFrame, "eof")
          /\ UNCHANGED adec
  /\ pc' = "handle"
  /\ UNCHANGED <<cfg, ictx, dec, loop, outcome, given, calls, faults, upset>>

-----------------------------------------------------------------------------
(* The rest of an iteration of transcode.                                   *)

\* An item with a packet tells its stream, and a packet without data says 0;
\* one without a packet leaves stream_index at -1.
StreamOf(pkt) ==
  CASE pkt.kind = "none"  -> "none"
    [] pkt.kind = "blank" -> cfg.zero
    [] OTHER              -> pkt.kind

\* Mutant: the newest item first.
NextItemLast(q) == <<q[Len(q)], SubSeq(q, 1, Len(q) - 1)>>

NextItem(q) == <<Head(q), Tail(q)>>

\* queue_read.
ReadQueue ==
  /\ pc = "read" /\ loop.ready /\ loop.queue # <<>>
  /\ LET next == NextItem(loop.queue)
     IN  /\ it' = [next[1] EXCEPT !.stream = StreamOf(next[1].pkt)]
         /\ loop' = [loop EXCEPT !.queue = next[2]]
  /\ pc' = "handle"
  /\ UNCHANGED <<cfg, ictx, dec, adec, outcome, read, given, calls, faults, upset>>

\* The outputs are opened in this iteration or wait for a later one.
SetOutputs == ~loop.ready /\ ~loop.open

\* A packet or frame of the video, or the end, opens the outputs.
Opens == it.stream = "video" \/ it.ret = "eof"

\* A frame is cloned for every stream that is neither the video nor the audio
\* of the session, even if there is none, and that fails.
Queueable == it.stream \in {"video", "audio"} \/ it.ret = "packet_only"

\* queue_write.
Enqueue ==
  /\ pc = "handle" /\ SetOutputs /\ Queueable
  /\ loop' = [ready |-> Opens, open |-> Opens,
              queue |-> Append(loop.queue,
                          IF it.ret = "eof" THEN [it EXCEPT !.pkt = NoPacket] ELSE it)]
  /\ pc' = "read"
  /\ UNCHANGED <<cfg, ictx, dec, adec, it, outcome, read, given, calls, faults, upset>>

QueueFails ==
  /\ pc = "handle" /\ SetOutputs /\ ~Queueable
  /\ EndCall("queue", ictx)
  /\ loop' = [loop EXCEPT !.open = Opens]
  /\ UNCHANGED <<cfg, dec, adec, it, read, given, calls, faults>>

IsSentinel(i) == i.stream = "video" /\ i.frame = Frame("video", Sentinel)

\* has_frame: something was decoded, and of the kind of the stream.
HasFrame(i) == i.ret # "packet_only" /\ i.frame.kind = i.stream

\* Mutant: a packet decoded to no frame is not copied.
CopiesOnlyFrames(i) == i.pkt.kind \in {"video", "audio"} /\ i.ret = "ok"

\* A packet with data can be copied.
Copies(i) == i.pkt.kind \in {"video", "audio"}

\* A sentinel ends the iteration, its packet and all.  The clip of copied audio
\* goes by times that are not modelled: it may cut any packet.
Deliver ==
  /\ pc = "handle" /\ ~SetOutputs /\ it.ret # "eof"
  /\ loop' = [loop EXCEPT !.ready = TRUE]
  /\ \E cut \in BOOLEAN :
       /\ cut => cfg.cuts
       /\ given' =
            IF IsSentinel(it) THEN given
            ELSE [video |-> IF HasFrame(it) /\ it.stream = "video"
                            THEN Append(given.video, it.frame.n) ELSE given.video,
                  audio |-> IF HasFrame(it) /\ it.stream = "audio"
                            THEN Append(given.audio, it.frame.n) ELSE given.audio,
                  copied |-> IF Copies(it) /\ ~cut
                             THEN Append(given.copied, it.pkt.n) ELSE given.copied]
  /\ pc' = "read"
  /\ UNCHANGED <<cfg, ictx, dec, adec, it, outcome, read, calls, faults, upset>>

\* All is read: the outputs are flushed and the call returns.
Finish ==
  /\ pc = "handle" /\ ~SetOutputs /\ it.ret = "eof"
  /\ EndCall("done", ictx)
  /\ UNCHANGED <<cfg, dec, adec, loop, it, read, given, calls, faults>>

-----------------------------------------------------------------------------
Init ==
  /\ cfg \in Sessions
  /\ ictx = [pkt_diff |-> 0, sentinel_count |-> 0, flushed |-> FALSE,
             flushing |-> FALSE, flush_pkt |-> FALSE, blocked |-> NoPacket]
  /\ dec = [buf |-> <<>>, draining |-> FALSE]
  /\ adec = <<>>
  /\ loop = [ready |-> FALSE, open |-> FALSE, queue |-> <<>>]
  /\ it = [stream |-> "none", pkt |-> Blank, frame |-> NoFrame, ret |-> "ok"]
  /\ pc = "idle" /\ outcome = "none"
  /\ read = [first |-> 0, last |-> 0, eof |-> FALSE, video |-> <<>>, audio |-> <<>>]
  /\ given = [video |-> <<>>, audio |-> <<>>, copied |-> <<>>]
  /\ calls = 0 /\ faults = 0 /\ upset = FALSE

\* The work of a call.
Iterate ==
  \/ SendVideo \/ ReceiveDecoded \/ DecoderFails \/ DecodeAudio \/ PassPacket
  \/ SendSentinel \/ FlushFails \/ ReceiveFlushed \/ FlushAudio
  \/ ReadQueue \/ Enqueue \/ QueueFails \/ Deliver \/ Finish

Next == BeginCall \/ Iterate

Spec == Init /\ [][Next]_vars

\* transcode runs until it returns.
FairSpec == Spec /\ WF_vars(Iterate)

-----------------------------------------------------------------------------
(* Properties.                                                              *)

\* A flush that ends has all frames: with a decoder that loses none and holds
\* back at most SENTINEL_MAX + 1, none of the segment's frames is left in the
\* decoder when flush_in gives up or the call is done (decoder.c:162).
FlushReturnsAll ==
  Delay <= SentinelMax + 1 /\ ~upset /\ (ictx.flushed \/ outcome = "done")
    => \A i \in 1..Len(dec.buf) : dec.buf[i] = Sentinel

\* The encoders get a frame for every video packet of the segment, in order and
\* once, whatever was queued, refused and flushed on the way, and none of an
\* earlier segment.
VideoComplete ==
  Delay <= SentinelMax + 1 /\ ~upset /\ outcome = "done" /\ cfg.vdec
    => given.video = read.video

\* The same of the audio, once the segment has a video packet: without one the
\* frames flushed into the queue are taken for frames of stream 0.
AudioComplete ==
  outcome = "done" /\ cfg.adec /\ (read.video # <<>> \/ cfg.zero = "audio")
    => given.audio = read.audio

InOrder(s) == \A i, j \in 1..Len(s) : i < j => s[i] <= s[j]

\* Outputs that copy, without a clip, get every packet of video and audio, in the
\* order of the demuxer, and one twice only if a decoder refused it.  (Not in
\* hardware sessions, where a sentinel of the segment before takes a packet with
\* it, and not packets without a time.)
EveryPacketCopied ==
  outcome = "done" /\ ~cfg.hw /\ ~cfg.cuts =>
    /\ InOrder(given.copied)
    /\ {given.copied[i] : i \in DOMAIN given.copied} \ 0..read.first =
         {read.video[i] : i \in DOMAIN read.video} \cup {read.audio[i] : i \in DOMAIN read.audio}
    /\ faults = 0 => Len(given.copied) = Len(read.video) + Len(read.audio)

\* Every call returns: the flush does not go on for frames that never come,
\* even when pkt_diff has wrapped around.
CallEnds == pc # "idle" ~> pc = "idle"

\* A call gives its outputs only packets of its own segment: what the one
\* before left behind is reset "to prepare for next segment" (transcoder.c:129).
\* A packet that was held back when its call failed is not.
OwnPackets == \A i \in DOMAIN given.copied : given.copied[i] > read.first

\* What the comment at decoder.c:98 says: a stream that is not used for anything
\* makes no call fail, and the end of the input only forces the outputs open.
QueueTakesAll == outcome # "queue"
=============================================================================
