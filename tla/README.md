# A TLA+ model of LPMS

LPMS (livepeer/lpms) receives live video over RTMP, hands it to players, cuts
it into HLS segments, and transcodes segments with a C core around FFmpeg.
This directory holds TLA+ modules translated from that code, TLC configurations
that check them on small instances, and proofs checked by TLAPS.

`PROJECT.json` maps every definition that models code to the lines it models,
and lists the runs, the hazards of the code, the disagreements met between code
and its own comments and tests, and the main theorems.

## 1. Inventory of the system

| Component | State it keeps | Operations | What is hard |
|---|---|---|---|
| Transcoder session (`ffmpeg/ffmpeg.go`) | handle, `stopped`, `started`, `lastacodec`, a mutex | `Transcode`, `Discontinuity`, `StopTranscoder` | early returns after fields were assigned; calls of the C core that depend on earlier calls |
| Transcode handle (`ffmpeg/transcoder.c`) | input context, 10 output contexts, `initialized`, number of outputs | `lpms_transcode`, `..._reopen_demux`, `..._discontinuity`, `..._stop` | demuxer, decoders, encoders and muxers survive a call under different conditions, every step may fail |
| Decoder (`decoder.c`) | demuxer, decoders, last frames, flush packet, counters of buffered packets | `open_input`, `free_input`, `process_in`, `flush_in` | sentinel packets that push frames out of a hardware decoder, a packet the decoder refuses |
| Packet queue (`queue.c`) | list of packets and frames | `queue_write`, `queue_read` | packets read before all outputs are open |
| Filter (`filter.c`) | graph per stream, flags for flushing | `filtergraph_write`, `filtergraph_read` | timestamps through the fps filter, flush with a copy of the last frame |
| Encoder and muxer (`encoder.c`) | encoders, muxer, last timestamps, clip window | `open_output`, `reopen_output`, `close_output`, `process_out`, `mux` | order of timestamps, hardware encoders kept over segments |
| Extras (`extras.c`) | none | RTMP to HLS copy, codec probe, signature match and comparison | error mapping |
| SEI fixup (`sei_fixup.go`), video profiles (`videoprofile.go`) | none | byte rewriting, conversions | parsing at boundaries |
| Wait queue (`stream/queue.go`) | items, waiters, `disposed`, lock | `Put`, `Get`, `Poll`, `TakeUntil`, `Dispose`, `ExecuteInParallel` | a `Put` hands items to waiters while it holds the lock they do not take; timeouts, cancellation |
| RTMP stream (`stream/basic_rtmp_videostream.go`) | listeners, dirty flag, channel, EOF | `WriteRTMPToStream`, `ReadRTMPFromStream`, `Close` | five kinds of goroutines, a cached table, closing |
| RTMP listener, player (`vidlistener`, `vidplayer`) | none beyond the stream | publish and play handlers | who waits for which end |
| HLS stream, manifest (`stream/basic_hls_*.go`) | playlist, map and window of segments; streams and variants | add, get, delete | check outside the lock, two maps that should agree |
| Segmenter (`segmenter/video_segmenter.go`) | current segment and playlist, waiting times | `RTMPToHLS`, `PollSegment`, `PollPlaylist`, `Cleanup` | files written by another goroutine, timeouts |
| LPMS core (`core/lpms.go`) | the parts above | `Start`, `SegmentRTMPToHLS` | two goroutines, one channel, retries |

How they interact. `VidListener` makes a `BasicRTMPVideoStream` per publisher;
its pump goroutine reads the publisher's connection and sends packets over a
channel to the stream's worker, which writes them to every listener.
`VidPlayer` adds a listener per player. `SegmentRTMPToHLS` runs FFmpeg as one
such player, which writes segment files, and polls them into an HLS stream. The
application passes segment files to a `Transcoder`; Go serialises the calls of
a session with a mutex and calls the C core, which reads the input, decodes,
filters, encodes and muxes it into the outputs. The wait queue is a building
block of package `stream`; `streamBuffer` wraps it, and nothing in the
repository creates one now.

What makes each component correct is the list of properties in section 3; the
hazards they answer, and those not yet answered, are in `PROJECT.json`.

## 2. Modules

### TranscodeSession: the life of a session

One module for the Go object and the C handle, because the hard part is what
either remembers about the other. A call is a run of steps from `pc = "idle"`
back to `"idle"`:

    TranscodeStart -> [ReopenDemux] -> FirstOpen | CheckCount
      -> ReopenDemuxer | ReopenIO | ReuseInput -> CheckPixfmt
      -> [ReopenDecoders] -> SetupOutputs
      -> QueuePacket* ForceOpen? Process* -> EndOfInput -> FlushOutputs

* `go` is the Transcoder struct (`started`, `lastacodec`), `h` the handle
  (`initialized`, number of outputs), `ictx` and `out` the contexts reduced to
  which library objects are allocated and what is known of them.
* `seg` holds the arguments of the call: a file with its streams (video or not,
  an audio codec or none, another pixel format) and the number of outputs asked.
* `loop` holds what `transcode` keeps in locals: whether all outputs are ready,
  whether the end was read, and which kinds of packets wait in the frame queue.
* `leaked` records objects whose only pointer was overwritten, `bad` what the
  loop did that nobody asked for (`raw_copy`, `wrong_stream`) or that ends the
  process (a null frame, muxer or stream, stream index -1). After a crash no
  step is possible, so the runs do not check for deadlock.
* `Shutdown` is `transcode_shutdown`; every failing step of `transcode_init` and
  `transcode` ends in it, as in the code, and the steps that return past it
  (`CheckCount`, `FirstOpen`, `ReopenDemux`) do not.

`Faults` says what may go wrong: a library call that fails (`demux`, `info`,
`vdec`, `adec`, `io`, `open`, `openlate`, `reopen`, `read`, `encode`, `resize`), a
call refused earlier (`probe`, `params`, `count`), or an unusual segment
(`novideo`, `noaudio`, `pixfmt`, `empty`, `audiofirst`). `FailedInputs` is what
`open_input` leaves when it fails at a given step: all is freed, but stream
indices and `hw_type` were set on the way. Outputs are reopened one after the
other, up to the first that fails (`ReopenedUpTo`), for want of an audio encoder
for one (`CanReopen`). Packets are abstracted to their kind; `DecodeLoop` and
`EncodeFrames` follow single packets and frames.

### DecodeLoop: packets to frames

The packet loop again, with every packet and without what `TranscodeSession`
says of files and outputs. A round of the loop of `transcode` is a read and then
what is done with its result:

    ReadQueue | SendVideo | DecodeAudio | PassPacket      (process_in)
    SendSentinel | FlushAudio                             (flush_in)
      -> [ReceiveDecoded | ReceiveFlushed -> FlushAudio?] -> Enqueue | Deliver | Finish

* `ictx` has the fields of the input context that count: `pkt_diff`,
  `sentinel_count`, `flushing`, `flushed`, whether there is a keyframe for
  sentinels (`flush_pkt`), the packet the decoder refused (`blocked`).
* `loop.queue` is the frame queue, each item with its packet, frame and
  `decoder_return`; `it` has the locals of a round.
* `dec` is external: a queue of numbered frames that holds back up to `Delay`.
  `Faults` says what it may do besides: lose a packet (`drop`), make two frames of
  it (`extra`), want to be drained first (`refuse`), fail (`error`); `nokey` is a
  segment that does not begin with a keyframe.
* `read` and `given` record what the demuxer gave and the outputs got. In a
  session whose copied audio is clipped (`cuts`) any packet of it may be cut.

### EncodeFrames: frames to packets

One output, from a decoded frame to the muxer: `process_out` with
`filtergraph_write`, `filtergraph_read` and `encode`, and `flush_outputs` at the
end of a call. A frame is given to its filter (`Decode`), and `process_out` takes
what comes out, frame by frame, until there is none (`SkipFrame`, `EncodeVideo`,
`EncodeRunsAway`, `EncodeAudio`, `ReturnToDecode`); a flush does the same with
`WriteFlush` in place of a frame. Video may pass an fps filter, which repeats the
frame it holds until the next one is due; audio passes unchanged. What
`close_output` resets and what it does not is kept apart: the audio filter with
its mark `closed`, the start of the clip and a hardware encoder live on. `Tick`
times of the input make a tick of filter and encoder, and every time of the
configuration is rounded to ticks as `add_video_stream` does: what makes audio
wait for the video of a clip is its start in ticks (`AudioWaits`).

### HlsSegmenter: remuxer and poller

`SegmentRTMPToHLS` with its two goroutines. `remux` runs FFmpeg, again if it
fails; FFmpeg itself is external and writes segment files in order, lists them
some time later in the playlist, and deletes old ones. `poll` waits for the next
file to exist, reads the segment before it, looks for its length in the playlist
and adds it to the HLS stream, whose playlist, names and map are `hls`. The
playlist is of the m3u8 library and has a capacity (`AppendSegment`). `Length`
says what the length of each segment is read as: some time, zero, or what
`ParseDuration` does not read. A segment is a number and the attempt that wrote
its file, so a file written anew under an old number can be told apart, and a
file is whole or cut off by an error. After each attempt of the remuxer
`Cleanup` removes the files, one by one, while the poller goes on.
`main` waits for the first report on a channel of capacity one, or leaves when
its context is done.

### OrderedMux, MuxTimestamps, TransmuxClock: timestamps

`OrderedMux` is abstract: what a muxer needs. Packets of a kind that know their
DTS are written in DTS order, none is presented before it is decoded, a packet
is moved from the times it was given with no further than that takes, and only
packets of kinds that may be dropped are.

`MuxTimestamps` is `mux` of `encoder.c` with the fields of the output context it
uses (`last_audio_dts`, `last_video_dts`, `drop_ts`): the preroll of an audio
encoder is dropped, a packet whose DTS is after its PTS gets the median of three
times, a packet that is not after the last one is moved. `AddStreams` is what
reopening the output for the next segment resets. `given` and `sent` record the
last packet of each kind before and after `mux`; the refinement `OrderedSpec`
maps both to those of `OrderedMux`, and lets audio be dropped if the encoder
reports a padding.

`TransmuxClock` extends it with the part of the loop of `transcode` that copies
packets of a transmuxed session: the clock of each stream, which runs on over
segments, the discontinuity flag and the skipping of packets that are not after
the last. It composes with `Mux`, on an output that `open_remux_output` left
zeroed. In between, times are converted to the time base the muxer chose for the
stream (`Rescaled`, which rounds like `av_rescale_q`): what the clock keeps apart may
fall into one tick of the muxer. Sums wrap at 64 bits (`Wrapped`), and a packet may
come without DTS or PTS, which the code takes for numbers (`AV_NOPTS_VALUE` is the
least of 64 bits), or for the end of the input (`Copy`). Streams beyond
`MAX_OUTPUT_SIZE` have no clock (`Clocked`). The time base of the input is taken to
be the same in all segments.

### WaitQueue

`Queue` of package `stream`. A step runs from one blocking operation (lock,
channel, wait group) to the next. `Put` takes any number of items and keeps the
lock in `handoff` and `response`; a waiter is woken (`Wake`) and takes its items
without the lock (`TakeWoken`). A timeout first fires (`Timeout`), then looks
whether a `Put` chose this waiter meanwhile (`TimeoutAnswers`), then removes its
semaphore under the lock. `accepted` and `taken` record what went in and out.

### RtmpStream

The stream with both its users: publish handler, pump, watcher of the
publisher, worker, and for each player handler and watcher. A step runs to the
next channel operation, lock or write. `listeners` and `dirty` are the table,
`cache` and `pending` the worker's copy and the rest of its loop. `joined` and
`left` record how many packets had been dispatched when a listener was added
and removed, so that properties can say which packets it should have.

`Broadcast` is abstract: a channel that sends a packet only when everybody who is
in and can be written to has the one before; who joins gets the packets from there on, who
leaves while a packet is on its way still gets that one. `BroadcastSpec` maps a
packet the worker has copied the listeners for to one that is sent
(`Dispatched`), and a player to a listener that is out, in, leaving or gone
(`Phase`: leaving while it is in the rest of the worker's loop).

## 3. What is checked

### Runs that pass

| Run | Instance | What it shows |
|---|---|---|
| `SessionFaults` | 29 configurations, 3 calls, 2 outputs, 1 codec, every fault | outputs closed when a call returns (`IdleOutputsClosed`), nothing opened over an open muxer or encoder (`OutputsNeverLeak`), hardware encoders kept (`HwEncoderKept`) |
| `SessionTranscode` | 24 transcoding configurations, 3 calls, 2 codecs, the faults named below | the input is the call's own (`ReadsOwnInput`, `OnlyMpegtsKeepsDemuxer`), is not leaked (`InputNeverLeaks`), knows its audio (`DemuxerKnowsAudio`); a packet finds frame buffers, a decoder, the stream of its type and a muxer (`ProcessesRightly`) |
| `DecodeFlush` | 7 kinds of sessions, 2 segments of up to 3 packets, 2 faults | the sentinels bring back every frame (`FlushReturnsAll`); every packet is decoded and handed on once and in order, whether it waited in the queue, in the decoder or as blocked packet (`VideoComplete`, `AudioComplete`), and copied, in software sessions without a clip (`EveryPacketCopied`); a flush ends whatever the decoder does (`CallEnds`) |
| `EncodeOutput` | 10 kinds of outputs, 2 segments of up to 3 video and 2 audio frames, 1 failure | frames of the clip are encoded (`EveryFrameEncoded`, `AudioComplete`) at increasing times (`TimesIncrease`) with keyframes where the GOP wants them (`KeyframesOnTime`); a runaway is stopped and nothing else is (`RunawayStopped`); the flush ends (`CallEnds`) |
| `MuxOrder` | an audio and a video stream, times -1, 0, 1, 3 and unknown | `NeverLatePts`, `DtsIncreases`, and the refinement `OrderedSpec` |
| `TransmuxOrder` | two streams, 2 segments of up to 2 video and 1 audio packet, any starts of two, unknown PTS or DTS, one stream with coarser and one with finer ticks in the muxer | `InOrderKept`, `ClockForward`, `StaysAsCopied` |
| `QueueSafety` | 3 goroutines, 2 items, 2 waiting polls, all operations | the four parts of `HandOff`: items taken only inside a `Put`, answers only when asked, a poll that finds items takes them, `Dispose` releases |
| `QueueDelivery` | the same with 3 items, in Puts of one to three, without cancellation and `ExecuteInParallel`, fair | `InOrderOnce`, `NoneWaitsForItems`, `LockReleased` |
| `RtmpFanout` | 2 players, one fragile and cancellable, 2 packets, fair | `EveryPacketSinceJoining`, `NothingAfterRemoval`, the refinement `BroadcastSpec`, and that an end reaches listeners, publisher, players and worker (`CloseReachesAll`) |
| `SegmentStream` | 5 segments, 2 attempts of either goroutine, 1 sleep, a list and a window of 2, a playlist of 3, one length that cannot be parsed and one that is zero, fair | what is added is complete and in order (`AddedComplete`), playlist, names and map agree (`WindowAgrees`), no early timeout (`TimeoutMeansSilence`), both goroutines end (`SegmentingEnds`) |

Bounds, and why they are enough.

* Sessions: what a call finds was left by the calls before it, and the state a
  call leaves has no counter in it. Three calls let one call build a state, the
  next disturb it and the third use it; a null last frame, for one, needs all
  three. Two outputs are the least for which "some outputs are open, one fails"
  happens. With one codec audio appears and disappears; the second one of
  `SessionTranscode` lets it change as well.
* Decoding: a delay of 2 frames with one sentinel is the most a flush can bring
  back (`Delay <= SentinelMax + 1`), so an off-by-one in either shows. Three packets are
  more than the decoder holds; two segments show what the first leaves. Counters
  wrap at 8 in place of 2^16, which a decoder with `extra` frames reaches
  from below.
* Encoding: with 3 times to a tick and gaps of -1, 1, 2, 3 and 14, frames fall into
  the same tick, the next, leave ticks out, come late or come after a hole that is
  a runaway; with a frame rate a clip from 1 is rounded to tick 0, one from 2 to
  tick 1, and without one it keeps its time; `Runaway` is 2 in place of 25 for
  that. An audio clip whose video never reaches the clip
  is left out: its flush does not end (see `EncodeFlushHangs` below).
* Mux: the code compares a packet only with the last one of its kind, so values
  below, equal, adjacent and above the last are what there is; -1 and 0 are there
  because `drop_ts` and the transmux clock treat them specially. `Horizon` stops
  the DTS from growing without end.
* Transmuxing: two ticks of the input are three of the muxer or three are two, the
  least where DTS one apart fall together, and one stream of either kind is in each
  run. `AV_NOPTS_VALUE` is -100, so sums of an unknown time wrap. With two video packets
  and one of audio in each of two segments there is a first packet of a segment, one
  after it and a continuation; more packets of audio multiply the states and meet
  nothing new, as the streams have no field in common.
* Wait queue: three goroutines give a `Put`, a waiter and one that interferes; two
  waiting polls and two items give a `Put` that serves two waiters and items that
  are not enough for both; with three items one `Put` is split between two waiters
  that ask for one and two, or leaves something over. Goroutines are
  interchangeable, so `QueueSafety`, which has invariants only, uses symmetry.
* RTMP: one player that may fail in any way and one that does not; the second
  packet is the one that shows whether the first changed the table.
* Segmenter: four complete segments with a list and a window of two let the oldest be
  deleted and leave the window while others are read; a playlist of three is the least
  capacity above the window; two attempts let a file be
  written again under the number that is polled.

`SessionTranscode` leaves out some faults on purpose. With `count` or `params` the
input may be left open or the audio unknown (see `SessionStaleDemuxer` below, and
`doc/quirks.md` on `lastacodec`); with `pixfmt`, `vdec` and `adec` the input is
torn down in the middle of `transcode_init`; `resize` leaves a hardware session
without a video encoder, and its next call adds no video stream and would copy
undecoded packets. `SessionFaults` has all of these and checks what must hold in
spite of them. `InOrderKept` needs packets with known durations: after a
discontinuity, the first packet after one without a duration has the DTS of the
last and is skipped. It speaks of a stream up to its first packet with an unknown
time: after a discontinuity such a packet spoils the clock's difference.
`StaysAsCopied` allows what mux does with packets presented before they are
decoded, or less than a tick of the muxer apart. `WindowAgrees` needs a window
below the playlist's capacity (see `SegmentFullList`). `FlushReturnsAll` speaks of
decoders that lose and double nothing: `pkt_diff` counts frames, and a lost one
would be waited for until the sentinels are used up. `AddedComplete` rests on one
assumption about time: the pause before the remuxer is started again is longer
than a poll takes to read the file it found (`RemuxAgain`).

### Runs that find a disagreement

Each checks one statement of a comment, document or test of the repository, and
TLC finds a behaviour of the code against it. `PROJECT.json` quotes the lines
under its findings. The first two are listed among its runs; the other
configurations are kept for whoever wants to see the behaviour.

| Configuration | Module, property | What happens |
|---|---|---|
| `RtmpLastPacket` | `MCRtmpStream`, `EarlyListenersGetAll` | a listener there from the start misses the last packet: EOF removes it before the worker copies the table |
| `EncodeAudioLost` | `MCEncodeFrames`, `AudioOfEverySegment` | the audio filter is closed at the end of the first segment and never opened again: no audio from the second on |
| `EncodeFlushHangs` | `MCEncodeFrames`, `CallEnds` | audio that waits for the first video frame of a clip is skipped, also when flushed: the flush never ends |
| `EncodeAudioEarly` | `MCEncodeFrames`, `AudioAfterVideo` | a `From` below half a frame is rounded to 0, and audio of the clip comes before its video |
| `EncodeErrorLost` | `MCEncodeFrames`, `ErrorsReported` | an encoder's error is overwritten by what the filter returns next |
| `EncodeClipShift` | `MCEncodeFrames`, `ClipBeginsAtZero` | without a frame rate the packets of a clip get their times before the shift back |
| `DecodeStalePacket` | `MCDecodeLoop`, `OwnPackets` | a packet refused by the decoder outlives the failed call and starts the next |
| `DecodeForeignStream` | `MCDecodeLoop`, `QueueTakesAll` | a packet of an unused stream counts as decoded, and the queue refuses its empty frame |
| `QueueCancel` | `MCWaitQueue`, `LockReleased` | the branch for a done context leaves its semaphore and no answer; `Put` waits with the lock held |
| `SegmentFullList` | `MCHlsSegmenter`, `WindowAgrees` | a window of the whole capacity: the playlist is full, an ignored error, and stays as it is, while names and map grow |
| `SessionNullFrame` | `MCTranscodeSession`, `DecodingHasFrames` | after a decoder failed to reopen, the next call opens all but the last-frame buffers |
| `SessionTransmuxError` | `MCTranscodeSession`, `TransmuxClosedByStop` | any error in the loop closes transmuxed outputs too |
| `SessionStaleDemuxer` | `MCTranscodeSession`, `OnlyMpegtsKeepsDemuxer` | a call refused for its number of outputs keeps the demuxer reopened for it |
| `SessionEmptyInput` | `MCTranscodeSession`, `EofFlushes` | with all outputs open before the first read the loop goes on, with stream index -1 |

`TransmuxManyStreams` is no disagreement but a second instance of `TransmuxOrder`,
in which the audio stream lies beyond `MAX_OUTPUT_SIZE` and has no clock; all
three properties hold.

Five more are only text. `doc/quirks.md:29` says `SENTINEL_MAX` is 5, and
`ffmpeg/decoder.h:36` defines 8; `FlushReturnsAll` holds for any value. The
fallback to the playlist's target duration at `segmenter/video_segmenter.go:120`
is never reached. The waiting time of a poll is reset only on success
(`:234`), so after one timeout its retries time out at their first look, which is why
`TimeoutMeansSilence` speaks of all retries together. A length that `ParseDuration`
does not read fails the poll after `curSegment` was advanced (`:113`, `:129`), and the
segment is never added. A packet to be copied without a PTS is dropped by the
test for a flush (`ffmpeg/transcoder.c:515`).

### Fairness

* `WaitQueue!FairSpec`: each goroutine that can take its next step inside a call
  eventually does. Nothing is assumed of callers (`Put`, `Poll`, ...), of time
  (`Timeout`), nor of who gets the lock (`RemoveWaiter`, `ExecuteDisposes`).
* `RtmpStream!Fairness`: goroutines that can run do, callbacks and writes on a
  connection return, an unlocked mutex is eventually taken. The select of the
  worker has `WF` on each branch: after a close only one packet can still be
  offered, so the branch for EOF stays enabled and is taken. Nothing forces
  packets, failures, cancellations or a close.
* `DecodeLoop` and `EncodeFrames` have `WF` on the one step a call consists of:
  `transcode` is a plain loop of one thread, and library calls return.
* `HlsSegmenter!FairSpec`: either goroutine goes on when it can, sleeps end, and
  the source ends at last, with success or an error. Nothing forces the caller
  to leave or a file to be deleted.
* The session has no fairness: its properties are about safety.

## 4. What is proved

Each theorem holds for all values of the constants, from the module's assumption
on them and the hypotheses named here.

### Sessions

`TranscodeSession_proofs`, for every number of outputs and calls, set of codecs,
set of faults and set of configurations, from `ConstantsAssumption` alone:

* `SessionInvariant`: the inductive invariant `IInv`;
* `SessionTypes`, `ReturnedCallsCloseOutputs` (`IdleOutputsClosed`),
  `OutputsAreNeverOverwritten` (`OutputsNeverLeak`) and `HwEncodersOutliveCalls`
  (`HwEncoderKept`).

`IdleOutputsClosed` speaks of returned calls; to know it after a step of the
next call, `IInv` extends it to every state before outputs are opened
(`RestingClosed`). `OutputsNeverLeak` needs that what is opened for the first
time is blank: outputs not yet initialised are (`UninitBlank`, `FreshBlank`,
`UnusedBlank`), and those initialised are reopened only when closed, or belong
to a transmuxed session, which reopens none (`OnlyTransmuxersTransmux`). The proof has
a lemma for each operation on a context, one for each action or small group of
actions, and shares `ShutdownStep` among all failing steps.

`SessionCalls_proofs` goes on from there, each theorem with as few faults ruled
out as it needs:

| Theorem | Ruled out |
|---|---|
| `CallsReadTheirOwnInput`, `OnlyMpegtsStaysOpen` | `count`: see `SessionStaleDemuxer` |
| `InputsAreNeverOverwritten` (`InputNeverLeaks`) | also `params` and a failing `open_input` (`demux`, `info`, `vdec`, `adec`) |
| `DemuxersKnowTheirAudio` | also `pixfmt`, and transmuxed sessions |
| `PacketsProcessedRightly` (`ProcessesRightly`) | all but the faults of `SessionTranscode` |

The last needs the others. What a packet finds is known from what is open
(`InputInv`: `InputKept` says who keeps a demuxer between calls), from what
`started` and the handle remember of the decoders (`DecoderInv`), from the
agreement of `lastacodec` with the demuxer (`AudioInv`: `AudioKept`), and at last
from the fit of outputs to inputs (`InputFits`, `OutputsInv`: an output that is
ready has the encoder and streams its parameters ask for).

### Decoding

`DecodeLoop_proofs`: `LoopTypes`, and `FlushComplete` (`FlushReturnsAll`) for
`Delay <= SentinelMax + 1` while no call failed and no frame was lost or doubled.
The invariant (`Balance`) says what the decoder holds: sentinels of an earlier
flush, then as many frames as `pkt_diff` says are missing, then at least as many
sentinels as were counted (`Shape`). A decoder that waits with the full
count would hold more than its delay; so it does not wait, and the frame comes.

On it rest `VideoDelivered` (`VideoComplete`), `AudioDelivered` (`AudioComplete`)
and `PacketsCopied` (`EveryPacketCopied`, without a clip). For each of the three
flows the invariant says that what was handed on, then what the frame queue and
the locals of the round hold (`Passing`), then what the decoder holds between
sentinels (`Contains`, `Follows`), then the packet that is held back, together are
what was read (`VideoFlow`, `AudioFlow`, `CopyFlow`). At the end the last parts
are empty: the item that tells the end is the last of the queue. A refused packet
is copied twice; it is then the newest of all, so the order stays (`Ledger`).

### Encoding

`EncodeFrames_proofs`, for all sessions, frame times, delays and bounds, from
`EncodeAssumption`:

* `EncodeTypes`; `RunawaysStopped` (`RunawayStopped`): while frames come, those
  sent and those in the filter are at most the ticks between the first frame and
  the last (`Counted`), so a call that runs away has a hole of that size;
* `FramesEncoded` (`EveryFrameEncoded`): `Progress` is the abstract statement, that
  what is due before a time, and in the clip, has been sent, in order, and
  nothing else. `Sending` says it of the time `nx` that is reached, which the frames
  in the filter continue (`At`), through the flush and after the call; `Start`,
  that the clip begins with the first frame of the session; `Shown`, that each tick
  has a frame to show. Calls of a session are linked by `Start` alone;
* `TimesIncreasing` (`TimesIncrease`, from `Encoders` and `Muxed`) and
  `KeyframesMarked` (`KeyframesOnTime`, from `Keyframes`: the next keyframe is due
  a GOP after the last);
* `AudioDelivered` (`AudioComplete`): what is at the muxer and in the encoder has
  the numbers of all audio decoded but the one in the filter (`AudioNumbers`), and
  lies in the clip (`AudioClip`), and is nothing before the video if the clip does not
  start at tick 0. `AudioStart` is why it is the first segment only: the
  filter stays open until its flush, or for good if no video was sent.

Two things were changed for these proofs. `Runaway` is positive
(it is 25 in the code): with 0 the first frame of a clip would be refused
after it let the audio in. And `EveryFrameEncoded` had said of an output
with a frame rate that something is sent unless it has a start; with an end
alone a segment beyond it sends nothing, so it now says this of outputs without either.

### Timestamps

`TransmuxClock_proofs` begins with `mux` itself, for all streams, timestamps and
formats, from `MuxAssumption`: `MuxInvariant`, `MuxNeverLate` (`NeverLatePts`),
`MuxImplementsOrderedMux` (`OrderedSpec`) and `MuxKeepsDtsOrder`
(`DtsIncreases`). The invariant adds that the field for the last DTS and the
last packet sent agree (`Remembers`), which is what lets a step of `mux` be
compared with a step of `OrderedMux`, and that only a padded encoder has a
preroll (`NoPreroll`); the former agreement is what `TransmuxClock`
does not have at its start, which is why its property begins with the first
packet that reached the muxer unchanged.

Of the transmux clock it proves `ClockTypesHold`, `ClocksGoForward` (`ClockForward`),
`NothingSkippedInOrder` (`InOrderKept`, from `DurationKnown` and `NextInOrder`:
what follows is not before the clock), and `CopiedTimesStay` (`StaysAsCopied`,
from `Agree`: mux was given nothing after the clock, converted). All hold for any time
bases, unknown times and sums that wrap. The second supposes that packets
have durations; the third one stream of each kind, as mux keeps one
last DTS for each. It rests on the lemmas about `Ticks`: rounding keeps the order, and
two times a whole tick of the muxer apart stay apart.

### Concurrent parts

`WaitQueue_proofs`: `QueueInvariant`, `QueueTypes`, `HandOffWorks` (`HandOff`),
`NoItemsKeptFromPolls` (`NoneWaitsForItems`, cancelled polls apart) and
`ItemsInOrder` (`InOrderOnce`, without `ExecuteInParallel`), for Puts of any number
of items. A waiter takes its
items without the lock, so the proof rests on who has it: `LockHeld` says which
goroutine is inside, `OwnSemas`, `Unasked` and `AskedOnce` that a semaphore in
the queue belongs to one waiting goroutine that nobody woke yet, `Queued`,
`Offered` and `NoneLeftOver` that items stay only if they were offered to nobody.

`RtmpStream_proofs`: `StreamInvariant`, `StreamTypes`, `ListenersGetAll`
(`EveryPacketSinceJoining`) and `RemovedGetNothing` (`NothingAfterRemoval`). The
core is `WorkerKeeps`: the worker's copy is the table of listeners unless the
dirty flag is set; `Untouched`, `UpToDate` and `LeftInTime` say what each player
has, from where in its loop the worker is. `StreamBroadcasts` (`BroadcastSpec`)
adds what whoever is still to be written to has (`InFlight`), removed or not, and
maps each step: `Refresh` to `Send`, `WritePacket` to `Receive`, `AddListener` and
the first removal to `Join` and `Leave`, all else to a stutter.

`HlsSegmenter_proofs`: `SegmentsComplete` (`AddedComplete`), `StreamWindow`
(`WindowAgrees`, for `WinSize < Capacity`) and `TimeoutsNotEarly`
(`TimeoutMeansSilence`). No lock guards the files: `AttemptFiles` says that all of
them are of the attempt that runs, `Polling` and `GotNext` what a poller that saw
the next file knows of the one it reads, namely that the remuxer has left it and
is not back at it before it is read; `WindowInserted` is the lemma about the
window, `Waiting` counts sleeps.

### Only model-checked

The liveness properties (`CallEnds` of both modules, `LockReleased`,
`CloseReachesAll`, `SegmentingEnds`): fairness is beyond the prover. Every other
property of the passing runs is a theorem, under the hypotheses named above. The
configurations of section 3 that find a disagreement show behaviours and prove
nothing beyond them.

## 5. Not modelled, and the plan

Not modelled: SEI fixup and video profiles, signature comparison and match
information, the building of filter graphs (their use is modelled), the choice
of a pixel format and hardware device, the branch for image sequences,
`PollPlaylist`, the HLS manifest, the two servers `Start` waits for, HLS handlers
of the player (they keep no state), the generated protobuf code, the
command-line examples, build scripts, logging and metrics. FFmpeg and joy4 are
modelled by what the code expects of them: a call succeeds or fails, a packet
has a kind and times, a decoder or filter holds back a few frames.

Planned, most important first:

1. Abstract specifications: a session as open, calls, stop; `DecodeLoop` as a
   lossless line; the wait queue as one whose polls are atomic.
2. `DecodeLoop` composed with `EncodeFrames`, so that sentinels and the copies
   that flush a filter meet in one model.
3. Pure functions: SEI and NAL parsing, match and signature comparison, profile
   conversions, checked against references over bounded inputs.

## 6. Running

In this directory: `tlc -config SessionFaults.cfg MCTranscodeSession` and so on
for the pairs in `PROJECT.json` and in the table of disagreements, and `tlapm`
on `TranscodeSession_proofs.tla`, `SessionCalls_proofs.tla`,
`DecodeLoop_proofs.tla`, `EncodeFrames_proofs.tla`, `TransmuxClock_proofs.tla`,
`WaitQueue_proofs.tla`, `RtmpStream_proofs.tla` and `HlsSegmenter_proofs.tla`.
Definitions under a comment that begins with "Mutant" are faulty variants of the
definition after them: put in its place, each makes the property named in
`PROJECT.json` fail.
