----------------------------- MODULE HlsSegmenter -----------------------------
(* SegmentRTMPToHLS: one goroutine runs the remuxer, which writes numbered   *)
(* segment files and a playlist, again if it fails; another polls the files  *)
(* and adds what is complete to the HLS stream; the caller waits for the     *)
(* first of them to report, or is cancelled.  Both share the files and the   *)
(* number of the segment that is polled next.                                *)
(*                                                                           *)
(* The muxer that writes the files is external: it begins the next file when *)
(* one is complete, and some time later lists it and deletes old ones.  A    *)
(* segment is told apart by its number and by the attempt that wrote it.     *)
(* The playlist of the HLS stream, a ring of the m3u8 library, is external.  *)
EXTENDS Integers, Sequences, FiniteSets

CONSTANTS
  StartSeq,            \* the number of the first segment
  RetryCount,          \* attempts of either goroutine
  PlaylistRetryCount,  \* looks into the playlist for the length of a segment
  MaxWait,             \* 10 * SegLen, in sleeps of a poll
  ListSize,            \* segments the muxer lists and does not delete
  Length,              \* what its length in the playlist is read as, per segment
  WinSize,             \* winSize of the HLS stream
  Capacity,            \* DefaultHLSStreamCap, of the playlist of the HLS stream
  MaxSegs,             \* bound on the segments
  Reports              \* capacity of the channel for the reports: 1 in the code

ASSUME SegmenterAssumption ==
  /\ StartSeq \in Nat /\ RetryCount \in Nat \ {0} /\ PlaylistRetryCount \in Nat \ {0}
  /\ MaxWait \in Nat /\ ListSize \in Nat \ {0} /\ WinSize \in Nat \ {0}
  /\ Capacity \in Nat /\ WinSize <= Capacity
  /\ Length \in [StartSeq..StartSeq + MaxSegs -> {"some", "zero", "unparsed"}]
  /\ MaxSegs \in Nat /\ Reports \in Nat \ {0}

VARIABLES
  files,       \* the segment files: which attempt wrote each, and whether to its end
  listed,      \* the numbers in the playlist
  remux,       \* the goroutine of the remuxer
  poll,        \* the goroutine that polls
  curSegment,  \* the number of the segment to poll, shared by both
  c,           \* the channel of the reports
  main,        \* SegmentRTMPToHLS: the report it returned, or "left" its context
  hls,         \* the HLS stream: plCache, segNames, segMap
  added,       \* the segments added so far
  silence      \* sleeps of the poller since it found a segment

vars == <<files, listed, remux, poll, curSegment, c, main, hls, added, silence>>

Attempts == 1..RetryCount
File == [attempt : Attempts, whole : BOOLEAN]
Segment == [n : Nat, attempt : Attempts, complete : BOOLEAN]
None == [n |-> 0, attempt |-> 1, complete |-> FALSE]
Errors == {"nil", "canceled", "timeout", "error"}

\* open: the file the muxer writes to; doomed: files Cleanup has yet to remove.
Remuxer == [pc : {"start", "write", "cleanup", "report", "done"}, i : Attempts,
            open : Int, err : Errors, doomed : SUBSET Nat]
Poller == [pc : {"stat", "read", "list", "add", "report", "done"}, i : Attempts,
           wait : Nat, tries : Nat, unparsed : BOOLEAN, got : Segment, err : Errors]

SegTypeOK ==
  /\ DOMAIN files \subseteq Nat /\ \A n \in DOMAIN files : files[n] \in File
  /\ listed \subseteq Nat
  /\ remux \in Remuxer /\ poll \in Poller
  /\ curSegment \in Nat
  /\ c \in Seq(Errors) /\ Len(c) <= Reports
  /\ main \in Errors \cup {"waiting", "left"}
  /\ hls.list \in Seq(Nat) /\ hls.names \in Seq(Nat) /\ DOMAIN hls.map \subseteq Nat
  /\ added \in Seq(Segment)
  /\ silence \in Nat

-----------------------------------------------------------------------------
(* The remuxer.                                                             *)

NoFile == -1

\* The muxer begins file n in attempt i; it has come to the end of file n.
Begun(f, n, i) == [m \in DOMAIN f \cup {n} |->
                     IF m = n THEN [attempt |-> i, whole |-> FALSE] ELSE f[m]]
Ended(f, n) == [m \in DOMAIN f |-> IF m = n THEN [f[m] EXCEPT !.whole = TRUE] ELSE f[m]]

\* lpms_rtmp2hls opens its input and writes the header: the muxer begins the
\* segment that is polled next.
RemuxStart ==
  /\ remux.pc = "start"
  /\ remux' = [remux EXCEPT !.pc = "write", !.open = curSegment]
  /\ files' = Begun(files, curSegment, remux.i)
  /\ UNCHANGED <<listed, poll, curSegment, c, main, hls, added, silence>>

\* The segment is complete.
NextSegment ==
  /\ remux.pc = "write" /\ remux.open < StartSeq + MaxSegs
  /\ remux' = [remux EXCEPT !.open = @ + 1]
  /\ files' = Begun(Ended(files, remux.open), remux.open + 1, remux.i)
  /\ UNCHANGED <<listed, poll, curSegment, c, main, hls, added, silence>>

\* hls_flags delete_segments.
WritePlaylist ==
  /\ remux.pc = "write"
  /\ LET kept == {n \in DOMAIN files : n >= remux.open - ListSize}
     IN  /\ listed' = kept \ {remux.open}
         /\ files' = [n \in kept |-> files[n]]
  /\ <<listed, files>>' # <<listed, files>>
  /\ UNCHANGED <<remux, poll, curSegment, c, main, hls, added, silence>>

\* The source is at its end and the trailer completes the last segment, or
\* reading, writing or opening fails and the muxer is freed without one, which cuts
\* it off.  An input without video or audio counts as nil: its code, 1, is not in
\* ErrorMap.  Cleanup lists the files.
RemuxEnds ==
  /\ remux.pc \in {"start", "write"}
  /\ \E err \in {"nil", "error"} :
       /\ remux' = [remux EXCEPT !.pc = "cleanup", !.open = NoFile, !.err = err,
                                 !.doomed = DOMAIN files]
       /\ files' = IF err = "nil" THEN Ended(files, remux.open) ELSE files
  /\ UNCHANGED <<listed, poll, curSegment, c, main, hls, added, silence>>

\* One file after the other; the playlist is one of them.
RemoveFile ==
  /\ remux.pc = "cleanup"
  /\ \/ \E n \in remux.doomed :
          /\ remux' = [remux EXCEPT !.doomed = @ \ {n}]
          /\ files' = [m \in DOMAIN files \ {n} |-> files[m]]
          /\ UNCHANGED listed
     \/ /\ listed # {}
        /\ listed' = {}
        /\ UNCHANGED <<files, remux>>
  /\ UNCHANGED <<poll, curSegment, c, main, hls, added, silence>>

\* rtmpToHLS tries again after SegmenterRetryWait, which is long enough for the
\* two calls of a poll that has seen the next file and is about to read this one.
RemuxAgain ==
  /\ remux.pc = "cleanup" /\ remux.doomed = {} /\ listed = {}
  /\ IF remux.err = "error" /\ remux.i < RetryCount
     THEN /\ poll.pc # "read"
          /\ remux' = [remux EXCEPT !.pc = "start", !.i = @ + 1]
     ELSE remux' = [remux EXCEPT !.pc = "report"]
  /\ UNCHANGED <<files, listed, poll, curSegment, c, main, hls, added, silence>>

-----------------------------------------------------------------------------
(* The poller.                                                              *)

Canceled == main # "waiting"

\* A poll that fails is tried again after SegmenterRetryWait, unless canceled.
Failed(err) ==
  IF err # "canceled" /\ poll.i < RetryCount
  THEN [poll EXCEPT !.pc = "stat", !.i = @ + 1]
  ELSE [poll EXCEPT !.pc = "report", !.err = err]

\* Mutant: the file itself is looked for.
IsCompleteHere == curSegment \in DOMAIN files

\* The file of the next segment is the signal for the completion of this one.
IsComplete == curSegment + 1 \in DOMAIN files

PollStat ==
  /\ poll.pc = "stat" /\ IsComplete
  /\ poll' = [poll EXCEPT !.pc = "read"]
  /\ UNCHANGED <<files, listed, remux, curSegment, c, main, hls, added, silence>>

\* Mutant: the waiting time goes on.
FoundStillWaiting(p) == [p EXCEPT !.pc = "list", !.tries = 0, !.unparsed = FALSE]

\* The waiting time begins anew only when a segment is found.
Found(p) == [p EXCEPT !.pc = "list", !.tries = 0, !.unparsed = FALSE, !.wait = 0]

PollRead ==
  /\ poll.pc = "read"
  /\ IF curSegment \in DOMAIN files
     THEN /\ poll' = [Found(poll) EXCEPT !.got =
                        [n |-> curSegment, attempt |-> files[curSegment].attempt,
                         complete |-> files[curSegment].whole]]
          /\ silence' = 0
     ELSE poll' = Failed("error") /\ UNCHANGED silence
  /\ UNCHANGED <<files, listed, remux, curSegment, c, main, hls, added>>

PollSleep ==
  /\ poll.pc = "stat" /\ ~IsComplete /\ ~Canceled /\ poll.wait <= MaxWait
  /\ poll' = [poll EXCEPT !.wait = @ + 1]
  /\ silence' = silence + 1
  /\ UNCHANGED <<files, listed, remux, curSegment, c, main, hls, added>>

PollTimeout ==
  /\ poll.pc = "stat" /\ ~IsComplete /\ ~Canceled /\ poll.wait > MaxWait
  /\ poll' = Failed("timeout")
  /\ UNCHANGED <<files, listed, remux, curSegment, c, main, hls, added, silence>>

PollCanceled ==
  /\ poll.pc = "stat" /\ ~IsComplete /\ Canceled
  /\ poll' = Failed("canceled")
  /\ UNCHANGED <<files, listed, remux, curSegment, c, main, hls, added, silence>>

\* The error of the last look that found the segment in the playlist: ParseDuration
\* does not read the 1e-05 that a very short length is printed as.
Unparsed == IF curSegment \in listed THEN Length[curSegment] = "unparsed" ELSE poll.unparsed

\* The length of the segment is looked up by its name; after PlaylistRetryCount
\* looks it stays 0.  The segment counts as polled even if its length was not
\* parsed and the poll fails.
PollList ==
  /\ poll.pc = "list"
  /\ IF (curSegment \in listed /\ Length[curSegment] = "some")
        \/ poll.tries + 1 = PlaylistRetryCount
     THEN /\ poll' = IF Unparsed THEN Failed("error") ELSE [poll EXCEPT !.pc = "add"]
          /\ curSegment' = curSegment + 1
     ELSE /\ poll' = [poll EXCEPT !.tries = @ + 1, !.unparsed = Unparsed]
          /\ UNCHANGED curSegment
  /\ UNCHANGED <<files, listed, remux, c, main, hls, added, silence>>

\* AppendSegment fails when the playlist is full, and nobody looks at its error.
AppendSegment(list, n) == IF Len(list) < Capacity THEN Append(list, n) ELSE list

\* Mutant: the map keeps the segment that the playlist drops.
WindowedPlaylist(s) == IF Len(s.list) > WinSize
                       THEN [s EXCEPT !.list = Tail(@), !.names = Tail(@)] ELSE s

\* AddHLSSegment removes the oldest segment once the playlist is longer than the
\* window: from the playlist its first, from the map the first of segNames.
Windowed(s) ==
  IF Len(s.list) > WinSize
  THEN [list |-> Tail(s.list), names |-> Tail(s.names),
        map |-> [n \in DOMAIN s.map \ {Head(s.names)} |-> s.map[n]]]
  ELSE s

Inserted(s, seg) ==
  IF seg.n \in DOMAIN s.map THEN s
  ELSE Windowed([list |-> AppendSegment(s.list, seg.n),
                 names |-> Append(s.names, seg.n),
                 map |-> [n \in DOMAIN s.map \cup {seg.n} |->
                            IF n = seg.n THEN seg ELSE s.map[n]]])

\* AddHLSSegment and its subscriber; the poller then looks whether it is canceled.
PollAdd ==
  /\ poll.pc = "add"
  /\ hls' = Inserted(hls, poll.got)
  /\ added' = IF poll.got.n \in DOMAIN hls.map THEN added ELSE Append(added, poll.got)
  /\ poll' = IF Canceled THEN [poll EXCEPT !.pc = "report", !.err = "canceled"]
             ELSE [poll EXCEPT !.pc = "stat", !.i = 1]
  /\ UNCHANGED <<files, listed, remux, curSegment, c, main, silence>>

-----------------------------------------------------------------------------
(* The reports.                                                             *)

\* Mutant: the channel has no buffer, and a report needs somebody waiting.
CanReportUnbuffered == main = "waiting" /\ Len(c) < Reports

CanReport == Len(c) < Reports

RemuxReport ==
  /\ remux.pc = "report" /\ CanReport
  /\ c' = Append(c, remux.err)
  /\ remux' = [remux EXCEPT !.pc = "done"]
  /\ UNCHANGED <<files, listed, poll, curSegment, main, hls, added, silence>>

PollReport ==
  /\ poll.pc = "report" /\ CanReport
  /\ c' = Append(c, poll.err)
  /\ poll' = [poll EXCEPT !.pc = "done"]
  /\ UNCHANGED <<files, listed, remux, curSegment, main, hls, added, silence>>

\* The first report is what the caller gets; both contexts are canceled.
Receive ==
  /\ main = "waiting" /\ c # <<>>
  /\ main' = Head(c)
  /\ c' = Tail(c)
  /\ UNCHANGED <<files, listed, remux, poll, curSegment, hls, added, silence>>

\* The context of the caller is done: nobody reads the channel any more.
CallerDone ==
  /\ main = "waiting"
  /\ main' = "left"
  /\ UNCHANGED <<files, listed, remux, poll, curSegment, c, hls, added, silence>>

-----------------------------------------------------------------------------
Init ==
  /\ files = <<>> /\ listed = {}
  /\ remux = [pc |-> "start", i |-> 1, open |-> NoFile, err |-> "nil", doomed |-> {}]
  /\ poll = [pc |-> "stat", i |-> 1, wait |-> 0, tries |-> 0, unparsed |-> FALSE,
             got |-> None, err |-> "nil"]
  /\ curSegment = StartSeq
  /\ c = <<>> /\ main = "waiting"
  /\ hls = [list |-> <<>>, names |-> <<>>, map |-> <<>>]
  /\ added = <<>> /\ silence = 0

Remux == \/ RemuxStart \/ NextSegment \/ WritePlaylist \/ RemuxEnds \/ RemoveFile
         \/ RemuxAgain \/ RemuxReport
Poll == \/ PollStat \/ PollRead \/ PollSleep \/ PollTimeout \/ PollCanceled
        \/ PollList \/ PollAdd \/ PollReport

Next == Remux \/ Poll \/ Receive \/ CallerDone

Spec == Init /\ [][Next]_vars

\* Goroutines go on while they can, and every source ends at last.
FairSpec ==
  /\ Spec
  /\ WF_vars(RemuxEnds) /\ WF_vars(RemoveFile) /\ WF_vars(RemuxAgain) /\ WF_vars(RemuxReport)
  /\ WF_vars(Poll) /\ WF_vars(Receive)

-----------------------------------------------------------------------------
(* Properties.                                                              *)

\* What is added to the stream is complete, and no segment is older than one
\* added before it: although files are removed one by one while they are polled,
\* the same numbers are used again by the next attempt, and the poller counts on
\* its own (video_segmenter.go:220).
AddedComplete ==
  /\ \A i \in DOMAIN added : added[i].complete
  /\ \A i, j \in DOMAIN added :
       i < j => added[i].n < added[j].n /\ added[i].attempt <= added[j].attempt

\* The playlist of the stream lists the last WinSize segments added, and for
\* each of them the map has just that segment and no other (basic_hls_videostream
\* .go:88-97).  A window of the playlist's whole capacity breaks this.
WindowAgrees ==
  LET from == IF Len(added) > WinSize THEN Len(added) - WinSize ELSE 0
  IN  /\ hls.list = [i \in 1..Len(added) - from |-> added[from + i].n]
      /\ hls.names = hls.list
      /\ DOMAIN hls.map = {hls.names[i] : i \in DOMAIN hls.names}
      /\ \A i \in DOMAIN hls.names : hls.map[hls.names[i]] = added[from + i]

\* The poller reports a timeout only if no segment was found for longer than the
\* waiting time, in all its retries together (video_segmenter.go:234).
TimeoutMeansSilence == poll.err = "timeout" => silence > MaxWait

\* When its source ends, the remuxer is over after its retries, and the poller
\* after its waiting time or when it is canceled: the caller returns and both end,
\* except that the second has nobody to report to once the caller has left with
\* its context (lpms.go:155-210).
Over(p) == p.pc = "done" \/ (p.pc = "report" /\ main = "left" /\ Len(c) = Reports)

SegmentingEnds == <>[](main # "waiting" /\ Over(remux) /\ Over(poll))
=============================================================================
