------------------------- MODULE HlsSegmenter_proofs -------------------------
(* For every number of retries, waiting time, window and bound on segments:  *)
(* the remuxer and the poller share files, but what the poller adds is       *)
(* complete and in order, the HLS stream has the window of it, and a timeout *)
(* means that nothing was found for that long.                               *)
EXTENDS HlsSegmenter, SequenceTheorems, TLAPS

-----------------------------------------------------------------------------
(* Types.                                                                   *)

\* What AddHLSSegment makes of a stream and a segment has the type of a stream.
\* The playlist is never longer than segNames.
StreamOK(s) ==
  /\ s.list \in Seq(Nat) /\ s.names \in Seq(Nat) /\ DOMAIN s.map \subseteq Nat
  /\ Len(s.list) <= Len(s.names)

LEMMA TailFacts ==
  ASSUME NEW q \in Seq(Nat), Len(q) > 0
  PROVE  Tail(q) \in Seq(Nat) /\ Len(Tail(q)) = Len(q) - 1
OBVIOUS

LEMMA InsertedOK ==
  ASSUME NEW s, StreamOK(s), NEW seg \in Segment
  PROVE  StreamOK(Inserted(s, seg))
<1> DEFINE t == [list |-> AppendSegment(s.list, seg.n),
                 names |-> Append(s.names, seg.n),
                 map |-> [n \in DOMAIN s.map \cup {seg.n} |->
                            IF n = seg.n THEN seg ELSE s.map[n]]]
<1>0. /\ s.list \in Seq(Nat) /\ s.names \in Seq(Nat) /\ seg.n \in Nat
      /\ Len(s.list) \in Nat /\ Len(s.names) \in Nat /\ Len(s.list) <= Len(s.names)
  BY DEF StreamOK, Segment
<1>1. /\ t.list \in Seq(Nat) /\ Len(t.list) \in {Len(s.list), Len(s.list) + 1}
      /\ t.names \in Seq(Nat) /\ Len(t.names) = Len(s.names) + 1
      /\ DOMAIN t.map \subseteq Nat
  BY <1>0 DEF StreamOK, AppendSegment
<1>2. Len(t.list) <= Len(t.names) /\ Len(t.list) \in Nat /\ Len(t.names) \in Nat BY <1>0, <1>1
<1> HIDE DEF t
<1>3. StreamOK(Windowed(t))
  <2>1. CASE Len(t.list) > WinSize
    <3>1. Windowed(t) = [list |-> Tail(t.list), names |-> Tail(t.names),
                         map |-> [n \in DOMAIN t.map \ {Head(t.names)} |-> t.map[n]]]
      BY <2>1 DEF Windowed
    <3>2. WinSize \in Nat BY SegmenterAssumption
    <3>3. Len(t.list) > 0 /\ Len(t.names) > 0 BY <1>0, <1>1, <1>2, <2>1, <3>2
    <3>4. /\ Tail(t.list) \in Seq(Nat) /\ Len(Tail(t.list)) = Len(t.list) - 1
          /\ Tail(t.names) \in Seq(Nat) /\ Len(Tail(t.names)) = Len(t.names) - 1
      BY <1>1, <3>3, TailFacts
    <3>5. Len(Tail(t.list)) <= Len(Tail(t.names)) BY <1>0, <1>1, <1>2, <3>4
    <3> DEFINE u == Windowed(t)
    <3>6. u.list = Tail(t.list) /\ u.names = Tail(t.names) /\ DOMAIN u.map \subseteq DOMAIN t.map
      BY <3>1
    <3> HIDE DEF u
    <3>7. StreamOK(u) BY <1>1, <3>4, <3>5, <3>6 DEF StreamOK
    <3> QED BY <3>7 DEF u
  <2>2. CASE ~(Len(t.list) > WinSize)
    BY <1>1, <1>2, <2>2 DEF Windowed, StreamOK
  <2> QED BY <2>1, <2>2
<1>4. CASE seg.n \in DOMAIN s.map BY <1>4 DEF Inserted
<1>5. CASE seg.n \notin DOMAIN s.map
  <2>1. Inserted(s, seg) = Windowed(t) BY <1>5 DEF Inserted, t
  <2> QED BY <1>3, <2>1
<1> QED BY <1>4, <1>5

\* What files there are while the remuxer is at each of its steps.  All are of
\* its present attempt, and all but the last are whole.
AttemptFiles ==
  /\ \A n \in DOMAIN files : files[n] \in File /\ files[n].attempt = remux.i
  /\ \A n, m \in DOMAIN files : n < m => files[n].whole
  /\ remux.pc = "write" =>
       remux.open \in DOMAIN files /\ remux.open \in Nat /\ \A n \in DOMAIN files : n <= remux.open
  /\ remux.pc # "write" => remux.open = NoFile
  /\ remux.pc = "cleanup" => DOMAIN files \subseteq remux.doomed
  /\ remux.pc \in {"start", "report", "done"} => DOMAIN files = {}

TypeInv == SegTypeOK /\ AttemptFiles /\ Len(hls.list) <= Len(hls.names)

LEMMA EndedFiles ==
  ASSUME NEW f, NEW n, \A m \in DOMAIN f : f[m] \in File
  PROVE  /\ DOMAIN Ended(f, n) = DOMAIN f
         /\ \A m \in DOMAIN f :
              /\ Ended(f, n)[m] \in File
              /\ Ended(f, n)[m].attempt = f[m].attempt
              /\ f[m].whole \/ m = n => Ended(f, n)[m].whole
BY DEF Ended, File

LEMMA TypesInit == Init => TypeInv
<1> SUFFICES ASSUME Init PROVE TypeInv OBVIOUS
<1> USE SegmenterAssumption
<1>1. remux \in Remuxer BY DEF Init, Remuxer, Attempts, Errors, NoFile
<1>2. None \in Segment BY DEF None, Segment, Attempts
<1>3. poll \in Poller BY <1>2 DEF Init, Poller, Attempts, Errors
<1>4. c \in Seq(Errors) /\ Len(c) <= Reports BY DEF Init
<1>5. added \in Seq(Segment) BY DEF Init
<1>6. DOMAIN files = {} BY DEF Init
<1>7. /\ hls.list \in Seq(Nat) /\ hls.names \in Seq(Nat) /\ DOMAIN hls.map \subseteq Nat
      /\ Len(hls.list) <= Len(hls.names)
  BY DEF Init
<1>8. AttemptFiles BY <1>6 DEF Init, AttemptFiles
<1> QED BY <1>1, <1>3, <1>4, <1>5, <1>6, <1>7, <1>8 DEF Init, SegTypeOK, TypeInv

LEMMA RemuxerOpens ==
  ASSUME NEW r \in Remuxer, NEW o \in Int,
         NEW p \in {"start", "write", "cleanup", "report", "done"}
  PROVE  [r EXCEPT !.pc = p, !.open = o] \in Remuxer /\ [r EXCEPT !.open = o] \in Remuxer
BY DEF Remuxer

LEMMA RemuxerCleans ==
  ASSUME NEW r \in Remuxer, NEW e \in Errors, NEW o \in Int, NEW D \in SUBSET Nat
  PROVE  [r EXCEPT !.pc = "cleanup", !.open = o, !.err = e, !.doomed = D] \in Remuxer
BY DEF Remuxer

\* A step of the remuxer changes files, listed and remux only.
LEMMA TypesOfFiles ==
  ASSUME TypeInv,
         UNCHANGED <<poll, curSegment, main, hls, added, silence>>,
         c' \in Seq(Errors) /\ Len(c') <= Reports,
         DOMAIN files' \subseteq Nat, listed' \subseteq Nat, remux' \in Remuxer,
         AttemptFiles'
  PROVE  TypeInv'
<1>1. \A n \in DOMAIN files' : files'[n] \in File BY DEF AttemptFiles
<1> QED BY <1>1 DEF TypeInv, SegTypeOK

LEMMA TypesRemux ==
  ASSUME TypeInv, Remux
  PROVE  TypeInv'
<1> USE SegmenterAssumption
<1>0. /\ remux \in Remuxer /\ c \in Seq(Errors) /\ Len(c) <= Reports
      /\ DOMAIN files \subseteq Nat /\ listed \subseteq Nat /\ curSegment \in Nat
      /\ remux.i \in Attempts
  BY DEF TypeInv, SegTypeOK, Remuxer
<1>f. /\ \A n \in DOMAIN files : files[n] \in File /\ files[n].attempt = remux.i
      /\ \A n, m \in DOMAIN files : n < m => files[n].whole
  BY DEF TypeInv, AttemptFiles
<1>1. CASE RemuxStart
  <2>1. remux' \in Remuxer
    <3>1. curSegment \in Int BY <1>0
    <3>2. remux' = [remux EXCEPT !.pc = "write", !.open = curSegment] BY <1>1 DEF RemuxStart
    <3> QED BY <1>0, <3>1, <3>2, RemuxerOpens
  <2>2. /\ DOMAIN files' = {curSegment} /\ files'[curSegment] \in File
        /\ files'[curSegment].attempt = remux.i
    <3>1. DOMAIN files = {} /\ files' = Begun(files, curSegment, remux.i)
      BY <1>1 DEF RemuxStart, TypeInv, AttemptFiles
    <3>2. DOMAIN files' = DOMAIN files \cup {curSegment} /\ files'[curSegment] \in File
          /\ files'[curSegment].attempt = remux.i
      BY <1>0, <3>1 DEF Begun, File
    <3> QED BY <3>1, <3>2
  <2>3. remux'.pc = "write" /\ remux'.open = curSegment /\ remux'.i = remux.i
    BY <1>0, <1>1 DEF RemuxStart, Remuxer
  <2>4. AttemptFiles' BY <1>0, <2>2, <2>3 DEF AttemptFiles
  <2> QED BY <1>0, <1>1, <2>1, <2>2, <2>4, TypesOfFiles DEF RemuxStart
<1>2. CASE NextSegment
  <2>0. remux.open \in Nat BY <1>2 DEF NextSegment, TypeInv, AttemptFiles
  <2>1. remux' \in Remuxer
    <3>1. remux.open + 1 \in Int BY <2>0
    <3>2. remux' = [remux EXCEPT !.open = remux.open + 1] BY <1>2 DEF NextSegment
    <3> QED BY <1>0, <3>1, <3>2, RemuxerOpens
  <2> DEFINE e == Ended(files, remux.open)
             o == remux.open + 1
  <2>a. files' = Begun(e, o, remux.i) BY <1>2 DEF NextSegment
  <2>b. /\ DOMAIN e = DOMAIN files
        /\ \A m \in DOMAIN files :
             e[m] \in File /\ e[m].attempt = remux.i /\ (files[m].whole \/ m = remux.open => e[m].whole)
    BY <1>f, EndedFiles
  <2> HIDE DEF e
  <2>c. /\ DOMAIN files' = DOMAIN e \cup {o}
        /\ files'[o] \in File /\ files'[o].attempt = remux.i
        /\ \A m \in DOMAIN e : m # o => files'[m] = e[m]
    BY <1>0, <2>a DEF Begun, File
  <2>2. DOMAIN files' = DOMAIN files \cup {remux.open + 1} BY <2>b, <2>c
  <2>3. \A n \in DOMAIN files' : files'[n] \in File /\ files'[n].attempt = remux.i
    BY <1>0, <2>b, <2>c
  <2>w. \A n, m \in DOMAIN files' : n < m => files'[n].whole
    <3> SUFFICES ASSUME NEW n \in DOMAIN files', NEW m \in DOMAIN files', n < m
                 PROVE  files'[n].whole
      OBVIOUS
    <3>a. remux.pc = "write" BY <1>2 DEF NextSegment
    <3>b. \A k \in DOMAIN files : k <= remux.open BY <3>a DEF TypeInv, AttemptFiles
    <3>1. \A k \in DOMAIN files : k \in Nat /\ k <= remux.open BY <1>0, <3>b
    <3>2. n # o BY <1>0, <2>0, <2>2, <3>1
    <3>3. n \in DOMAIN files /\ files'[n] = e[n] BY <2>b, <2>c, <3>2
    <3>4. files[n].whole \/ n = remux.open
      <4>1. CASE m \in DOMAIN files BY <1>f, <3>3, <4>1
      <4>2. CASE m = o
        <5>1. CASE remux.open \in DOMAIN files /\ n # remux.open
          <6>1. n < remux.open BY <2>0, <3>1, <3>3, <5>1
          <6> QED BY <1>f, <3>3, <5>1, <6>1
        <5>2. CASE n = remux.open BY <5>2
        <5>3. remux.open \in DOMAIN files BY <1>2 DEF NextSegment, TypeInv, AttemptFiles
        <5> QED BY <5>1, <5>2, <5>3
      <4> QED BY <2>2, <4>1, <4>2
    <3> QED BY <2>b, <3>3, <3>4
  <2>4. remux'.pc = "write" /\ remux'.open = remux.open + 1 /\ remux'.i = remux.i
    BY <1>0, <1>2 DEF NextSegment, Remuxer
  <2>5. \A n \in DOMAIN files' : n <= remux.open + 1
    <3>1. remux.pc = "write" BY <1>2 DEF NextSegment
    <3>2. \A n \in DOMAIN files : n \in Nat /\ n <= remux.open
      BY <1>0, <3>1 DEF TypeInv, AttemptFiles
    <3> QED BY <2>0, <2>2, <3>2
  <2>6. AttemptFiles' BY <2>0, <2>2, <2>3, <2>4, <2>5, <2>w DEF AttemptFiles
  <2> QED BY <1>0, <1>2, <2>0, <2>1, <2>2, <2>6, TypesOfFiles DEF NextSegment
<1>3. CASE WritePlaylist
  <2>1. DOMAIN files' \subseteq DOMAIN files /\ listed' \subseteq DOMAIN files
    BY <1>3 DEF WritePlaylist
  <2>2. \A n \in DOMAIN files' : files'[n] = files[n] BY <1>3 DEF WritePlaylist
  <2>o. remux.open \in DOMAIN files'
    <3>1. remux.open \in DOMAIN files /\ remux.open \in Nat
      BY <1>3 DEF WritePlaylist, TypeInv, AttemptFiles
    <3>2. remux.open >= remux.open - ListSize BY <3>1
    <3> QED BY <1>3, <3>1, <3>2 DEF WritePlaylist
  <2>3. AttemptFiles' BY <1>3, <2>1, <2>2, <2>o DEF WritePlaylist, TypeInv, AttemptFiles
  <2> QED BY <1>0, <1>3, <2>1, <2>3, TypesOfFiles DEF WritePlaylist
<1>4. CASE RemuxEnds
  <2>1. PICK err \in {"nil", "error"} :
          /\ remux' = [remux EXCEPT !.pc = "cleanup", !.open = NoFile, !.err = err,
                                    !.doomed = DOMAIN files]
          /\ files' = IF err = "nil" THEN Ended(files, remux.open) ELSE files
    BY <1>4 DEF RemuxEnds
  <2>2. remux' \in Remuxer
    <3>1. err \in Errors /\ NoFile \in Int /\ DOMAIN files \in SUBSET Nat
      BY <1>0 DEF Errors, NoFile
    <3> QED BY <1>0, <2>1, <3>1, RemuxerCleans
  <2>3. remux'.pc = "cleanup" /\ remux'.open = NoFile /\ remux'.doomed = DOMAIN files
        /\ remux'.i = remux.i
    BY <1>0, <2>1 DEF Remuxer
  <2>4. /\ DOMAIN files' = DOMAIN files
        /\ \A n \in DOMAIN files :
             /\ files'[n] \in File /\ files'[n].attempt = remux.i
             /\ files[n].whole => files'[n].whole
    BY <1>f, <2>1, EndedFiles
  <2>5. AttemptFiles' BY <1>f, <2>3, <2>4 DEF AttemptFiles
  <2> QED BY <1>0, <1>4, <2>2, <2>4, <2>5, TypesOfFiles DEF RemuxEnds
<1>5. CASE RemoveFile
  <2>1. ASSUME NEW n \in remux.doomed,
               remux' = [remux EXCEPT !.doomed = @ \ {n}],
               files' = [m \in DOMAIN files \ {n} |-> files[m]],
               listed' = listed
        PROVE  TypeInv'
    <3>1. remux' \in Remuxer BY <1>0, <2>1 DEF Remuxer
    <3>2. remux'.pc = remux.pc /\ remux'.open = remux.open /\ remux'.i = remux.i
          /\ remux'.doomed = remux.doomed \ {n}
      BY <1>0, <2>1 DEF Remuxer
    <3>3. DOMAIN files' = DOMAIN files \ {n} BY <2>1
    <3>4. AttemptFiles' BY <1>5, <2>1, <3>2, <3>3 DEF RemoveFile, TypeInv, AttemptFiles
    <3> QED BY <1>0, <1>5, <2>1, <3>1, <3>3, <3>4, TypesOfFiles DEF RemoveFile
  <2>2. ASSUME listed' = {}, UNCHANGED <<files, remux>>
        PROVE  TypeInv'
    <3>1. AttemptFiles' BY <2>2 DEF TypeInv, AttemptFiles
    <3> QED BY <1>0, <1>5, <2>2, <3>1, TypesOfFiles DEF RemoveFile
  <2> QED BY <1>5, <2>1, <2>2 DEF RemoveFile
<1>6. CASE RemuxAgain
  <2>0. DOMAIN files = {} BY <1>6 DEF RemuxAgain, TypeInv, AttemptFiles
  <2>1. CASE remux.err = "error" /\ remux.i < RetryCount
    <3>1. remux' = [remux EXCEPT !.pc = "start", !.i = @ + 1] BY <1>6, <2>1 DEF RemuxAgain
    <3>2. remux.i + 1 \in Attempts BY <1>0, <2>1 DEF Remuxer, Attempts
    <3>3. remux' \in Remuxer BY <1>0, <3>1, <3>2 DEF Remuxer
    <3>4. remux'.pc = "start" /\ remux'.open = remux.open BY <1>0, <3>1 DEF Remuxer
    <3>5. AttemptFiles' BY <1>6, <2>0, <3>4 DEF RemuxAgain, TypeInv, AttemptFiles
    <3> QED BY <1>0, <1>6, <3>3, <3>5, TypesOfFiles DEF RemuxAgain
  <2>2. CASE ~(remux.err = "error" /\ remux.i < RetryCount)
    <3>1. remux' = [remux EXCEPT !.pc = "report"] BY <1>6, <2>2 DEF RemuxAgain
    <3>3. remux' \in Remuxer BY <1>0, <3>1 DEF Remuxer
    <3>4. remux'.pc = "report" /\ remux'.open = remux.open BY <1>0, <3>1 DEF Remuxer
    <3>5. AttemptFiles' BY <1>6, <2>0, <3>4 DEF RemuxAgain, TypeInv, AttemptFiles
    <3> QED BY <1>0, <1>6, <3>3, <3>5, TypesOfFiles DEF RemuxAgain
  <2> QED BY <2>1, <2>2
<1>7. CASE RemuxReport
  <2>1. remux' \in Remuxer BY <1>0, <1>7 DEF RemuxReport, Remuxer
  <2>2. remux'.pc = "done" /\ remux'.open = remux.open /\ remux'.i = remux.i
    BY <1>0, <1>7 DEF RemuxReport, Remuxer
  <2>3. AttemptFiles' BY <1>7, <2>2 DEF RemuxReport, TypeInv, AttemptFiles
  <2>4. remux.err \in Errors BY <1>0 DEF Remuxer
  <2>5. c' \in Seq(Errors) /\ Len(c') <= Reports
    BY <1>0, <1>7, <2>4 DEF RemuxReport, CanReport
  <2> QED BY <1>0, <1>7, <2>1, <2>3, <2>5, TypesOfFiles DEF RemuxReport
<1> QED BY <1>1, <1>2, <1>3, <1>4, <1>5, <1>6, <1>7 DEF Remux

PollerPCs == {"stat", "read", "list", "add", "report", "done"}

LEMMA PollerMoves ==
  ASSUME NEW p \in Poller, NEW q \in PollerPCs
  PROVE  [p EXCEPT !.pc = q] \in Poller
BY DEF Poller, PollerPCs

LEMMA PollerCounts ==
  ASSUME NEW p \in Poller, NEW k \in Nat
  PROVE  /\ [p EXCEPT !.wait = k] \in Poller
         /\ \A b \in BOOLEAN : [p EXCEPT !.tries = k, !.unparsed = b] \in Poller
BY DEF Poller

LEMMA PollerRetries ==
  ASSUME NEW p \in Poller, NEW n \in Attempts
  PROVE  [p EXCEPT !.pc = "stat", !.i = n] \in Poller
BY DEF Poller

LEMMA PollerFails ==
  ASSUME NEW p \in Poller, NEW e \in Errors
  PROVE  [p EXCEPT !.pc = "report", !.err = e] \in Poller
BY DEF Poller

LEMMA PollerFinds ==
  ASSUME NEW p \in Poller, NEW g \in Segment
  PROVE  [[p EXCEPT !.pc = "list", !.tries = 0, !.unparsed = FALSE, !.wait = 0]
            EXCEPT !.got = g] \in Poller
BY DEF Poller

LEMMA FailedOK ==
  ASSUME SegTypeOK, NEW err \in Errors
  PROVE  Failed(err) \in Poller
<1>0. poll \in Poller BY DEF SegTypeOK
<1>1. CASE err # "canceled" /\ poll.i < RetryCount
  <2>1. Failed(err) = [poll EXCEPT !.pc = "stat", !.i = poll.i + 1] BY <1>1 DEF Failed
  <2>2. poll.i + 1 \in Attempts BY <1>0, <1>1, SegmenterAssumption DEF Poller, Attempts
  <2> QED BY <1>0, <2>1, <2>2, PollerRetries
<1>2. CASE ~(err # "canceled" /\ poll.i < RetryCount)
  <2>1. Failed(err) = [poll EXCEPT !.pc = "report", !.err = err] BY <1>2 DEF Failed
  <2> QED BY <1>0, <2>1, PollerFails
<1> QED BY <1>1, <1>2

\* A step of the poller changes neither the files nor the remuxer.
LEMMA TypesOfPoll ==
  ASSUME TypeInv,
         UNCHANGED <<files, listed, remux>>,
         c' \in Seq(Errors) /\ Len(c') <= Reports,
         poll' \in Poller, curSegment' \in Nat, main' \in Errors \cup {"waiting", "left"},
         StreamOK(hls'), added' \in Seq(Segment), silence' \in Nat
  PROVE  TypeInv'
<1>1. AttemptFiles' BY DEF TypeInv, AttemptFiles
<1> QED BY <1>1 DEF TypeInv, SegTypeOK, StreamOK

LEMMA TypesPoll ==
  ASSUME TypeInv, Poll \/ Receive \/ CallerDone
  PROVE  TypeInv'
<1> USE SegmenterAssumption
<1>0. /\ SegTypeOK /\ poll \in Poller /\ c \in Seq(Errors) /\ Len(c) <= Reports
      /\ curSegment \in Nat /\ StreamOK(hls) /\ added \in Seq(Segment) /\ silence \in Nat
      /\ main \in Errors \cup {"waiting", "left"}
  BY DEF TypeInv, SegTypeOK, StreamOK
<1>e. "timeout" \in Errors /\ "canceled" \in Errors /\ "error" \in Errors BY DEF Errors
<1>1. CASE PollStat
  <2>1. poll' \in Poller BY <1>0, <1>1, PollerMoves DEF PollStat, PollerPCs
  <2> QED BY <1>0, <1>1, <2>1, TypesOfPoll DEF PollStat
<1>2. CASE PollRead
  <2>1. CASE curSegment \in DOMAIN files
    <3> DEFINE g == [n |-> curSegment, attempt |-> files[curSegment].attempt,
                     complete |-> files[curSegment].whole]
    <3>1. g \in Segment BY <1>0, <2>1 DEF SegTypeOK, Segment, File
    <3> HIDE DEF g
    <3>2. poll' = [[poll EXCEPT !.pc = "list", !.tries = 0, !.unparsed = FALSE, !.wait = 0]
                     EXCEPT !.got = g]
      BY <1>2, <2>1 DEF PollRead, Found, g
    <3>3. poll' \in Poller BY <1>0, <3>1, <3>2, PollerFinds
    <3>4. silence' \in Nat BY <1>2, <2>1 DEF PollRead
    <3> QED BY <1>0, <1>2, <3>3, <3>4, TypesOfPoll DEF PollRead
  <2>2. CASE curSegment \notin DOMAIN files
    <3>1. poll' = Failed("error") BY <1>2, <2>2 DEF PollRead
    <3>2. poll' \in Poller BY <1>0, <1>e, <3>1, FailedOK
    <3>3. silence' \in Nat BY <1>0, <1>2, <2>2 DEF PollRead
    <3> QED BY <1>0, <1>2, <3>2, <3>3, TypesOfPoll DEF PollRead
  <2> QED BY <2>1, <2>2
<1>3. CASE PollSleep
  <2>1. poll.wait + 1 \in Nat BY <1>0 DEF Poller
  <2>2. poll' = [poll EXCEPT !.wait = poll.wait + 1] BY <1>3 DEF PollSleep
  <2>3. poll' \in Poller BY <1>0, <2>1, <2>2, PollerCounts
  <2> QED BY <1>0, <1>3, <2>3, TypesOfPoll DEF PollSleep
<1>4. CASE PollTimeout
  <2>1. poll' \in Poller BY <1>0, <1>e, <1>4, FailedOK DEF PollTimeout
  <2> QED BY <1>0, <1>4, <2>1, TypesOfPoll DEF PollTimeout
<1>5. CASE PollCanceled
  <2>1. poll' \in Poller BY <1>0, <1>e, <1>5, FailedOK DEF PollCanceled
  <2> QED BY <1>0, <1>5, <2>1, TypesOfPoll DEF PollCanceled
<1>6. CASE PollList
  <2> DEFINE last == \/ curSegment \in listed /\ Length[curSegment] = "some"
                     \/ poll.tries + 1 = PlaylistRetryCount
  <2>1. CASE last /\ ~Unparsed
    <3>1. poll' = [poll EXCEPT !.pc = "add"] /\ curSegment' = curSegment + 1
      BY <1>6, <2>1 DEF PollList
    <3>2. poll' \in Poller BY <1>0, <3>1, PollerMoves DEF PollerPCs
    <3> QED BY <1>0, <1>6, <3>1, <3>2, TypesOfPoll DEF PollList
  <2>2. CASE last /\ Unparsed
    <3>1. poll' = Failed("error") /\ curSegment' = curSegment + 1
      BY <1>6, <2>2 DEF PollList
    <3>2. poll' \in Poller BY <1>0, <1>e, <3>1, FailedOK
    <3> QED BY <1>0, <1>6, <3>1, <3>2, TypesOfPoll DEF PollList
  <2>3. CASE ~last
    <3>1. poll' = [poll EXCEPT !.tries = poll.tries + 1, !.unparsed = Unparsed]
          /\ curSegment' = curSegment
      BY <1>6, <2>3 DEF PollList
    <3>2. poll.tries + 1 \in Nat /\ poll.unparsed \in BOOLEAN BY <1>0 DEF Poller
    <3>3. Unparsed \in BOOLEAN BY <3>2 DEF Unparsed
    <3>4. poll' \in Poller BY <1>0, <3>1, <3>2, <3>3, PollerCounts
    <3> QED BY <1>0, <1>6, <3>1, <3>4, TypesOfPoll DEF PollList
  <2> QED BY <2>1, <2>2, <2>3
<1>7. CASE PollAdd
  <2>1. poll.got \in Segment BY <1>0 DEF Poller
  <2>2. StreamOK(hls') BY <1>0, <1>7, <2>1, InsertedOK DEF PollAdd
  <2>3. added' \in Seq(Segment) BY <1>0, <1>7, <2>1 DEF PollAdd
  <2>4. 1 \in Attempts BY DEF Attempts
  <2>5. poll' \in Poller BY <1>0, <1>e, <1>7, <2>4, PollerFails, PollerRetries DEF PollAdd
  <2> QED BY <1>0, <1>7, <2>2, <2>3, <2>5, TypesOfPoll DEF PollAdd
<1>8. CASE PollReport
  <2>1. poll.err \in Errors BY <1>0 DEF Poller
  <2>2. c' \in Seq(Errors) /\ Len(c') <= Reports
    BY <1>0, <1>8, <2>1 DEF PollReport, CanReport
  <2>3. poll' \in Poller BY <1>0, <1>8, PollerMoves DEF PollReport, PollerPCs
  <2> QED BY <1>0, <1>8, <2>2, <2>3, TypesOfPoll DEF PollReport
<1>9. CASE Receive
  <2>1. Head(c) \in Errors /\ Tail(c) \in Seq(Errors) /\ Len(Tail(c)) <= Reports
    BY <1>0, <1>9 DEF Receive
  <2> QED BY <1>0, <1>9, <2>1, TypesOfPoll DEF Receive
<1>10. CASE CallerDone
  BY <1>0, <1>10, TypesOfPoll DEF CallerDone
<1> QED
  BY <1>1, <1>2, <1>3, <1>4, <1>5, <1>6, <1>7, <1>8, <1>9, <1>10 DEF Poll

LEMMA TypesStutter == TypeInv /\ UNCHANGED vars => TypeInv'
BY DEF TypeInv, SegTypeOK, AttemptFiles, vars

\* The goroutines keep their types, and all files are of the present attempt.
LEMMA SegmenterTypes == Spec => []TypeInv
<1>1. TypeInv /\ [Next]_vars => TypeInv' BY TypesRemux, TypesPoll, TypesStutter DEF Next
<1> QED BY <1>1, TypesInit, PTL DEF Spec

-----------------------------------------------------------------------------
(* What is added is complete and in order.                                  *)

\* The segment that is about to be added follows all that were.
GotNext ==
  /\ poll.got.complete /\ poll.got.attempt <= remux.i
  /\ \A i \in DOMAIN added :
       added[i].n < poll.got.n /\ added[i].attempt <= poll.got.attempt

\* While the poller is about to read a file the remuxer writes a later one, or
\* none, and the file is whole, if it is still there.
Polling ==
  /\ poll.pc = "read" =>
       /\ remux.pc # "start" /\ (remux.pc = "write" => curSegment < remux.open)
       /\ curSegment \in DOMAIN files => files[curSegment].whole
  /\ poll.pc = "list" => poll.got.n = curSegment
  /\ poll.pc = "add" => poll.got.n + 1 = curSegment
  /\ poll.pc \in {"list", "add"} => GotNext
  /\ \A i \in DOMAIN added : added[i].n < curSegment /\ added[i].attempt <= remux.i

LEMMA Numbers ==
  ASSUME SegTypeOK
  PROVE  /\ remux.i \in Nat /\ curSegment \in Nat
         /\ poll.got.n \in Nat /\ poll.got.attempt \in Nat
         /\ \A i \in DOMAIN added : added[i].n \in Nat /\ added[i].attempt \in Nat
<1>1. remux.i \in Nat BY DEF SegTypeOK, Remuxer, Attempts
<1>2. poll.got \in Segment BY DEF SegTypeOK, Poller
<1>3. \A i \in DOMAIN added : added[i] \in Segment BY DEF SegTypeOK
<1> QED BY <1>1, <1>2, <1>3 DEF SegTypeOK, Segment, Attempts

LEMMA OrderInit == Init => Polling /\ AddedComplete
BY DEF Init, Polling, AddedComplete

LEMMA OrderRemux ==
  ASSUME TypeInv, Polling, AddedComplete, Remux
  PROVE  Polling' /\ AddedComplete'
<1>0. SegTypeOK /\ remux \in Remuxer BY DEF TypeInv, SegTypeOK
<1>1. UNCHANGED <<poll, curSegment, added>>
  BY DEF Remux, RemuxStart, NextSegment, WritePlaylist, RemuxEnds, RemoveFile, RemuxAgain,
         RemuxReport
<1>2. remux'.i \in Nat /\ remux.i <= remux'.i
  <2>1. remux'.i = remux.i \/ remux'.i = remux.i + 1
    <3>1. CASE RemuxStart BY <1>0, <3>1 DEF RemuxStart, Remuxer
    <3>2. CASE NextSegment BY <1>0, <3>2 DEF NextSegment, Remuxer
    <3>3. CASE WritePlaylist BY <3>3 DEF WritePlaylist
    <3>4. CASE RemuxEnds BY <1>0, <3>4 DEF RemuxEnds, Remuxer
    <3>5. CASE RemoveFile BY <1>0, <3>5 DEF RemoveFile, Remuxer
    <3>6. CASE RemuxAgain BY <1>0, <3>6 DEF RemuxAgain, Remuxer
    <3>7. CASE RemuxReport BY <1>0, <3>7 DEF RemuxReport, Remuxer
    <3> QED BY <3>1, <3>2, <3>3, <3>4, <3>5, <3>6, <3>7 DEF Remux
  <2> QED BY <1>0, <2>1, Numbers
<1>3. ASSUME poll.pc = "read"
      PROVE  remux'.pc # "start" /\ (remux'.pc = "write" => curSegment < remux'.open)
  <2>1. remux.pc # "start" /\ (remux.pc = "write" => curSegment < remux.open)
    BY <1>3 DEF Polling
  <2>2. CASE NextSegment
    <3>1. remux.open \in Nat BY <2>2 DEF NextSegment, TypeInv, AttemptFiles
    <3>2. remux'.pc = "write" /\ remux'.open = remux.open + 1
      BY <1>0, <2>2 DEF NextSegment, Remuxer
    <3>3. curSegment < remux.open BY <2>1, <2>2 DEF NextSegment
    <3> QED BY <1>0, <3>1, <3>2, <3>3, Numbers
  <2>3. CASE WritePlaylist BY <2>1, <2>3 DEF WritePlaylist
  <2>4. CASE RemuxEnds BY <1>0, <2>4 DEF RemuxEnds, Remuxer
  <2>5. CASE RemoveFile
    <3>1. remux'.pc = "cleanup" BY <1>0, <2>5 DEF RemoveFile, Remuxer
    <3> QED BY <3>1
  <2>6. CASE RemuxAgain
    <3>1. remux' = [remux EXCEPT !.pc = "report"] BY <1>3, <2>6 DEF RemuxAgain
    <3>2. remux'.pc = "report" BY <1>0, <3>1 DEF Remuxer
    <3> QED BY <3>2
  <2>7. CASE RemuxReport
    <3>1. remux'.pc = "done" BY <1>0, <2>7 DEF RemuxReport, Remuxer
    <3> QED BY <3>1
  <2> QED BY <2>1, <2>2, <2>3, <2>4, <2>5, <2>6, <2>7 DEF Remux, RemuxStart
<1>4. GotNext => GotNext'
  BY <1>0, <1>1, <1>2, Numbers DEF GotNext
<1>5. \A i \in DOMAIN added' : added'[i].n < curSegment' /\ added'[i].attempt <= remux'.i
  BY <1>0, <1>1, <1>2, Numbers DEF Polling
<1>6. ASSUME poll.pc = "read", curSegment \in DOMAIN files' PROVE files'[curSegment].whole
  <2>1. /\ remux.pc # "start" /\ (remux.pc = "write" => curSegment < remux.open)
        /\ curSegment \in DOMAIN files => files[curSegment].whole
    BY <1>6 DEF Polling
  <2>2. \A n \in DOMAIN files : files[n] \in File BY <1>0 DEF SegTypeOK
  <2>3. CASE NextSegment
    <3> DEFINE e == Ended(files, remux.open)
    <3>1. remux.open \in Nat /\ curSegment < remux.open
      BY <2>1, <2>3 DEF NextSegment, TypeInv, AttemptFiles
    <3>2. files' = Begun(e, remux.open + 1, remux.i) BY <2>3 DEF NextSegment
    <3>3. DOMAIN e = DOMAIN files /\ \A m \in DOMAIN files : files[m].whole => e[m].whole
      BY <2>2, EndedFiles
    <3> HIDE DEF e
    <3>4. curSegment # remux.open + 1 BY <1>0, <3>1, Numbers
    <3>5. curSegment \in DOMAIN e /\ files'[curSegment] = e[curSegment]
      <4>1. remux.i \in Attempts BY <1>0 DEF Remuxer
      <4> HIDE DEF e
      <4>2. /\ DOMAIN files' = DOMAIN e \cup {remux.open + 1}
            /\ \A m \in DOMAIN e : m # remux.open + 1 => files'[m] = e[m]
        BY <3>2 DEF Begun
      <4> QED BY <1>6, <3>4, <4>2
    <3> QED BY <2>1, <3>3, <3>5
  <2>4. CASE WritePlaylist BY <1>6, <2>1, <2>4 DEF WritePlaylist
  <2>5. CASE RemuxEnds BY <1>6, <2>1, <2>2, <2>5, EndedFiles DEF RemuxEnds
  <2>6. CASE RemoveFile BY <1>6, <2>1, <2>6 DEF RemoveFile
  <2>7. CASE RemuxAgain \/ RemuxReport BY <1>6, <2>1, <2>7 DEF RemuxAgain, RemuxReport
  <2> QED BY <2>1, <2>3, <2>4, <2>5, <2>6, <2>7 DEF Remux, RemuxStart
<1>7. Polling' BY <1>1, <1>3, <1>4, <1>5, <1>6 DEF Polling
<1>8. AddedComplete' BY <1>1 DEF AddedComplete
<1> QED BY <1>7, <1>8

LEMMA FailedPc ==
  ASSUME SegTypeOK, NEW err
  PROVE  Failed(err).pc \in {"stat", "report"} /\ Failed(err).got = poll.got
         /\ Failed(err).wait = poll.wait
BY DEF Failed, SegTypeOK, Poller

LEMMA OrderPoll ==
  ASSUME TypeInv, Polling, AddedComplete, Poll \/ Receive \/ CallerDone
  PROVE  Polling' /\ AddedComplete'
<1>0. /\ SegTypeOK /\ poll \in Poller /\ added \in Seq(Segment) /\ AttemptFiles
      /\ \A i \in DOMAIN added : added[i].n < curSegment /\ added[i].attempt <= remux.i
  BY DEF TypeInv, SegTypeOK, Polling
<1>r. remux' = remux
  BY DEF Poll, PollStat, PollRead, PollSleep, PollTimeout, PollCanceled, PollList, PollAdd,
         PollReport, Receive, CallerDone
<1>u. ASSUME UNCHANGED <<curSegment, added>>, poll'.pc \in {"stat", "report", "done"}
      PROVE  Polling' /\ AddedComplete'
  BY <1>0, <1>r, <1>u DEF Polling, AddedComplete
<1>1. CASE PollStat
  <2>1. poll'.pc = "read" /\ UNCHANGED <<curSegment, added>> BY <1>0, <1>1 DEF PollStat, Poller
  <2>2. curSegment + 1 \in DOMAIN files BY <1>1 DEF PollStat, IsComplete
  <2>3. remux.pc # "start" /\ (remux.pc = "write" => curSegment < remux.open)
    BY <1>0, <2>2, Numbers DEF AttemptFiles
  <2>w. curSegment \in DOMAIN files => files[curSegment].whole
    BY <1>0, <2>2, Numbers DEF AttemptFiles
  <2>f. files' = files BY <1>1 DEF PollStat
  <2>4. Polling' BY <1>0, <1>r, <2>1, <2>3, <2>w, <2>f DEF Polling
  <2>5. AddedComplete' BY <2>1 DEF AddedComplete
  <2> QED BY <2>4, <2>5
<1>2. CASE PollRead
  <2>0. UNCHANGED <<curSegment, added>> BY <1>2 DEF PollRead
  <2>1. CASE curSegment \in DOMAIN files
    <3> DEFINE g == [n |-> curSegment, attempt |-> files[curSegment].attempt,
                     complete |-> files[curSegment].whole]
    <3>g. g.n = curSegment /\ g.attempt = files[curSegment].attempt
          /\ g.complete = files[curSegment].whole
      OBVIOUS
    <3>p. poll' = [[poll EXCEPT !.pc = "list", !.tries = 0, !.unparsed = FALSE, !.wait = 0]
                     EXCEPT !.got = g]
      BY <1>2, <2>1 DEF PollRead, Found
    <3> HIDE DEF g
    <3>1. poll'.pc = "list" /\ poll'.got = g BY <1>0, <3>p DEF Poller
    <3>2. files[curSegment].attempt = remux.i BY <1>0, <2>1 DEF AttemptFiles
    <3>3. files[curSegment].whole BY <1>2, <2>1 DEF PollRead, Polling
    <3>4. GotNext'
      <4>1. poll'.got.complete /\ poll'.got.attempt = remux.i /\ poll'.got.n = curSegment
        BY <3>g, <3>1, <3>2, <3>3
      <4>2. remux.i <= remux.i BY <1>0, Numbers
      <4> QED BY <1>0, <1>r, <2>0, <4>1, <4>2 DEF GotNext
    <3>5. Polling' BY <1>0, <1>r, <2>0, <3>g, <3>1, <3>4 DEF Polling
    <3>6. AddedComplete' BY <2>0 DEF AddedComplete
    <3> QED BY <3>5, <3>6
  <2>2. CASE curSegment \notin DOMAIN files
    BY <1>0, <1>2, <1>u, <2>0, <2>2, FailedPc DEF PollRead
  <2> QED BY <2>1, <2>2
<1>3. CASE PollSleep
  <2>1. poll'.pc = "stat" BY <1>0, <1>3 DEF PollSleep, Poller
  <2> QED BY <1>3, <1>u, <2>1 DEF PollSleep
<1>4. CASE PollTimeout BY <1>0, <1>4, <1>u, FailedPc DEF PollTimeout
<1>5. CASE PollCanceled BY <1>0, <1>5, <1>u, FailedPc DEF PollCanceled
<1>6. CASE PollList
  <2>0. poll.got.n = curSegment /\ GotNext /\ UNCHANGED added /\ poll'.got = poll.got
    BY <1>0, <1>6, FailedPc DEF PollList, Polling, Poller
  <2>1. GotNext' BY <1>r, <2>0 DEF GotNext
  <2>2. AddedComplete' BY <2>0 DEF AddedComplete
  <2>3. \/ poll'.pc \in {"add", "stat", "report"} /\ curSegment' = curSegment + 1
        \/ poll'.pc = "list" /\ curSegment' = curSegment
    BY <1>0, <1>6, FailedPc DEF PollList, Poller
  <2>4. Polling' BY <1>0, <1>r, <2>0, <2>1, <2>3, Numbers DEF Polling
  <2> QED BY <2>2, <2>4
<1>7. CASE PollAdd
  <2>0. poll.got.n + 1 = curSegment /\ GotNext /\ UNCHANGED curSegment
        /\ poll'.pc \in {"stat", "report"}
    BY <1>0, <1>7 DEF PollAdd, Polling, Poller
  <2>1. CASE added' = added BY <1>u, <2>0, <2>1
  <2>2. CASE added' = Append(added, poll.got)
    <3>1. \A i \in DOMAIN added' :
            \/ i \in DOMAIN added /\ added'[i] = added[i]
            \/ i = Len(added) + 1 /\ added'[i] = poll.got
      BY <1>0, <2>2
    <3>2. \A i \in DOMAIN added : i < Len(added) + 1 BY <1>0
    <3>3. \A i, j \in DOMAIN added' :
            i < j => /\ i \in DOMAIN added /\ added'[i] = added[i]
                     /\ \/ j \in DOMAIN added /\ added'[j] = added[j]
                        \/ added'[j] = poll.got
      BY <1>0, <2>2, <3>1, <3>2
    <3>4. AddedComplete' BY <2>0, <3>1, <3>3 DEF AddedComplete, GotNext
    <3>5. \A i \in DOMAIN added' : added'[i].n < curSegment /\ added'[i].attempt <= remux.i
      BY <1>0, <2>0, <3>1, Numbers DEF GotNext
    <3>6. Polling' BY <1>r, <2>0, <3>5 DEF Polling
    <3> QED BY <3>4, <3>6
  <2> QED BY <1>7, <2>1, <2>2 DEF PollAdd
<1>8. CASE PollReport
  <2>1. poll'.pc = "done" BY <1>0, <1>8 DEF PollReport, Poller
  <2> QED BY <1>8, <1>u, <2>1 DEF PollReport
<1>9. CASE Receive \/ CallerDone
  <2>1. UNCHANGED <<poll, remux, curSegment, added, files>> BY <1>9 DEF Receive, CallerDone
  <2>2. Polling' BY <2>1 DEF Polling, GotNext
  <2>3. AddedComplete' BY <2>1 DEF AddedComplete
  <2> QED BY <2>2, <2>3
<1> QED BY <1>1, <1>2, <1>3, <1>4, <1>5, <1>6, <1>7, <1>8, <1>9 DEF Poll

LEMMA OrderStutter == Polling /\ AddedComplete /\ UNCHANGED vars => Polling' /\ AddedComplete'
BY DEF Polling, GotNext, AddedComplete, vars

LEMMA OrderInvariant == Spec => [](Polling /\ AddedComplete)
<1>1. TypeInv /\ Polling /\ AddedComplete /\ [Next]_vars => (Polling /\ AddedComplete)'
  BY OrderRemux, OrderPoll, OrderStutter DEF Next
<1> QED BY <1>1, OrderInit, SegmenterTypes, PTL DEF Spec

\* Although both goroutines share files that are written, removed and written
\* again without any lock, every segment added to the HLS stream is complete,
\* and they are added in the order of their numbers and attempts.  The argument:
\* the file seen after the one to read shows that the remuxer has left that one,
\* and it is not back at it before the poller has read it.
THEOREM SegmentsComplete == Spec => []AddedComplete
BY OrderInvariant, PTL

-----------------------------------------------------------------------------
(* The window of the HLS stream.                                            *)

FromOf(a) == IF Len(a) > WinSize THEN Len(a) - WinSize ELSE 0

\* The playlist nm and the map m are the window of the segments a.
Names(nm, a) ==
  Len(nm) = Len(a) - FromOf(a) /\ \A i \in 1..Len(nm) : nm[i] = a[FromOf(a) + i].n
Segments(nm, m, a) ==
  /\ DOMAIN m = {nm[i] : i \in 1..Len(nm)}
  /\ \A i \in 1..Len(nm) : m[nm[i]] = a[FromOf(a) + i]

WindowNow ==
  hls.list = hls.names /\ Names(hls.names, added) /\ Segments(hls.names, hls.map, added)

LEMMA FromFacts ==
  ASSUME NEW a \in Seq(Segment)
  PROVE  /\ FromOf(a) \in Nat /\ Len(a) \in Nat /\ Len(a) - FromOf(a) \in 0..WinSize
         /\ FromOf(a) > 0 => Len(a) - FromOf(a) = WinSize
BY SegmenterAssumption DEF FromOf

LEMMA WindowSplit == SegTypeOK => (WindowAgrees <=> WindowNow)
<1> SUFFICES ASSUME SegTypeOK PROVE WindowAgrees <=> WindowNow OBVIOUS
<1>0. added \in Seq(Segment) /\ hls.names \in Seq(Nat) BY DEF SegTypeOK
<1> DEFINE f == FromOf(added)
           w == [i \in 1..Len(added) - f |-> added[f + i].n]
<1>1. f \in Nat /\ Len(added) \in Nat /\ Len(added) - f \in Nat BY <1>0, FromFacts
<1>2. hls.names = w <=> Names(hls.names, added)
  <2>1. ASSUME hls.names = w PROVE Names(hls.names, added)
    <3>1. DOMAIN hls.names = 1..Len(added) - f BY <2>1
    <3>2. Len(hls.names) = Len(added) - f BY <1>0, <1>1, <3>1
    <3>3. \A i \in 1..Len(hls.names) : hls.names[i] = added[f + i].n BY <2>1, <3>2
    <3> QED BY <3>2, <3>3 DEF Names
  <2>2. ASSUME Names(hls.names, added) PROVE hls.names = w
    <3>1. hls.names = [i \in 1..Len(hls.names) |-> hls.names[i]] BY <1>0
    <3> QED BY <2>2, <3>1 DEF Names
  <2> QED BY <2>1, <2>2
<1>3. DOMAIN hls.names = 1..Len(hls.names) BY <1>0
<1>4. WindowAgrees <=> /\ hls.names = w
                       /\ hls.list = hls.names
                       /\ DOMAIN hls.map = {hls.names[i] : i \in DOMAIN hls.names}
                       /\ \A i \in DOMAIN hls.names : hls.map[hls.names[i]] = added[f + i]
  BY DEF WindowAgrees, FromOf
<1> QED BY <1>2, <1>3, <1>4 DEF Segments, WindowNow

\* The oldest segment leaves a window that is full, and the playlist has room for
\* the new one before it does.
LEMMA WindowInserted ==
  ASSUME WinSize < Capacity, SegTypeOK, WindowAgrees, AddedComplete,
         NEW g \in Segment, \A i \in DOMAIN added : added[i].n < g.n
  PROVE  LET s == Inserted(hls, g)
             a == Append(added, g)
         IN  /\ g.n \notin DOMAIN hls.map
             /\ s.list = s.names /\ Names(s.names, a) /\ Segments(s.names, s.map, a)
<1> DEFINE nm == hls.names
           m == hls.map
           f == FromOf(added)
           k == Len(nm)
           a == Append(added, g)
           tn == Append(nm, g.n)
           tm == [n \in DOMAIN m \cup {g.n} |-> IF n = g.n THEN g ELSE m[n]]
<1>0. /\ added \in Seq(Segment) /\ nm \in Seq(Nat) /\ g.n \in Nat
      /\ \A i \in DOMAIN added : added[i].n \in Nat
  <2>1. \A i \in DOMAIN added : added[i] \in Segment BY DEF SegTypeOK
  <2> QED BY <2>1 DEF SegTypeOK, Segment
<1>1. /\ f \in Nat /\ Len(added) \in Nat /\ k \in Nat /\ k = Len(added) - f /\ k <= WinSize
      /\ f > 0 => k = WinSize
  BY <1>0, WindowSplit, FromFacts DEF WindowNow, Names
<1>2. \A i \in 1..k : nm[i] = added[f + i].n /\ m[nm[i]] = added[f + i]
  BY WindowSplit DEF WindowNow, Names, Segments
<1>3. DOMAIN m = {nm[i] : i \in 1..k} BY WindowSplit DEF WindowNow, Segments
<1>4. \A i \in 1..k : f + i \in DOMAIN added BY <1>0, <1>1
<1>5. \A i \in 1..k : nm[i] < g.n BY <1>2, <1>4
<1>6. \A i, j \in 1..k : i < j => nm[i] < nm[j]
  <2> SUFFICES ASSUME NEW i \in 1..k, NEW j \in 1..k, i < j PROVE nm[i] < nm[j] OBVIOUS
  <2>1. f + i < f + j BY <1>1
  <2> QED BY <1>2, <1>4, <2>1 DEF AddedComplete
<1>7. g.n \notin DOMAIN m BY <1>0, <1>3, <1>5
<1>8. /\ tn \in Seq(Nat) /\ Len(tn) = k + 1 /\ tn[k + 1] = g.n
      /\ \A i \in 1..k : tn[i] = nm[i]
  BY <1>0, <1>1
<1>9. /\ Len(a) = Len(added) + 1 /\ a[Len(added) + 1] = g
      /\ \A i \in 1..Len(added) : a[i] = added[i]
  BY <1>0
<1>10. DOMAIN tm = DOMAIN m \cup {g.n} /\ tm[g.n] = g /\ \A n \in DOMAIN m : tm[n] = m[n]
  BY <1>7
<1>11. Inserted(hls, g) = Windowed([list |-> tn, names |-> tn, map |-> tm])
  <2>1. hls.list = nm BY WindowSplit DEF WindowNow
  <2>2. Len(hls.list) < Capacity BY <1>1, <2>1, SegmenterAssumption
  <2>3. AppendSegment(hls.list, g.n) = tn BY <2>1, <2>2 DEF AppendSegment
  <2> HIDE DEF tn, tm
  <2>4. Inserted(hls, g) =
          Windowed([list |-> AppendSegment(hls.list, g.n), names |-> tn, map |-> tm])
    BY <1>7 DEF Inserted, tn, tm
  <2> QED BY <2>3, <2>4
<1>12. \A i \in 1..k + 1 : tn[i] = a[f + i].n /\ tm[tn[i]] = a[f + i]
  <2> SUFFICES ASSUME NEW i \in 1..k + 1 PROVE tn[i] = a[f + i].n /\ tm[tn[i]] = a[f + i]
    OBVIOUS
  <2>1. CASE i \in 1..k
    <3>1. f + i \in 1..Len(added) /\ a[f + i] = added[f + i] BY <1>1, <1>9, <2>1
    <3>2. nm[i] \in DOMAIN m BY <1>3, <2>1
    <3> QED BY <1>2, <1>8, <1>10, <2>1, <3>1, <3>2
  <2>2. CASE i = k + 1
    <3>1. f + i = Len(added) + 1 BY <1>1, <2>2
    <3> QED BY <1>8, <1>9, <1>10, <2>2, <3>1
  <2>3. i \in 1..k \/ i = k + 1 BY <1>1
  <2> QED BY <2>1, <2>2, <2>3
<1>13. DOMAIN tm = {tn[i] : i \in 1..k + 1}
  <2>1. {tn[i] : i \in 1..k + 1} = {tn[i] : i \in 1..k} \cup {tn[k + 1]} BY <1>1
  <2>2. {tn[i] : i \in 1..k} = {nm[i] : i \in 1..k} BY <1>8
  <2> QED BY <1>3, <1>8, <1>10, <2>1, <2>2
<1> HIDE DEF tn, tm, a
<1>14. CASE k + 1 > WinSize
  <2> DEFINE sn == Tail(tn)
             sm == [n \in DOMAIN tm \ {Head(tn)} |-> tm[n]]
  <2>1. Inserted(hls, g).list = sn /\ Inserted(hls, g).names = sn /\ Inserted(hls, g).map = sm
    BY <1>8, <1>11, <1>14 DEF Windowed
  <2>2. FromOf(a) = f + 1
    <3>1. k = WinSize /\ WinSize \in Nat \ {0} BY <1>1, <1>14, SegmenterAssumption
    <3>2. Len(a) = WinSize + f + 1 BY <1>1, <1>9, <3>1
    <3>3. Len(a) > WinSize /\ Len(a) - WinSize = f + 1 BY <1>1, <3>1, <3>2
    <3> QED BY <3>3 DEF FromOf
  <2>3. /\ Len(sn) = k /\ Head(tn) = tn[1]
        /\ \A i \in 1..k : sn[i] = tn[i + 1]
    BY <1>1, <1>8
  <2>4. \A i \in 1..k : i + 1 \in 1..k + 1 /\ (f + 1) + i = f + (i + 1) BY <1>1
  <2>5. Names(sn, a)
    <3>1. Len(sn) = Len(a) - FromOf(a) BY <1>1, <1>9, <2>2, <2>3
    <3>2. \A i \in 1..k : sn[i] = a[FromOf(a) + i].n BY <1>12, <2>2, <2>3, <2>4
    <3> QED BY <2>3, <3>1, <3>2 DEF Names
  <2>6. \A i \in 2..k + 1 : tn[i] # tn[1]
    <3> SUFFICES ASSUME NEW i \in 2..k + 1 PROVE tn[1] < tn[i]
      BY <1>0, <1>8
    <3>1. 1 \in 1..k + 1 /\ 1 < i BY <1>1
    <3> HIDE DEF nm, k
    <3>2. CASE i = k + 1
      <4>1. 1 \in 1..k BY <1>1, <3>1, <3>2
      <4>2. tn[1] = nm[1] /\ tn[i] = g.n BY <1>8, <3>2, <4>1
      <4> QED BY <1>5, <4>1, <4>2
    <3>3. CASE i <= k
      <4>1. 1 \in 1..k /\ i \in 1..k BY <1>1, <3>1, <3>3
      <4>2. tn[1] = nm[1] /\ tn[i] = nm[i] BY <1>8, <4>1
      <4> QED BY <1>6, <3>1, <4>1, <4>2
    <3> QED BY <1>1, <3>1, <3>2, <3>3
  <2>7. DOMAIN sm = {sn[i] : i \in 1..k}
    <3>1. DOMAIN sm = DOMAIN tm \ {tn[1]} BY <2>3
    <3>2. DOMAIN tm \ {tn[1]} = {tn[i] : i \in 2..k + 1} BY <1>1, <1>13, <2>6
    <3>3. {tn[i] : i \in 2..k + 1} = {tn[i + 1] : i \in 1..k}
      <4>1. \A i \in 2..k + 1 : i - 1 \in 1..k /\ (i - 1) + 1 = i BY <1>1
      <4>2. \A i \in 1..k : i + 1 \in 2..k + 1 BY <1>1
      <4> QED BY <4>1, <4>2
    <3>4. {tn[i + 1] : i \in 1..k} = {sn[i] : i \in 1..k} BY <2>3
    <3> HIDE DEF sn, sm
    <3> QED BY <3>1, <3>2, <3>3, <3>4
  <2>8. \A i \in 1..k : sm[sn[i]] = a[FromOf(a) + i]
    <3> SUFFICES ASSUME NEW i \in 1..k PROVE sm[sn[i]] = a[FromOf(a) + i] OBVIOUS
    <3>1. sn[i] \in DOMAIN sm BY <2>7
    <3>2. sm[sn[i]] = tm[tn[i + 1]] BY <2>3, <3>1
    <3> QED BY <1>12, <2>2, <2>4, <3>2
  <2>9. Segments(sn, sm, a) BY <2>3, <2>7, <2>8 DEF Segments
  <2> HIDE DEF sn, sm
  <2> QED BY <1>7, <2>1, <2>5, <2>9 DEF a
<1>15. CASE ~(k + 1 > WinSize)
  <2>1. Inserted(hls, g).list = tn /\ Inserted(hls, g).names = tn /\ Inserted(hls, g).map = tm
    BY <1>8, <1>11, <1>15 DEF Windowed
  <2>2. FromOf(a) = f
    <3>0. WinSize \in Nat BY SegmenterAssumption
    <3>1. f = 0 BY <1>1, <1>15, <3>0
    <3>2. ~(Len(a) > WinSize) BY <1>1, <1>9, <1>15, <3>0, <3>1
    <3> QED BY <3>1, <3>2 DEF FromOf
  <2>3. Names(tn, a) BY <1>1, <1>8, <1>9, <1>12, <2>2 DEF Names
  <2>4. Segments(tn, tm, a) BY <1>8, <1>12, <1>13, <2>2 DEF Segments
  <2> QED BY <1>7, <2>1, <2>3, <2>4 DEF a
<1> QED BY <1>14, <1>15

LEMMA WindowInit == Init => WindowAgrees
<1> SUFFICES ASSUME Init PROVE WindowAgrees OBVIOUS
<1>1. SegTypeOK BY TypesInit DEF TypeInv
<1>2. /\ added = <<>> /\ hls.list = <<>> /\ hls.names = <<>> /\ DOMAIN hls.map = {} /\ Len(added) = 0
      /\ FromOf(added) = 0
  BY SegmenterAssumption DEF Init, FromOf
<1>3. WindowNow BY <1>2 DEF WindowNow, Names, Segments
<1> QED BY <1>1, <1>3, WindowSplit

LEMMA WindowNext ==
  ASSUME WinSize < Capacity, TypeInv, TypeInv', Polling, AddedComplete, WindowAgrees, [Next]_vars
  PROVE  WindowAgrees'
<1>0. SegTypeOK /\ SegTypeOK' BY DEF TypeInv
<1>1. CASE PollAdd
  <2>1. poll.got \in Segment BY <1>0 DEF SegTypeOK, Poller
  <2>2. \A i \in DOMAIN added : added[i].n < poll.got.n BY <1>1 DEF PollAdd, Polling, GotNext
  <2>3. /\ hls' = Inserted(hls, poll.got) /\ added' = Append(added, poll.got)
        /\ hls'.list = hls'.names /\ Names(hls'.names, added') /\ Segments(hls'.names, hls'.map, added')
    BY <1>0, <1>1, <2>1, <2>2, WindowInserted DEF PollAdd
  <2>4. SegTypeOK' => (WindowAgrees' <=> WindowNow') BY WindowSplit, PTL
  <2>5. WindowNow' BY <2>3 DEF WindowNow, Names, Segments, FromOf
  <2> QED BY <1>0, <2>4, <2>5
<1>2. CASE ~PollAdd
  <2>1. UNCHANGED <<hls, added>>
    BY <1>2 DEF Next, Remux, RemuxStart, NextSegment, WritePlaylist, RemuxEnds, RemoveFile,
                RemuxAgain, RemuxReport, Poll, PollStat, PollRead, PollSleep, PollTimeout,
                PollCanceled, PollList, PollReport, Receive, CallerDone, vars
  <2>2. hls' = hls /\ added' = added BY <2>1
  <2>3. WindowNow BY <1>0, WindowSplit
  <2>4. WindowNow' BY <2>2, <2>3 DEF WindowNow, Names, Segments, FromOf
  <2>5. SegTypeOK' => (WindowAgrees' <=> WindowNow') BY WindowSplit, PTL
  <2> QED BY <1>0, <2>4, <2>5
<1> QED BY <1>1, <1>2

\* The playlist, segNames and the map of the HLS stream agree on the last WinSize
\* segments, whatever the window below the capacity of the playlist: numbers that
\* increase never meet one still in the map, and a list of WinSize segments takes
\* one more.
THEOREM StreamWindow ==
  ASSUME WinSize < Capacity
  PROVE  Spec => []WindowAgrees
<1>1. TypeInv /\ TypeInv' /\ Polling /\ AddedComplete /\ WindowAgrees /\ [Next]_vars
        => WindowAgrees'
  BY WindowNext
<1> QED BY <1>1, WindowInit, SegmenterTypes, OrderInvariant, PTL DEF Spec

-----------------------------------------------------------------------------
(* Timeouts.                                                                *)

\* The waiting time is the time without a segment, and only a poller that is
\* over has an error.
Waiting ==
  /\ poll.wait = silence
  /\ poll.err = "timeout" => poll.pc \in {"report", "done"} /\ silence > MaxWait

LEMMA WaitingNext ==
  ASSUME TypeInv, Waiting, [Next]_vars
  PROVE  Waiting'
<1>0. SegTypeOK /\ poll \in Poller /\ silence \in Nat /\ MaxWait \in Nat
  BY SegmenterAssumption DEF TypeInv, SegTypeOK
<1>1. CASE PollStat BY <1>0, <1>1 DEF PollStat, Waiting, Poller
<1>2. CASE PollRead BY <1>0, <1>2 DEF PollRead, Found, Failed, Waiting, Poller
<1>3. CASE PollSleep BY <1>0, <1>3 DEF PollSleep, Waiting, Poller
<1>4. CASE PollTimeout BY <1>0, <1>4 DEF PollTimeout, Failed, Waiting, Poller
<1>5. CASE PollCanceled BY <1>0, <1>5 DEF PollCanceled, Failed, Waiting, Poller
<1>6. CASE PollList BY <1>0, <1>6 DEF PollList, Failed, Waiting, Poller
<1>7. CASE PollAdd BY <1>0, <1>7 DEF PollAdd, Waiting, Poller
<1>8. CASE PollReport BY <1>0, <1>8 DEF PollReport, Waiting, Poller
<1>9. CASE ~Poll
  <2>1. UNCHANGED <<poll, silence>>
    BY <1>9 DEF Next, Remux, RemuxStart, NextSegment, WritePlaylist, RemuxEnds, RemoveFile,
                RemuxAgain, RemuxReport, Receive, CallerDone, vars
  <2> QED BY <2>1 DEF Waiting
<1> QED BY <1>1, <1>2, <1>3, <1>4, <1>5, <1>6, <1>7, <1>8, <1>9 DEF Poll

\* A timeout is never early, however the retries of poller and remuxer meet.
THEOREM TimeoutsNotEarly == Spec => []TimeoutMeansSilence
<1>1. Init => Waiting BY DEF Init, Waiting
<1>2. TypeInv /\ Waiting /\ [Next]_vars => Waiting' BY WaitingNext
<1>3. Waiting => TimeoutMeansSilence BY DEF Waiting, TimeoutMeansSilence
<1> QED BY <1>1, <1>2, <1>3, SegmenterTypes, PTL DEF Spec
=============================================================================
