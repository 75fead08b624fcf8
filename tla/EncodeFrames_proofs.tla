-------------------------- MODULE EncodeFrames_proofs --------------------------
(* For every set of sessions, times, delay of the encoder and bound on a     *)
(* call: no frame is lost or doubled between the decoder and the encoder of  *)
(* the video, the times of the encoder and the muxer increase, keyframes are *)
(* where they are due, an output that runs away is stopped, and the muxer    *)
(* gets all audio of a first segment.                                        *)
(*                                                                           *)
(* The video is followed through the filter: Basics says what the filter     *)
(* holds and between which times; Counted bounds how many frames it gives;   *)
(* Start says where the clip begins; Sending, which frames have been sent so *)
(* far; Shown, that those of the fps filter are the ones to show.  Encoders, *)
(* Muxed and Keyframes follow the packets, AudioInv the audio.               *)
EXTENDS EncodeFrames, TLAPS

-----------------------------------------------------------------------------
(* Times.                                                                   *)

LEMMA Quotient ==
  ASSUME NEW a \in Int, NEW d \in Nat \ {0}
  PROVE  /\ a \div d \in Int
         /\ d * (a \div d) <= a /\ a < d * (a \div d) + d
OBVIOUS

LEMMA QuotientIs ==
  ASSUME NEW a \in Int, NEW d \in Nat \ {0}, NEW q \in Int, d * q <= a, a < d * q + d
  PROVE  a \div d = q
<1>1. \A x, y \in Int : x < y => d * x + d <= d * y
  <2> SUFFICES ASSUME NEW x \in Int, NEW y \in Int, x < y PROVE d * x + d <= d * y
    OBVIOUS
  <2>1. d * (y - x - 1) >= 0 OBVIOUS
  <2>2. d * (y - x - 1) = d * y - d * x - d OBVIOUS
  <2> QED BY <2>1, <2>2
<1> DEFINE p == a \div d
<1>2. p \in Int /\ d * p <= a /\ a < d * p + d BY Quotient
<1>3. d * p \in Int /\ d * q \in Int OBVIOUS
<1> HIDE DEF p
<1>4. ~(p < q) BY <1>1, <1>2, <1>3
<1>5. ~(q < p) BY <1>1, <1>2, <1>3
<1> QED BY <1>2, <1>4, <1>5 DEF p

LEMMA TicksBounds ==
  ASSUME NEW t \in Int
  PROVE  /\ Ticks(t) \in Int
         /\ 2 * (Tick * Ticks(t)) <= 2 * t + Tick
         /\ 2 * t < 2 * (Tick * Ticks(t)) + Tick
<1>1. Tick \in Nat \ {0} BY EncodeAssumption
<1> DEFINE q == (2 * t + Tick) \div (2 * Tick)
<1>2. 2 * Tick \in Nat \ {0} /\ 2 * t + Tick \in Int BY <1>1
<1>3. q \in Int /\ (2 * Tick) * q <= 2 * t + Tick /\ 2 * t + Tick < (2 * Tick) * q + 2 * Tick
  BY <1>2, Quotient
<1> HIDE DEF q
<1>4. (2 * Tick) * q = 2 * (Tick * q) BY <1>1, <1>3
<1>5. Tick * q \in Int BY <1>1, <1>3
<1>6. q = Ticks(t) BY DEF q, Ticks
<1> QED BY <1>1, <1>3, <1>4, <1>5, <1>6

LEMMA TicksIs ==
  ASSUME NEW t \in Int, NEW q \in Int, 2 * (Tick * q) <= 2 * t + Tick, 2 * t < 2 * (Tick * q) + Tick
  PROVE  Ticks(t) = q
<1>1. Tick \in Nat \ {0} BY EncodeAssumption
<1>2. 2 * Tick \in Nat \ {0} /\ 2 * t + Tick \in Int BY <1>1
<1>3. (2 * Tick) * q = 2 * (Tick * q) /\ Tick * q \in Int BY <1>1
<1>4. (2 * Tick) * q <= 2 * t + Tick /\ 2 * t + Tick < (2 * Tick) * q + 2 * Tick
  <2> DEFINE m == Tick * q
             n == (2 * Tick) * q
  <2>1. n = 2 * m /\ m \in Int /\ 2 * m <= 2 * t + Tick /\ 2 * t < 2 * m + Tick BY <1>3
  <2> HIDE DEF m, n
  <2>2. n <= 2 * t + Tick /\ 2 * t + Tick < n + 2 * Tick BY <1>1, <2>1
  <2> QED BY <2>2 DEF n
<1> QED BY <1>2, <1>4, QuotientIs DEF Ticks

LEMMA TimesLess ==
  ASSUME NEW d \in Nat, NEW x \in Int, NEW y \in Int, x <= y
  PROVE  d * x <= d * y
<1>1. d * (y - x) >= 0 OBVIOUS
<1>2. d * (y - x) = d * y - d * x OBVIOUS
<1> QED BY <1>1, <1>2

LEMMA TicksMonotone ==
  ASSUME NEW s \in Int, NEW t \in Int, s <= t
  PROVE  Ticks(s) <= Ticks(t)
<1>1. Tick \in Nat \ {0} BY EncodeAssumption
<1> DEFINE p == Ticks(s)
           q == Ticks(t)
           m == Tick * p
           n == Tick * q
<1>2. p \in Int /\ q \in Int /\ 2 * m <= 2 * s + Tick /\ 2 * t < 2 * n + Tick BY TicksBounds
<1>3. m \in Int /\ n \in Int BY <1>1, <1>2
<1> HIDE DEF p, q
<1>4. ASSUME q < p PROVE n + Tick <= m
  <2>1. q + 1 <= p /\ q + 1 \in Int BY <1>2, <1>4
  <2>2. Tick * (q + 1) <= Tick * p BY <1>1, <1>2, <2>1, TimesLess
  <2>3. Tick * (q + 1) = Tick * q + Tick BY <1>1, <1>2
  <2> QED BY <2>2, <2>3
<1> HIDE DEF m, n
<1>5. ~(q < p) BY <1>1, <1>2, <1>3, <1>4
<1>6. p <= q BY <1>2, <1>5
<1> QED BY <1>6 DEF p, q

LEMMA TicksShift ==
  ASSUME NEW t \in Int PROVE Ticks(t + Tick) = Ticks(t) + 1
<1>1. Tick \in Nat \ {0} BY EncodeAssumption
<1> DEFINE q == Ticks(t)
           m == Tick * q
<1>2. q \in Int /\ 2 * m <= 2 * t + Tick /\ 2 * t < 2 * m + Tick BY TicksBounds
<1>3. m \in Int /\ Tick * (q + 1) = m + Tick BY <1>1, <1>2
<1> HIDE DEF q
<1> HIDE DEF m
<1>4. 2 * (m + Tick) <= 2 * (t + Tick) + Tick /\ 2 * (t + Tick) < 2 * (m + Tick) + Tick
  BY <1>1, <1>2, <1>3
<1>5. t + Tick \in Int /\ q + 1 \in Int BY <1>1, <1>2
<1>6. Ticks(t + Tick) = q + 1 BY <1>3, <1>4, <1>5, TicksIs
<1> QED BY <1>6 DEF q

LEMMA TicksWhole ==
  ASSUME NEW q \in Int PROVE Ticks(q * Tick) = q
<1>1. Tick \in Nat \ {0} BY EncodeAssumption
<1> DEFINE m == Tick * q
<1>2. m \in Int /\ q * Tick = m BY <1>1
<1> HIDE DEF m
<1>3. 2 * m <= 2 * m + Tick /\ 2 * m < 2 * m + Tick BY <1>1, <1>2
<1> QED BY <1>2, <1>3, TicksIs DEF m

LEMMA TicksZero == Ticks(0) = 0
<1>1. 0 * Tick = 0 BY EncodeAssumption
<1> QED BY <1>1, TicksWhole

\* The clip begins after the first frame, for the video's ticks.
Late == From("video") # 0

LEMMA LateFrom == cfg.from = 0 => ~Late
<1>1. cfg.from = 0 => Filtered("video", cfg.from) = 0 BY TicksZero DEF Filtered
<1> QED BY <1>1 DEF Late, From

LEMMA LateStays == UNCHANGED cfg => (Late' <=> Late)
BY DEF Late, From, Filtered

LEMMA TicksNat ==
  ASSUME NEW t \in Nat PROVE Ticks(t) \in Nat
<1>1. Ticks(0) <= Ticks(t) BY TicksMonotone
<1>2. Ticks(t) \in Int BY TicksBounds
<1> QED BY <1>1, <1>2, TicksZero

-----------------------------------------------------------------------------
(* Types.                                                                   *)

LEMMA Constants ==
  /\ NoPts \in Int /\ NoPts < 0
  /\ Tick \in Nat \ {0} /\ Dur \in Nat \ {0} /\ EncDelay \in Nat /\ Runaway \in Nat \ {0}
  /\ \A g \in Gaps : g \in Int
  /\ \A s \in Starts : s \in Nat
  /\ \A c \in Sessions : c \in Config
BY EncodeAssumption

LEMMA SessionFields ==
  ASSUME cfg \in Sessions
  PROVE  /\ cfg.hw \in BOOLEAN /\ cfg.video \in BOOLEAN /\ cfg.audio \in BOOLEAN /\ cfg.fps \in BOOLEAN
         /\ cfg.gop \in Nat /\ cfg.from \in Nat /\ cfg.to \in Nat
         /\ cfg.video \/ cfg.audio
         /\ ~cfg.video => ~cfg.hw /\ cfg.gop = 0 /\ cfg.from = 0 /\ cfg.to = 0
         /\ cfg["video"] = cfg.video /\ cfg["audio"] = cfg.audio
BY EncodeAssumption DEF Config

LEMMA FilteredInt ==
  ASSUME NEW k, NEW t \in Int PROVE Filtered(k, t) \in Int
BY TicksBounds DEF Filtered

LEMMA ClipTypes ==
  ASSUME cfg \in Sessions
  PROVE  GopLen \in Int /\ \A k : From(k) \in Int /\ To(k) \in Int
BY SessionFields, FilteredInt DEF GopLen, From, To

LEMMA FixedTime ==
  ASSUME NEW raw \in Int, NEW last \in Int
  PROVE  /\ Fixed(raw, last) \in Int
         /\ last # NoPts => last < Fixed(raw, last)
         /\ last = NoPts /\ raw >= 0 => Fixed(raw, last) = raw
         /\ last >= 0 => Fixed(raw, last) >= 0
BY Constants DEF Fixed

LEMMA FilterFields ==
  ASSUME NEW f \in Filter
  PROVE  /\ f.active \in BOOLEAN /\ f.closed \in BOOLEAN /\ f.flushed \in BOOLEAN
         /\ f.flushing \in BOOLEAN /\ f.eof \in BOOLEAN
         /\ f.custom \in Int /\ f.held \in Frame /\ f.out \in Seq(Frame)
         /\ f.held.n \in Nat /\ f.held.pts \in Int
BY DEF Filter, Frame

LEMMA FreshFilter ==
  ASSUME NEW b \in BOOLEAN
  PROVE  /\ Fresh(b) \in Filter
         /\ Fresh(b).active = b /\ ~Fresh(b).closed /\ ~Fresh(b).flushed /\ ~Fresh(b).flushing
         /\ ~Fresh(b).eof /\ Fresh(b).custom = NoPts /\ Fresh(b).held = NoFrame /\ Fresh(b).out = <<>>
<1>1. NoFrame \in Frame BY Constants DEF NoFrame, Frame, FlushFrame
<1> QED BY <1>1, Constants DEF Fresh, Filter

LEMMA RepeatedFrames ==
  ASSUME NEW f \in Filter, NEW upto \in Int
  PROVE  LET r == Repeated(f, upto)
         IN  /\ r \in Seq(Frame)
             /\ Len(r) = IF f.held # NoFrame /\ upto > f.held.pts THEN upto - f.held.pts ELSE 0
             /\ \A i \in 1..Len(r) : r[i] = [n |-> f.held.n, pts |-> f.held.pts + i - 1]
<1> DEFINE h == f.held
           d == IF upto > h.pts THEN upto - h.pts ELSE 0
           g == [i \in 1..d |-> [n |-> h.n, pts |-> h.pts + i - 1]]
<1>1. h.n \in Nat /\ h.pts \in Int /\ d \in Nat BY FilterFields
<1>2. CASE f.held = NoFrame BY <1>2 DEF Repeated
<1>3. CASE f.held # NoFrame
  <2>1. Repeated(f, upto) = g BY <1>3, Zenon DEF Repeated
  <2> HIDE DEF h, d
  <2>2. \A i \in 1..d : [n |-> h.n, pts |-> h.pts + i - 1] \in Frame BY <1>1 DEF Frame
  <2>3. g \in Seq(Frame) /\ Len(g) = d BY <1>1, <2>2
  <2>4. \A i \in 1..d : g[i] = [n |-> h.n, pts |-> h.pts + i - 1] OBVIOUS
  <2> HIDE DEF g
  <2> QED BY <1>3, <2>1, <2>3, <2>4 DEF h, d
<1> QED BY <1>2, <1>3

\* What a frame does to the video filter with a frame rate, and to the others.
LEMMA WrittenFields ==
  ASSUME NEW f \in Filter, NEW k, NEW x \in Frame, cfg \in Sessions
  PROVE  LET g == Written(f, k, x)
         IN  /\ g \in Filter
             /\ g.active = f.active /\ g.closed = f.closed /\ g.flushed = f.flushed
             /\ g.flushing = f.flushing /\ g.eof = f.eof /\ g.custom = x.pts
             /\ IF k = "video" /\ cfg.fps
                THEN /\ g.out = f.out \o Repeated(f, Ticks(x.pts))
                     /\ g.held = [n |-> x.n, pts |-> Ticks(x.pts)]
                ELSE g.out = Append(f.out, x) /\ g.held = f.held
<1> DEFINE r == f.out \o Repeated(f, Ticks(x.pts))
           h == [n |-> x.n, pts |-> Ticks(x.pts)]
           a == Append(f.out, x)
<1>1. x.n \in Nat /\ x.pts \in Int /\ Ticks(x.pts) \in Int BY TicksBounds DEF Frame
<1>2. r \in Seq(Frame) /\ h \in Frame /\ a \in Seq(Frame)
  <2>1. Repeated(f, Ticks(x.pts)) \in Seq(Frame) /\ f.out \in Seq(Frame)
    BY <1>1, RepeatedFrames, FilterFields
  <2> QED BY <1>1, <2>1 DEF Frame
<1>3. Written(f, k, x) = IF k = "video" /\ cfg.fps
                         THEN [f EXCEPT !.out = r, !.held = h, !.custom = x.pts]
                         ELSE [f EXCEPT !.out = a, !.custom = x.pts]
  BY Zenon DEF Written
<1> HIDE DEF r, h, a
<1>4. CASE k = "video" /\ cfg.fps
  <2> DEFINE g == [f EXCEPT !.out = r, !.held = h, !.custom = x.pts]
  <2>1. /\ g \in Filter
        /\ g.active = f.active /\ g.closed = f.closed /\ g.flushed = f.flushed
        /\ g.flushing = f.flushing /\ g.eof = f.eof /\ g.custom = x.pts /\ g.out = r /\ g.held = h
    BY <1>1, <1>2 DEF Filter
  <2>2. Written(f, k, x) = g BY <1>3, <1>4
  <2> HIDE DEF g
  <2> QED BY <1>4, <2>1, <2>2 DEF r, h
<1>5. CASE ~(k = "video" /\ cfg.fps)
  <2> DEFINE g == [f EXCEPT !.out = a, !.custom = x.pts]
  <2>1. /\ g \in Filter
        /\ g.active = f.active /\ g.closed = f.closed /\ g.flushed = f.flushed
        /\ g.flushing = f.flushing /\ g.eof = f.eof /\ g.custom = x.pts /\ g.out = a /\ g.held = f.held
    BY <1>1, <1>2 DEF Filter
  <2>2. Written(f, k, x) = g BY <1>3, <1>5
  <2> HIDE DEF g
  <2> QED BY <1>5, <2>1, <2>2 DEF a
<1> QED BY <1>4, <1>5

LEMMA EndedFields ==
  ASSUME NEW f \in Filter
  PROVE  LET g == [Ended(f) EXCEPT !.closed = TRUE]
         IN  /\ g \in Filter /\ g.closed
             /\ g.active = f.active /\ g.flushed = f.flushed /\ g.flushing = f.flushing
             /\ g.custom = f.custom /\ g.eof /\ g.held = NoFrame
             /\ g.out = f.out \o Repeated(f, Ticks(f.custom + Dur))
<1> DEFINE r == f.out \o Repeated(f, Ticks(f.custom + Dur))
<1>1. f.custom \in Int /\ f.custom + Dur \in Int BY FilterFields, Constants
<1>2. Ticks(f.custom + Dur) \in Int BY <1>1, TicksBounds
<1>3. r \in Seq(Frame)
  <2>1. Repeated(f, Ticks(f.custom + Dur)) \in Seq(Frame) /\ f.out \in Seq(Frame)
    BY <1>2, RepeatedFrames, FilterFields
  <2> QED BY <2>1
<1>4. NoFrame \in Frame BY Constants DEF NoFrame, Frame, FlushFrame
<1>5. Ended(f) = [f EXCEPT !.out = r, !.held = NoFrame, !.eof = TRUE] BY Zenon DEF Ended
<1> HIDE DEF r
<1> DEFINE e == [f EXCEPT !.out = r, !.held = NoFrame, !.eof = TRUE]
<1>6. /\ e \in Filter /\ e.active = f.active /\ e.flushed = f.flushed /\ e.flushing = f.flushing
      /\ e.custom = f.custom /\ e.eof /\ e.held = NoFrame /\ e.out = r
  BY <1>3, <1>4 DEF Filter
<1> HIDE DEF e
<1> DEFINE g == [e EXCEPT !.closed = TRUE]
<1>7. /\ g \in Filter /\ g.closed /\ g.active = e.active /\ g.flushed = e.flushed
      /\ g.flushing = e.flushing /\ g.custom = e.custom /\ g.eof = e.eof /\ g.held = e.held /\ g.out = e.out
  BY <1>6 DEF Filter
<1>8. [Ended(f) EXCEPT !.closed = TRUE] = g BY <1>5 DEF e
<1> HIDE DEF g
<1> QED BY <1>6, <1>7, <1>8 DEF r

\* A graph is closed once the output has a frame, and gets one more before.
LEMMA FlushedFields ==
  ASSUME EncodeTypeOK, NEW f \in Filter, NEW k
  PROVE  LET g == Flushed(f, k)
             step == IF k = "video" /\ cfg.fps THEN Tick ELSE Dur
         IN  /\ g \in Filter /\ g.active = f.active /\ g.flushed = f.flushed
             /\ octx.frames > 0 =>
                  /\ g.closed /\ g.held = NoFrame /\ g.eof
                  /\ g.out = f.out \o Repeated(f, Ticks(f.custom + Dur))
             /\ octx.frames = 0 =>
                  /\ g.closed = f.closed /\ g.flushing /\ g.eof = f.eof
                  /\ IF k = "video" /\ cfg.fps
                     THEN /\ g.out = f.out \o Repeated(f, Ticks(f.custom + step))
                          /\ g.held = [n |-> FlushFrame, pts |-> Ticks(f.custom + step)]
                     ELSE g.out = Append(f.out, [n |-> FlushFrame, pts |-> f.custom + step])
<1> DEFINE step == IF k = "video" /\ cfg.fps THEN Tick ELSE Dur
           x == [n |-> FlushFrame, pts |-> f.custom + step]
           c == [f EXCEPT !.flushing = TRUE]
<1>1. octx.frames \in Nat /\ cfg \in Sessions BY DEF EncodeTypeOK, OutputCtx
<1>2. CASE octx.frames > 0
  <2> DEFINE g == [Ended(f) EXCEPT !.closed = TRUE]
  <2>1. Flushed(f, k) = g BY <1>2 DEF Flushed
  <2>2. /\ g \in Filter /\ g.closed
        /\ g.active = f.active /\ g.flushed = f.flushed /\ g.flushing = f.flushing
        /\ g.custom = f.custom /\ g.eof /\ g.held = NoFrame
        /\ g.out = f.out \o Repeated(f, Ticks(f.custom + Dur))
    BY EndedFields
  <2>3. ~(octx.frames = 0) BY <1>2
  <2> HIDE DEF g
  <2> QED BY <1>2, <2>1, <2>2, <2>3
<1>3. CASE octx.frames = 0
  <2>0. ~(octx.frames > 0) BY <1>3
  <2>1. Flushed(f, k) = Written(c, k, x) BY <2>0, Zenon DEF Flushed
  <2>2. /\ c \in Filter /\ c.active = f.active /\ c.flushed = f.flushed /\ c.closed = f.closed
        /\ c.flushing /\ c.eof = f.eof /\ c.out = f.out /\ c.held = f.held /\ c.custom = f.custom
    BY DEF Filter
  <2>3. x \in Frame /\ x.n = FlushFrame /\ x.pts = f.custom + step
    BY FilterFields, Constants DEF Frame, FlushFrame
  <2>4. \A t : Repeated(c, t) = Repeated(f, t) BY <2>2 DEF Repeated
  <2> HIDE DEF c, x
  <2> DEFINE g == Written(c, k, x)
  <2>5. /\ g \in Filter
        /\ g.active = c.active /\ g.closed = c.closed /\ g.flushed = c.flushed
        /\ g.flushing = c.flushing /\ g.eof = c.eof /\ g.custom = x.pts
        /\ IF k = "video" /\ cfg.fps
           THEN /\ g.out = c.out \o Repeated(c, Ticks(x.pts))
                /\ g.held = [n |-> x.n, pts |-> Ticks(x.pts)]
           ELSE g.out = Append(c.out, x) /\ g.held = c.held
    BY <1>1, <2>2, <2>3, WrittenFields
  <2>6. x = [n |-> FlushFrame, pts |-> f.custom + step] BY DEF x
  <2>a. c.out = f.out /\ c.active = f.active /\ c.flushed = f.flushed /\ c.closed = f.closed
        /\ c.flushing /\ c.eof = f.eof
    BY <2>2
  <2>b. x.n = FlushFrame /\ x.pts = f.custom + step BY <2>3
  <2>c. Repeated(c, Ticks(x.pts)) = Repeated(f, Ticks(f.custom + step)) BY <2>4, <2>b
  <2> HIDE DEF g, step
  <2>7. /\ g \in Filter /\ g.active = f.active /\ g.flushed = f.flushed
        /\ g.closed = f.closed /\ g.flushing /\ g.eof = f.eof
        /\ IF k = "video" /\ cfg.fps
           THEN /\ g.out = f.out \o Repeated(f, Ticks(f.custom + step))
                /\ g.held = [n |-> FlushFrame, pts |-> Ticks(f.custom + step)]
           ELSE g.out = Append(f.out, [n |-> FlushFrame, pts |-> f.custom + step])
    BY <2>a, <2>b, <2>c, <2>5, <2>6
  <2>8. Flushed(f, k) = g BY <2>1 DEF g
  <2> HIDE DEF g
  <2> QED BY <2>0, <1>3, <2>8, <2>7 DEF step
<1>4. octx.frames > 0 \/ octx.frames = 0 BY <1>1
<1> QED BY <1>2, <1>3, <1>4, Zenon

-----------------------------------------------------------------------------
(* The steps of the encoder and the filter.                                 *)

LEMMA AppendLast ==
  ASSUME NEW S, NEW a \in Seq(S), NEW b \in Seq(S), NEW x \in S
  PROVE  a \o Append(b, x) = Append(a \o b, x)
<1>1. Len(a) \in Nat /\ Len(b) \in Nat OBVIOUS
<1>2. a \o Append(b, x) \in Seq(S) /\ Append(a \o b, x) \in Seq(S) OBVIOUS
<1>3. Len(a \o Append(b, x)) = Len(a) + Len(b) + 1 /\ Len(Append(a \o b, x)) = Len(a) + Len(b) + 1
  OBVIOUS
<1>4. ASSUME NEW i \in 1..Len(a) + Len(b) + 1
      PROVE  (a \o Append(b, x))[i] = Append(a \o b, x)[i]
  OBVIOUS
<1> QED BY <1>1, <1>2, <1>3, <1>4

LEMMA PairOfKinds ==
  ASSUME NEW S, NEW a \in S, NEW b \in S
  PROVE  LET p == [video |-> a, audio |-> b]
         IN  p \in [Kinds -> S] /\ p["video"] = a /\ p["audio"] = b
<1>1. [video |-> a, audio |-> b] = [k \in Kinds |-> IF k = "video" THEN a ELSE b]
  BY DEF Kinds
<1> QED BY <1>1 DEF Kinds

LEMMA TypeFields ==
  ASSUME EncodeTypeOK
  PROVE  /\ cfg \in Sessions /\ cur.kind \in Kinds /\ cur.flush \in BOOLEAN
         /\ src.seen \subseteq Kinds
         /\ \A k \in Kinds : /\ src.last[k] \in Int /\ filters[k] \in Filter
                             /\ enc[k] \in Seq(Packet) /\ muxed[k] \in Seq(Packet)
                             /\ fed[k] \in Seq(Frame) /\ first[k] \in Int /\ octx.start[k] \in Int
         /\ octx.frames \in Nat /\ octx.next_kf \in Int /\ octx.last_enc \in Int
         /\ octx.clip_started \in BOOLEAN
         /\ sent \in Seq(Packet)
BY DEF EncodeTypeOK, OutputCtx

LEMMA PacketFields ==
  ASSUME NEW p \in Packet
  PROVE  p.n \in Nat /\ p.at \in Int /\ p.enc \in Int /\ p.pts \in Int /\ p.key \in BOOLEAN
BY DEF Packet

LEMMA IncomingFrame ==
  ASSUME EncodeTypeOK, filters[cur.kind].out # <<>>
  PROVE  /\ Incoming \in Frame /\ Incoming.n \in Nat /\ Incoming.pts \in Int
         /\ Incoming = filters[cur.kind].out[1]
         /\ Tail(filters[cur.kind].out) \in Seq(Frame)
         /\ Len(Tail(filters[cur.kind].out)) = Len(filters[cur.kind].out) - 1
         /\ \A i \in 1..Len(filters[cur.kind].out) - 1 :
              Tail(filters[cur.kind].out)[i] = filters[cur.kind].out[i + 1]
<1> DEFINE o == filters[cur.kind].out
<1>1. o \in Seq(Frame) BY TypeFields, FilterFields
<1>2. o # <<>> OBVIOUS
<1>3. Incoming = Head(o) BY DEF Incoming
<1> HIDE DEF o
<1>4. /\ Head(o) = o[1] /\ o[1] \in Frame /\ Tail(o) \in Seq(Frame) /\ Len(Tail(o)) = Len(o) - 1
      /\ \A i \in 1..Len(o) - 1 : Tail(o)[i] = o[i + 1]
  BY <1>1, <1>2
<1>5. \A x \in Frame : x.n \in Nat /\ x.pts \in Int BY DEF Frame
<1> QED BY <1>3, <1>4, <1>5 DEF o

\* The frame is taken out of its filter; nothing else of the filters changes.
LEMMA TakenFields ==
  ASSUME EncodeTypeOK, filters[cur.kind].out # <<>>
  PROVE  LET f == [filters EXCEPT ![cur.kind].out = Tail(@)]
             k == cur.kind
         IN  /\ f \in [Kinds -> Filter]
             /\ f[k].out = Tail(filters[k].out)
             /\ f[k].active = filters[k].active /\ f[k].closed = filters[k].closed
             /\ f[k].flushed = filters[k].flushed /\ f[k].flushing = filters[k].flushing
             /\ f[k].custom = filters[k].custom /\ f[k].held = filters[k].held
             /\ f[k].eof = filters[k].eof
             /\ \A j \in Kinds : j # k => f[j] = filters[j]
<1> DEFINE k == cur.kind
           t == Tail(filters[k].out)
           g == [filters[k] EXCEPT !.out = t]
           f == [filters EXCEPT ![k].out = Tail(@)]
<1>1. t \in Seq(Frame) BY IncomingFrame
<1>2. k \in Kinds /\ filters \in [Kinds -> Filter] BY TypeFields DEF EncodeTypeOK
<1>3. f = [filters EXCEPT ![k] = g] BY <1>2
<1> HIDE DEF t
<1>4. /\ g \in Filter /\ g.out = t
      /\ g.active = filters[k].active /\ g.closed = filters[k].closed
      /\ g.flushed = filters[k].flushed /\ g.flushing = filters[k].flushing
      /\ g.custom = filters[k].custom /\ g.held = filters[k].held
      /\ g.eof = filters[k].eof
  BY <1>1, <1>2 DEF Filter
<1> HIDE DEF g
<1>5. f \in [Kinds -> Filter] /\ f[k] = g /\ \A j \in Kinds : j # k => f[j] = filters[j]
  BY <1>2, <1>3, <1>4
<1> HIDE DEF f
<1>6. /\ f \in [Kinds -> Filter] /\ f[k].out = t
      /\ f[k].active = filters[k].active /\ f[k].closed = filters[k].closed
      /\ f[k].flushed = filters[k].flushed /\ f[k].flushing = filters[k].flushing
      /\ f[k].custom = filters[k].custom /\ f[k].held = filters[k].held
      /\ f[k].eof = filters[k].eof
      /\ \A j \in Kinds : j # k => f[j] = filters[j]
  BY <1>4, <1>5
<1> QED BY <1>6 DEF f, t

LEMMA EncodedFields ==
  ASSUME EncodeTypeOK, NEW k \in Kinds, NEW p \in Packet, Encoded(k, p)
  PROVE  /\ enc' \in [Kinds -> Seq(Packet)] /\ muxed' \in [Kinds -> Seq(Packet)]
         /\ \A j \in Kinds : j # k => enc'[j] = enc[j] /\ muxed'[j] = muxed[j]
         /\ muxed'[k] \o enc'[k] = Append(muxed[k] \o enc[k], p)
<1> DEFINE e == enc[k]  m == muxed[k]  held == Append(e, p)
<1>0. enc \in [Kinds -> Seq(Packet)] /\ muxed \in [Kinds -> Seq(Packet)] BY DEF EncodeTypeOK
<1>1. e \in Seq(Packet) /\ m \in Seq(Packet) BY <1>0
<1>2. held \in Seq(Packet) /\ held # <<>> BY <1>1
<1>3. CASE Len(held) > EncDelay
  <2>1. enc' = [enc EXCEPT ![k] = Tail(held)] /\ muxed' = [muxed EXCEPT ![k] = Append(@, Head(held))]
    BY <1>3 DEF Encoded
  <2>2. enc'[k] = Tail(held) /\ muxed'[k] = Append(m, Head(held)) BY <1>0, <2>1
  <2>3. Tail(held) \in Seq(Packet) /\ Append(m, Head(held)) \in Seq(Packet) BY <1>1, <1>2
  <2>4. Append(m, Head(held)) \o Tail(held) = m \o held
    <3> HIDE DEF held, m
    <3> QED BY <1>1, <1>2
  <2>5. m \o held = Append(m \o e, p)
    <3> HIDE DEF e, m
    <3> QED BY <1>1, AppendLast
  <2> QED BY <1>0, <2>1, <2>2, <2>3, <2>4, <2>5
<1>4. CASE ~(Len(held) > EncDelay)
  <2>1. enc' = [enc EXCEPT ![k] = held] /\ muxed' = muxed
    BY <1>4 DEF Encoded
  <2>5. m \o held = Append(m \o e, p)
    <3> HIDE DEF e, m
    <3> QED BY <1>1, AppendLast
  <2> QED BY <1>0, <1>2, <2>1, <2>5
<1> QED BY <1>3, <1>4

LEMMA EndCallFields ==
  ASSUME EncodeTypeOK, NEW how, NEW f \in [Kinds -> Filter], NEW e \in [Kinds -> Seq(Packet)],
         EndCall(how, f, e)
  PROVE  /\ filters' \in [Kinds -> Filter] /\ enc' \in [Kinds -> Seq(Packet)]
         /\ filters'["video"] = Fresh(FALSE)
         /\ LET g == filters'["audio"]
            IN  /\ g.active = f["audio"].active /\ g.closed = f["audio"].closed
                /\ ~g.flushed /\ ~g.flushing
                /\ g.custom = f["audio"].custom /\ g.held = f["audio"].held
                /\ g.out = f["audio"].out /\ g.eof = f["audio"].eof
         /\ enc'["audio"] = <<>>
         /\ enc'["video"] = IF cfg.hw THEN e["video"] ELSE <<>>
         /\ upset' = (upset \/ lost' \/ how # "done")
<1> DEFINE g == [f["audio"] EXCEPT !.flushed = FALSE, !.flushing = FALSE]
<1>1. f["audio"] \in Filter BY DEF Kinds
<1>2. /\ g \in Filter /\ g.active = f["audio"].active /\ g.closed = f["audio"].closed
      /\ ~g.flushed /\ ~g.flushing
      /\ g.custom = f["audio"].custom /\ g.held = f["audio"].held
      /\ g.out = f["audio"].out /\ g.eof = f["audio"].eof
  BY <1>1 DEF Filter
<1>3. Fresh(FALSE) \in Filter BY FreshFilter
<1>4. filters' = [video |-> Fresh(FALSE), audio |-> g] BY DEF EndCall
<1>5. enc' = [video |-> IF cfg.hw THEN e["video"] ELSE <<>>, audio |-> <<>>] BY DEF EndCall
<1>6. e["video"] \in Seq(Packet) BY DEF Kinds
<1>7. upset' = (upset \/ lost' \/ how # "done") BY DEF EndCall
<1> HIDE DEF g
<1>8. filters' \in [Kinds -> Filter] /\ filters'["video"] = Fresh(FALSE) /\ filters'["audio"] = g
  BY <1>2, <1>3, <1>4, PairOfKinds, Zenon
<1>a. <<>> \in Seq(Packet) /\ (IF cfg.hw THEN e["video"] ELSE <<>>) \in Seq(Packet) BY <1>6
<1>9. enc' \in [Kinds -> Seq(Packet)] /\ enc'["audio"] = <<>>
      /\ enc'["video"] = IF cfg.hw THEN e["video"] ELSE <<>>
  BY <1>5, <1>a, PairOfKinds, Zenon
<1> QED BY <1>2, <1>7, <1>8, <1>9

\* What is known of a packet of the video.
LEMMA VideoPacketFields ==
  ASSUME EncodeTypeOK, Reads("video")
  PROVE  /\ Shifted("video") \in Int /\ EncoderTime(Shifted("video")) \in Int
         /\ MuxedTime(Shifted("video")) \in Int /\ NextKf \in Int
         /\ VideoPacket \in Packet
         /\ VideoPacket.n = Incoming.n /\ VideoPacket.at = Shifted("video")
         /\ VideoPacket.enc = EncoderTime(Shifted("video"))
         /\ VideoPacket.pts = MuxedTime(Shifted("video"))
         /\ VideoPacket.key = (ClipStarts \/ GopDue \/ octx.frames = 0)
<1>1. Incoming.n \in Nat /\ Incoming.pts \in Int BY IncomingFrame DEF Reads
<1>2. octx.start["video"] \in Int /\ octx.last_enc \in Int /\ octx.next_kf \in Int BY TypeFields DEF Kinds
<1>3. StartOf("video") \in Int BY <1>1, <1>2 DEF StartOf
<1>4. GopLen \in Int /\ From("video") \in Int BY ClipTypes, TypeFields
<1>5. Shifted("video") \in Int BY <1>1, <1>3, <1>4 DEF Shifted
<1>6. \A t \in Int : Ticks(t) \in Int BY TicksBounds
<1>7. Tick \in Int BY Constants
<1>8. EncoderTime(Shifted("video")) \in Int BY <1>2, <1>5, <1>6 DEF EncoderTime
<1>9. MuxedTime(Shifted("video")) \in Int BY <1>1, <1>5, <1>7, <1>8 DEF MuxedTime
<1>10. NextKf \in Int BY <1>1, <1>2, <1>4 DEF NextKf
<1>11. (ClipStarts \/ GopDue \/ octx.frames = 0) \in BOOLEAN OBVIOUS
<1> QED BY <1>1, <1>5, <1>8, <1>9, <1>10, <1>11 DEF VideoPacket, Packet

LEMMA MarkedFields ==
  ASSUME EncodeTypeOK, Reads("video")
  PROVE  /\ Marked \in OutputCtx
         /\ Marked.frames = octx.frames
         /\ Marked.start["video"] = StartOf("video") /\ Marked.start["audio"] = octx.start["audio"]
         /\ Marked.clip_started = (octx.clip_started \/ cfg.from # 0)
         /\ Marked.next_kf = IF GopDue THEN Shifted("video") + GopLen ELSE NextKf
         /\ Marked.last_enc = IF cfg.fps THEN octx.last_enc ELSE EncoderTime(Shifted("video"))
         /\ [Marked EXCEPT !.frames = @ + 1] \in OutputCtx
         /\ [Marked EXCEPT !.frames = @ + 1].frames = octx.frames + 1
         /\ [Marked EXCEPT !.frames = @ + 1].start = Marked.start
         /\ [Marked EXCEPT !.frames = @ + 1].clip_started = Marked.clip_started
         /\ [Marked EXCEPT !.frames = @ + 1].next_kf = Marked.next_kf
         /\ [Marked EXCEPT !.frames = @ + 1].last_enc = Marked.last_enc
<1> DEFINE s == StartOf("video")
           c == octx.clip_started \/ cfg.from # 0
           n == IF GopDue THEN Shifted("video") + GopLen ELSE NextKf
           l == IF cfg.fps THEN octx.last_enc ELSE EncoderTime(Shifted("video"))
           st == [octx.start EXCEPT !["video"] = s]
           m == [octx EXCEPT !.start = st, !.clip_started = c, !.next_kf = n, !.last_enc = l]
<1>0. octx \in OutputCtx BY DEF EncodeTypeOK
<1>1. s \in Int BY TypeFields, IncomingFrame DEF StartOf, Reads, Kinds
<1>2. c \in BOOLEAN OBVIOUS
<1>3. GopLen \in Int BY ClipTypes, TypeFields
<1>4. n \in Int BY <1>3, VideoPacketFields
<1>5. l \in Int BY VideoPacketFields, TypeFields
<1>6. st \in [Kinds -> Int] /\ st["video"] = s /\ st["audio"] = octx.start["audio"]
  BY <1>0, <1>1 DEF OutputCtx, Kinds
<1>7. Marked = m
  <2>1. Marked = [octx EXCEPT !.start["video"] = s, !.clip_started = c, !.next_kf = n, !.last_enc = l]
    BY Zenon DEF Marked
  <2> HIDE DEF s, c, n, l
  <2> QED BY <2>1, <1>0 DEF OutputCtx
<1> HIDE DEF s, c, n, l, st
<1>8. /\ m \in OutputCtx /\ m.frames = octx.frames /\ m.start = st /\ m.clip_started = c /\ m.next_kf = n
      /\ m.last_enc = l
  BY <1>0, <1>2, <1>4, <1>5, <1>6 DEF OutputCtx
<1>9. /\ [m EXCEPT !.frames = @ + 1] \in OutputCtx
      /\ [m EXCEPT !.frames = @ + 1].frames = octx.frames + 1
      /\ [m EXCEPT !.frames = @ + 1].start = m.start
      /\ [m EXCEPT !.frames = @ + 1].clip_started = m.clip_started
      /\ [m EXCEPT !.frames = @ + 1].next_kf = m.next_kf
      /\ [m EXCEPT !.frames = @ + 1].last_enc = m.last_enc
  <2>1. m.frames \in Nat BY <1>8, <1>0 DEF OutputCtx
  <2> HIDE DEF m
  <2> QED BY <1>8, <2>1 DEF OutputCtx
<1> HIDE DEF m
<1>10. Marked.frames = octx.frames /\ Marked.start = st /\ Marked.clip_started = c /\ Marked.next_kf = n
      /\ Marked.last_enc = l /\ Marked \in OutputCtx
  BY <1>7, <1>8
<1>11. /\ [Marked EXCEPT !.frames = @ + 1] \in OutputCtx
       /\ [Marked EXCEPT !.frames = @ + 1].frames = octx.frames + 1
       /\ [Marked EXCEPT !.frames = @ + 1].start = Marked.start
       /\ [Marked EXCEPT !.frames = @ + 1].clip_started = Marked.clip_started
       /\ [Marked EXCEPT !.frames = @ + 1].next_kf = Marked.next_kf
       /\ [Marked EXCEPT !.frames = @ + 1].last_enc = Marked.last_enc
  BY <1>7, <1>9
<1>12. Marked.start["video"] = s /\ Marked.start["audio"] = octx.start["audio"] BY <1>10, <1>6
<1>13. /\ s = StartOf("video") /\ c = (octx.clip_started \/ cfg.from # 0)
       /\ n = (IF GopDue THEN Shifted("video") + GopLen ELSE NextKf)
       /\ l = (IF cfg.fps THEN octx.last_enc ELSE EncoderTime(Shifted("video")))
  BY DEF s, c, n, l
<1> QED BY <1>10, <1>11, <1>12, <1>13

\* The next stream is flushed, or the call is over.
LEMMA NextStreamFields ==
  ASSUME EncodeTypeOK, NEW f \in [Kinds -> Filter], NEW e \in [Kinds -> Seq(Packet)],
         NextStream(f, e)
  PROVE  /\ filters' \in [Kinds -> Filter] /\ enc' \in [Kinds -> Seq(Packet)]
         /\ cur' \in [kind : Kinds, flush : BOOLEAN] /\ cur'.flush = cur.flush
         /\ \/ /\ cur.kind = "video" /\ cfg.audio
               /\ pc' = "flush" /\ cur'.kind = "audio"
               /\ filters' = f /\ enc' = e /\ outcome' = outcome /\ upset' = upset
            \/ /\ ~(cur.kind = "video" /\ cfg.audio)
               /\ EndCall("done", f, e) /\ cur' = cur /\ pc' = "idle" /\ outcome' = "done"
<1>1. cur \in [kind : Kinds, flush : BOOLEAN] BY DEF EncodeTypeOK
<1>2. CASE cur.kind = "video" /\ cfg.audio
  <2>1. pc' = "flush" /\ cur' = [cur EXCEPT !.kind = "audio"] /\ filters' = f /\ enc' = e
        /\ outcome' = outcome /\ upset' = upset
    BY <1>2 DEF NextStream
  <2> QED BY <1>1, <1>2, <2>1 DEF Kinds
<1>3. CASE ~(cur.kind = "video" /\ cfg.audio)
  <2>1. EndCall("done", f, e) /\ cur' = cur BY <1>3 DEF NextStream
  <2>2. pc' = "idle" /\ outcome' = "done" BY <2>1 DEF EndCall
  <2> QED BY <1>1, <1>3, <2>1, <2>2, EndCallFields
<1> QED BY <1>2, <1>3

LEMMA UpsetBoolean ==
  ASSUME EncodeTypeOK, NEW how, NEW f, NEW e, EndCall(how, f, e)
  PROVE  upset' \in BOOLEAN /\ pc' = "idle" /\ outcome' = how
BY DEF EndCall

\* Frame x of stream k, of raw time raw, is written to filter f.
Decodes(k, raw, x, f) ==
  /\ raw \in RawTimes(k) /\ x \in Frame /\ f \in Filter
  /\ raw \in Int
  /\ src.last[k] = NoPts => raw \in Nat
  /\ x.n = Len(fed[k]) + 1 /\ x.pts = Fixed(raw, src.last[k])
  /\ f = IF filters[k].active THEN filters[k] ELSE Fresh(TRUE)
  /\ f.active
  /\ src' = [last |-> [src.last EXCEPT ![k] = x.pts], seen |-> src.seen \cup {k}]
  /\ fed' = [fed EXCEPT ![k] = Append(@, x)]
  /\ first' = [first EXCEPT ![k] = IF @ = NoPts THEN x.pts ELSE @]
  /\ filters' \in [Kinds -> Filter]
  /\ filters'[k] = IF f.closed THEN f ELSE Written(f, k, x)
  /\ \A j \in Kinds : j # k => filters'[j] = filters[j]

LEMMA DecodeFields ==
  ASSUME EncodeTypeOK, NEW k \in Kinds, NEW max, Decode(k, max)
  PROVE  \E raw, x, f : Decodes(k, raw, x, f)
<1>1. PICK raw \in RawTimes(k) :
        LET x == [n |-> Len(fed[k]) + 1, pts |-> Fixed(raw, src.last[k])]
            f == IF filters[k].active THEN filters[k] ELSE Fresh(TRUE)
        IN  /\ src' = [last |-> [src.last EXCEPT ![k] = x.pts], seen |-> src.seen \cup {k}]
            /\ fed' = [fed EXCEPT ![k] = Append(@, x)]
            /\ first' = [first EXCEPT ![k] = IF @ = NoPts THEN x.pts ELSE @]
            /\ filters' = [filters EXCEPT ![k] = IF f.closed THEN f ELSE Written(f, k, x)]
  BY DEF Decode
<1> DEFINE x == [n |-> Len(fed[k]) + 1, pts |-> Fixed(raw, src.last[k])]
           f == IF filters[k].active THEN filters[k] ELSE Fresh(TRUE)
<1>2. src.last[k] \in Int /\ filters[k] \in Filter /\ Len(fed[k]) \in Nat /\ cfg \in Sessions
      /\ filters \in [Kinds -> Filter]
  BY TypeFields DEF EncodeTypeOK
<1>3. raw \in Int /\ (src.last[k] = NoPts => raw \in Nat)
  BY <1>2, Constants DEF RawTimes
<1>4. x \in Frame /\ x.n = Len(fed[k]) + 1 /\ x.pts = Fixed(raw, src.last[k])
  <2>1. Fixed(raw, src.last[k]) \in Int BY <1>2, <1>3, FixedTime
  <2>2. Len(fed[k]) + 1 \in Nat BY <1>2
  <2> QED BY <2>1, <2>2 DEF Frame
<1>5. f \in Filter /\ f.active BY <1>2, FreshFilter, FilterFields
<1> HIDE DEF x, f
<1>6. Written(f, k, x) \in Filter BY <1>2, <1>4, <1>5, WrittenFields
<1>7. /\ src' = [last |-> [src.last EXCEPT ![k] = x.pts], seen |-> src.seen \cup {k}]
      /\ fed' = [fed EXCEPT ![k] = Append(@, x)]
      /\ first' = [first EXCEPT ![k] = IF @ = NoPts THEN x.pts ELSE @]
      /\ filters' = [filters EXCEPT ![k] = IF f.closed THEN f ELSE Written(f, k, x)]
  BY <1>1 DEF x, f
<1> DEFINE g == IF f.closed THEN f ELSE Written(f, k, x)
<1>8. g \in Filter BY <1>5, <1>6
<1>a. filters' = [filters EXCEPT ![k] = g] BY <1>7
<1> HIDE DEF g
<1>9. filters' \in [Kinds -> Filter] /\ filters'[k] = g /\ \A j \in Kinds : j # k => filters'[j] = filters[j]
  BY <1>2, <1>8, <1>a
<1>10. f = (IF filters[k].active THEN filters[k] ELSE Fresh(TRUE)) BY DEF f
<1>11. Decodes(k, raw, x, f) BY <1>3, <1>4, <1>5, <1>7, <1>9, <1>10 DEF g, Decodes
<1> QED BY <1>11

\* The flush of a filter.
LEMMA WriteFlushFields ==
  ASSUME EncodeTypeOK, WriteFlush
  PROVE  \/ NothingToFlush /\ NextStream(filters, enc)
         \/ /\ ~NothingToFlush
            /\ filters' \in [Kinds -> Filter]
            /\ filters'[cur.kind] = IF filters[cur.kind].closed \/ filters[cur.kind].flushed
                                    THEN filters[cur.kind]
                                    ELSE Flushed(filters[cur.kind], cur.kind)
            /\ \A j \in Kinds : j # cur.kind => filters'[j] = filters[j]
            /\ pc' = "read" /\ UNCHANGED <<enc, cur, outcome, upset>>
<1> DEFINE f == filters[cur.kind]
           g == IF f.closed \/ f.flushed THEN f ELSE Flushed(f, cur.kind)
<1>1. CASE NothingToFlush BY <1>1 DEF WriteFlush
<1>2. CASE ~NothingToFlush
  <2>1. filters' = [filters EXCEPT ![cur.kind] = g] /\ pc' = "read"
        /\ UNCHANGED <<enc, cur, outcome, upset>>
    BY <1>2 DEF WriteFlush
  <2>2. f \in Filter /\ cur.kind \in Kinds /\ filters \in [Kinds -> Filter] BY TypeFields DEF EncodeTypeOK
  <2>3. Flushed(f, cur.kind) \in Filter BY <2>2, FlushedFields
  <2>4. g \in Filter BY <2>2, <2>3
  <2>5. filters' \in [Kinds -> Filter] /\ filters'[cur.kind] = g
        /\ \A j \in Kinds : j # cur.kind => filters'[j] = filters[j]
    <3> HIDE DEF g
    <3> QED BY <2>1, <2>2, <2>4
  <2> QED BY <1>2, <2>1, <2>5
<1> QED BY <1>1, <1>2

LEMMA ReadFlushFrameFields ==
  ASSUME EncodeTypeOK, ReadFlushFrame
  PROVE  LET k == cur.kind
         IN  /\ filters' \in [Kinds -> Filter]
             /\ filters'[k].out = Tail(filters[k].out)
             /\ filters'[k].active = filters[k].active /\ filters'[k].closed = filters[k].closed
             /\ filters'[k].flushed = (filters[k].flushed \/ filters[k].flushing)
             /\ filters'[k].flushing = filters[k].flushing
             /\ filters'[k].custom = filters[k].custom /\ filters'[k].held = filters[k].held
             /\ filters'[k].eof = filters[k].eof
             /\ \A j \in Kinds : j # k => filters'[j] = filters[j]
<1> DEFINE k == cur.kind
           t == Tail(filters[k].out)
           u == filters[k].flushed \/ filters[k].flushing
           g == [filters[k] EXCEPT !.out = t, !.flushed = u]
<1>0. filters[k].out # <<>> BY DEF ReadFlushFrame
<1>1. t \in Seq(Frame) BY <1>0, IncomingFrame
<1>2. k \in Kinds /\ filters \in [Kinds -> Filter] BY TypeFields DEF EncodeTypeOK
<1>3. filters' = [filters EXCEPT ![k] = g]
  <2>1. filters' = [filters EXCEPT ![k].out = Tail(@), ![k].flushed = @ \/ filters[k].flushing]
    BY DEF ReadFlushFrame
  <2>2. filters[k] \in Filter BY <1>2
  <2> QED BY <2>1, <2>2, <1>2 DEF Filter
<1>5. u \in BOOLEAN OBVIOUS
<1> HIDE DEF t, u
<1>4. /\ g \in Filter /\ g.out = t /\ g.flushed = u
      /\ g.active = filters[k].active /\ g.closed = filters[k].closed
      /\ g.flushing = filters[k].flushing
      /\ g.custom = filters[k].custom /\ g.held = filters[k].held
      /\ g.eof = filters[k].eof
  BY <1>1, <1>2, <1>5 DEF Filter
<1> HIDE DEF g
<1>6. filters' \in [Kinds -> Filter] /\ filters'[k] = g /\ \A j \in Kinds : j # k => filters'[j] = filters[j]
  BY <1>2, <1>3, <1>4
<1>7. /\ filters' \in [Kinds -> Filter]
      /\ filters'[k].out = t /\ filters'[k].flushed = u
      /\ filters'[k].active = filters[k].active /\ filters'[k].closed = filters[k].closed
      /\ filters'[k].flushing = filters[k].flushing
      /\ filters'[k].custom = filters[k].custom /\ filters'[k].held = filters[k].held
      /\ filters'[k].eof = filters[k].eof
      /\ \A j \in Kinds : j # k => filters'[j] = filters[j]
  BY <1>4, <1>6
<1> QED BY <1>7 DEF t, u

LEMMA FlushReturnsFields ==
  ASSUME EncodeTypeOK, NEW ret, NEW e \in [Kinds -> Seq(Packet)], FlushReturns(ret, e)
  PROVE  \/ Returned(ret) = "eof" /\ NextStream(filters, e)
         \/ /\ Returned(ret) # "eof"
            /\ pc' = "flush" /\ enc' = e /\ UNCHANGED <<filters, cur, outcome, upset>>
BY DEF FlushReturns

LEMMA StreamAddedFields ==
  ASSUME EncodeTypeOK
  PROVE  LET o == StreamAdded(octx)
         IN  /\ o \in OutputCtx
             /\ o.frames = 0 /\ o.last_enc = NoPts
             /\ o.next_kf = (IF cfg.gop # 0 THEN 0 ELSE octx.next_kf)
             /\ o.clip_started = octx.clip_started /\ o.start = octx.start
<1> DEFINE n == IF cfg.gop # 0 THEN 0 ELSE octx.next_kf
           o == [octx EXCEPT !.frames = 0, !.last_enc = NoPts, !.next_kf = n]
<1>1. octx \in OutputCtx BY DEF EncodeTypeOK
<1>2. n \in Int BY <1>1 DEF OutputCtx
<1>3. StreamAdded(octx) = o BY <1>1, Zenon DEF StreamAdded
<1> HIDE DEF n
<1>4. o \in OutputCtx /\ o.frames = 0 /\ o.last_enc = NoPts /\ o.next_kf = n
      /\ o.clip_started = octx.clip_started /\ o.start = octx.start
  BY <1>1, <1>2, Constants DEF OutputCtx
<1> HIDE DEF o
<1> QED BY <1>3, <1>4 DEF n

-----------------------------------------------------------------------------
LEMMA InitTypes == Init => EncodeTypeOK
<1> SUFFICES ASSUME Init PROVE EncodeTypeOK OBVIOUS
<1>1. Fresh(FALSE) \in Filter /\ Fresh(TRUE) \in Filter BY FreshFilter
<1>2. filters \in [Kinds -> Filter] BY <1>1, PairOfKinds, Zenon DEF Init
<1>3. Both(NoPts) \in [Kinds -> Int] BY Constants DEF Both
<1>4. src \in [last : [Kinds -> Int], seen : SUBSET Kinds] BY <1>3 DEF Init
<1>5. enc \in [Kinds -> Seq(Packet)] /\ muxed \in [Kinds -> Seq(Packet)]
      /\ fed \in [Kinds -> Seq(Frame)]
  BY DEF Init, Both
<1>6. octx \in OutputCtx BY <1>3, Constants DEF Init, OutputCtx
<1>7. cur \in [kind : Kinds, flush : BOOLEAN] BY DEF Init, Kinds
<1>8. first \in [Kinds -> Int] /\ sent \in Seq(Packet) BY <1>3 DEF Init
<1>9. cfg \in Sessions /\ pc = "idle" /\ outcome = "none" /\ lost = FALSE /\ upset = FALSE
      /\ calls = 0 /\ faults = 0
  BY DEF Init
<1> QED BY <1>2, <1>4, <1>5, <1>6, <1>7, <1>8, <1>9 DEF EncodeTypeOK

LEMMA BeginCallTypes == EncodeTypeOK /\ BeginCall => EncodeTypeOK'
<1> SUFFICES ASSUME EncodeTypeOK, BeginCall PROVE EncodeTypeOK' OBVIOUS
<1> DEFINE b == ~cfg.hw \/ calls = 0
<1>1. b \in BOOLEAN OBVIOUS
<1>2. Fresh(b) \in Filter
  <2> HIDE DEF b
  <2> QED BY <1>1, FreshFilter
<1>3. filters' = [filters EXCEPT !["video"] = Fresh(b)] BY DEF BeginCall
<1> HIDE DEF b
<1>4. filters' \in [Kinds -> Filter] BY <1>2, <1>3 DEF EncodeTypeOK
<1>5. src' \in [last : [Kinds -> Int], seen : SUBSET Kinds]
  BY Constants DEF BeginCall, EncodeTypeOK, Both
<1>6. octx' \in OutputCtx BY StreamAddedFields DEF BeginCall
<1>7. fed' \in [Kinds -> Seq(Frame)] /\ muxed' \in [Kinds -> Seq(Packet)] /\ sent' \in Seq(Packet)
  BY DEF BeginCall, Both
<1>8. calls' \in Nat /\ pc' = "decode" /\ outcome' = "none" /\ lost' = FALSE
      /\ UNCHANGED <<cfg, enc, cur, first, upset, faults>>
  BY DEF BeginCall, EncodeTypeOK
<1> QED BY <1>4, <1>5, <1>6, <1>7, <1>8 DEF EncodeTypeOK

LEMMA DecodeTypes ==
  ASSUME EncodeTypeOK, NEW k \in Kinds, NEW max, Decode(k, max) PROVE EncodeTypeOK'
<1>0. PICK raw, x, f : Decodes(k, raw, x, f) BY DecodeFields
<1>1. /\ src' = [last |-> [src.last EXCEPT ![k] = x.pts], seen |-> src.seen \cup {k}]
      /\ fed' = [fed EXCEPT ![k] = Append(@, x)]
      /\ first' = [first EXCEPT ![k] = IF @ = NoPts THEN x.pts ELSE @]
      /\ filters' \in [Kinds -> Filter] /\ x \in Frame
  BY <1>0 DEF Decodes
<1>2. x.pts \in Int BY <1>1 DEF Frame
<1>3. src' \in [last : [Kinds -> Int], seen : SUBSET Kinds] BY <1>1, <1>2 DEF EncodeTypeOK
<1>4. fed' \in [Kinds -> Seq(Frame)] BY <1>1 DEF EncodeTypeOK
<1>5. first' \in [Kinds -> Int]
  <2> DEFINE v == IF first[k] = NoPts THEN x.pts ELSE first[k]
  <2>1. v \in Int BY <1>2, TypeFields
  <2>2. first' = [first EXCEPT ![k] = v] BY <1>1
  <2> HIDE DEF v
  <2> QED BY <2>1, <2>2 DEF EncodeTypeOK
<1>6. pc' = "read" /\ cur' = [kind |-> k, flush |-> FALSE]
      /\ UNCHANGED <<cfg, enc, octx, outcome, sent, muxed, lost, upset, calls, faults>>
  BY DEF Decode
<1> QED BY <1>1, <1>3, <1>4, <1>5, <1>6 DEF EncodeTypeOK

LEMMA NextStreamTypes ==
  ASSUME EncodeTypeOK, NEW f \in [Kinds -> Filter], NEW e \in [Kinds -> Seq(Packet)],
         NextStream(f, e), octx' \in OutputCtx, lost' \in BOOLEAN, faults' \in Nat,
         muxed' \in [Kinds -> Seq(Packet)],
         UNCHANGED <<cfg, src, fed, sent, first, calls>>
  PROVE  EncodeTypeOK'
<1>1. filters' \in [Kinds -> Filter] /\ enc' \in [Kinds -> Seq(Packet)]
      /\ cur' \in [kind : Kinds, flush : BOOLEAN]
  BY NextStreamFields
<1>2. pc' \in {"flush", "idle"} /\ outcome' \in {outcome, "done"} /\ upset' \in BOOLEAN
  <2>1. CASE cur.kind = "video" /\ cfg.audio BY <2>1 DEF NextStream, EncodeTypeOK
  <2>2. CASE ~(cur.kind = "video" /\ cfg.audio) BY <2>2 DEF NextStream, EndCall
  <2> QED BY <2>1, <2>2
<1> QED BY <1>1, <1>2 DEF EncodeTypeOK

LEMMA WriteFlushTypes == EncodeTypeOK /\ WriteFlush => EncodeTypeOK'
<1> SUFFICES ASSUME EncodeTypeOK, WriteFlush PROVE EncodeTypeOK' OBVIOUS
<1>0. lost' = lost /\ UNCHANGED <<cfg, src, octx, fed, sent, muxed, first, calls, faults>>
  BY DEF WriteFlush
<1>1. CASE NextStream(filters, enc)
  BY <1>0, <1>1, NextStreamTypes DEF EncodeTypeOK
<1>2. CASE filters' \in [Kinds -> Filter] /\ pc' = "read" /\ UNCHANGED <<enc, cur, outcome, upset>>
  BY <1>0, <1>2 DEF EncodeTypeOK
<1> QED BY <1>1, <1>2, WriteFlushFields

LEMMA StartInContext ==
  ASSUME EncodeTypeOK, NEW k \in Kinds, NEW s \in Int
  PROVE  LET o == [octx EXCEPT !.start[k] = s]
         IN  /\ o \in OutputCtx /\ o.frames = octx.frames /\ o.next_kf = octx.next_kf
             /\ o.last_enc = octx.last_enc /\ o.clip_started = octx.clip_started
             /\ o.start[k] = s /\ \A j \in Kinds : j # k => o.start[j] = octx.start[j]
<1> DEFINE st == [octx.start EXCEPT ![k] = s]
           o == [octx EXCEPT !.start = st]
<1>1. octx \in OutputCtx BY DEF EncodeTypeOK
<1>2. st \in [Kinds -> Int] /\ st[k] = s /\ \A j \in Kinds : j # k => st[j] = octx.start[j]
  BY <1>1 DEF OutputCtx
<1>3. [octx EXCEPT !.start[k] = s] = o BY <1>1 DEF OutputCtx
<1> HIDE DEF st
<1>4. o \in OutputCtx /\ o.frames = octx.frames /\ o.next_kf = octx.next_kf
      /\ o.last_enc = octx.last_enc /\ o.clip_started = octx.clip_started /\ o.start = st
  BY <1>1, <1>2 DEF OutputCtx
<1> HIDE DEF o
<1> QED BY <1>2, <1>3, <1>4

LEMMA AudioPacketFields ==
  ASSUME EncodeTypeOK, Reads("audio")
  PROVE  LET at == Shifted("audio")
         IN  [n |-> Incoming.n, at |-> at, enc |-> at, pts |-> at, key |-> FALSE] \in Packet
<1>1. Incoming.n \in Nat /\ Incoming.pts \in Int BY IncomingFrame DEF Reads
<1>2. StartOf("audio") \in Int BY <1>1, TypeFields DEF StartOf, Kinds
<1>3. From("audio") \in Int BY ClipTypes, TypeFields
<1>4. Shifted("audio") \in Int BY <1>1, <1>2, <1>3 DEF Shifted
<1> HIDE DEF Shifted
<1> QED BY <1>1, <1>4 DEF Packet

LEMMA FlushedEncoder ==
  ASSUME EncodeTypeOK
  PROVE  /\ [enc EXCEPT ![cur.kind] = <<>>] \in [Kinds -> Seq(Packet)]
         /\ [muxed EXCEPT ![cur.kind] = @ \o enc[cur.kind]] \in [Kinds -> Seq(Packet)]
<1>1. enc[cur.kind] \in Seq(Packet) /\ muxed[cur.kind] \in Seq(Packet) /\ <<>> \in Seq(Packet)
  BY TypeFields
<1>2. muxed[cur.kind] \o enc[cur.kind] \in Seq(Packet) BY <1>1
<1> QED BY <1>1, <1>2 DEF EncodeTypeOK

LEMMA NextTypes == EncodeTypeOK /\ [Next]_vars => EncodeTypeOK'
<1> SUFFICES ASSUME EncodeTypeOK, [Next]_vars PROVE EncodeTypeOK' OBVIOUS
<1>a. cur.kind \in Kinds /\ "video" \in Kinds /\ "audio" \in Kinds BY TypeFields DEF Kinds
<1>b. ASSUME NEW k \in Kinds, filters[cur.kind].out # <<>> PROVE StartOf(k) \in Int
  BY <1>b, TypeFields, IncomingFrame DEF StartOf
<1>1. CASE BeginCall BY <1>1, BeginCallTypes
<1>2. CASE DecodeVideo BY <1>2, <1>a, DecodeTypes DEF DecodeVideo
<1>3. CASE DecodeAudio BY <1>3, <1>a, DecodeTypes DEF DecodeAudio
<1>4. CASE EndOfInput BY <1>4, <1>a DEF EndOfInput, EncodeTypeOK, Kinds
<1>5. CASE WriteFlush BY <1>5, WriteFlushTypes
<1>6. CASE ReadFlushFrame
  <2>1. filters' \in [Kinds -> Filter] BY <1>6, ReadFlushFrameFields
  <2>2. UNCHANGED <<cfg, src, enc, octx, pc, cur, outcome, fed, sent, muxed, first, lost, upset, calls, faults>>
    BY <1>6 DEF ReadFlushFrame
  <2> QED BY <2>1, <2>2 DEF EncodeTypeOK
<1>7. CASE SkipFrame
  <2>0. filters[cur.kind].out # <<>> BY <1>7 DEF SkipFrame, Reads
  <2>1. filters' \in [Kinds -> Filter] BY <1>7, <2>0, TakenFields DEF SkipFrame, Taken
  <2>2. octx' \in OutputCtx BY <1>7, <1>a, <1>b, <2>0, StartInContext DEF SkipFrame
  <2>3. UNCHANGED <<cfg, src, enc, pc, cur, outcome, fed, sent, muxed, first, lost, upset, calls, faults>>
    BY <1>7 DEF SkipFrame
  <2> QED BY <2>1, <2>2, <2>3 DEF EncodeTypeOK
<1>8. CASE EncodeVideo
  <2>0. Reads("video") /\ cur.kind = "video" /\ filters[cur.kind].out # <<>> BY <1>8 DEF EncodeVideo, Reads
  <2>1. filters' \in [Kinds -> Filter] BY <1>8, <2>0, TakenFields DEF EncodeVideo, Taken
  <2>2. octx' \in OutputCtx BY <1>8, <2>0, MarkedFields DEF EncodeVideo
  <2>3. sent' \in Seq(Packet) BY <1>8, <2>0, VideoPacketFields, TypeFields DEF EncodeVideo
  <2>4. enc' \in [Kinds -> Seq(Packet)] /\ muxed' \in [Kinds -> Seq(Packet)] /\ lost' \in BOOLEAN
        /\ faults' \in Nat
    <3>1. CASE Encoded("video", VideoPacket) /\ UNCHANGED <<lost, faults>>
      BY <3>1, <1>a, <2>0, VideoPacketFields, EncodedFields DEF EncodeTypeOK
    <3>2. CASE EncoderFails /\ UNCHANGED <<enc, muxed>> BY <3>2 DEF EncoderFails, EncodeTypeOK
    <3> QED BY <3>1, <3>2, <1>8 DEF EncodeVideo
  <2>5. UNCHANGED <<cfg, src, pc, cur, outcome, fed, first, upset, calls>> BY <1>8 DEF EncodeVideo
  <2> QED BY <2>1, <2>2, <2>3, <2>4, <2>5 DEF EncodeTypeOK
<1>9. CASE EncodeRunsAway
  <2>0. Reads("video") /\ cur.kind = "video" /\ filters[cur.kind].out # <<>> BY <1>9 DEF EncodeRunsAway, Reads
  <2>1. [filters EXCEPT !["video"].out = Tail(@)] \in [Kinds -> Filter] BY <2>0, TakenFields
  <2>2. octx' \in OutputCtx BY <1>9, <2>0, MarkedFields DEF EncodeRunsAway
  <2>3. UNCHANGED <<cfg, src, fed, sent, muxed, first, calls, faults>> BY <1>9 DEF EncodeRunsAway
  <2>4. CASE cur.flush
    <3>1. lost' = TRUE /\ NextStream([filters EXCEPT !["video"].out = Tail(@)], enc)
      BY <1>9, <2>4 DEF EncodeRunsAway
    <3> QED BY <2>1, <2>2, <2>3, <3>1, NextStreamTypes DEF EncodeTypeOK
  <2>5. CASE ~cur.flush
    <3>1. UNCHANGED <<lost, cur>> /\ EndCall("runaway", [filters EXCEPT !["video"].out = Tail(@)], enc)
      BY <1>9, <2>5 DEF EncodeRunsAway
    <3>2. filters' \in [Kinds -> Filter] /\ enc' \in [Kinds -> Seq(Packet)]
      BY <2>1, <3>1, EndCallFields DEF EncodeTypeOK
    <3>3. upset' \in BOOLEAN /\ pc' = "idle" /\ outcome' = "runaway" BY <3>1, UpsetBoolean
    <3> QED BY <2>2, <2>3, <3>1, <3>2, <3>3 DEF EncodeTypeOK
  <2> QED BY <2>4, <2>5
<1>10. CASE EncodeAudio
  <2>0. Reads("audio") /\ cur.kind = "audio" /\ filters[cur.kind].out # <<>> BY <1>10 DEF EncodeAudio, Reads
  <2>1. filters' \in [Kinds -> Filter] BY <1>10, <2>0, TakenFields DEF EncodeAudio, Taken
  <2>2. octx' \in OutputCtx BY <1>10, <1>a, <1>b, <2>0, StartInContext DEF EncodeAudio
  <2>3. enc' \in [Kinds -> Seq(Packet)] /\ muxed' \in [Kinds -> Seq(Packet)]
    BY <1>10, <1>a, <2>0, AudioPacketFields, EncodedFields DEF EncodeAudio
  <2>4. UNCHANGED <<cfg, src, pc, cur, outcome, fed, sent, first, lost, upset, calls, faults>>
    BY <1>10 DEF EncodeAudio
  <2> QED BY <2>1, <2>2, <2>3, <2>4 DEF EncodeTypeOK
<1>11. CASE ReturnToDecode BY <1>11 DEF ReturnToDecode, EncodeTypeOK
<1>12. CASE FlushEncoder
  <2>1. UNCHANGED <<cfg, src, octx, fed, sent, first, calls, lost, faults>> BY <1>12 DEF FlushEncoder
  <2>2. muxed' \in [Kinds -> Seq(Packet)] BY <1>12, FlushedEncoder DEF FlushEncoder
  <2> DEFINE e == [enc EXCEPT ![cur.kind] = <<>>]
  <2>3. e \in [Kinds -> Seq(Packet)] BY FlushedEncoder
  <2>4. \E r : FlushReturns(r, e) BY <1>12 DEF FlushEncoder
  <2> HIDE DEF e
  <2>5. \/ NextStream(filters, e)
        \/ pc' = "flush" /\ enc' = e /\ UNCHANGED <<filters, cur, outcome, upset>>
    BY <2>3, <2>4, FlushReturnsFields
  <2>6. CASE NextStream(filters, e) BY <2>1, <2>2, <2>3, <2>6, NextStreamTypes DEF EncodeTypeOK
  <2> QED BY <2>1, <2>2, <2>3, <2>5, <2>6 DEF EncodeTypeOK
<1>13. CASE FlushEncoderFails
  <2>1. UNCHANGED <<cfg, src, octx, fed, sent, muxed, first, calls>> BY <1>13 DEF FlushEncoderFails
  <2>2. NextStream(filters, enc) /\ lost' = TRUE /\ faults' = faults + 1
    BY <1>13 DEF FlushEncoderFails, EncoderFails
  <2>3. faults' \in Nat /\ lost' \in BOOLEAN BY <2>2 DEF EncodeTypeOK
  <2> QED BY <2>1, <2>2, <2>3, NextStreamTypes DEF EncodeTypeOK
<1>14. CASE SkipFlush
  <2>1. UNCHANGED <<cfg, src, octx, fed, sent, muxed, first, calls, faults, lost>> BY <1>14 DEF SkipFlush
  <2>2. \E r : FlushReturns(r, enc) BY <1>14 DEF SkipFlush
  <2>3. \/ NextStream(filters, enc)
        \/ pc' = "flush" /\ enc' = enc /\ UNCHANGED <<filters, cur, outcome, upset>>
    BY <2>2, FlushReturnsFields DEF EncodeTypeOK
  <2>4. CASE NextStream(filters, enc) BY <2>1, <2>4, NextStreamTypes DEF EncodeTypeOK
  <2> QED BY <2>1, <2>3, <2>4 DEF EncodeTypeOK
<1>15. CASE UNCHANGED vars BY <1>15 DEF vars, EncodeTypeOK
<1> QED BY <1>1, <1>2, <1>3, <1>4, <1>5, <1>6, <1>7, <1>8, <1>9, <1>10, <1>11, <1>12, <1>13, <1>14, <1>15
        DEF Next, Process

\* Every state the output reaches is of its type.
THEOREM EncodeTypes == Spec => []EncodeTypeOK
<1> QED BY InitTypes, NextTypes, PTL DEF Spec

-----------------------------------------------------------------------------
(* Control.                                                                 *)

V == fed["video"]
A == fed["audio"]
VF == filters["video"]
AF == filters["audio"]

\* Frames of the video are decoded, or it is to be flushed.
VideoPhase ==
  \/ pc = "decode"
  \/ pc = "read" /\ ~cur.flush
  \/ pc = "flush" /\ cur.kind = "video"

\* The filter of the video has been flushed and is read.
VideoFlush == pc = "read" /\ cur.flush /\ cur.kind = "video"

\* Where the control is, which streams have frames, and which filter has some.
Control ==
  /\ pc \in {"read", "flush"} => cfg[cur.kind]
  /\ pc = "flush" => cur.flush
  /\ ~cfg.video => V = <<>> /\ sent = <<>>
  /\ ~cfg.audio => A = <<>>
  /\ octx.frames = Len(sent)
  /\ VideoPhase /\ (pc = "read" => cur.kind = "audio") => VF.out = <<>>
  /\ ~(pc = "read" /\ cur.kind = "audio") => AF.out = <<>>
  /\ AF.active
  /\ calls = 0 => pc = "idle"
  /\ pc # "idle" => outcome = "none"
  /\ pc = "idle" /\ outcome = "none" => V = <<>> /\ sent = <<>>

LEMMA NextStreamControl ==
  ASSUME EncodeTypeOK, Control, NEW f \in [Kinds -> Filter], NEW e \in [Kinds -> Seq(Packet)],
         NextStream(f, e), pc # "idle", cur.flush, f["audio"].out = <<>>, f["audio"].active,
         octx'.frames = octx.frames, UNCHANGED <<cfg, fed, sent, calls>>
  PROVE  Control'
<1>1. CASE cur.kind = "video" /\ cfg.audio
  <2>1. pc' = "flush" /\ cur'.kind = "audio" /\ cur'.flush /\ filters' = f /\ outcome' = outcome
    BY <1>1, NextStreamFields
  <2>2. cfg["audio"] = cfg.audio BY SessionFields, TypeFields
  <2> QED BY <1>1, <2>1, <2>2 DEF Control, V, A, VF, AF, VideoPhase
<1>2. CASE ~(cur.kind = "video" /\ cfg.audio)
  <2>1. EndCall("done", f, e) /\ cur' = cur /\ pc' = "idle" /\ outcome' = "done"
    BY <1>2, NextStreamFields
  <2>2. filters'["audio"].out = <<>> /\ filters'["audio"].active BY <2>1, EndCallFields
  <2> QED BY <2>1, <2>2 DEF Control, V, A, VF, AF, VideoPhase
<1> QED BY <1>1, <1>2

LEMMA ControlInit == Init => Control
<1> SUFFICES ASSUME Init PROVE Control OBVIOUS
<1>1. V = <<>> /\ A = <<>> BY DEF Init, V, A, Both, Kinds
<1>2. VF = Fresh(FALSE) /\ AF = Fresh(TRUE) BY DEF Init, VF, AF
<1>3. VF.out = <<>> /\ AF.out = <<>> /\ AF.active BY <1>2, FreshFilter
<1>4. pc = "idle" /\ sent = <<>> /\ octx.frames = 0 /\ outcome = "none" BY DEF Init
<1> QED BY <1>1, <1>3, <1>4 DEF Control

LEMMA ControlNext == EncodeTypeOK /\ Control /\ [Next]_vars => Control'
<1> SUFFICES ASSUME EncodeTypeOK, Control, [Next]_vars PROVE Control' OBVIOUS
<1>a. cur.kind \in Kinds /\ "video" \in Kinds /\ "audio" \in Kinds BY TypeFields DEF Kinds
<1>b. cfg["video"] = cfg.video /\ cfg["audio"] = cfg.audio /\ (cfg.video \/ cfg.audio)
  BY SessionFields, TypeFields
<1>c. octx.frames = Len(sent) /\ sent \in Seq(Packet) BY TypeFields DEF Control
<1>1. CASE BeginCall
  <2>1. octx'.frames = 0 BY <1>1, StreamAddedFields DEF BeginCall
  <2>2. VF'.out = <<>>
    <3> DEFINE b == ~cfg.hw \/ calls = 0
    <3>1. VF' = Fresh(b) BY <1>1 DEF BeginCall, VF, EncodeTypeOK, Kinds
    <3>2. b \in BOOLEAN OBVIOUS
    <3> HIDE DEF b
    <3> QED BY <3>1, <3>2, FreshFilter
  <2>3. AF' = AF BY <1>1 DEF BeginCall, AF, EncodeTypeOK, Kinds
  <2>4. V' = <<>> /\ A' = <<>> BY <1>1 DEF BeginCall, Both, V, A, Kinds
  <2>5. sent' = <<>> /\ pc' = "decode" /\ pc = "idle" /\ outcome' = "none" /\ calls' = calls + 1 /\ cfg' = cfg
    BY <1>1 DEF BeginCall
  <2>6. calls' # 0 BY <2>5 DEF EncodeTypeOK
  <2> QED BY <2>1, <2>2, <2>3, <2>4, <2>5, <2>6 DEF Control, VideoPhase
<1>2. ASSUME NEW k \in Kinds, NEW max, Decode(k, max) PROVE Control'
  <2>0. PICK raw, x, f : Decodes(k, raw, x, f) BY <1>2, DecodeFields
  <2>1. /\ f = IF filters[k].active THEN filters[k] ELSE Fresh(TRUE)
        /\ f.active /\ f \in Filter /\ x \in Frame
        /\ fed' = [fed EXCEPT ![k] = Append(@, x)]
        /\ filters'[k] = IF f.closed THEN f ELSE Written(f, k, x)
        /\ \A j \in Kinds : j # k => filters'[j] = filters[j]
    BY <2>0 DEF Decodes
  <2>2. Written(f, k, x).active BY <2>1, WrittenFields, TypeFields
  <2>3. filters'[k].active BY <2>1, <2>2
  <2>4. /\ pc' = "read" /\ cur' = [kind |-> k, flush |-> FALSE] /\ pc = "decode" /\ cfg[k]
        /\ UNCHANGED <<cfg, octx, outcome, sent, calls>>
    BY <1>2 DEF Decode
  <2>5. CASE k = "video"
    <3>1. AF' = AF BY <1>a, <2>1, <2>5 DEF AF
    <3>2. A' = A BY <2>1, <2>5 DEF A, EncodeTypeOK, Kinds
    <3> QED BY <1>b, <2>4, <2>5, <3>1, <3>2 DEF Control, VideoPhase
  <2>6. CASE k = "audio"
    <3>1. VF' = VF BY <1>a, <2>1, <2>6 DEF VF
    <3>2. V' = V BY <2>1, <2>6 DEF V, EncodeTypeOK, Kinds
    <3>3. VF.out = <<>> BY <2>4 DEF Control, VideoPhase
    <3>4. AF'.active BY <2>3, <2>6 DEF AF
    <3> QED BY <1>b, <2>4, <2>6, <3>1, <3>2, <3>3, <3>4 DEF Control, VideoPhase
  <2> QED BY <2>5, <2>6 DEF Kinds
<1>3. CASE EndOfInput
  BY <1>3, <1>b DEF EndOfInput, Control, VideoPhase, V, A, VF, AF
<1>4. CASE WriteFlush
  <2>1. pc = "flush" /\ UNCHANGED <<cfg, octx, fed, sent, calls>> BY <1>4 DEF WriteFlush
  <2>2. CASE NextStream(filters, enc)
    <3>1. filters["audio"].out = <<>> /\ filters["audio"].active /\ cur.flush /\ pc # "idle"
      BY <2>1 DEF Control, AF
    <3> QED BY <2>1, <2>2, <3>1, NextStreamControl DEF EncodeTypeOK
  <2>3. CASE ~NothingToFlush /\ ~NextStream(filters, enc)
    <3>1. /\ filters'[cur.kind] = IF filters[cur.kind].closed \/ filters[cur.kind].flushed
                                  THEN filters[cur.kind]
                                  ELSE Flushed(filters[cur.kind], cur.kind)
          /\ \A j \in Kinds : j # cur.kind => filters'[j] = filters[j]
          /\ pc' = "read" /\ UNCHANGED <<enc, cur, outcome, upset>>
      BY <1>4, <2>3, WriteFlushFields
    <3>2. Flushed(filters[cur.kind], cur.kind).active = filters[cur.kind].active
      BY TypeFields, FlushedFields
    <3>3. filters'["audio"].active BY <1>a, <3>1, <3>2 DEF Control, AF
    <3>4. cur.kind = "video" => filters'["audio"] = filters["audio"] BY <1>a, <3>1
    <3>5. ~VideoPhase' BY <2>1, <3>1 DEF Control, VideoPhase
    <3>6. cur.kind \in {"video", "audio"} BY <1>a DEF Kinds
    <3> QED BY <2>1, <3>1, <3>3, <3>4, <3>5, <3>6 DEF Control, V, A, AF
  <2> QED BY <2>2, <2>3, <1>4, WriteFlushFields
<1>5. ASSUME pc = "read", UNCHANGED <<cfg, pc, cur, outcome, fed, calls>>,
             octx'.frames = Len(sent'), ~cfg.video => sent' = <<>>,
             \A j \in Kinds : j # cur.kind => filters'[j] = filters[j],
             filters'[cur.kind].active = filters[cur.kind].active
      PROVE  Control'
  <2>1. cur.kind = "audio" => VF' = VF BY <1>5, <1>a DEF VF
  <2>2. cur.kind = "video" => AF' = AF BY <1>5, <1>a DEF AF
  <2>3. AF'.active
    <3>1. CASE cur.kind = "audio" BY <1>5, <3>1 DEF AF, Control
    <3>2. CASE cur.kind = "video" BY <2>2, <3>2 DEF Control
    <3> QED BY <1>a, <3>1, <3>2 DEF Kinds
  <2>4. cur.kind \in {"video", "audio"} BY <1>a DEF Kinds
  <2> QED BY <1>5, <2>1, <2>2, <2>3, <2>4 DEF Control, VideoPhase, V, A
<1>d. filters[cur.kind].out # <<>> /\ Taken =>
        /\ \A j \in Kinds : j # cur.kind => filters'[j] = filters[j]
        /\ filters'[cur.kind].active = filters[cur.kind].active
  BY TakenFields DEF Taken
<1>6. CASE ReadFlushFrame
  <2>1. pc = "read" /\ UNCHANGED <<cfg, pc, cur, outcome, fed, calls, octx, sent>> BY <1>6 DEF ReadFlushFrame
  <2>2. /\ \A j \in Kinds : j # cur.kind => filters'[j] = filters[j]
        /\ filters'[cur.kind].active = filters[cur.kind].active
    BY <1>6, ReadFlushFrameFields
  <2>3. octx'.frames = Len(sent') /\ (~cfg.video => sent' = <<>>) BY <2>1 DEF Control
  <2> QED BY <1>5, <2>1, <2>2, <2>3
<1>7. CASE SkipFrame
  <2>1. pc = "read" /\ UNCHANGED <<cfg, pc, cur, outcome, fed, calls, sent>> BY <1>7 DEF SkipFrame, Reads
  <2>2. filters[cur.kind].out # <<>> /\ Taken BY <1>7 DEF SkipFrame, Reads
  <2>3. octx'.frames = octx.frames
    BY <1>7, <1>a, <2>2, TypeFields, IncomingFrame, StartInContext DEF SkipFrame, StartOf
  <2>4. octx'.frames = Len(sent') /\ (~cfg.video => sent' = <<>>) BY <2>1, <2>3 DEF Control
  <2> QED BY <1>5, <1>d, <2>1, <2>2, <2>4
<1>8. CASE EncodeVideo
  <2>1. pc = "read" /\ cur.kind = "video" /\ UNCHANGED <<cfg, pc, cur, outcome, fed, calls>> /\ Reads("video")
    BY <1>8 DEF EncodeVideo, Reads
  <2>2. filters[cur.kind].out # <<>> /\ Taken BY <1>8, <2>1 DEF EncodeVideo, Reads
  <2>3. octx'.frames = octx.frames + 1 BY <1>8, <2>1, MarkedFields DEF EncodeVideo
  <2>4. sent' = Append(sent, VideoPacket) /\ VideoPacket \in Packet BY <1>8, <2>1, VideoPacketFields DEF EncodeVideo
  <2>5. octx'.frames = Len(sent') BY <1>c, <2>3, <2>4
  <2>6. cfg.video BY <1>b, <2>1 DEF Control
  <2> QED BY <1>5, <1>d, <2>1, <2>2, <2>5, <2>6
<1>9. CASE EncodeRunsAway
  <2>1. /\ pc = "read" /\ cur.kind = "video" /\ Reads("video") /\ filters[cur.kind].out # <<>>
        /\ UNCHANGED <<cfg, src, fed, sent, muxed, first, calls, faults>>
    BY <1>9 DEF EncodeRunsAway, Reads
  <2> DEFINE f == [filters EXCEPT !["video"].out = Tail(@)]
  <2>2. f \in [Kinds -> Filter] /\ f["audio"] = filters["audio"] BY <1>a, <2>1, TakenFields
  <2>3. octx'.frames = octx.frames BY <1>9, <2>1, MarkedFields DEF EncodeRunsAway
  <2>4. f["audio"].out = <<>> /\ f["audio"].active BY <2>1, <2>2 DEF Control, AF
  <2>5. IF cur.flush THEN NextStream(f, enc) ELSE UNCHANGED <<lost, cur>> /\ EndCall("runaway", f, enc)
    BY <1>9 DEF EncodeRunsAway
  <2> HIDE DEF f
  <2>6. enc \in [Kinds -> Seq(Packet)] BY DEF EncodeTypeOK
  <2>7. CASE cur.flush BY <2>1, <2>2, <2>3, <2>4, <2>5, <2>6, <2>7, NextStreamControl
  <2>8. CASE ~cur.flush
    <3>1. filters'["audio"].out = <<>> /\ filters'["audio"].active
      BY <2>2, <2>4, <2>5, <2>6, <2>8, EndCallFields
    <3>2. pc' = "idle" /\ outcome' = "runaway" BY <2>5, <2>8 DEF EndCall
    <3> QED BY <2>1, <2>3, <3>1, <3>2 DEF Control, VideoPhase, V, A, VF, AF
  <2> QED BY <2>7, <2>8
<1>10. CASE EncodeAudio
  <2>1. pc = "read" /\ cur.kind = "audio" /\ UNCHANGED <<cfg, pc, cur, outcome, fed, calls, sent>>
    BY <1>10 DEF EncodeAudio, Reads
  <2>2. filters[cur.kind].out # <<>> /\ Taken BY <1>10, <2>1 DEF EncodeAudio, Reads
  <2>3. octx'.frames = octx.frames
    BY <1>10, <1>a, <2>2, TypeFields, IncomingFrame, StartInContext DEF EncodeAudio, StartOf
  <2>4. octx'.frames = Len(sent') /\ (~cfg.video => sent' = <<>>) BY <2>1, <2>3 DEF Control
  <2> QED BY <1>5, <1>d, <2>1, <2>2, <2>4
<1>11. CASE ReturnToDecode
  <2>1. /\ pc = "read" /\ filters[cur.kind].out = <<>> /\ ~cur.flush /\ pc' = "decode"
        /\ UNCHANGED <<cfg, filters, octx, cur, outcome, fed, sent, calls>>
    BY <1>11 DEF ReturnToDecode, Empty
  <2>2. cur.kind \in {"video", "audio"} BY <1>a DEF Kinds
  <2>3. VF.out = <<>> /\ AF.out = <<>> BY <2>1, <2>2 DEF Control, VF, AF, VideoPhase
  <2> QED BY <2>1, <2>3 DEF Control, V, A, VF, AF, VideoPhase
<1>12. ASSUME NEW e \in [Kinds -> Seq(Packet)], NextStream(filters, e), Empty, cur.flush,
              UNCHANGED <<cfg, octx, fed, sent, calls>>
       PROVE  Control'
  <2>1. cur.kind \in {"video", "audio"} BY <1>a DEF Kinds
  <2>2. filters["audio"].out = <<>> /\ filters["audio"].active /\ pc # "idle"
    BY <1>12, <2>1 DEF Control, AF, Empty
  <2> QED BY <1>12, <2>2, NextStreamControl DEF EncodeTypeOK
<1>13. ASSUME pc = "read", cur.kind = "audio", Empty, cur.flush, pc' = "flush",
              UNCHANGED <<cfg, octx, fed, sent, calls, filters, cur, outcome>>
       PROVE  Control'
  BY <1>13 DEF Control, V, A, VF, AF, VideoPhase, Empty
<1>14. CASE FlushEncoder
  <2> DEFINE e == [enc EXCEPT ![cur.kind] = <<>>]
  <2>1. e \in [Kinds -> Seq(Packet)] BY FlushedEncoder
  <2>2. FlushReturns(IF cfg.hw /\ cur.kind = "video" THEN "again" ELSE "eof", e) BY <1>14 DEF FlushEncoder
  <2>3. Returned(IF cfg.hw /\ cur.kind = "video" THEN "again" ELSE "eof") = "eof" BY DEF Returned
  <2> HIDE DEF e
  <2>4. NextStream(filters, e) BY <2>1, <2>2, <2>3, FlushReturnsFields
  <2>5. Empty /\ cur.flush /\ UNCHANGED <<cfg, octx, fed, sent, calls>> BY <1>14 DEF FlushEncoder
  <2> QED BY <1>12, <2>1, <2>4, <2>5
<1>15. CASE FlushEncoderFails
  <2>1. Empty /\ cur.flush /\ UNCHANGED <<cfg, octx, fed, sent, calls>> /\ NextStream(filters, enc)
    BY <1>15 DEF FlushEncoderFails
  <2> QED BY <1>12, <2>1 DEF EncodeTypeOK
<1>16. CASE SkipFlush
  <2>1. Empty /\ cur.flush /\ cur.kind = "audio" /\ pc = "read" /\ UNCHANGED <<cfg, octx, fed, sent, calls>>
    BY <1>16 DEF SkipFlush, WaitsForVideo, Empty
  <2>2. \E r : FlushReturns(r, enc) BY <1>16 DEF SkipFlush
  <2>3. \/ NextStream(filters, enc)
        \/ pc' = "flush" /\ enc' = enc /\ UNCHANGED <<filters, cur, outcome, upset>>
    BY <2>2, FlushReturnsFields DEF EncodeTypeOK
  <2> QED BY <1>12, <1>13, <2>1, <2>3 DEF EncodeTypeOK
<1>17. CASE UNCHANGED vars BY <1>17 DEF vars, Control, V, A, VF, AF, VideoPhase
<1>18. CASE DecodeVideo BY <1>18, <1>2, <1>a DEF DecodeVideo
<1>19. CASE DecodeAudio BY <1>19, <1>2, <1>a DEF DecodeAudio
<1> QED BY <1>1, <1>3, <1>4, <1>6, <1>7, <1>8, <1>9, <1>10, <1>11, <1>14, <1>15, <1>16, <1>17, <1>18, <1>19
        DEF Next, Process

\* The video is done with, in this call or for good.
After ==
  \/ pc \in {"read", "flush"} /\ cur.flush /\ cur.kind = "audio"
  \/ pc = "idle" /\ outcome = "done"

\* A step that leaves the video alone.
VideoKept ==
  /\ UNCHANGED <<cfg, fed["video"], sent, octx.frames, octx.next_kf, octx.last_enc,
                 octx.start["video"], first["video"], src.last["video"], muxed["video"],
                 octx.clip_started, calls>>
  /\ (lost \/ upset) => (lost' \/ upset')
  /\ lost => lost'
  /\ \/ /\ VideoPhase /\ VideoPhase' /\ ~VideoFlush' /\ ~After'
        /\ filters'["video"] = filters["video"] /\ enc'["video"] = enc["video"]
     \/ /\ After' /\ ~VideoPhase' /\ ~VideoFlush' /\ enc'["video"] \in {enc["video"], <<>>}
        /\ \/ After
           \/ VideoPhase /\ V = <<>> /\ sent = <<>> /\ enc'["video"] = enc["video"]
     \/ UNCHANGED vars

\* A step that ends the work on the video: nothing to flush, all flushed, or a failure.
VideoEnds ==
  /\ UNCHANGED <<cfg, src, fed, sent, first, calls>>
  /\ ~VideoPhase' /\ ~VideoFlush'
  /\ (lost \/ upset) => (lost' \/ upset')
  /\ \/ /\ WriteFlush /\ pc = "flush" /\ cur.kind = "video" /\ NothingToFlush
        /\ octx' = octx /\ muxed' = muxed /\ enc'["video"] \in {enc["video"], <<>>} /\ lost' = lost
     \/ /\ FlushEncoder /\ VideoFlush /\ VF.out = <<>> /\ octx' = octx
        /\ muxed'["video"] = muxed["video"] \o enc["video"] /\ enc'["video"] = <<>> /\ lost' = lost
     \/ FlushEncoderFails /\ VideoFlush /\ octx' = octx /\ lost'
     \/ EncodeRunsAway /\ VideoFlush /\ Reads("video") /\ octx' = Marked /\ lost'
     \/ /\ EncodeRunsAway /\ VideoPhase /\ Reads("video") /\ octx' = Marked
        /\ ~After' /\ pc' = "idle" /\ outcome' = "runaway" /\ upset'

\* The filter of the video is flushed.
VideoIsFlushed ==
  /\ WriteFlush /\ pc = "flush" /\ cur.kind = "video" /\ ~NothingToFlush
  /\ pc' = "read" /\ UNCHANGED <<cfg, src, enc, octx, cur, outcome, fed, sent, muxed, first, lost, upset, calls>>
  /\ filters'["video"] = IF VF.closed \/ VF.flushed THEN VF ELSE Flushed(VF, "video")

LEMMA EndsAfter ==
  ASSUME EncodeTypeOK, Control, NEW f \in [Kinds -> Filter], NEW e \in [Kinds -> Seq(Packet)],
         NextStream(f, e), cur.flush
  PROVE  /\ After' /\ ~VideoPhase' /\ ~VideoFlush'
         /\ enc'["video"] \in {e["video"], <<>>}
         /\ (lost' \/ upset \/ upset') => (lost' \/ upset')
         /\ upset => upset'
<1>1. CASE cur.kind = "video" /\ cfg.audio
  BY <1>1, NextStreamFields DEF After, VideoPhase, VideoFlush
<1>2. CASE ~(cur.kind = "video" /\ cfg.audio)
  <2>1. EndCall("done", f, e) /\ cur' = cur /\ pc' = "idle" /\ outcome' = "done"
    BY <1>2, NextStreamFields
  <2>2. /\ enc'["video"] = IF cfg.hw THEN e["video"] ELSE <<>>
        /\ upset' = (upset \/ lost' \/ "done" # "done")
    BY <2>1, EndCallFields
  <2> QED BY <2>1, <2>2 DEF After, VideoPhase, VideoFlush
<1> QED BY <1>1, <1>2

\* What a step can do to the video.
LEMMA VideoSteps ==
  ASSUME EncodeTypeOK, Control, [Next]_vars
  PROVE  \/ BeginCall
         \/ DecodeVideo
         \/ EncodeVideo
         \/ SkipFrame /\ cur.kind = "video"
         \/ ReadFlushFrame /\ cur.kind = "video"
         \/ VideoIsFlushed
         \/ VideoEnds
         \/ VideoKept
<1>a. cur.kind \in Kinds /\ "video" \in Kinds /\ "audio" \in Kinds /\ cur.kind \in {"video", "audio"}
  BY TypeFields DEF Kinds
<1>b. enc \in [Kinds -> Seq(Packet)] /\ filters \in [Kinds -> Filter] /\ muxed \in [Kinds -> Seq(Packet)]
  BY DEF EncodeTypeOK
<1>1. CASE DecodeAudio
  <2>0. Decode("audio", MaxAudio) BY <1>1 DEF DecodeAudio
  <2>a. PICK raw, x, f : Decodes("audio", raw, x, f) BY <2>0, <1>a, DecodeFields
  <2>2. /\ fed' = [fed EXCEPT !["audio"] = Append(@, x)]
        /\ first' = [first EXCEPT !["audio"] = IF @ = NoPts THEN x.pts ELSE @]
        /\ src' = [last |-> [src.last EXCEPT !["audio"] = x.pts], seen |-> src.seen \cup {"audio"}]
        /\ \A j \in Kinds : j # "audio" => filters'[j] = filters[j]
    BY <2>a DEF Decodes
  <2>1. filters'["video"] = filters["video"] BY <2>2, <1>a
  <2>3. fed'["video"] = fed["video"] /\ first'["video"] = first["video"] /\ src'.last["video"] = src.last["video"]
    BY <2>2 DEF EncodeTypeOK, Kinds
  <2>4. /\ pc = "decode" /\ pc' = "read" /\ cur' = [kind |-> "audio", flush |-> FALSE]
        /\ UNCHANGED <<cfg, enc, octx, outcome, sent, muxed, lost, upset, calls, faults>>
    BY <1>1 DEF DecodeAudio, Decode
  <2> QED BY <2>1, <2>3, <2>4 DEF VideoKept, VideoPhase, VideoFlush, After
<1>2. CASE EndOfInput
  <2>1. pc = "decode" /\ pc' = "flush" /\ cur' = [kind |-> IF cfg.video THEN "video" ELSE "audio", flush |-> TRUE]
        /\ UNCHANGED <<cfg, src, filters, enc, octx, outcome, fed, sent, muxed, first, lost, upset, calls, faults>>
    BY <1>2 DEF EndOfInput
  <2>2. CASE cfg.video BY <2>1, <2>2 DEF VideoKept, VideoPhase, VideoFlush, After
  <2>3. CASE ~cfg.video BY <2>1, <2>3 DEF VideoKept, VideoPhase, VideoFlush, After, Control
  <2> QED BY <2>2, <2>3
<1>3. CASE WriteFlush
  <2>1. pc = "flush" /\ cur.flush /\ UNCHANGED <<cfg, src, octx, fed, sent, muxed, first, calls, faults, lost>>
    BY <1>3 DEF WriteFlush, Control
  <2>2. CASE NothingToFlush /\ NextStream(filters, enc)
    <3>1. /\ After' /\ ~VideoPhase' /\ ~VideoFlush' /\ enc'["video"] \in {enc["video"], <<>>}
          /\ upset => upset'
      BY <1>b, <2>1, <2>2, EndsAfter
    <3>2. CASE cur.kind = "video" BY <1>3, <2>1, <2>2, <3>1, <3>2 DEF VideoEnds
    <3>3. CASE cur.kind = "audio" BY <2>1, <3>1, <3>3 DEF VideoKept, After
    <3> QED BY <1>a, <3>2, <3>3
  <2>3. CASE ~(NothingToFlush /\ NextStream(filters, enc))
    <3>1. /\ ~NothingToFlush
          /\ filters'[cur.kind] = IF filters[cur.kind].closed \/ filters[cur.kind].flushed
                                  THEN filters[cur.kind]
                                  ELSE Flushed(filters[cur.kind], cur.kind)
          /\ pc' = "read" /\ UNCHANGED <<enc, cur, outcome, upset>>
      BY <1>3, <2>3, WriteFlushFields
    <3>2. CASE cur.kind = "video" BY <1>3, <2>1, <3>1, <3>2 DEF VideoIsFlushed, VF
    <3>3. CASE cur.kind = "audio" BY <2>1, <3>1, <3>3 DEF VideoKept, After, VideoPhase, VideoFlush
    <3> QED BY <1>a, <3>2, <3>3
  <2> QED BY <2>2, <2>3
<1>4. ASSUME pc = "read", cur.kind = "audio",
             UNCHANGED <<cfg, src, pc, cur, outcome, fed, sent, first, lost, upset, calls>>,
             muxed'["video"] = muxed["video"], enc'["video"] = enc["video"],
             octx'.frames = octx.frames, octx'.next_kf = octx.next_kf, octx'.last_enc = octx.last_enc,
             octx'.start["video"] = octx.start["video"], octx'.clip_started = octx.clip_started,
             filters'["video"] = filters["video"]
      PROVE  VideoKept
  BY <1>4 DEF VideoKept, VideoPhase, VideoFlush, After
<1>5. CASE ReadFlushFrame /\ cur.kind = "audio"
  <2>1. filters'["video"] = filters["video"] BY <1>5, <1>a, ReadFlushFrameFields
  <2>2. pc = "read" /\ UNCHANGED <<cfg, src, enc, octx, pc, cur, outcome, fed, sent, muxed, first, lost, upset, calls, faults>>
    BY <1>5 DEF ReadFlushFrame
  <2> QED BY <1>4, <1>5, <2>1, <2>2
<1>6. CASE (SkipFrame \/ EncodeAudio) /\ cur.kind = "audio"
  <2>1. pc = "read" /\ UNCHANGED <<cfg, src, pc, cur, outcome, fed, sent, first, lost, upset, calls>>
        /\ filters[cur.kind].out # <<>> /\ Taken /\ Reads("audio")
        /\ octx' = [octx EXCEPT !.start["audio"] = StartOf("audio")]
    BY <1>6 DEF SkipFrame, EncodeAudio, Reads
  <2>2. filters'["video"] = filters["video"] BY <1>a, <1>6, <2>1, TakenFields DEF Taken
  <2>3. StartOf("audio") \in Int BY <1>a, <2>1, TypeFields, IncomingFrame DEF StartOf
  <2>4. /\ octx'.frames = octx.frames /\ octx'.next_kf = octx.next_kf /\ octx'.last_enc = octx.last_enc
        /\ octx'.start["video"] = octx.start["video"] /\ octx'.clip_started = octx.clip_started
    BY <1>a, <2>1, <2>3, StartInContext
  <2>5. muxed'["video"] = muxed["video"] /\ enc'["video"] = enc["video"]
    <3>1. CASE SkipFrame BY <3>1 DEF SkipFrame
    <3>2. CASE EncodeAudio BY <3>2, <1>a, <2>1, AudioPacketFields, EncodedFields DEF EncodeAudio
    <3> QED BY <1>6, <3>1, <3>2
  <2> QED BY <1>4, <1>6, <2>1, <2>2, <2>4, <2>5
<1>7. CASE EncodeRunsAway
  <2>1. /\ pc = "read" /\ cur.kind = "video" /\ Reads("video") /\ filters[cur.kind].out # <<>>
        /\ UNCHANGED <<cfg, src, fed, sent, muxed, first, calls, faults>> /\ octx' = Marked
    BY <1>7 DEF EncodeRunsAway, Reads
  <2> DEFINE f == [filters EXCEPT !["video"].out = Tail(@)]
  <2>2. f \in [Kinds -> Filter] BY <2>1, TakenFields
  <2>3. IF cur.flush THEN lost' = TRUE /\ NextStream(f, enc)
        ELSE UNCHANGED <<lost, cur>> /\ EndCall("runaway", f, enc)
    BY <1>7 DEF EncodeRunsAway
  <2> HIDE DEF f
  <2>4. CASE cur.flush
    <3>1. ~VideoPhase' /\ ~VideoFlush' BY <1>b, <2>2, <2>3, <2>4, EndsAfter
    <3>2. VideoFlush BY <2>1, <2>4 DEF VideoFlush
    <3> QED BY <1>7, <2>1, <2>3, <2>4, <3>1, <3>2 DEF VideoEnds
  <2>5. CASE ~cur.flush
    <3>1. pc' = "idle" /\ outcome' = "runaway" /\ upset' = TRUE
      BY <2>3, <2>5 DEF EndCall
    <3>2. ~VideoPhase' /\ ~VideoFlush' /\ ~After' BY <3>1 DEF VideoPhase, VideoFlush, After
    <3>3. VideoPhase BY <2>1, <2>5 DEF VideoPhase
    <3> QED BY <1>7, <2>1, <3>1, <3>2, <3>3 DEF VideoEnds
  <2> QED BY <2>4, <2>5
<1>8. CASE ReturnToDecode
  <2>1. /\ pc = "read" /\ ~cur.flush /\ pc' = "decode"
        /\ UNCHANGED <<cfg, src, filters, enc, octx, cur, outcome, fed, sent, muxed, first, lost, upset, calls, faults>>
    BY <1>8 DEF ReturnToDecode, Empty
  <2> QED BY <2>1 DEF VideoKept, VideoPhase, VideoFlush, After
<1>9. ASSUME NEW e \in [Kinds -> Seq(Packet)], NextStream(filters, e), pc = "read", cur.flush, cur.kind = "audio",
             e["video"] = enc["video"], muxed'["video"] = muxed["video"],
             UNCHANGED <<cfg, octx, src, first, fed, sent, calls>>, lost => lost'
      PROVE  VideoKept
  <2>1. /\ After' /\ ~VideoPhase' /\ ~VideoFlush' /\ enc'["video"] \in {enc["video"], <<>>}
        /\ upset => upset'
    BY <1>9, <1>b, EndsAfter
  <2> QED BY <1>9, <2>1 DEF VideoKept, After
<1>10. CASE FlushEncoder
  <2> DEFINE e == [enc EXCEPT ![cur.kind] = <<>>]
  <2>1. e \in [Kinds -> Seq(Packet)] BY FlushedEncoder
  <2>2. FlushReturns(IF cfg.hw /\ cur.kind = "video" THEN "again" ELSE "eof", e) BY <1>10 DEF FlushEncoder
  <2>3. Returned(IF cfg.hw /\ cur.kind = "video" THEN "again" ELSE "eof") = "eof" BY DEF Returned
  <2>4. e["video"] = IF cur.kind = "video" THEN <<>> ELSE enc["video"] BY <1>a, <1>b
  <2>5. muxed'["video"] = IF cur.kind = "video" THEN muxed["video"] \o enc["video"] ELSE muxed["video"]
    BY <1>10, <1>a, <1>b DEF FlushEncoder
  <2> HIDE DEF e
  <2>6. NextStream(filters, e) BY <2>1, <2>2, <2>3, FlushReturnsFields
  <2>7. pc = "read" /\ filters[cur.kind].out = <<>> /\ cur.flush
        /\ UNCHANGED <<cfg, octx, src, first, fed, sent, calls, lost>> BY <1>10 DEF FlushEncoder, Empty
  <2>8. CASE cur.kind = "audio" BY <1>9, <2>1, <2>4, <2>5, <2>6, <2>7, <2>8
  <2>9. CASE cur.kind = "video"
    <3>1. /\ ~VideoPhase' /\ ~VideoFlush' /\ enc'["video"] \in {e["video"], <<>>}
          /\ upset => upset'
      BY <1>b, <2>1, <2>6, <2>7, EndsAfter
    <3>2. VideoFlush /\ VF.out = <<>> BY <2>7, <2>9 DEF VideoFlush, VF
    <3>3. enc'["video"] = <<>> /\ muxed'["video"] = muxed["video"] \o enc["video"] BY <2>4, <2>5, <2>9, <3>1
    <3>4. (lost \/ upset) => (lost' \/ upset') BY <2>7, <3>1
    <3> QED BY <1>10, <2>7, <3>1, <3>2, <3>3, <3>4 DEF VideoEnds
  <2> QED BY <1>a, <2>8, <2>9
<1>11. CASE FlushEncoderFails
  <2>1. pc = "read" /\ cur.flush /\ UNCHANGED <<cfg, octx, fed, src, first, sent, muxed, calls>> /\ NextStream(filters, enc)
        /\ lost' = TRUE
    BY <1>11 DEF FlushEncoderFails, EncoderFails, Empty
  <2>2. CASE cur.kind = "audio" BY <1>9, <1>b, <2>1, <2>2
  <2>3. CASE cur.kind = "video"
    <3>1. ~VideoPhase' /\ ~VideoFlush' BY <1>b, <2>1, EndsAfter
    <3>2. VideoFlush BY <2>1, <2>3 DEF VideoFlush
    <3> QED BY <1>11, <2>1, <3>1, <3>2 DEF VideoEnds
  <2> QED BY <1>a, <2>2, <2>3
<1>12. CASE SkipFlush
  <2>1. cur.flush /\ cur.kind = "audio" /\ pc = "read" /\ UNCHANGED <<cfg, octx, src, fed, first, sent, muxed, calls, lost>>
    BY <1>12 DEF SkipFlush, WaitsForVideo, Empty
  <2>2. \E r : FlushReturns(r, enc) BY <1>12 DEF SkipFlush
  <2>3. \/ NextStream(filters, enc)
        \/ pc' = "flush" /\ enc' = enc /\ UNCHANGED <<filters, cur, outcome, upset>>
    BY <2>2, <1>b, FlushReturnsFields
  <2>4. CASE NextStream(filters, enc) BY <1>9, <1>b, <2>1, <2>4
  <2>5. CASE pc' = "flush" /\ enc' = enc /\ UNCHANGED <<filters, cur, outcome, upset>>
    BY <2>1, <2>5 DEF VideoKept, After, VideoPhase, VideoFlush
  <2> QED BY <2>3, <2>4, <2>5
<1>13. CASE UNCHANGED vars BY <1>13 DEF VideoKept, vars
<1>14. (SkipFrame \/ ReadFlushFrame) => cur.kind = "video" \/ cur.kind = "audio" BY <1>a
<1>15. EncodeAudio => cur.kind = "audio" BY DEF EncodeAudio, Reads
<1> QED BY <1>1, <1>2, <1>3, <1>5, <1>6, <1>7, <1>8, <1>10, <1>11, <1>12, <1>13, <1>14, <1>15
        DEF Next, Process

\* The frames of stream k in this call: numbered, their times known and increasing.
Times(k) ==
  /\ \A i, j \in 1..Len(fed[k]) : i < j => fed[k][i].pts < fed[k][j].pts
  /\ \A i \in 1..Len(fed[k]) : fed[k][i].n = i /\ fed[k][i].pts >= 0
  /\ pc # "idle" => src.last[k] = IF fed[k] = <<>> THEN NoPts ELSE fed[k][Len(fed[k])].pts
  /\ fed[k] # <<>> => k \in src.seen /\ first[k] >= 0
  /\ first[k] >= 0 \/ first[k] = NoPts

LEMMA TimesInit == Init => Times("video") /\ Times("audio")
<1> SUFFICES ASSUME Init, NEW k \in Kinds PROVE Times(k) BY DEF Kinds
<1>1. fed[k] = <<>> /\ first[k] = NoPts /\ pc = "idle" BY DEF Init, Both
<1> QED BY <1>1 DEF Times

LEMMA DecodeTimes ==
  ASSUME EncodeTypeOK, NEW k \in Kinds, Times(k), pc = "decode", pc' = "read",
         NEW raw, NEW x, NEW f, Decodes(k, raw, x, f)
  PROVE  /\ Times(k)' /\ x.pts >= 0
         /\ fed[k] # <<>> => fed[k][Len(fed[k])].pts < x.pts
         /\ fed'[k] = Append(fed[k], x) /\ src'.last[k] = x.pts
         /\ first'[k] = IF first[k] = NoPts THEN x.pts ELSE first[k]
<1>1. /\ raw \in RawTimes(k) /\ x \in Frame /\ raw \in Int
      /\ src.last[k] = NoPts => raw \in Nat
      /\ x.n = Len(fed[k]) + 1 /\ x.pts = Fixed(raw, src.last[k])
      /\ src' = [last |-> [src.last EXCEPT ![k] = x.pts], seen |-> src.seen \cup {k}]
      /\ fed' = [fed EXCEPT ![k] = Append(@, x)]
      /\ first' = [first EXCEPT ![k] = IF @ = NoPts THEN x.pts ELSE @]
  BY DEF Decodes
<1> DEFINE v == fed[k]  l == src.last[k]
<1>2. l \in Int /\ v \in Seq(Frame) /\ first[k] \in Int BY TypeFields
<1>3. pc = "decode" /\ pc' = "read" OBVIOUS
<1>4. l = (IF v = <<>> THEN NoPts ELSE v[Len(v)].pts) BY <1>3 DEF Times
<1>5. /\ \A i, j \in 1..Len(v) : i < j => v[i].pts < v[j].pts
      /\ \A i \in 1..Len(v) : v[i].n = i /\ v[i].pts >= 0
      /\ first[k] >= 0 \/ first[k] = NoPts
  BY DEF Times
<1>6. fed'[k] = Append(v, x) /\ src'.last[k] = x.pts /\ k \in src'.seen
      /\ first'[k] = (IF first[k] = NoPts THEN x.pts ELSE first[k])
  BY <1>1 DEF EncodeTypeOK
<1>7. x.pts \in Int BY <1>1 DEF Frame
<1>c. x.pts = Fixed(raw, l) /\ raw \in Int BY <1>1
<1> HIDE DEF v, l
<1>8. l # NoPts => l >= 0 /\ v # <<>>
  <2>1. v # <<>> => Len(v) \in 1..Len(v) BY <1>2
  <2> QED BY <1>4, <1>5, <2>1
<1>9. /\ x.pts >= 0
      /\ v # <<>> => v[Len(v)].pts < x.pts
  <2>1. CASE l = NoPts
    <3>1. raw \in Nat BY <1>1, <2>1 DEF l
    <3>2. x.pts = raw BY <1>1, <1>2, <2>1, <3>1, FixedTime DEF l
    <3>3. v = <<>>
      <4>1. SUFFICES ASSUME v # <<>> PROVE FALSE OBVIOUS
      <4>2. Len(v) \in 1..Len(v) BY <1>2, <4>1
      <4>3. v[Len(v)].pts >= 0 BY <1>5, <4>2
      <4> QED BY <1>4, <2>1, <4>1, <4>3, Constants
    <3> QED BY <3>1, <3>2, <3>3
  <2>2. CASE l # NoPts
    <3>1. l < x.pts BY <1>c, <1>2, <2>2, FixedTime
    <3> QED BY <1>2, <1>4, <1>7, <1>8, <2>2, <3>1
  <2> QED BY <2>1, <2>2
<1> DEFINE w == Append(v, x)
<1>10. Len(w) = Len(v) + 1 /\ w # <<>> /\ w[Len(v) + 1] = x /\ (\A i \in 1..Len(v) : w[i] = v[i]) /\ Len(v) \in Nat
  BY <1>2
<1>b. \A i \in 1..Len(v) : v[i].pts \in Int
  <2>1. \A y \in Frame : y.pts \in Int BY DEF Frame
  <2> QED BY <1>2, <2>1
<1>11. \A i \in 1..Len(v) : v[i].pts < x.pts
  <2> SUFFICES ASSUME NEW i \in 1..Len(v) PROVE v[i].pts < x.pts OBVIOUS
  <2>1. v # <<>> /\ Len(v) \in 1..Len(v) BY <1>2
  <2>2. v[i].pts = v[Len(v)].pts \/ v[i].pts < v[Len(v)].pts BY <1>5, <1>10, <2>1
  <2> QED BY <1>7, <1>9, <1>b, <2>1, <2>2
<1> HIDE DEF w
<1>12. \A i, j \in 1..Len(w) : i < j => w[i].pts < w[j].pts
  <2> SUFFICES ASSUME NEW i \in 1..Len(w), NEW j \in 1..Len(w), i < j PROVE w[i].pts < w[j].pts OBVIOUS
  <2>1. i \in 1..Len(v) /\ (j \in 1..Len(v) \/ j = Len(v) + 1) BY <1>10
  <2>2. CASE j \in 1..Len(v) BY <1>5, <1>10, <2>1, <2>2
  <2>3. CASE j = Len(v) + 1 BY <1>10, <1>11, <2>1, <2>3
  <2> QED BY <2>1, <2>2, <2>3
<1>13. \A i \in 1..Len(w) : w[i].n = i /\ w[i].pts >= 0
  <2> SUFFICES ASSUME NEW i \in 1..Len(w) PROVE w[i].n = i /\ w[i].pts >= 0 OBVIOUS
  <2>1. i \in 1..Len(v) \/ i = Len(v) + 1 BY <1>10
  <2>2. CASE i \in 1..Len(v) BY <1>5, <1>10, <2>2
  <2>3. CASE i = Len(v) + 1
    <3>1. x.n = Len(v) + 1 BY <1>1 DEF v
    <3> QED BY <1>9, <1>10, <2>3, <3>1
  <2> QED BY <2>1, <2>2, <2>3
<1>14. w # <<>> /\ w[Len(w)] = x BY <1>10
<1>15. first'[k] >= 0 BY <1>5, <1>6, <1>7, <1>9, <1>2
<1>16. fed'[k] = w BY <1>6 DEF w
<1>17. Times(k)' BY <1>3, <1>6, <1>12, <1>13, <1>14, <1>15, <1>16 DEF Times
<1>18. /\ fed'[k] = Append(fed[k], x)
       /\ fed[k] # <<>> => fed[k][Len(fed[k])].pts < x.pts
  BY <1>6, <1>9 DEF v
<1> QED BY <1>6, <1>9, <1>17, <1>18

\* All other steps leave what is decoded as it is.
LEMMA Undecoded ==
  [Next]_vars => \/ BeginCall \/ DecodeVideo \/ DecodeAudio
                 \/ UNCHANGED <<cfg, src, fed, first, calls>> /\ (pc = "idle" => pc' = "idle")
BY DEF Next, Process, EndOfInput, WriteFlush, ReadFlushFrame, SkipFrame, EncodeVideo, EncodeRunsAway,
       EncodeAudio, ReturnToDecode, FlushEncoder, FlushEncoderFails, SkipFlush, vars, Reads, Empty

LEMMA TimesNext ==
  ASSUME EncodeTypeOK, NEW k \in Kinds, Times(k), [Next]_vars PROVE Times(k)'
<1>1. CASE BeginCall
  <2>1. fed'[k] = <<>> /\ src'.last[k] = NoPts /\ first' = first BY <1>1 DEF BeginCall, Both, EncodeTypeOK
  <2> QED BY <2>1 DEF Times
<1>2. ASSUME NEW j \in Kinds, NEW max, Decode(j, max) PROVE Times(k)'
  <2>0. PICK raw, x, f : Decodes(j, raw, x, f) BY <1>2, DecodeFields
  <2>a. pc = "decode" /\ pc' = "read" BY <1>2 DEF Decode
  <2>1. CASE j = k BY <2>0, <2>a, <2>1, DecodeTimes
  <2>2. CASE j # k
    <3>1. /\ src' = [last |-> [src.last EXCEPT ![j] = x.pts], seen |-> src.seen \cup {j}]
          /\ fed' = [fed EXCEPT ![j] = Append(@, x)]
          /\ first' = [first EXCEPT ![j] = IF @ = NoPts THEN x.pts ELSE @]
      BY <2>0 DEF Decodes
    <3>2. fed'[k] = fed[k] /\ src'.last[k] = src.last[k] /\ first'[k] = first[k] /\ src.seen \subseteq src'.seen
      BY <3>1, <2>2 DEF EncodeTypeOK
    <3> QED BY <3>2, <2>a DEF Times
  <2> QED BY <2>1, <2>2
<1>3. CASE UNCHANGED <<cfg, src, fed, first, calls>> /\ (pc = "idle" => pc' = "idle")
  BY <1>3 DEF Times
<1>4. CASE DecodeVideo BY <1>2, <1>4 DEF DecodeVideo, Kinds
<1>5. CASE DecodeAudio BY <1>2, <1>5 DEF DecodeAudio, Kinds
<1> QED BY <1>1, <1>3, <1>4, <1>5, Undecoded

-----------------------------------------------------------------------------
\* Before the flush the filter of the video is open, and holds the last frame.
Open ==
  VideoPhase =>
    /\ ~VF.closed /\ ~VF.flushed /\ ~VF.flushing /\ ~VF.eof
    /\ ~VF.active => V = <<>> /\ VF.held = NoFrame
    /\ VF.active => VF.custom = src.last["video"]
    /\ VF.held = IF V = <<>> \/ ~cfg.fps THEN NoFrame
                 ELSE [n |-> Len(V), pts |-> Ticks(V[Len(V)].pts)]

\* Frame x is decoded and written to the filter of the video.
VideoDecoded(x) ==
  /\ x \in Frame /\ x.n = Len(V) + 1 /\ x.pts >= 0
  /\ V' = Append(V, x)
  /\ V # <<>> => V[Len(V)].pts < x.pts
  /\ src'.last["video"] = x.pts
  /\ first'["video"] = IF first["video"] = NoPts THEN x.pts ELSE first["video"]
  /\ VF'.active /\ ~VF'.closed /\ ~VF'.flushed /\ ~VF'.flushing /\ ~VF'.eof /\ VF'.custom = x.pts
  /\ VF'.held = IF cfg.fps THEN [n |-> x.n, pts |-> Ticks(x.pts)] ELSE NoFrame
  /\ VF'.out = IF cfg.fps THEN Repeated(VF, Ticks(x.pts)) ELSE <<x>>

LEMMA DecodeVideoFields ==
  ASSUME EncodeTypeOK, Control, Times("video"), Open, DecodeVideo
  PROVE  \E x : VideoDecoded(x)
<1>a. "video" \in Kinds /\ cfg \in Sessions BY TypeFields DEF Kinds
<1>0. Decode("video", MaxVideo) /\ pc = "decode" /\ pc' = "read" BY DEF DecodeVideo, Decode
<1>1. PICK raw, x, f : Decodes("video", raw, x, f) BY <1>0, <1>a, DecodeFields
<1>2. /\ x.pts >= 0
      /\ V # <<>> => V[Len(V)].pts < x.pts
      /\ V' = Append(V, x) /\ src'.last["video"] = x.pts
      /\ first'["video"] = IF first["video"] = NoPts THEN x.pts ELSE first["video"]
  BY <1>0, <1>1, <1>a, DecodeTimes DEF V
<1>3. /\ x \in Frame /\ x.n = Len(V) + 1 /\ f \in Filter /\ f.active
      /\ f = IF VF.active THEN VF ELSE Fresh(TRUE)
      /\ VF' = IF f.closed THEN f ELSE Written(f, "video", x)
  BY <1>1 DEF Decodes, V, VF
<1>4. /\ ~VF.closed /\ ~VF.flushed /\ ~VF.flushing /\ ~VF.eof
      /\ ~VF.active => VF.held = NoFrame
      /\ ~cfg.fps => VF.held = NoFrame
  BY <1>0 DEF Open, VideoPhase
<1>5. VF.out = <<>> BY <1>0 DEF Control, VideoPhase
<1>6. ~f.closed /\ ~f.flushed /\ ~f.flushing /\ ~f.eof /\ f.held = VF.held /\ f.out = <<>>
  <2>1. CASE VF.active BY <1>3, <1>4, <1>5, <2>1
  <2>2. CASE ~VF.active
    <3>1. f = Fresh(TRUE) BY <1>3, <2>2
    <3> QED BY <3>1, <1>4, <2>2, FreshFilter
  <2> QED BY <2>1, <2>2
<1> DEFINE g == Written(f, "video", x)
<1>7. VF' = g BY <1>3, <1>6
<1>8. /\ g.active = f.active /\ g.closed = f.closed /\ g.flushed = f.flushed
      /\ g.flushing = f.flushing /\ g.eof = f.eof /\ g.custom = x.pts
      /\ IF cfg.fps
         THEN /\ g.out = f.out \o Repeated(f, Ticks(x.pts))
              /\ g.held = [n |-> x.n, pts |-> Ticks(x.pts)]
         ELSE g.out = Append(f.out, x) /\ g.held = f.held
  <2>1. f \in Filter /\ x \in Frame /\ cfg \in Sessions BY <1>3, <1>a
  <2>2. ASSUME NEW k, k = "video"
        PROVE  LET h == Written(f, k, x)
               IN  /\ h.active = f.active /\ h.closed = f.closed /\ h.flushed = f.flushed
                   /\ h.flushing = f.flushing /\ h.eof = f.eof /\ h.custom = x.pts
                   /\ IF cfg.fps
                      THEN /\ h.out = f.out \o Repeated(f, Ticks(x.pts))
                           /\ h.held = [n |-> x.n, pts |-> Ticks(x.pts)]
                      ELSE h.out = Append(f.out, x) /\ h.held = f.held
    <3> DEFINE h == Written(f, k, x)
    <3>1. /\ h.active = f.active /\ h.closed = f.closed /\ h.flushed = f.flushed
          /\ h.flushing = f.flushing /\ h.eof = f.eof /\ h.custom = x.pts
          /\ IF k = "video" /\ cfg.fps
             THEN /\ h.out = f.out \o Repeated(f, Ticks(x.pts))
                  /\ h.held = [n |-> x.n, pts |-> Ticks(x.pts)]
             ELSE h.out = Append(f.out, x) /\ h.held = f.held
      BY <2>1, WrittenFields
    <3> HIDE DEF h
    <3>2. (k = "video" /\ cfg.fps) <=> cfg.fps BY <2>2
    <3> QED BY <3>1, <3>2 DEF h
  <2> QED BY <2>2
<1> HIDE DEF g
<1>9. Repeated(f, Ticks(x.pts)) = Repeated(VF, Ticks(x.pts)) BY <1>6 DEF Repeated
<1>10. <<>> \o Repeated(f, Ticks(x.pts)) = Repeated(f, Ticks(x.pts)) /\ Append(<<>>, x) = <<x>>
  <2>1. x.pts \in Int BY <1>3 DEF Frame
  <2>2. Ticks(x.pts) \in Int BY <2>1, TicksBounds
  <2>3. Repeated(f, Ticks(x.pts)) \in Seq(Frame) BY <1>3, <2>2, RepeatedFrames
  <2> QED BY <1>3, <2>3
<1>11. VF'.out = IF cfg.fps THEN Repeated(VF, Ticks(x.pts)) ELSE <<x>>
  <2>1. CASE cfg.fps BY <1>6, <1>7, <1>8, <1>9, <1>10, <2>1
  <2>2. CASE ~cfg.fps BY <1>6, <1>7, <1>8, <1>10, <2>2
  <2> QED BY <2>1, <2>2
<1>12. VF'.held = IF cfg.fps THEN [n |-> x.n, pts |-> Ticks(x.pts)] ELSE NoFrame
  BY <1>4, <1>6, <1>7, <1>8
<1>13. VF'.active /\ ~VF'.closed /\ ~VF'.flushed /\ ~VF'.flushing /\ ~VF'.eof /\ VF'.custom = x.pts
  BY <1>3, <1>6, <1>7, <1>8
<1>14. VideoDecoded(x) BY <1>2, <1>3, <1>11, <1>12, <1>13 DEF VideoDecoded
<1> QED BY <1>14

LEMMA OpenInit == Init => Open
BY DEF Init, Open, VideoPhase

LEMMA OpenNext ==
  ASSUME EncodeTypeOK, Control, Times("video"), Open, [Next]_vars PROVE Open'
<1>a. "video" \in Kinds BY DEF Kinds
<1>1. CASE BeginCall
  <2> DEFINE b == ~cfg.hw \/ calls = 0
  <2>1. VF' = Fresh(b) /\ V' = <<>> /\ src'.last["video"] = NoPts
    BY <1>1 DEF BeginCall, VF, V, Both, EncodeTypeOK, Kinds
  <2>2. b \in BOOLEAN OBVIOUS
  <2> HIDE DEF b
  <2> QED BY <2>1, <2>2, FreshFilter DEF Open
<1>2. CASE DecodeVideo
  <2>1. PICK x : VideoDecoded(x) BY <1>2, DecodeVideoFields
  <2>2. V' = Append(V, x) /\ x \in Frame /\ x.n = Len(V) + 1 BY <2>1 DEF VideoDecoded
  <2>3. V \in Seq(Frame) BY <1>a, TypeFields DEF V
  <2>4. V' # <<>> /\ Len(V') = Len(V) + 1 /\ V'[Len(V')] = x BY <2>2, <2>3
  <2>5. cfg' = cfg BY <1>2 DEF DecodeVideo, Decode
  <2> QED BY <2>1, <2>2, <2>4, <2>5 DEF VideoDecoded, Open
<1>3. ASSUME pc = "read", cur.kind = "video", UNCHANGED <<cfg, pc, cur, src, fed>>,
             VF'.active = VF.active, VF'.closed = VF.closed, VF'.flushed = (VF.flushed \/ VF.flushing),
             VF'.flushing = VF.flushing, VF'.custom = VF.custom, VF'.held = VF.held, VF'.eof = VF.eof
      PROVE  Open'
  BY <1>3 DEF Open, VideoPhase, V
<1>4. ASSUME pc = "read", cur.kind = "video", UNCHANGED <<cfg, pc, cur, src, fed>>, Taken, VF.out # <<>>
      PROVE  Open'
  <2>1. filters[cur.kind].out # <<>> BY <1>4 DEF VF
  <2>2. /\ VF'.active = VF.active /\ VF'.closed = VF.closed /\ VF'.flushed = VF.flushed
        /\ VF'.flushing = VF.flushing /\ VF'.custom = VF.custom /\ VF'.held = VF.held /\ VF'.eof = VF.eof
    BY <1>4, <2>1, TakenFields DEF Taken, VF
  <2> QED BY <1>4, <2>2 DEF Open, VideoPhase, V
<1>5. CASE EncodeVideo BY <1>5, <1>4 DEF EncodeVideo, Reads, VF
<1>6. CASE SkipFrame /\ cur.kind = "video" BY <1>6, <1>4 DEF SkipFrame, Reads, VF
<1>7. CASE ReadFlushFrame /\ cur.kind = "video"
  <2>1. /\ VF'.active = VF.active /\ VF'.closed = VF.closed /\ VF'.flushed = (VF.flushed \/ VF.flushing)
        /\ VF'.flushing = VF.flushing /\ VF'.custom = VF.custom /\ VF'.held = VF.held /\ VF'.eof = VF.eof
    BY <1>7, ReadFlushFrameFields DEF VF
  <2> QED BY <1>3, <1>7, <2>1 DEF ReadFlushFrame
<1>8. CASE VideoIsFlushed
  <2>1. ~VideoPhase' BY <1>8 DEF VideoIsFlushed, VideoPhase, Control
  <2> QED BY <2>1 DEF Open
<1>9. CASE VideoEnds BY <1>9 DEF VideoEnds, Open
<1>10. CASE VideoKept
  <2>1. CASE VideoPhase /\ filters'["video"] = filters["video"]
    <3>1. UNCHANGED <<cfg, fed["video"], src.last["video"]>> BY <1>10 DEF VideoKept
    <3> QED BY <2>1, <3>1 DEF Open, V, VF
  <2>2. CASE ~VideoPhase' BY <2>2 DEF Open
  <2>3. CASE UNCHANGED vars BY <2>3 DEF vars, Open, V, VF, VideoPhase
  <2> QED BY <1>10, <2>1, <2>2, <2>3 DEF VideoKept
<1> QED BY <1>1, <1>2, <1>5, <1>6, <1>7, <1>8, <1>9, <1>10, VideoSteps

-----------------------------------------------------------------------------
\* All of this holds in every state.
Basics == EncodeTypeOK /\ Control /\ Times("video") /\ Times("audio") /\ Open

LEMMA BasicsInit == Init => Basics
BY InitTypes, ControlInit, TimesInit, OpenInit DEF Basics

LEMMA BasicsNext == Basics /\ [Next]_vars => Basics'
<1> SUFFICES ASSUME Basics, [Next]_vars PROVE Basics' OBVIOUS
<1>1. Times("video")' /\ Times("audio")' BY TimesNext DEF Basics, Kinds
<1> QED BY <1>1, NextTypes, ControlNext, OpenNext DEF Basics

\* What is known of the frames decoded, and of those in the filter.
LEMMA VideoFrames ==
  ASSUME Basics
  PROVE  /\ V \in Seq(Frame) /\ sent \in Seq(Packet) /\ VF \in Filter /\ VF.out \in Seq(Frame)
         /\ Len(V) \in Nat /\ Len(sent) \in Nat /\ Len(VF.out) \in Nat
         /\ V # <<>> <=> Len(V) >= 1
         /\ \A i \in 1..Len(V) : V[i].n = i /\ V[i].pts \in Nat /\ Ticks(V[i].pts) \in Nat
         /\ \A i, j \in 1..Len(V) : i < j => V[i].pts < V[j].pts
         /\ \A i, j \in 1..Len(V) : i <= j => Ticks(V[i].pts) <= Ticks(V[j].pts)
         /\ octx.frames = Len(sent)
<1>0. EncodeTypeOK /\ Control /\ Times("video") BY DEF Basics
<1>1. V \in Seq(Frame) /\ sent \in Seq(Packet) /\ VF \in Filter
  BY <1>0, TypeFields DEF V, VF, Kinds
<1>2. VF.out \in Seq(Frame) BY <1>1, FilterFields
<1>3. /\ \A i \in 1..Len(V) : V[i].n = i /\ V[i].pts >= 0
      /\ \A i, j \in 1..Len(V) : i < j => V[i].pts < V[j].pts
  BY <1>0 DEF Times, V
<1>4. \A i \in 1..Len(V) : V[i].pts \in Nat
  <2>1. \A y \in Frame : y.pts \in Int BY DEF Frame
  <2> QED BY <1>1, <1>3, <2>1
<1>5. \A i \in 1..Len(V) : Ticks(V[i].pts) \in Nat BY <1>4, TicksNat
<1>6. \A i, j \in 1..Len(V) : i <= j => Ticks(V[i].pts) <= Ticks(V[j].pts)
  <2> SUFFICES ASSUME NEW i \in 1..Len(V), NEW j \in 1..Len(V), i <= j
               PROVE  Ticks(V[i].pts) <= Ticks(V[j].pts)
    OBVIOUS
  <2>1. V[i].pts \in Int /\ V[j].pts \in Int BY <1>4
  <2>2. V[i].pts <= V[j].pts BY <1>3, <2>1
  <2> QED BY <2>1, <2>2, TicksMonotone
<1>7. octx.frames = Len(sent) BY <1>0 DEF Control
<1> QED BY <1>1, <1>2, <1>3, <1>4, <1>5, <1>6, <1>7

\* A frame is taken out of the filter of the video.
LEMMA VideoTaken ==
  ASSUME Basics, EncodeVideo \/ ((SkipFrame \/ ReadFlushFrame) /\ cur.kind = "video")
  PROVE  /\ VF.out # <<>> /\ Len(VF.out) >= 1 /\ Incoming = VF.out[1]
         /\ Len(VF'.out) = Len(VF.out) - 1
         /\ \A i \in 1..Len(VF.out) - 1 : VF'.out[i] = VF.out[i + 1]
         /\ pc = "read" /\ cur.kind = "video"
         /\ UNCHANGED <<cfg, src, pc, cur, outcome, fed, first, upset, calls>>
         /\ VideoPhase' = VideoPhase /\ VideoFlush' = VideoFlush /\ After' = After /\ ~After
         /\ VideoPhase \/ VideoFlush
<1>0. EncodeTypeOK BY DEF Basics
<1>1. cur.kind = "video" /\ pc = "read" /\ VF.out # <<>>
      /\ UNCHANGED <<cfg, src, pc, cur, outcome, fed, first, upset, calls>>
  BY DEF EncodeVideo, SkipFrame, ReadFlushFrame, Reads, VF
<1>2. VF'.out = Tail(VF.out)
  <2>1. CASE ReadFlushFrame BY <2>1, <1>0, <1>1, ReadFlushFrameFields DEF VF
  <2>2. CASE Taken BY <2>2, <1>0, <1>1, TakenFields DEF Taken, VF
  <2> QED BY <2>1, <2>2 DEF EncodeVideo, SkipFrame
<1>3. /\ Incoming = VF.out[1] /\ Len(Tail(VF.out)) = Len(VF.out) - 1
      /\ \A i \in 1..Len(VF.out) - 1 : Tail(VF.out)[i] = VF.out[i + 1]
  BY <1>0, <1>1, IncomingFrame DEF VF
<1>4. VF.out \in Seq(Frame) BY VideoFrames
<1>5. Len(VF.out) >= 1 BY <1>1, <1>4
<1>6. /\ VideoPhase' = VideoPhase /\ VideoFlush' = VideoFlush /\ After' = After /\ ~After
      /\ VideoPhase \/ VideoFlush
  BY <1>1 DEF VideoPhase, VideoFlush, After
<1> QED BY <1>1, <1>2, <1>3, <1>5, <1>6

LEMMA DecodedVideo ==
  ASSUME Basics, NEW x, VideoDecoded(x)
  PROVE  /\ x.pts \in Nat /\ x.n = Len(V) + 1
         /\ Len(V') = Len(V) + 1 /\ V'[Len(V) + 1] = x /\ \A i \in 1..Len(V) : V'[i] = V[i]
         /\ V' # <<>> /\ V'[1] = IF V = <<>> THEN x ELSE V[1]
<1>1. V \in Seq(Frame) /\ Len(V) \in Nat BY VideoFrames
<1>2. x \in Frame /\ x.pts >= 0 /\ V' = Append(V, x) /\ x.n = Len(V) + 1 BY DEF VideoDecoded
<1>3. x.pts \in Nat BY <1>2 DEF Frame
<1>4. Len(V') = Len(V) + 1 /\ V'[Len(V) + 1] = x /\ \A i \in 1..Len(V) : V'[i] = V[i]
  BY <1>1, <1>2
<1>5. V' # <<>> /\ V'[1] = IF V = <<>> THEN x ELSE V[1]
  <2>1. CASE V = <<>> BY <1>1, <1>2, <2>1
  <2>2. CASE V # <<>>
    <3>1. 1 \in 1..Len(V) BY <1>1, <2>2
    <3> QED BY <1>1, <1>2, <2>2, <3>1
  <2> QED BY <2>1, <2>2
<1> QED BY <1>2, <1>3, <1>4, <1>5

\* What the fps filter gives when a frame is written: the one it holds, once for
\* every tick up to the new one.
LEMMA DecodedRepeats ==
  ASSUME Basics, pc = "decode", NEW x, VideoDecoded(x), cfg.fps
  PROVE  LET r == VF'.out
             l == V[Len(V)]
         IN  /\ V = <<>> => Len(r) = 0
             /\ V # <<>> =>
                  /\ Len(r) = Ticks(x.pts) - Ticks(l.pts)
                  /\ \A i \in 1..Len(r) : r[i] = [n |-> Len(V), pts |-> Ticks(l.pts) + i - 1]
<1>1. x.pts \in Nat BY DecodedVideo
<1>2. Ticks(x.pts) \in Int BY <1>1, TicksBounds
<1>3. VF \in Filter BY VideoFrames
<1> DEFINE r == Repeated(VF, Ticks(x.pts))
<1>4. VF'.out = r BY DEF VideoDecoded
<1>5. /\ Len(r) = IF VF.held # NoFrame /\ Ticks(x.pts) > VF.held.pts THEN Ticks(x.pts) - VF.held.pts ELSE 0
      /\ \A i \in 1..Len(r) : r[i] = [n |-> VF.held.n, pts |-> VF.held.pts + i - 1]
  BY <1>2, <1>3, RepeatedFrames
<1>6. VF.held = IF V = <<>> THEN NoFrame ELSE [n |-> Len(V), pts |-> Ticks(V[Len(V)].pts)]
  BY DEF Basics, Open, VideoPhase
<1> HIDE DEF r
<1>7. CASE V = <<>> BY <1>4, <1>5, <1>6, <1>7
<1>8. CASE V # <<>>
  <2>1. Len(V) \in 1..Len(V) /\ Len(V) # 0 BY <1>8, VideoFrames
  <2>2. VF.held # NoFrame /\ VF.held.n = Len(V) /\ VF.held.pts = Ticks(V[Len(V)].pts)
    BY <1>6, <1>8, <2>1 DEF NoFrame, FlushFrame
  <2>3. V[Len(V)].pts \in Nat /\ V[Len(V)].pts < x.pts /\ Ticks(V[Len(V)].pts) \in Nat
    BY <1>8, <2>1, VideoFrames DEF VideoDecoded
  <2>4. Ticks(V[Len(V)].pts) <= Ticks(x.pts) BY <1>1, <2>3, TicksMonotone
  <2>5. Len(r) = Ticks(x.pts) - Ticks(V[Len(V)].pts) BY <1>2, <1>5, <2>2, <2>3, <2>4
  <2>6. \A i \in 1..Len(r) : r[i] = [n |-> Len(V), pts |-> Ticks(V[Len(V)].pts) + i - 1]
    BY <1>5, <2>2
  <2> QED BY <1>4, <1>8, <2>5, <2>6
<1> QED BY <1>7, <1>8

-----------------------------------------------------------------------------
\* How many frames the filter of the video can give for those decoded.
Room == IF V = <<>> THEN 0
        ELSE IF cfg.fps THEN Ticks(V[Len(V)].pts) - Ticks(V[1].pts)
        ELSE Len(V)

Counted == VideoPhase => Len(sent) + Len(VF.out) <= Room

LEMMA RoomInt == ASSUME Basics PROVE Room \in Int /\ Room >= 0
<1>1. CASE V = <<>> BY <1>1 DEF Room
<1>2. CASE V # <<>>
  <2>1. 1 \in 1..Len(V) /\ Len(V) \in 1..Len(V) /\ Len(V) \in Nat BY <1>2, VideoFrames
  <2>2. /\ Ticks(V[Len(V)].pts) \in Nat /\ Ticks(V[1].pts) \in Nat
        /\ Ticks(V[1].pts) <= Ticks(V[Len(V)].pts)
    BY <2>1, VideoFrames
  <2> QED BY <1>2, <2>1, <2>2 DEF Room
<1> QED BY <1>1, <1>2

LEMMA CountedNext == ASSUME Basics, Counted, [Next]_vars PROVE Counted'
<1>a. Len(sent) \in Nat /\ Len(VF.out) \in Nat /\ Room \in Int /\ Len(V) \in Nat BY VideoFrames, RoomInt
<1>b. Basics' BY BasicsNext
<1>c. EncodeTypeOK /\ Control BY DEF Basics
<1>1. CASE BeginCall
  <2>1. V' = <<>> /\ sent' = <<>> /\ pc' = "decode" BY <1>1 DEF BeginCall, V, Both, Kinds
  <2>2. VF'.out = <<>> BY <1>b, <2>1 DEF Basics, Control, VideoPhase
  <2> QED BY <2>1, <2>2 DEF Counted, Room
<1>2. CASE DecodeVideo
  <2>1. PICK x : VideoDecoded(x) BY <1>2, DecodeVideoFields DEF Basics
  <2>2. pc = "decode" /\ sent' = sent /\ cfg' = cfg /\ VF.out = <<>> /\ VideoPhase
    BY <1>2, <1>c DEF DecodeVideo, Decode, Control, VideoPhase
  <2>3. Len(sent) <= Room BY <1>a, <2>2 DEF Counted
  <2>4. /\ x.pts \in Nat /\ Len(V') = Len(V) + 1 /\ V'[Len(V')] = x
        /\ V' # <<>> /\ V'[1] = IF V = <<>> THEN x ELSE V[1]
    BY <2>1, DecodedVideo
  <2>5. CASE cfg.fps
    <3>1. Room' = Ticks(x.pts) - Ticks(V'[1].pts) BY <2>2, <2>4, <2>5 DEF Room
    <3>2. CASE V = <<>>
      <4>1. Room' = 0 BY <2>4, <3>1, <3>2, TicksNat
      <4>2. Len(VF'.out) = 0 /\ Len(sent) = 0
        BY <1>a, <2>1, <2>2, <2>3, <2>5, <3>2, DecodedRepeats DEF Room
      <4> QED BY <2>2, <4>1, <4>2 DEF Counted
    <3>3. CASE V # <<>>
      <4>1. Len(VF'.out) = Ticks(x.pts) - Ticks(V[Len(V)].pts) BY <2>1, <2>2, <2>5, <3>3, DecodedRepeats
      <4>2. Room = Ticks(V[Len(V)].pts) - Ticks(V[1].pts) BY <2>5, <3>3 DEF Room
      <4>3. Ticks(V[Len(V)].pts) \in Int /\ Ticks(V[1].pts) \in Int /\ Ticks(x.pts) \in Int
        <5>1. 1 \in 1..Len(V) /\ Len(V) \in 1..Len(V) BY <3>3, VideoFrames
        <5>2. Ticks(V[Len(V)].pts) \in Nat /\ Ticks(V[1].pts) \in Nat BY <5>1, VideoFrames
        <5>3. x.pts \in Nat BY <2>4
        <5>4. Ticks(x.pts) \in Nat BY <5>3, TicksNat
        <5> QED BY <5>2, <5>4
      <4>4. Room' = Ticks(x.pts) - Ticks(V[1].pts) BY <3>1, <2>4, <3>3
      <4>5. Len(sent) + Len(VF'.out) <= Room' BY <1>a, <2>3, <4>1, <4>2, <4>3, <4>4
      <4> QED BY <2>2, <4>5 DEF Counted
    <3> QED BY <3>2, <3>3
  <2>6. CASE ~cfg.fps
    <3>1. VF'.out = <<x>> BY <2>1, <2>6 DEF VideoDecoded
    <3>2. Len(VF'.out) = 1 BY <3>1
    <3>3. Room' = Len(V) + 1 BY <2>2, <2>4, <2>6 DEF Room
    <3>4. Len(sent) <= Len(V) BY <1>a, <2>3, <2>6 DEF Room
    <3> QED BY <1>a, <2>2, <3>2, <3>3, <3>4 DEF Counted
  <2> QED BY <2>5, <2>6
<1>3. ASSUME UNCHANGED <<cfg, fed>>, Len(VF'.out) = Len(VF.out) - 1,
             Len(sent') = Len(sent) \/ Len(sent') = Len(sent) + 1, VideoPhase' = VideoPhase
      PROVE  Counted'
  <2>1. Room' = Room BY <1>3 DEF Room, V
  <2> QED BY <1>a, <1>3, <2>1 DEF Counted
<1>4. CASE EncodeVideo
  <2>1. sent' = Append(sent, VideoPacket) BY <1>4 DEF EncodeVideo
  <2>2. Len(sent') = Len(sent) + 1
    <3>1. sent \in Seq(Packet) BY VideoFrames
    <3>2. VideoPacket \in Packet BY <1>4, <1>c, VideoPacketFields DEF EncodeVideo
    <3> QED BY <2>1, <3>1, <3>2
  <2> QED BY <1>3, <1>4, <2>2, VideoTaken
<1>5. CASE (SkipFrame \/ ReadFlushFrame) /\ cur.kind = "video"
  <2>1. sent' = sent BY <1>5 DEF SkipFrame, ReadFlushFrame
  <2> QED BY <1>3, <1>5, <2>1, VideoTaken
<1>6. CASE VideoIsFlushed
  <2>1. ~VideoPhase' BY <1>6, <1>c DEF VideoIsFlushed, VideoPhase, Control
  <2> QED BY <2>1 DEF Counted
<1>7. CASE VideoEnds BY <1>7 DEF VideoEnds, Counted
<1>8. CASE VideoKept
  <2>1. UNCHANGED <<cfg, fed["video"], sent>> BY <1>8 DEF VideoKept, vars
  <2>2. Room' = Room BY <2>1 DEF Room, V
  <2>3. CASE VideoPhase /\ filters'["video"] = filters["video"]
    BY <2>1, <2>2, <2>3 DEF Counted, VF
  <2>4. CASE ~VideoPhase' BY <2>4 DEF Counted
  <2>5. CASE UNCHANGED vars BY <2>2, <2>5 DEF vars, Counted, VF, VideoPhase
  <2> QED BY <1>8, <2>3, <2>4, <2>5 DEF VideoKept
<1> QED BY <1>1, <1>2, <1>4, <1>5, <1>6, <1>7, <1>8, <1>c, VideoSteps

LEMMA MoreFrames ==
  ASSUME NEW n \in Nat, NEW m \in Nat, n <= Runaway * m PROVE n <= Runaway * (m + 1)
<1>1. Runaway \in Nat /\ Runaway * m \in Nat BY Constants
<1>2. Runaway * (m + 1) = Runaway * m + Runaway BY <1>1
<1> QED BY <1>1, <1>2

LEMMA RunawayNext ==
  ASSUME Basics, Counted, RunawayStopped, [Next]_vars PROVE RunawayStopped'
<1>a. Len(sent) \in Nat /\ Len(VF.out) \in Nat /\ Room \in Int /\ Len(V) \in Nat /\ octx.frames = Len(sent)
  BY VideoFrames, RoomInt
<1>b. Basics' BY BasicsNext
<1>c. EncodeTypeOK /\ Control BY DEF Basics
<1>d. Runaway \in Nat /\ Runaway >= 1 BY Constants
<1>e. octx.frames <= Runaway * Len(V) BY DEF RunawayStopped, V
<1>f. pc' # "idle" => outcome' = "none" BY <1>b DEF Basics, Control
<1>1. CASE BeginCall
  <2>1. octx'.frames = 0 BY <1>1, <1>c, StreamAddedFields DEF BeginCall
  <2>2. fed'["video"] = <<>> /\ outcome' = "none" BY <1>1 DEF BeginCall, Both, Kinds
  <2>3. Len(fed'["video"]) = 0 BY <2>2
  <2>4. 0 <= Runaway * 0 BY <1>d
  <2> QED BY <2>1, <2>2, <2>3, <2>4 DEF RunawayStopped
<1>2. CASE DecodeVideo
  <2>1. PICK x : VideoDecoded(x) BY <1>2, DecodeVideoFields DEF Basics
  <2>2. Len(V') = Len(V) + 1 BY <2>1, DecodedVideo
  <2>3. octx' = octx /\ outcome' = outcome /\ pc = "decode" BY <1>2 DEF DecodeVideo, Decode
  <2>4. outcome = "none" BY <1>c, <2>3 DEF Control
  <2>5. octx.frames <= Runaway * Len(V') BY <1>a, <1>e, <2>2, MoreFrames
  <2> QED BY <2>3, <2>4, <2>5 DEF RunawayStopped, V
<1>3. ASSUME UNCHANGED fed["video"], octx'.frames <= Runaway * Len(V), outcome' \in {"none", "done"}
      PROVE  RunawayStopped'
  BY <1>3 DEF RunawayStopped, V
<1>4. CASE EncodeVideo
  <2>1. octx'.frames = octx.frames + 1 BY <1>4, <1>c, MarkedFields DEF EncodeVideo
  <2>2. ~(octx.frames + 1 > Runaway * Len(V)) BY <1>4 DEF EncodeVideo, RunsAway, V
  <2>3. octx'.frames <= Runaway * Len(V) BY <1>a, <1>d, <2>1, <2>2
  <2>4. outcome' = "none" /\ fed' = fed BY <1>4, <1>c, VideoTaken DEF Control
  <2> QED BY <1>3, <2>3, <2>4
<1>5. CASE (SkipFrame \/ ReadFlushFrame) /\ cur.kind = "video"
  <2>1. octx'.frames = octx.frames
    <3>1. CASE ReadFlushFrame BY <3>1 DEF ReadFlushFrame
    <3>2. CASE SkipFrame
      <4>1. filters[cur.kind].out # <<>> /\ cur.kind \in Kinds BY <3>2, <1>c, TypeFields DEF SkipFrame, Reads
      <4>2. StartOf(cur.kind) \in Int BY <1>c, <4>1, TypeFields, IncomingFrame DEF StartOf
      <4> QED BY <3>2, <4>1, <4>2, <1>c, StartInContext DEF SkipFrame
    <3> QED BY <1>5, <3>1, <3>2
  <2>2. outcome' = "none" /\ fed' = fed BY <1>5, <1>c, VideoTaken DEF Control
  <2> QED BY <1>3, <1>e, <2>1, <2>2
<1>6. CASE VideoIsFlushed
  <2>1. octx' = octx /\ fed' = fed /\ pc' = "read" BY <1>6 DEF VideoIsFlushed
  <2> QED BY <1>3, <1>e, <1>f, <2>1
<1>7. CASE VideoEnds
  <2>1. fed' = fed /\ sent' = sent BY <1>7 DEF VideoEnds
  <2>2. octx'.frames = octx.frames BY <1>a, <1>b, <2>1 DEF Basics, Control
  <2>3. CASE outcome' # "runaway"
    <3>1. outcome' \in {"none", "done"} BY <1>b, <2>3 DEF Basics, EncodeTypeOK
    <3> QED BY <1>3, <1>e, <2>1, <2>2, <3>1
  <2>4. CASE outcome' = "runaway"
    <3>1. EncodeRunsAway /\ VideoPhase /\ Reads("video")
      <4>1. outcome = "none" BY <1>7, <1>c DEF VideoEnds, Control, VideoFlush, VideoPhase
      <4>2. ASSUME NEW f, NEW e, NextStream(f, e) PROVE outcome' \in {"none", "done"}
        BY <4>1, <4>2 DEF NextStream, EndCall
      <4>3. ~WriteFlush
        <5>1. SUFFICES ASSUME WriteFlush PROVE FALSE OBVIOUS
        <5> QED BY <1>c, <4>1, <4>2, <2>4, <5>1, WriteFlushFields
      <4>4. ~FlushEncoderFails BY <4>2, <2>4 DEF FlushEncoderFails
      <4>5. ~FlushEncoder
        BY <4>1, <4>2, <2>4 DEF FlushEncoder, FlushReturns
      <4>6. ~(EncodeRunsAway /\ VideoFlush) BY <4>2, <2>4 DEF EncodeRunsAway, VideoFlush
      <4> QED BY <1>7, <4>3, <4>4, <4>5, <4>6 DEF VideoEnds
    <3>2. octx.frames + 1 > Runaway * Len(V) BY <3>1 DEF EncodeRunsAway, RunsAway, V
    <3>3. VF.out # <<>> BY <3>1 DEF Reads, VF
    <3>4. Len(VF.out) >= 1
      <4>1. VF.out \in Seq(Frame) BY VideoFrames
      <4> QED BY <3>3, <4>1
    <3>5. Len(sent) + 1 <= Room BY <1>a, <3>1, <3>4 DEF Counted
    <3>6. V # <<>> BY <1>a, <3>5 DEF Room
    <3>7. cfg.fps
      <4>1. SUFFICES ASSUME ~cfg.fps PROVE FALSE OBVIOUS
      <4>2. Room = Len(V) BY <3>6, <4>1 DEF Room
      <4>3. Len(V) <= Runaway * Len(V)
        <5>1. 1 * Len(V) = Len(V) BY <1>a
        <5>2. Len(V) * 1 <= Len(V) * Runaway BY <1>a, <1>d, TimesLess
        <5>3. Len(V) * Runaway = Runaway * Len(V) BY <1>a, <1>d
        <5> QED BY <1>a, <5>2, <5>3
      <4>4. Runaway * Len(V) \in Nat BY <1>a, <1>d
      <4> QED BY <1>a, <3>2, <3>5, <4>2, <4>3, <4>4
    <3>8. Room = Ticks(V[Len(V)].pts) - Ticks(V[1].pts) BY <3>6, <3>7 DEF Room
    <3>9. Runaway * Len(V) \in Nat BY <1>a, <1>d
    <3>10. Room > Runaway * Len(V) BY <1>a, <3>2, <3>5, <3>9
    <3>11. V' = V BY <2>1 DEF V
    <3> QED BY <1>e, <2>2, <3>8, <3>10, <3>11 DEF RunawayStopped, V
  <2> QED BY <2>3, <2>4
<1>8. CASE VideoKept
  <2>1. fed'["video"] = fed["video"] /\ octx'.frames = octx.frames BY <1>8 DEF VideoKept, vars
  <2>2. CASE UNCHANGED vars BY <2>2 DEF vars, RunawayStopped
  <2>3. CASE VideoPhase' \/ After'
    <3>1. outcome' \in {"none", "done"} BY <1>f, <2>3 DEF VideoPhase, After
    <3> QED BY <1>3, <1>e, <2>1, <3>1
  <2> QED BY <1>8, <2>2, <2>3 DEF VideoKept
<1> QED BY <1>1, <1>2, <1>4, <1>5, <1>6, <1>7, <1>8, <1>c, VideoSteps

\* No output has more than Runaway frames for each decoded one, and a call fails
\* for it only if its frames are further apart than that (encoder.c:676).
THEOREM RunawaysStopped == Spec => []RunawayStopped
<1>1. Init => Basics /\ Counted /\ RunawayStopped
  <2> SUFFICES ASSUME Init PROVE Basics /\ Counted /\ RunawayStopped OBVIOUS
  <2>1. Counted BY DEF Init, Counted, VideoPhase
  <2>2. fed["video"] = <<>> /\ octx.frames = 0 /\ outcome = "none" BY DEF Init, Both, Kinds
  <2>3. 0 <= Runaway * 0 BY Constants
  <2>4. RunawayStopped BY <2>2, <2>3 DEF RunawayStopped
  <2> QED BY <2>1, <2>4, BasicsInit
<1>2. (Basics /\ Counted /\ RunawayStopped) /\ [Next]_vars => (Basics /\ Counted /\ RunawayStopped)'
  BY BasicsNext, CountedNext, RunawayNext
<1> QED BY <1>1, <1>2, PTL DEF Spec

-----------------------------------------------------------------------------
(* What has been sent, of the frames v, up to the time nx.                  *)

\* Frames whose times are known and increase.
Increasing(v) ==
  /\ v \in Seq(Frame)
  /\ \A i \in 1..Len(v) : v[i].pts \in Nat
  /\ \A i, j \in 1..Len(v) : i < j => v[i].pts < v[j].pts

AfterFilter(fps, t) == IF fps THEN Ticks(t) ELSE t

\* Frame n is to be shown at t: with a frame rate the last one not after it.
Due(fps, v, n, t) ==
  /\ n \in 1..Len(v)
  /\ IF fps
     THEN Ticks(v[n].pts) <= t /\ \A j \in 1..Len(v) : Ticks(v[j].pts) <= t => j <= n
     ELSE t = v[n].pts

Times2 == [n : Nat, t : Int]

\* s are the frames due before nx and in the clip, in order.
Progress(fps, clip, v, s, nx) ==
  /\ \A i, j \in 1..Len(s) : i < j => s[i].t < s[j].t
  /\ \A i \in 1..Len(s) : s[i].t < nx /\ s[i].t \in clip /\ Due(fps, v, s[i].n, s[i].t)
  /\ \A n \in Nat, t \in Int : t < nx /\ t \in clip /\ Due(fps, v, n, t) =>
       \E i \in 1..Len(s) : s[i].n = n /\ s[i].t = t

\* o are the frames due from nx on.
Queue(fps, v, o, nx) == \A i \in 1..Len(o) : o[i].pts = nx + i - 1 /\ Due(fps, v, o[i].n, o[i].pts)

LEMMA IncreasingTicks ==
  ASSUME NEW v, Increasing(v)
  PROVE  /\ \A i \in 1..Len(v) : v[i].pts \in Nat /\ Ticks(v[i].pts) \in Nat
         /\ \A i, j \in 1..Len(v) : i <= j => Ticks(v[i].pts) <= Ticks(v[j].pts)
<1>1. \A i \in 1..Len(v) : v[i].pts \in Nat /\ Ticks(v[i].pts) \in Nat
  BY TicksNat DEF Increasing
<1>2. ASSUME NEW i \in 1..Len(v), NEW j \in 1..Len(v), i <= j PROVE Ticks(v[i].pts) <= Ticks(v[j].pts)
  <2>1. v[i].pts \in Int /\ v[j].pts \in Int BY <1>1
  <2>2. v[i].pts <= v[j].pts
    <3>1. CASE i = j BY <2>1, <3>1
    <3>2. CASE i # j
      <4>1. Len(v) \in Nat BY DEF Increasing
      <4>2. i < j BY <1>2, <3>2, <4>1
      <4>3. v[i].pts < v[j].pts BY <4>2 DEF Increasing
      <4> QED BY <2>1, <4>3
    <3> QED BY <3>1, <3>2
  <2> QED BY <2>1, <2>2, TicksMonotone
<1> QED BY <1>1, <1>2

LEMMA DueOnce ==
  ASSUME NEW fps \in BOOLEAN, NEW v, Increasing(v), NEW t \in Int, NEW n, NEW m,
         Due(fps, v, n, t), Due(fps, v, m, t)
  PROVE  n = m
<1>0. Len(v) \in Nat /\ n \in 1..Len(v) /\ m \in 1..Len(v) BY DEF Increasing, Due
<1>1. CASE fps
  <2>1. n <= m /\ m <= n BY <1>0, <1>1 DEF Due
  <2> QED BY <1>0, <2>1
<1>2. CASE ~fps
  <2>1. v[n].pts = t /\ v[m].pts = t BY <1>2 DEF Due
  <2>2. ~(n < m) /\ ~(m < n) BY <1>0, <2>1 DEF Increasing
  <2> QED BY <1>0, <2>2
<1> QED BY <1>1, <1>2

LEMMA DueInRange ==
  ASSUME NEW fps \in BOOLEAN, NEW v, Increasing(v), NEW t \in Int, NEW n, Due(fps, v, n, t)
  PROVE  /\ v # <<>> /\ n \in 1..Len(v) /\ n \in Nat /\ n >= 1
         /\ AfterFilter(fps, v[1].pts) <= t
         /\ ~fps => t <= v[Len(v)].pts
<1>0. v \in Seq(Frame) /\ Len(v) \in Nat /\ n \in 1..Len(v) BY DEF Increasing, Due
<1>1. 1 \in 1..Len(v) /\ Len(v) \in 1..Len(v) /\ 1 <= n /\ n <= Len(v) /\ v # <<>> BY <1>0
<1>2. CASE fps
  <2>1. Ticks(v[n].pts) <= t BY <1>2 DEF Due
  <2>2. Ticks(v[1].pts) <= Ticks(v[n].pts) /\ Ticks(v[1].pts) \in Nat /\ Ticks(v[n].pts) \in Nat
    BY <1>0, <1>1, IncreasingTicks
  <2> QED BY <1>0, <1>1, <1>2, <2>1, <2>2 DEF AfterFilter
<1>3. CASE ~fps
  <2>1. t = v[n].pts BY <1>3 DEF Due
  <2>2. /\ v[1].pts \in Nat /\ v[n].pts \in Nat /\ v[Len(v)].pts \in Nat
        /\ 1 < n => v[1].pts < v[n].pts
        /\ n < Len(v) => v[n].pts < v[Len(v)].pts
    BY <1>0, <1>1 DEF Increasing
  <2>3. v[1].pts <= v[n].pts
    <3>1. CASE n = 1 BY <2>2, <3>1
    <3>2. CASE 1 < n BY <2>2, <3>2
    <3> QED BY <1>0, <1>1, <3>1, <3>2
  <2>4. v[n].pts <= v[Len(v)].pts
    <3>1. CASE n = Len(v) BY <2>2, <3>1
    <3>2. CASE n < Len(v) BY <2>2, <3>2
    <3> QED BY <1>0, <1>1, <3>1, <3>2
  <2> QED BY <1>0, <1>1, <1>3, <2>1, <2>3, <2>4 DEF AfterFilter
<1> QED BY <1>2, <1>3

\* At first nothing is due.
LEMMA ProgressFirst ==
  ASSUME NEW fps \in BOOLEAN, NEW clip, NEW v, Increasing(v), v # <<>>, NEW nx \in Int,
         nx <= AfterFilter(fps, v[1].pts)
  PROVE  Progress(fps, clip, v, <<>>, nx)
<1>1. ASSUME NEW n \in Nat, NEW t \in Int, t < nx, Due(fps, v, n, t) PROVE FALSE
  <2>1. AfterFilter(fps, v[1].pts) <= t BY <1>1, DueInRange
  <2>2. AfterFilter(fps, v[1].pts) \in Int
    <3>1. 1 \in 1..Len(v) BY DEF Increasing
    <3>2. v[1].pts \in Int BY <3>1 DEF Increasing
    <3> QED BY <3>2, TicksBounds DEF AfterFilter
  <2> QED BY <1>1, <2>1, <2>2
<1>2. Len(<<>>) = 0 OBVIOUS
<1> QED BY <1>1, <1>2 DEF Progress

\* A frame outside the clip.
LEMMA ProgressSkip ==
  ASSUME NEW fps \in BOOLEAN, NEW clip, NEW v, NEW s \in Seq(Times2), NEW nx \in Int,
         Progress(fps, clip, v, s, nx), nx \notin clip
  PROVE  Progress(fps, clip, v, s, nx + 1)
<1>1. \A i \in 1..Len(s) : s[i].t \in Int
  <2>1. \A y \in Times2 : y.t \in Int BY DEF Times2
  <2> QED BY <2>1
<1>2. \A i \in 1..Len(s) : s[i].t < nx + 1 BY <1>1 DEF Progress
<1>3. ASSUME NEW n \in Nat, NEW t \in Int, t < nx + 1, t \in clip, Due(fps, v, n, t)
      PROVE  \E i \in 1..Len(s) : s[i].n = n /\ s[i].t = t
  <2>1. t # nx BY <1>3
  <2>2. t < nx BY <1>3, <2>1
  <2> QED BY <1>3, <2>2 DEF Progress
<1>4. \A i, j \in 1..Len(s) : i < j => s[i].t < s[j].t BY DEF Progress
<1>5. \A i \in 1..Len(s) : s[i].t \in clip /\ Due(fps, v, s[i].n, s[i].t) BY DEF Progress
<1>6. \A n \in Nat, t \in Int :
        t < nx + 1 /\ t \in clip /\ Due(fps, v, n, t) => \E i \in 1..Len(s) : s[i].n = n /\ s[i].t = t
  BY <1>3
<1> QED BY ONLY <1>2, <1>4, <1>5, <1>6 DEF Progress

\* The frame due at nx.
LEMMA ProgressSend ==
  ASSUME NEW fps \in BOOLEAN, NEW clip, NEW v, Increasing(v), NEW s \in Seq(Times2), NEW nx \in Int,
         Progress(fps, clip, v, s, nx), nx \in clip, NEW n, Due(fps, v, n, nx)
  PROVE  Progress(fps, clip, v, Append(s, [n |-> n, t |-> nx]), nx + 1)
<1> DEFINE y == [n |-> n, t |-> nx]
           r == Append(s, y)
<1>0. n \in Nat BY DueInRange
<1>1. y \in Times2 /\ y.n = n /\ y.t = nx BY <1>0 DEF Times2
<1>2. \A i \in 1..Len(s) : s[i].t \in Int
  <2>1. \A z \in Times2 : z.t \in Int BY DEF Times2
  <2> QED BY <2>1
<1> HIDE DEF y
<1>3. Len(r) = Len(s) + 1 /\ r[Len(s) + 1] = y /\ (\A i \in 1..Len(s) : r[i] = s[i]) /\ Len(s) \in Nat
  BY <1>1
<1> HIDE DEF r
<1>4. \A i \in 1..Len(r) : i \in 1..Len(s) \/ i = Len(s) + 1 BY <1>3
<1>5. ASSUME NEW i \in 1..Len(r), NEW j \in 1..Len(r), i < j PROVE r[i].t < r[j].t
  <2>1. i \in 1..Len(s) BY <1>3, <1>5
  <2>2. CASE j \in 1..Len(s) BY <1>3, <1>5, <2>1, <2>2 DEF Progress
  <2>3. CASE j = Len(s) + 1 BY <1>1, <1>3, <2>1, <2>3 DEF Progress
  <2> QED BY <1>4, <2>2, <2>3
<1>6. ASSUME NEW i \in 1..Len(r) PROVE r[i].t < nx + 1 /\ r[i].t \in clip /\ Due(fps, v, r[i].n, r[i].t)
  <2>1. CASE i \in 1..Len(s)
    <3>1. s[i].t < nx /\ s[i].t \in clip /\ Due(fps, v, s[i].n, s[i].t) BY <2>1 DEF Progress
    <3> QED BY <1>2, <1>3, <2>1, <3>1
  <2>2. CASE i = Len(s) + 1 BY <1>1, <1>3, <2>2
  <2> QED BY <1>4, <2>1, <2>2
<1>7. ASSUME NEW m \in Nat, NEW t \in Int, t < nx + 1, t \in clip, Due(fps, v, m, t)
      PROVE  \E i \in 1..Len(r) : r[i].n = m /\ r[i].t = t
  <2>1. CASE t = nx
    <3>1. m = n BY <1>7, <2>1, DueOnce
    <3>2. Len(s) + 1 \in 1..Len(r) BY <1>3
    <3> QED BY <1>1, <1>3, <2>1, <3>1, <3>2
  <2>2. CASE t # nx
    <3>1. t < nx BY <1>7, <2>2
    <3>2. PICK i \in 1..Len(s) : s[i].n = m /\ s[i].t = t BY <1>7, <3>1 DEF Progress
    <3>3. i \in 1..Len(r) BY <1>3
    <3> QED BY <1>3, <3>2, <3>3
  <2> QED BY <2>1, <2>2
<1>8. Progress(fps, clip, v, r, nx + 1) BY <1>5, <1>6, <1>7 DEF Progress
<1> QED BY <1>8 DEF r, y

\* Another frame x is decoded.
LEMMA DueLater ==
  ASSUME NEW fps \in BOOLEAN, NEW v, Increasing(v), NEW x \in Frame, x.pts \in Nat,
         v # <<>> => v[Len(v)].pts < x.pts,
         NEW t \in Int, t < AfterFilter(fps, x.pts), NEW n
  PROVE  Due(fps, Append(v, x), n, t) <=> Due(fps, v, n, t)
<1> DEFINE w == Append(v, x)
<1>1. v \in Seq(Frame) /\ Len(v) \in Nat BY DEF Increasing
<1>2. Len(w) = Len(v) + 1 /\ w[Len(v) + 1] = x /\ \A i \in 1..Len(v) : w[i] = v[i] BY <1>1
<1> HIDE DEF w
<1>3. Ticks(x.pts) \in Nat BY TicksNat
<1>4. CASE fps
  <2>1. ~(Ticks(x.pts) <= t) BY <1>3, <1>4 DEF AfterFilter
  <2>2. \A j \in 1..Len(w) : Ticks(w[j].pts) <= t => j \in 1..Len(v) BY <1>1, <1>2, <2>1
  <2>3. 1..Len(v) \subseteq 1..Len(w) BY <1>1, <1>2
  <2>4. Due(fps, w, n, t) => Due(fps, v, n, t)
    <3> SUFFICES ASSUME Due(fps, w, n, t) PROVE Due(fps, v, n, t) OBVIOUS
    <3>1. n \in 1..Len(v) BY <1>4, <2>2 DEF Due
    <3>2. Ticks(v[n].pts) <= t BY <1>2, <1>4, <3>1 DEF Due
    <3>3. \A j \in 1..Len(v) : Ticks(v[j].pts) <= t => j <= n BY <1>2, <1>4, <2>3 DEF Due
    <3> QED BY <1>4, <3>1, <3>2, <3>3 DEF Due
  <2>5. Due(fps, v, n, t) => Due(fps, w, n, t)
    <3> SUFFICES ASSUME Due(fps, v, n, t) PROVE Due(fps, w, n, t) OBVIOUS
    <3>1. n \in 1..Len(v) /\ n \in 1..Len(w) BY <2>3 DEF Due
    <3>2. Ticks(w[n].pts) <= t BY <1>2, <1>4, <3>1 DEF Due
    <3>3. \A j \in 1..Len(w) : Ticks(w[j].pts) <= t => j <= n BY <1>2, <1>4, <2>2 DEF Due
    <3> QED BY <1>4, <3>1, <3>2, <3>3 DEF Due
  <2> QED BY <2>4, <2>5 DEF w
<1>5. CASE ~fps
  <2>1. t # x.pts BY <1>5 DEF AfterFilter
  <2>2. \A j \in 1..Len(w) : j \in 1..Len(v) \/ j = Len(v) + 1 BY <1>1, <1>2
  <2>3. 1..Len(v) \subseteq 1..Len(w) BY <1>1, <1>2
  <2>4. Due(fps, w, n, t) <=> Due(fps, v, n, t) BY <1>2, <1>5, <2>1, <2>2, <2>3 DEF Due
  <2> QED BY <2>4 DEF w
<1> QED BY <1>4, <1>5

LEMMA ProgressDecode ==
  ASSUME NEW fps \in BOOLEAN, NEW clip, NEW v, Increasing(v), NEW s \in Seq(Times2), NEW nx \in Int,
         Progress(fps, clip, v, s, nx), NEW x \in Frame, x.pts \in Nat,
         v # <<>>, v[Len(v)].pts < x.pts,
         NEW ny \in Int, nx <= ny, ny <= AfterFilter(fps, x.pts),
         \A t \in Int, n \in Nat : nx <= t /\ t < ny => ~Due(fps, v, n, t)
  PROVE  Progress(fps, clip, Append(v, x), s, ny)
<1> DEFINE w == Append(v, x)
<1>1. AfterFilter(fps, x.pts) \in Int
  <2>1. Ticks(x.pts) \in Nat BY TicksNat
  <2> QED BY <2>1 DEF AfterFilter
<1>2. \A t \in Int : \A n : t < ny => (Due(fps, w, n, t) <=> Due(fps, v, n, t))
  <2> SUFFICES ASSUME NEW t \in Int, NEW n, t < ny PROVE Due(fps, w, n, t) <=> Due(fps, v, n, t) OBVIOUS
  <2>1. t < AfterFilter(fps, x.pts) BY <1>1
  <2> QED BY <2>1, DueLater
<1> HIDE DEF w
<1>3. \A i \in 1..Len(s) : s[i].t \in Int
  <2>1. \A z \in Times2 : z.t \in Int BY DEF Times2
  <2> QED BY <2>1
<1>4. ASSUME NEW i \in 1..Len(s) PROVE s[i].t < ny /\ s[i].t \in clip /\ Due(fps, w, s[i].n, s[i].t)
  <2>1. s[i].t < nx /\ s[i].t \in clip /\ Due(fps, v, s[i].n, s[i].t) BY DEF Progress
  <2>2. s[i].t < ny BY <1>3, <2>1
  <2> QED BY <1>2, <1>3, <2>1, <2>2
<1>5. ASSUME NEW n \in Nat, NEW t \in Int, t < ny, t \in clip, Due(fps, w, n, t)
      PROVE  \E i \in 1..Len(s) : s[i].n = n /\ s[i].t = t
  <2>1. Due(fps, v, n, t) BY <1>2, <1>5
  <2>2. t < nx BY <1>5, <2>1
  <2> QED BY <1>5, <2>1, <2>2 DEF Progress
<1>6. \A i, j \in 1..Len(s) : i < j => s[i].t < s[j].t BY DEF Progress
<1>7. Progress(fps, clip, w, s, ny) BY <1>4, <1>5, <1>6 DEF Progress
<1> QED BY <1>7 DEF w

\* A frame of the queue is due when all before it have been sent.
LEMMA QueueHead ==
  ASSUME NEW fps, NEW v, NEW o \in Seq(Frame), NEW nx \in Int, Queue(fps, v, o, nx), Len(o) >= 1
  PROVE  o[1].pts = nx /\ Due(fps, v, o[1].n, nx)
<1>1. 1 \in 1..Len(o) OBVIOUS
<1>2. o[1].pts = nx + 1 - 1 /\ Due(fps, v, o[1].n, o[1].pts) BY <1>1 DEF Queue
<1>3. nx + 1 - 1 = nx OBVIOUS
<1> QED BY <1>2, <1>3

LEMMA QueueTail ==
  ASSUME NEW fps, NEW v, NEW o \in Seq(Frame), NEW nx \in Int, Queue(fps, v, o, nx), Len(o) >= 1,
         NEW p, Len(p) = Len(o) - 1, \A i \in 1..Len(o) - 1 : p[i] = o[i + 1]
  PROVE  Queue(fps, v, p, nx + 1)
<1> SUFFICES ASSUME NEW i \in 1..Len(p) PROVE p[i].pts = nx + 1 + i - 1 /\ Due(fps, v, p[i].n, p[i].pts)
  BY DEF Queue
<1>1. i + 1 \in 1..Len(o) /\ i \in 1..Len(o) - 1 OBVIOUS
<1>2. p[i] = o[i + 1] BY <1>1
<1>3. o[i + 1].pts = nx + (i + 1) - 1 /\ Due(fps, v, o[i + 1].n, o[i + 1].pts) BY <1>1 DEF Queue
<1>4. nx + (i + 1) - 1 = nx + 1 + i - 1 OBVIOUS
<1> QED BY <1>2, <1>3, <1>4

\* The times in the clip, and what the shift of the clip takes off them.
Clip == {t \in Int : InClip("video", t)}
Shift == IF cfg.from = 0 THEN 0 ELSE From("video") + Filtered("video", first["video"])

\* The time up to which the frames decoded tell what is due, and the first time.
Hi == IF cfg.fps THEN Ticks(V[Len(V)].pts) ELSE V[Len(V)].pts + 1
Lo == AfterFilter(cfg.fps, V[1].pts)

\* Until a frame is out of the filter the clip has no start.
Unstarted(nx) ==
  octx.start["video"] = NoPts => nx <= Lo /\ sent = <<>> /\ first["video"] = V[1].pts

Sent(nx) == Progress(cfg.fps, Clip, V, SentAt, nx) /\ Unstarted(nx)

\* All that is due before nx has been sent, and the filter has what comes then.
At(nx) == Sent(nx) /\ Queue(cfg.fps, V, VF.out, nx)

AllFlush == \A i \in 1..Len(VF.out) : VF.out[i].n = FlushFrame

Enough(hi) == hi >= Hi /\ (cfg.fps => sent # <<>> \/ hi > Hi)

Start ==
  /\ octx.start["video"] # NoPts =>
       first["video"] >= 0 /\ octx.start["video"] = Filtered("video", first["video"])
  /\ octx.start["video"] = NoPts /\ first["video"] # NoPts =>
       (VideoPhase \/ VideoFlush) /\ V # <<>>

Sending ==
  /\ V = <<>> => sent = <<>>
  /\ VideoPhase /\ V # <<>> => \E nx \in Int : nx = Hi - Len(VF.out) /\ At(nx)
  /\ VideoFlush /\ V # <<>> =>
       \/ \E nx \in Int : Enough(nx + Len(VF.out)) /\ At(nx)
       \/ ~cfg.fps /\ AllFlush /\ \E nx \in Int : nx = Hi /\ Sent(nx)
  /\ VideoFlush /\ V = <<>> => AllFlush
  /\ After /\ V # <<>> /\ ~lost => \E nx \in Int : Enough(nx) /\ Sent(nx)

LEMMA FilteredVideo == \A t : Filtered("video", t) = AfterFilter(cfg.fps, t)
BY DEF Filtered, AfterFilter

LEMMA VideoIncreasing ==
  ASSUME Basics
  PROVE  /\ Increasing(V) /\ cfg.fps \in BOOLEAN /\ cfg \in Sessions /\ Shift \in Int /\ first["video"] \in Int
         /\ V # <<>> => Lo \in Nat /\ Hi \in Nat /\ Lo <= Hi
         /\ V # <<>> /\ ~cfg.fps => Lo < Hi
<1>1. Increasing(V) BY VideoFrames DEF Increasing
<1>2. cfg \in Sessions /\ cfg.fps \in BOOLEAN /\ first["video"] \in Int
  BY TypeFields, SessionFields DEF Basics, Kinds
<1>3. Shift \in Int
  <2>1. From("video") \in Int /\ Filtered("video", first["video"]) \in Int BY <1>2, ClipTypes, FilteredInt
  <2> QED BY <2>1 DEF Shift
<1>4. ASSUME V # <<>> PROVE Lo \in Nat /\ Hi \in Nat /\ Lo <= Hi /\ (~cfg.fps => Lo < Hi)
  <2>1. 1 \in 1..Len(V) /\ Len(V) \in 1..Len(V) /\ 1 <= Len(V) /\ Len(V) \in Nat BY <1>4, VideoFrames
  <2>2. /\ V[1].pts \in Nat /\ V[Len(V)].pts \in Nat /\ Ticks(V[1].pts) \in Nat /\ Ticks(V[Len(V)].pts) \in Nat
        /\ Ticks(V[1].pts) <= Ticks(V[Len(V)].pts)
        /\ 1 < Len(V) => V[1].pts < V[Len(V)].pts
    BY <2>1, VideoFrames
  <2>3. V[1].pts <= V[Len(V)].pts
    <3>1. CASE 1 = Len(V)
      <4>1. V[Len(V)] = V[1] BY <3>1
      <4> QED BY <2>2, <4>1
    <3>2. CASE 1 # Len(V) BY <2>1, <2>2, <3>2
    <3> QED BY <3>1, <3>2
  <2> QED BY <1>2, <2>2, <2>3 DEF Lo, Hi, AfterFilter
<1> QED BY <1>1, <1>2, <1>3, <1>4

LEMMA SentAtFields ==
  ASSUME Basics
  PROVE  /\ SentAt \in Seq(Times2) /\ Len(SentAt) = Len(sent)
         /\ \A i \in 1..Len(sent) : /\ SentAt[i].n = sent[i].n /\ SentAt[i].t = sent[i].at + Shift
                                    /\ sent[i].n \in Nat /\ sent[i].at \in Int
                                    /\ SentAt[i] = [n |-> sent[i].n, t |-> sent[i].at + Shift]
<1>1. sent \in Seq(Packet) /\ Len(sent) \in Nat /\ DOMAIN sent = 1..Len(sent) BY VideoFrames
<1>2. \A i \in 1..Len(sent) : sent[i].n \in Nat /\ sent[i].at \in Int
  <2>1. \A p \in Packet : p.n \in Nat /\ p.at \in Int BY DEF Packet
  <2> QED BY <1>1, <2>1
<1>3. Shift \in Int BY VideoIncreasing
<1> DEFINE g == [i \in 1..Len(sent) |-> [n |-> sent[i].n, t |-> sent[i].at + Shift]]
<1>4. SentAt = g BY <1>1, Zenon DEF SentAt, Shift
<1>5. \A i \in 1..Len(sent) : [n |-> sent[i].n, t |-> sent[i].at + Shift] \in Times2 BY <1>2, <1>3 DEF Times2
<1>6. g \in Seq(Times2) /\ Len(g) = Len(sent) BY <1>1, <1>5
<1>7. \A i \in 1..Len(sent) : g[i] = [n |-> sent[i].n, t |-> sent[i].at + Shift] OBVIOUS
<1> HIDE DEF g
<1>8. ASSUME NEW i \in 1..Len(sent) PROVE g[i].n = sent[i].n /\ g[i].t = sent[i].at + Shift
  <2>1. g[i] = [n |-> sent[i].n, t |-> sent[i].at + Shift] BY <1>7
  <2> QED BY <2>1
<1> QED BY <1>2, <1>4, <1>6, <1>7, <1>8

\* Nothing of this changes with the other variables.
LEMMA ClipKept ==
  ASSUME cfg' = cfg, first'["video"] = first["video"]
  PROVE  Clip' = Clip /\ Shift' = Shift
<1>1. \A t : InClip("video", t)' <=> InClip("video", t) BY DEF InClip, Filtered, From, To
<1>2. Clip' = Clip BY <1>1 DEF Clip
<1>3. Shift' = Shift BY DEF Shift, Filtered, From
<1> QED BY <1>2, <1>3

LEMMA SentAtKept ==
  ASSUME cfg' = cfg, first'["video"] = first["video"], sent' = sent
  PROVE  SentAt' = SentAt
BY DEF SentAt, Filtered, From

LEMMA SentAtEmpty == ASSUME Basics, sent = <<>> PROVE SentAt = <<>>
<1>1. SentAt \in Seq(Times2) /\ Len(SentAt) = Len(sent) BY SentAtFields
<1>2. Len(sent) = 0 OBVIOUS
<1> QED BY <1>1, <1>2

\* The frames of a sequence of packets, with their times shifted by c.
ShiftedBy(q, c) == [i \in 1..Len(q) |-> [n |-> q[i].n, t |-> q[i].at + c]]

LEMMA ShiftedAppended ==
  ASSUME NEW q \in Seq(Packet), NEW p \in Packet, NEW c \in Int, NEW nx \in Int, p.at + c = nx
  PROVE  ShiftedBy(Append(q, p), c) = Append(ShiftedBy(q, c), [n |-> p.n, t |-> nx])
<1>0. \A z \in Packet : z.n \in Nat /\ z.at \in Int BY DEF Packet
<1> DEFINE r == Append(q, p)
           g == ShiftedBy(q, c)
           h == ShiftedBy(r, c)
           y == [n |-> p.n, t |-> nx]
           a == Append(g, y)
<1>1. /\ r \in Seq(Packet) /\ Len(r) = Len(q) + 1 /\ r[Len(q) + 1] = p /\ Len(q) \in Nat
      /\ \A i \in 1..Len(q) : r[i] = q[i]
  OBVIOUS
<1>2. y \in Times2 BY <1>0 DEF Times2
<1>3. ASSUME NEW z \in Seq(Packet)
      PROVE  /\ ShiftedBy(z, c) \in Seq(Times2) /\ Len(ShiftedBy(z, c)) = Len(z)
             /\ \A i \in 1..Len(z) : ShiftedBy(z, c)[i] = [n |-> z[i].n, t |-> z[i].at + c]
  <2>1. \A i \in 1..Len(z) : [n |-> z[i].n, t |-> z[i].at + c] \in Times2 BY <1>0 DEF Times2
  <2> QED BY <2>1 DEF ShiftedBy
<1> HIDE DEF r
<1>4. h \in Seq(Times2) /\ Len(h) = Len(q) + 1 /\ g \in Seq(Times2) /\ Len(g) = Len(q)
  BY <1>1, <1>3
<1>5. \A i \in 1..Len(q) : h[i] = g[i]
  <2> SUFFICES ASSUME NEW i \in 1..Len(q) PROVE h[i] = g[i] OBVIOUS
  <2>1. i \in 1..Len(r) /\ r[i] = q[i] BY <1>1
  <2>2. h[i] = [n |-> r[i].n, t |-> r[i].at + c] BY <1>1, <1>3, <2>1
  <2>3. g[i] = [n |-> q[i].n, t |-> q[i].at + c] BY <1>3
  <2> QED BY <2>1, <2>2, <2>3
<1>6. h[Len(q) + 1] = y
  <2>1. Len(q) + 1 \in 1..Len(r) BY <1>1
  <2>2. h[Len(q) + 1] = [n |-> r[Len(q) + 1].n, t |-> r[Len(q) + 1].at + c] BY <1>1, <1>3, <2>1
  <2> QED BY <1>1, <2>2
<1> HIDE DEF g, h, y
<1>7. a \in Seq(Times2) /\ Len(a) = Len(q) + 1 /\ a[Len(q) + 1] = y /\ \A i \in 1..Len(q) : a[i] = g[i]
  BY <1>1, <1>2, <1>4
<1> HIDE DEF a
<1>8. \A i \in 1..Len(q) + 1 : h[i] = a[i]
  <2>1. \A i \in 1..Len(q) + 1 : i \in 1..Len(q) \/ i = Len(q) + 1 BY <1>1
  <2> QED BY <1>5, <1>6, <1>7, <2>1
<1>9. h = a BY <1>1, <1>4, <1>7, <1>8
<1> QED BY <1>9 DEF h, a, r, g, y

LEMMA SentAtAppended ==
  ASSUME Basics, cfg' = cfg, first'["video"] = first["video"], NEW p \in Packet, sent' = Append(sent, p),
         NEW nx \in Int, p.at + Shift = nx
  PROVE  SentAt' = Append(SentAt, [n |-> p.n, t |-> nx])
<1>1. sent \in Seq(Packet) /\ Shift \in Int BY VideoFrames, VideoIncreasing
<1>2. Shift' = Shift BY ClipKept
<1>3. SentAt = ShiftedBy(sent, Shift)
  <2>1. DOMAIN sent = 1..Len(sent) BY <1>1
  <2> QED BY <2>1, Zenon DEF SentAt, Shift, ShiftedBy
<1>4. SentAt' = ShiftedBy(sent', Shift')
  <2>1. sent' \in Seq(Packet) BY <1>1
  <2>2. DOMAIN sent' = 1..Len(sent') BY <2>1
  <2> QED BY <2>2, Zenon DEF SentAt, Shift, ShiftedBy
<1>5. ShiftedBy(Append(sent, p), Shift) = Append(ShiftedBy(sent, Shift), [n |-> p.n, t |-> nx])
  BY <1>1, ShiftedAppended
<1>6. SentAt' = ShiftedBy(Append(sent, p), Shift) BY <1>2, <1>4
<1> QED BY <1>3, <1>5, <1>6, Zenon

\* Where the frame read is in the clip, and what its start is.
LEMMA FrameInClip ==
  ASSUME Basics, Start, Reads("video"), V # <<>>, NEW nx \in Int, At(nx)
  PROVE  /\ Incoming.pts = nx /\ Due(cfg.fps, V, Incoming.n, nx)
         /\ StartOf("video") = Filtered("video", first["video"]) /\ StartOf("video") >= 0
         /\ first["video"] >= 0
         /\ Clipped("video") <=> nx \notin Clip
         /\ Shifted("video") + Shift = nx
<1>1. VF.out # <<>> /\ Incoming = Head(VF.out) BY DEF Reads, VF, Incoming
<1>2. VF.out \in Seq(Frame) BY VideoFrames
<1>3. Len(VF.out) >= 1 /\ Incoming = VF.out[1] BY <1>1, <1>2
<1>4. Incoming.pts = nx /\ Due(cfg.fps, V, Incoming.n, nx) BY <1>2, <1>3, QueueHead DEF At
<1>5. first["video"] >= 0 /\ first["video"] \in Int /\ cfg \in Sessions
  BY VideoIncreasing DEF Basics, Times, V
<1>6. Filtered("video", first["video"]) \in Int /\ Filtered("video", first["video"]) >= 0
  <2>1. first["video"] \in Nat BY <1>5
  <2>2. Ticks(first["video"]) \in Nat BY <2>1, TicksNat
  <2> QED BY <2>1, <2>2 DEF Filtered
<1>7. StartOf("video") = Filtered("video", first["video"])
  <2>1. CASE octx.start["video"] # NoPts BY <2>1 DEF Start, StartOf
  <2>2. CASE octx.start["video"] = NoPts
    <3>1. nx <= Lo /\ first["video"] = V[1].pts BY <2>2 DEF At, Sent, Unstarted
    <3>2. Lo <= nx /\ Lo \in Nat BY <1>4, VideoIncreasing, DueInRange DEF Lo
    <3>3. nx = Lo BY <3>1, <3>2
    <3>4. Lo = Filtered("video", first["video"]) BY <3>1, FilteredVideo DEF Lo
    <3> QED BY <1>4, <2>2, <3>3, <3>4 DEF StartOf
  <2> QED BY <2>1, <2>2
<1>8. Clipped("video") <=> nx \notin Clip
  <2>1. Clipped("video") <=> \/ cfg.to # 0 /\ nx > To("video") + Filtered("video", first["video"])
                             \/ cfg.from # 0 /\ nx < From("video") + Filtered("video", first["video"])
    BY <1>4, <1>7 DEF Clipped
  <2>2. nx \in Clip <=> /\ cfg.to # 0 => nx <= To("video") + Filtered("video", first["video"])
                        /\ cfg.from # 0 => nx >= From("video") + Filtered("video", first["video"])
    BY DEF Clip, InClip
  <2>3. To("video") \in Int /\ From("video") \in Int BY <1>5, ClipTypes
  <2> QED BY <1>6, <2>1, <2>2, <2>3
<1>9. Shifted("video") + Shift = nx
  <2>1. From("video") \in Int BY <1>5, ClipTypes
  <2>2. Shifted("video") = IF cfg.from = 0 THEN nx ELSE nx - From("video") - Filtered("video", first["video"])
    BY <1>4, <1>7 DEF Shifted
  <2> QED BY <1>6, <2>1, <2>2 DEF Shift
<1> QED BY <1>4, <1>5, <1>6, <1>7, <1>8, <1>9

\* A frame of the video is sent or skipped.
LEMMA TakeStep ==
  ASSUME Basics, Start, EncodeVideo \/ (SkipFrame /\ cur.kind = "video"), V # <<>>, NEW nx \in Int, At(nx)
  PROVE  /\ At(nx + 1)'
         /\ sent # <<>> => sent' # <<>>
         /\ octx'.start["video"] # NoPts
         /\ first["video"] >= 0 /\ octx'.start["video"] = Filtered("video", first["video"])
<1>0. EncodeTypeOK /\ Reads("video") BY DEF Basics, EncodeVideo, SkipFrame
<1>1. /\ Incoming.pts = nx /\ Due(cfg.fps, V, Incoming.n, nx)
      /\ StartOf("video") = Filtered("video", first["video"]) /\ StartOf("video") >= 0
      /\ first["video"] >= 0
      /\ Clipped("video") <=> nx \notin Clip
      /\ Shifted("video") + Shift = nx
  BY <1>0, FrameInClip
<1>2. /\ Len(VF.out) >= 1 /\ Len(VF'.out) = Len(VF.out) - 1
      /\ \A i \in 1..Len(VF.out) - 1 : VF'.out[i] = VF.out[i + 1]
      /\ UNCHANGED <<cfg, src, pc, cur, outcome, fed, first, upset, calls>>
  BY VideoTaken
<1>3. VF.out \in Seq(Frame) /\ sent \in Seq(Packet) BY VideoFrames
<1>4. Queue(cfg.fps, V, VF'.out, nx + 1) BY <1>2, <1>3, QueueTail DEF At
<1>5. Clip' = Clip /\ Shift' = Shift BY <1>2, ClipKept
<1>6. Increasing(V) /\ cfg.fps \in BOOLEAN /\ Shift \in Int BY VideoIncreasing
<1>7. SentAt \in Seq(Times2) BY SentAtFields
<1>8. Progress(cfg.fps, Clip, V, SentAt, nx) BY DEF At, Sent
<1>9. octx'.start["video"] = StartOf("video")
  <2>1. CASE EncodeVideo BY <1>0, <2>1, MarkedFields DEF EncodeVideo
  <2>2. CASE SkipFrame /\ cur.kind = "video"
    <3>1. StartOf("video") \in Int /\ "video" \in Kinds
      <4>1. filters[cur.kind].out # <<>> BY <2>2 DEF SkipFrame, Reads
      <4>2. Incoming.pts \in Int BY <1>0, <4>1, IncomingFrame
      <4> QED BY <1>0, <4>2, TypeFields DEF StartOf, Kinds
    <3>2. octx' = [octx EXCEPT !.start["video"] = StartOf("video")] BY <2>2 DEF SkipFrame
    <3> QED BY <1>0, <3>1, <3>2, StartInContext
  <2> QED BY <2>1, <2>2
<1>10. octx'.start["video"] # NoPts
  <2>1. NoPts < 0 /\ NoPts \in Int BY Constants
  <2> QED BY <1>1, <1>9, <2>1
<1>11. Progress(cfg.fps, Clip, V, SentAt', nx + 1)
  <2>1. CASE EncodeVideo
    <3>1. nx \in Clip /\ sent' = Append(sent, VideoPacket) BY <1>1, <2>1 DEF EncodeVideo
    <3>2. VideoPacket \in Packet /\ VideoPacket.n = Incoming.n /\ VideoPacket.at = Shifted("video")
      BY <1>0, VideoPacketFields
    <3>3. VideoPacket.at + Shift = nx BY <1>1, <3>2
    <3>4. SentAt' = Append(SentAt, [n |-> VideoPacket.n, t |-> nx])
      BY <1>2, <3>1, <3>2, <3>3, SentAtAppended
    <3>5. SentAt' = Append(SentAt, [n |-> Incoming.n, t |-> nx]) BY <3>2, <3>4
    <3>6. Progress(cfg.fps, Clip, V, Append(SentAt, [n |-> Incoming.n, t |-> nx]), nx + 1)
      BY <1>1, <1>6, <1>7, <1>8, <3>1, ProgressSend
    <3> QED BY <3>5, <3>6
  <2>2. CASE SkipFrame /\ cur.kind = "video"
    <3>1. nx \notin Clip /\ sent' = sent BY <1>1, <2>2 DEF SkipFrame
    <3>2. SentAt' = SentAt BY <1>2, <3>1, SentAtKept
    <3> QED BY <1>6, <1>7, <1>8, <3>1, <3>2, ProgressSkip
  <2> QED BY <2>1, <2>2
<1>12. V' = V /\ cfg' = cfg BY <1>2 DEF V
<1>13. At(nx + 1)' BY <1>4, <1>5, <1>10, <1>11, <1>12 DEF At, Sent, Unstarted
<1>14. sent # <<>> => sent' # <<>>
  <2>1. CASE EncodeVideo
    <3>1. sent' = Append(sent, VideoPacket) BY <2>1 DEF EncodeVideo
    <3>2. VideoPacket \in Packet BY <1>0, VideoPacketFields
    <3> QED BY <2>1, <3>1, <3>2, <1>3
  <2>2. CASE SkipFrame BY <2>2 DEF SkipFrame
  <2> QED BY <2>1, <2>2
<1> QED BY <1>1, <1>9, <1>10, <1>13, <1>14

\* No frame is read where only those of the flush are left.
LEMMA NoFrameLeft ==
  ASSUME Basics, AllFlush, Reads("video") PROVE FALSE
<1>1. VF.out # <<>> /\ Incoming = Head(VF.out) /\ Incoming.n # FlushFrame BY DEF Reads, VF, Incoming
<1>2. VF.out \in Seq(Frame) BY VideoFrames
<1>3. Len(VF.out) >= 1 /\ Incoming = VF.out[1] BY <1>1, <1>2
<1>4. 1 \in 1..Len(VF.out) BY <1>2, <1>3
<1> QED BY <1>1, <1>3, <1>4 DEF AllFlush

\* What Sending says where a frame is read.
LEMMA ReadsDue ==
  ASSUME Basics, Counted, Sending, Reads("video")
  PROVE  /\ V # <<>> /\ (VideoPhase \/ VideoFlush)
         /\ \E nx \in Int : /\ At(nx)
                            /\ VideoPhase => nx = Hi - Len(VF.out)
                            /\ VideoFlush => Enough(nx + Len(VF.out))
<1>1. pc = "read" /\ cur.kind = "video" /\ VF.out # <<>> BY DEF Reads, VF
<1>2. /\ VideoPhase \/ VideoFlush
      /\ ~(VideoPhase /\ VideoFlush)
  BY <1>1 DEF VideoPhase, VideoFlush
<1>3. VF.out \in Seq(Frame) /\ Len(sent) \in Nat BY VideoFrames
<1>4. Len(VF.out) >= 1 BY <1>1, <1>3
<1>5. V # <<>>
  <2>1. SUFFICES ASSUME V = <<>> PROVE FALSE OBVIOUS
  <2>2. VideoFlush => FALSE BY <2>1, NoFrameLeft DEF Sending
  <2>3. Room = 0 BY <2>1 DEF Room
  <2>4. VideoPhase => FALSE BY <1>3, <1>4, <2>3 DEF Counted
  <2> QED BY <1>2, <2>2, <2>4
<1>6. CASE VideoPhase BY <1>2, <1>5, <1>6 DEF Sending
<1>7. CASE VideoFlush
  <2>1. ~AllFlush BY NoFrameLeft
  <2> QED BY <1>2, <1>5, <1>7, <2>1 DEF Sending
<1> QED BY <1>2, <1>5, <1>6, <1>7

LEMMA SentKept ==
  ASSUME UNCHANGED <<cfg, first["video"], fed["video"], sent, octx.start["video"]>>, NEW nx, Sent(nx)
  PROVE  Sent(nx)' /\ Hi' = Hi /\ Lo' = Lo
<1>1. Clip' = Clip /\ SentAt' = SentAt BY ClipKept, SentAtKept
<1>2. V' = V BY DEF V
<1>3. Hi' = Hi /\ Lo' = Lo BY <1>2 DEF Hi, Lo
<1> QED BY <1>1, <1>2, <1>3 DEF Sent, Unstarted

LEMMA StartNext == ASSUME Basics, Counted, Start, Sending, [Next]_vars PROVE Start'
<1>a. EncodeTypeOK /\ Control /\ Times("video") /\ Open BY DEF Basics
<1>b. NoPts < 0 /\ NoPts \in Int BY Constants
<1>c. first["video"] \in Int BY VideoIncreasing
<1>1. CASE BeginCall
  <2>1. octx'.start = octx.start BY <1>1, <1>a, StreamAddedFields DEF BeginCall
  <2>2. first' = first /\ cfg' = cfg /\ pc = "idle" BY <1>1 DEF BeginCall
  <2>3. ~VideoPhase /\ ~VideoFlush BY <2>2 DEF VideoPhase, VideoFlush
  <2> QED BY <2>1, <2>2, <2>3 DEF Start, Filtered
<1>2. CASE DecodeVideo
  <2>1. PICK x : VideoDecoded(x) BY <1>2, <1>a, DecodeVideoFields
  <2>2. octx' = octx /\ cfg' = cfg /\ pc' = "read" /\ cur'.flush = FALSE BY <1>2 DEF DecodeVideo, Decode
  <2>3. VideoPhase' BY <2>2 DEF VideoPhase
  <2>4. V' # <<>> BY <2>1, DecodedVideo
  <2>5. first["video"] # NoPts => first'["video"] = first["video"] BY <2>1 DEF VideoDecoded
  <2>6. octx.start["video"] # NoPts => first["video"] # NoPts BY <1>b, <1>c DEF Start
  <2> QED BY <2>2, <2>3, <2>4, <2>5, <2>6 DEF Start, Filtered
<1>3. CASE EncodeVideo \/ (SkipFrame /\ cur.kind = "video")
  <2>1. Reads("video") /\ first' = first /\ cfg' = cfg BY <1>3 DEF EncodeVideo, SkipFrame
  <2>2. PICK nx \in Int : At(nx) BY <2>1, ReadsDue
  <2>3. V # <<>> BY <2>1, ReadsDue
  <2>4. /\ octx'.start["video"] # NoPts
        /\ first["video"] >= 0 /\ octx'.start["video"] = Filtered("video", first["video"])
    BY <1>3, <2>2, <2>3, TakeStep
  <2> QED BY <2>1, <2>4 DEF Start, Filtered
<1>4. CASE ReadFlushFrame /\ cur.kind = "video"
  <2>1. octx' = octx BY <1>4 DEF ReadFlushFrame
  <2>2. VideoPhase' = VideoPhase /\ VideoFlush' = VideoFlush /\ UNCHANGED <<cfg, fed, first>>
    BY <1>4, VideoTaken
  <2> QED BY <2>1, <2>2 DEF Start, V, Filtered
<1>5. CASE VideoIsFlushed
  <2>1. /\ UNCHANGED <<octx, fed, first, cfg>> /\ pc = "flush" /\ cur.kind = "video" /\ pc' = "read" /\ cur' = cur
    BY <1>5 DEF VideoIsFlushed
  <2>2. VideoFlush' /\ VideoPhase /\ ~VideoFlush BY <1>a, <2>1 DEF VideoFlush, VideoPhase, Control
  <2> QED BY <2>1, <2>2 DEF Start, V, Filtered
<1>6. CASE VideoEnds
  <2>1. UNCHANGED <<cfg, fed, first>> BY <1>6 DEF VideoEnds
  <2>2. CASE octx' = Marked /\ Reads("video")
    <3>1. PICK nx \in Int : At(nx) BY <2>2, ReadsDue
    <3>2. V # <<>> BY <2>2, ReadsDue
    <3>3. StartOf("video") = Filtered("video", first["video"]) /\ first["video"] >= 0 /\ StartOf("video") >= 0
      BY <2>2, <3>1, <3>2, FrameInClip
    <3>4. octx'.start["video"] = StartOf("video") BY <1>a, <2>2, MarkedFields
    <3>5. octx'.start["video"] # NoPts BY <1>b, <3>3, <3>4
    <3> QED BY <2>1, <3>3, <3>4, <3>5 DEF Start, Filtered
  <2>3. CASE octx' = octx /\ V = <<>>
    BY <2>1, <2>3 DEF Start, Filtered
  <2>4. CASE octx' = octx /\ V # <<>> /\ VideoFlush /\ VF.out = <<>>
    <3>1. Len(VF.out) = 0 BY <2>4
    <3>2. PICK nx \in Int : Enough(nx) /\ Sent(nx)
      <4>1. CASE \E nx \in Int : Enough(nx + Len(VF.out)) /\ At(nx)
        <5>1. PICK nx \in Int : Enough(nx + Len(VF.out)) /\ At(nx) BY <4>1
        <5>2. nx + Len(VF.out) = nx BY <3>1
        <5> QED BY <5>1, <5>2 DEF At
      <4>2. CASE ~cfg.fps /\ \E nx \in Int : nx = Hi /\ Sent(nx)
        BY <4>2 DEF Enough
      <4> QED BY <2>4, <4>1, <4>2 DEF Sending
    <3>3. octx.start["video"] # NoPts
      <4>1. SUFFICES ASSUME octx.start["video"] = NoPts PROVE FALSE OBVIOUS
      <4>2. nx <= Lo /\ sent = <<>> BY <3>2, <4>1 DEF Sent, Unstarted
      <4>3. nx >= Hi /\ (cfg.fps => nx > Hi) BY <3>2, <4>2 DEF Enough
      <4>4. Lo \in Nat /\ Hi \in Nat /\ Lo <= Hi /\ (~cfg.fps => Lo < Hi) BY <2>4, VideoIncreasing
      <4> QED BY <4>2, <4>3, <4>4
    <3> QED BY <2>1, <2>4, <3>3 DEF Start, Filtered
  <2>5. WriteFlush /\ pc = "flush" /\ cur.kind = "video" /\ NothingToFlush => V = <<>>
    BY <1>a DEF NothingToFlush, Open, VideoPhase, VF, Times, V
  <2>6. FlushEncoderFails /\ VideoFlush => VF.out = <<>>
    BY DEF FlushEncoderFails, Empty, VideoFlush, VF
  <2>7. \/ octx' = Marked /\ Reads("video")
        \/ octx' = octx /\ V = <<>>
        \/ octx' = octx /\ VideoFlush /\ VF.out = <<>>
    BY <1>6, <2>5, <2>6 DEF VideoEnds
  <2> QED BY <2>2, <2>3, <2>4, <2>7
<1>7. CASE VideoKept
  <2>1. UNCHANGED <<cfg, fed["video"], sent, octx.start["video"], first["video"]>> BY <1>7 DEF VideoKept
  <2>2. CASE VideoPhase /\ VideoPhase' BY <2>1, <2>2 DEF Start, V, Filtered
  <2>3. CASE After BY <2>1, <2>3 DEF Start, V, Filtered, After, VideoPhase, VideoFlush
  <2>4. CASE V = <<>> BY <2>1, <2>4 DEF Start, V, Filtered
  <2>5. CASE UNCHANGED vars BY <2>5 DEF vars, Start, V, Filtered, VideoPhase, VideoFlush
  <2> QED BY <1>7, <2>2, <2>3, <2>4, <2>5 DEF VideoKept
<1> QED BY <1>1, <1>2, <1>3, <1>4, <1>5, <1>6, <1>7, <1>a, VideoSteps

-----------------------------------------------------------------------------
LEMMA IncreasingAppend ==
  ASSUME NEW v, Increasing(v), NEW x \in Frame, x.pts \in Nat, v # <<>> => v[Len(v)].pts < x.pts
  PROVE  Increasing(Append(v, x))
<1> DEFINE w == Append(v, x)
<1>1. v \in Seq(Frame) /\ Len(v) \in Nat BY DEF Increasing
<1>2. w \in Seq(Frame) /\ Len(w) = Len(v) + 1 /\ w[Len(v) + 1] = x /\ \A i \in 1..Len(v) : w[i] = v[i] BY <1>1
<1> HIDE DEF w
<1>3. \A i \in 1..Len(w) : i \in 1..Len(v) \/ i = Len(v) + 1 BY <1>1, <1>2
<1>4. \A i \in 1..Len(w) : w[i].pts \in Nat BY <1>2, <1>3 DEF Increasing
<1>5. ASSUME NEW i \in 1..Len(v) PROVE v[i].pts < x.pts
  <2>1. v # <<>> /\ Len(v) \in 1..Len(v) BY <1>1
  <2>2. v[i].pts \in Nat /\ v[Len(v)].pts \in Nat BY <2>1 DEF Increasing
  <2>3. CASE i = Len(v) BY <2>1, <2>3
  <2>4. CASE i # Len(v)
    <3>1. i < Len(v) BY <1>1, <2>4
    <3>2. v[i].pts < v[Len(v)].pts BY <2>1, <3>1 DEF Increasing
    <3> QED BY <2>1, <2>2, <3>2
  <2> QED BY <2>3, <2>4
<1>6. ASSUME NEW i \in 1..Len(w), NEW j \in 1..Len(w), i < j PROVE w[i].pts < w[j].pts
  <2>1. i \in 1..Len(v) BY <1>1, <1>2, <1>6
  <2>2. CASE j \in 1..Len(v) BY <1>2, <1>6, <2>1, <2>2 DEF Increasing
  <2>3. CASE j = Len(v) + 1 BY <1>2, <1>5, <2>1, <2>3
  <2> QED BY <1>3, <2>2, <2>3
<1>7. Increasing(w) BY <1>2, <1>4, <1>6 DEF Increasing
<1> QED BY <1>7 DEF w

\* After the last frame is in, it is the one due.
LEMMA LastDue ==
  ASSUME NEW v, Increasing(v), v # <<>>, NEW t \in Int, Ticks(v[Len(v)].pts) <= t
  PROVE  Due(TRUE, v, Len(v), t)
<1>1. Len(v) \in Nat /\ Len(v) \in 1..Len(v) BY DEF Increasing
<1>2. \A j \in 1..Len(v) : j <= Len(v) BY <1>1
<1> QED BY <1>1, <1>2 DEF Due

LEMMA SendingDecode ==
  ASSUME Basics, Start, Sending, DecodeVideo PROVE Sending'
<1>a. EncodeTypeOK /\ Control /\ Times("video") /\ Open BY DEF Basics
<1>1. PICK x : VideoDecoded(x) BY <1>a, DecodeVideoFields
<1>2. /\ octx' = octx /\ cfg' = cfg /\ sent' = sent /\ pc = "decode" /\ pc' = "read" /\ cur'.flush = FALSE
  BY DEF DecodeVideo, Decode
<1>3. VideoPhase /\ VideoPhase' /\ ~VideoFlush' /\ ~After' BY <1>2 DEF VideoPhase, VideoFlush, After
<1>4. VF.out = <<>> BY <1>a, <1>2, <1>3 DEF Control
<1>5. /\ x \in Frame /\ x.pts \in Nat /\ x.n = Len(V) + 1 /\ V' = Append(V, x)
      /\ Len(V') = Len(V) + 1 /\ V'[Len(V) + 1] = x /\ V' # <<>>
      /\ V'[1] = IF V = <<>> THEN x ELSE V[1]
      /\ V # <<>> => V[Len(V)].pts < x.pts
      /\ first'["video"] = IF first["video"] = NoPts THEN x.pts ELSE first["video"]
      /\ VF'.out = IF cfg.fps THEN Repeated(VF, Ticks(x.pts)) ELSE <<x>>
  BY <1>1, DecodedVideo DEF VideoDecoded
<1>6. Increasing(V) /\ cfg.fps \in BOOLEAN BY VideoIncreasing
<1>7. Increasing(V') BY <1>5, <1>6, IncreasingAppend
<1>8. Hi' = IF cfg.fps THEN Ticks(x.pts) ELSE x.pts + 1 BY <1>2, <1>5 DEF Hi
<1>9. Ticks(x.pts) \in Nat BY <1>5, TicksNat
<1>10. Len(V) \in Nat BY VideoFrames
<1>11. CASE V = <<>>
  <2>1. sent = <<>> BY <1>11 DEF Sending
  <2> DEFINE a == AfterFilter(cfg.fps, x.pts)
  <2>2. Lo' = a BY <1>2, <1>5, <1>11 DEF Lo
  <2>3. Hi' - Len(VF'.out) = a
    <3>1. CASE cfg.fps
      <4>1. Len(VF'.out) = 0 BY <1>1, <1>2, <1>11, <3>1, DecodedRepeats
      <4> QED BY <1>8, <1>9, <3>1, <4>1 DEF AfterFilter
    <3>2. CASE ~cfg.fps
      <4>1. Len(VF'.out) = 1 BY <1>5, <3>2
      <4>2. Hi' = x.pts + 1 BY <1>8, <3>2
      <4> QED BY <1>5, <3>2, <4>1, <4>2 DEF AfterFilter
    <3> QED BY <3>1, <3>2
  <2>4. a \in Int BY <1>5, <1>9 DEF AfterFilter
  <2>5. PICK nx \in Int : nx = a BY <2>4
  <2>6. SentAt' = <<>>
    <3>1. sent' = <<>> BY <1>2, <2>1
    <3>2. DOMAIN sent' = {} BY <3>1
    <3> QED BY <3>2 DEF SentAt
  <2>7. ASSUME NEW clip PROVE Progress(cfg.fps, clip, V', <<>>, nx)
    <3>1. nx <= AfterFilter(cfg.fps, V'[1].pts) BY <1>5, <1>11, <2>4, <2>5
    <3> QED BY <1>5, <1>6, <1>7, <3>1, ProgressFirst
  <2>8. Queue(cfg.fps, V', VF'.out, nx)
    <3>1. CASE cfg.fps
      <4>1. Len(VF'.out) = 0 BY <1>1, <1>2, <1>11, <3>1, DecodedRepeats
      <4> QED BY <4>1 DEF Queue
    <3>2. CASE ~cfg.fps
      <4>1. VF'.out = <<x>> /\ nx = x.pts /\ x.n \in 1..Len(V') /\ V'[x.n] = x
        BY <1>5, <1>10, <2>5, <3>2 DEF AfterFilter
      <4>2. Due(cfg.fps, V', x.n, x.pts) BY <3>2, <4>1 DEF Due
      <4>3. Len(VF'.out) = 1 /\ VF'.out[1] = x BY <4>1
      <4>4. nx + 1 - 1 = nx OBVIOUS
      <4> QED BY <4>1, <4>2, <4>3, <4>4 DEF Queue
    <3> QED BY <3>1, <3>2
  <2>9. Unstarted(nx)'
    <3>1. ASSUME octx'.start["video"] = NoPts PROVE nx <= Lo' /\ sent' = <<>> /\ first'["video"] = V'[1].pts
      <4>1. first["video"] = NoPts BY <1>2, <1>11, <3>1 DEF Start
      <4> QED BY <1>2, <1>5, <1>11, <2>1, <2>2, <2>4, <2>5, <4>1
    <3> QED BY <3>1 DEF Unstarted
  <2>10. At(nx)' BY <1>2, <2>6, <2>7, <2>8, <2>9 DEF At, Sent
  <2> QED BY <1>3, <1>5, <2>3, <2>5, <2>10 DEF Sending
<1>12. CASE V # <<>>
  <2>1. PICK nx \in Int : nx = Hi - Len(VF.out) /\ At(nx) BY <1>3, <1>12 DEF Sending
  <2>2. Lo \in Nat /\ Hi \in Nat /\ Lo <= Hi /\ (~cfg.fps => Lo < Hi) BY <1>12, VideoIncreasing
  <2>3. nx = Hi BY <1>4, <2>1, <2>2
  <2>4. Len(V) \in 1..Len(V) /\ Len(V) >= 1 BY <1>12, VideoFrames
  <2>5. V[Len(V)].pts \in Nat /\ Ticks(V[Len(V)].pts) \in Nat BY <2>4, VideoFrames
  <2>6. Ticks(V[Len(V)].pts) <= Ticks(x.pts) BY <1>5, <1>12, <2>5, TicksMonotone
  <2>7. first'["video"] = first["video"]
    <3>1. first["video"] >= 0 /\ first["video"] \in Int BY <1>a, <1>12, VideoIncreasing DEF Times, V
    <3> QED BY <1>5, <3>1, Constants
  <2>8. Clip' = Clip /\ SentAt' = SentAt BY <1>2, <2>7, ClipKept, SentAtKept
  <2>9. SentAt \in Seq(Times2) BY SentAtFields
  <2>10. Lo' = Lo BY <1>2, <1>5, <1>12 DEF Lo
  <2>11. Progress(cfg.fps, Clip, V, SentAt, Hi) BY <2>1, <2>3 DEF At, Sent
  <2>12. CASE cfg.fps
    <3>1. Hi = Ticks(V[Len(V)].pts) BY <2>12 DEF Hi
    <3>2. /\ Len(VF'.out) = Ticks(x.pts) - Hi
          /\ \A i \in 1..Len(VF'.out) : VF'.out[i] = [n |-> Len(V), pts |-> Hi + i - 1]
      BY <1>1, <1>2, <1>12, <2>12, <3>1, DecodedRepeats
    <3>3. Hi' - Len(VF'.out) = nx BY <1>8, <1>9, <2>2, <2>3, <2>12, <3>2
    <3>4. Progress(cfg.fps, Clip, V', SentAt, nx)
      <4>1. Hi <= AfterFilter(cfg.fps, x.pts) BY <2>6, <2>12, <3>1 DEF AfterFilter
      <4>2. \A t \in Int, n \in Nat : Hi <= t /\ t < Hi => ~Due(cfg.fps, V, n, t) BY <2>2
      <4>3. Hi \in Int /\ Hi <= Hi BY <2>2
      <4>4. V[Len(V)].pts < x.pts BY <1>5, <1>12
      <4>5. Progress(cfg.fps, Clip, Append(V, x), SentAt, Hi)
        BY <1>5, <1>6, <1>12, <2>9, <2>11, <4>1, <4>2, <4>3, <4>4, ProgressDecode
      <4> QED BY <1>5, <2>3, <4>5
    <3>5. Queue(cfg.fps, V', VF'.out, nx)
      <4> SUFFICES ASSUME NEW i \in 1..Len(VF'.out)
                   PROVE  VF'.out[i].pts = nx + i - 1 /\ Due(cfg.fps, V', VF'.out[i].n, VF'.out[i].pts)
        BY DEF Queue
      <4> DEFINE t == Hi + i - 1
      <4>0. VF'.out[i] = [n |-> Len(V), pts |-> t] BY <3>2
      <4>1. VF'.out[i].n = Len(V) /\ VF'.out[i].pts = t BY <4>0
      <4>2. t \in Int /\ Hi <= t /\ t < Ticks(x.pts) BY <1>9, <2>2, <3>2
      <4>3. Due(TRUE, V, Len(V), t) BY <1>6, <1>12, <3>1, <4>2, LastDue
      <4>4. t < AfterFilter(TRUE, x.pts) BY <4>2 DEF AfterFilter
      <4>5. Due(TRUE, Append(V, x), Len(V), t) <=> Due(TRUE, V, Len(V), t)
        <5> HIDE DEF t
        <5> QED BY <1>5, <1>6, <4>2, <4>4, DueLater
      <4>6. cfg.fps = TRUE BY <1>6, <2>12
      <4> QED BY <1>5, <2>3, <4>1, <4>3, <4>5, <4>6
    <3>6. Unstarted(nx)'
      <4>1. Unstarted(nx) BY <2>1 DEF At, Sent
      <4> QED BY <1>2, <1>5, <1>12, <2>7, <2>10, <4>1 DEF Unstarted
    <3>7. At(nx)' BY <1>2, <2>8, <3>4, <3>5, <3>6 DEF At, Sent
    <3> QED BY <1>3, <1>5, <3>3, <3>7 DEF Sending
  <2>13. CASE ~cfg.fps
    <3>1. Hi = V[Len(V)].pts + 1 /\ Hi' = x.pts + 1 /\ VF'.out = <<x>> BY <1>5, <1>8, <2>13 DEF Hi
    <3>2. Hi' - Len(VF'.out) = x.pts
      <4>1. Len(VF'.out) = 1 BY <3>1
      <4>2. x.pts \in Nat /\ Hi' = x.pts + 1 BY <1>5, <3>1
      <4> QED BY <4>1, <4>2
    <3>3. PICK ny \in Int : ny = x.pts BY <1>5
    <3>4. Hi <= ny BY <1>5, <1>12, <2>5, <3>1, <3>3
    <3>5. \A t \in Int, n \in Nat : Hi <= t /\ t < ny => ~Due(cfg.fps, V, n, t)
      <4> SUFFICES ASSUME NEW t \in Int, NEW n \in Nat, Hi <= t, Due(cfg.fps, V, n, t) PROVE FALSE OBVIOUS
      <4>1. t <= V[Len(V)].pts BY <1>6, <2>13, DueInRange
      <4> QED BY <2>5, <3>1, <4>1
    <3>6. Progress(cfg.fps, Clip, V', SentAt, ny)
      <4>1. ny <= AfterFilter(cfg.fps, x.pts) BY <2>13, <3>3 DEF AfterFilter
      <4>2. Hi \in Int BY <2>2
      <4>3. V[Len(V)].pts < x.pts BY <1>5, <1>12
      <4>4. Progress(cfg.fps, Clip, Append(V, x), SentAt, ny)
        BY <1>5, <1>6, <1>12, <2>9, <2>11, <3>4, <3>5, <4>1, <4>2, <4>3, ProgressDecode
      <4> QED BY <1>5, <4>4
    <3>7. Queue(cfg.fps, V', VF'.out, ny)
      <4>1. x.n \in 1..Len(V') /\ V'[x.n] = x BY <1>5, <1>10
      <4>2. Due(cfg.fps, V', x.n, x.pts) BY <2>13, <4>1 DEF Due
      <4>3. Len(VF'.out) = 1 /\ VF'.out[1] = x BY <3>1
      <4>4. ny + 1 - 1 = ny OBVIOUS
      <4> QED BY <3>3, <4>2, <4>3, <4>4 DEF Queue
    <3>8. Unstarted(ny)'
      <4>1. octx.start["video"] = NoPts => FALSE
        <5>1. Unstarted(nx) BY <2>1 DEF At, Sent
        <5> QED BY <2>2, <2>3, <2>13, <5>1 DEF Unstarted
      <4> QED BY <1>2, <4>1 DEF Unstarted
    <3>9. At(ny)' BY <1>2, <2>8, <3>6, <3>7, <3>8 DEF At, Sent
    <3> QED BY <1>3, <1>5, <3>2, <3>3, <3>9 DEF Sending
  <2> QED BY <2>12, <2>13
<1> QED BY <1>11, <1>12

LEMMA SendingBegin == ASSUME BeginCall PROVE Sending'
<1>1. V' = <<>> /\ sent' = <<>> /\ pc' = "decode" BY DEF BeginCall, V, Both, Kinds
<1> QED BY <1>1 DEF Sending, VideoFlush, After

\* What is not disturbed by the step stays as it is.
LEMMA EnoughKept ==
  ASSUME UNCHANGED <<cfg, fed["video"]>>, NEW h, Enough(h), sent # <<>> => sent' # <<>>
  PROVE  Enough(h)'
<1>1. Hi' = Hi BY DEF Hi, V
<1> QED BY <1>1 DEF Enough

LEMMA SendingTaken ==
  ASSUME Basics, Counted, Start, Sending, EncodeVideo \/ (SkipFrame /\ cur.kind = "video")
  PROVE  Sending'
<1>1. Reads("video") BY DEF EncodeVideo, SkipFrame
<1>2. /\ V # <<>>
      /\ \E nx \in Int : /\ At(nx)
                         /\ VideoPhase => nx = Hi - Len(VF.out)
                         /\ VideoFlush => Enough(nx + Len(VF.out))
  BY <1>1, ReadsDue
<1>3. PICK nx \in Int : /\ At(nx)
                        /\ VideoPhase => nx = Hi - Len(VF.out)
                        /\ VideoFlush => Enough(nx + Len(VF.out))
  BY <1>2
<1>4. At(nx + 1)' /\ (sent # <<>> => sent' # <<>>) BY <1>2, <1>3, TakeStep
<1>5. /\ Len(VF'.out) = Len(VF.out) - 1
      /\ UNCHANGED <<cfg, fed>>
      /\ VideoPhase' = VideoPhase /\ VideoFlush' = VideoFlush /\ After' = After /\ ~After
  BY VideoTaken
<1>6. V' = V /\ V' # <<>> /\ Hi' = Hi BY <1>2, <1>5 DEF V, Hi
<1>7. Hi \in Nat /\ Len(VF.out) \in Nat /\ Len(VF'.out) \in Int
  BY <1>2, <1>5, VideoIncreasing, VideoFrames
<1>8. PICK ny \in Int : ny = nx + 1 OBVIOUS
<1>9. At(ny)' BY <1>4, <1>8
<1>10. VideoPhase' => ny = Hi' - Len(VF'.out)
  <2> SUFFICES ASSUME VideoPhase' PROVE ny = Hi' - Len(VF'.out) OBVIOUS
  <2>1. nx = Hi - Len(VF.out) BY <1>3, <1>5
  <2>2. Len(VF'.out) = Len(VF.out) - 1 /\ Hi' = Hi BY <1>5, <1>6
  <2> QED BY <1>7, <1>8, <2>1, <2>2
<1>11. VideoFlush' => Enough(ny + Len(VF.out))'
  <2> SUFFICES ASSUME VideoFlush' PROVE Enough(ny + Len(VF.out))' OBVIOUS
  <2>1. PICK h \in Int : h = nx + Len(VF.out) BY <1>7
  <2>2. ny + Len(VF'.out) = h
    <3>1. Len(VF'.out) = Len(VF.out) - 1 BY <1>5
    <3>2. \A a, b, l \in Int : b = a + 1 => b + (l - 1) = a + l OBVIOUS
    <3>3. ny + (Len(VF.out) - 1) = nx + Len(VF.out)
      <4>1. Len(VF.out) \in Int BY <1>7
      <4> QED BY <1>8, <3>2, <4>1
    <3> QED BY <2>1, <3>1, <3>3
  <2>3. Enough(h) BY <1>3, <1>5, <2>1
  <2>4. Enough(h)' BY <1>4, <1>5, <2>3, EnoughKept
  <2> QED BY <2>2, <2>4 DEF Enough
<1> QED BY <1>5, <1>6, <1>9, <1>10, <1>11 DEF Sending

LEMMA SendingFlushFrame ==
  ASSUME Basics, Sending, ReadFlushFrame, cur.kind = "video" PROVE Sending'
<1>1. /\ VF.out # <<>> /\ Len(VF.out) >= 1 /\ Incoming = VF.out[1]
      /\ Len(VF'.out) = Len(VF.out) - 1
      /\ \A i \in 1..Len(VF.out) - 1 : VF'.out[i] = VF.out[i + 1]
      /\ UNCHANGED <<cfg, fed, first>>
      /\ VideoPhase' = VideoPhase /\ VideoFlush' = VideoFlush /\ After' = After /\ ~After
      /\ ~(VideoPhase /\ VideoFlush)
  BY VideoTaken DEF VideoPhase, VideoFlush
<1>2. octx' = octx /\ sent' = sent /\ Incoming.n = FlushFrame BY DEF ReadFlushFrame
<1>3. VF.out \in Seq(Frame) /\ Len(VF.out) \in Nat BY VideoFrames
<1>4. V' = V BY <1>1 DEF V
<1>5. ASSUME NEW nx \in Int, At(nx), V # <<>> PROVE FALSE
  <2>1. Due(cfg.fps, V, VF.out[1].n, nx) BY <1>1, <1>3, <1>5, QueueHead DEF At
  <2>2. VF.out[1].n >= 1 BY <1>5, <2>1, VideoIncreasing, DueInRange
  <2> QED BY <1>1, <1>2, <2>2 DEF FlushFrame
<1>6. AllFlush => AllFlush'
  <2> SUFFICES ASSUME AllFlush, NEW i \in 1..Len(VF'.out) PROVE VF'.out[i].n = FlushFrame BY DEF AllFlush
  <2>1. i \in 1..Len(VF.out) - 1 /\ i + 1 \in 1..Len(VF.out) BY <1>1, <1>3
  <2>2. VF'.out[i] = VF.out[i + 1] BY <1>1, <2>1
  <2> QED BY <2>1, <2>2 DEF AllFlush
<1>7. CASE V = <<>>
  <2>1. sent = <<>> /\ (VideoFlush => AllFlush) BY <1>7 DEF Sending
  <2> QED BY <1>1, <1>2, <1>4, <1>6, <1>7, <2>1 DEF Sending
<1>8. CASE V # <<>>
  <2>1. ~VideoPhase BY <1>5, <1>8 DEF Sending
  <2>2. VideoFlush => ~cfg.fps /\ AllFlush /\ \E nx \in Int : nx = Hi /\ Sent(nx)
    BY <1>5, <1>8 DEF Sending
  <2>3. ASSUME VideoFlush PROVE \E nx \in Int : nx = Hi' /\ Sent(nx)'
    <3>1. PICK nx \in Int : nx = Hi /\ Sent(nx) BY <2>2, <2>3
    <3>2. Sent(nx)' /\ Hi' = Hi BY <1>1, <1>2, <3>1, SentKept
    <3> QED BY <3>1, <3>2
  <2> QED BY <1>1, <1>4, <1>6, <1>8, <2>1, <2>2, <2>3 DEF Sending
<1> QED BY <1>7, <1>8

\* Where the video is flushed with nothing left in its filter, what is due has
\* been sent.
LEMMA FlushedIsEnough ==
  ASSUME Basics, Sending, VideoFlush, V # <<>>, VF.out = <<>>
  PROVE  \E nx \in Int : Enough(nx) /\ Sent(nx)
<1>1. Len(VF.out) = 0 OBVIOUS
<1>2. CASE \E nx \in Int : Enough(nx + Len(VF.out)) /\ At(nx)
  <2>1. PICK nx \in Int : Enough(nx + Len(VF.out)) /\ At(nx) BY <1>2
  <2>2. nx + Len(VF.out) = nx BY <1>1
  <2> QED BY <2>1, <2>2 DEF At
<1>3. CASE ~cfg.fps /\ \E nx \in Int : nx = Hi /\ Sent(nx) BY <1>3 DEF Enough
<1> QED BY <1>2, <1>3 DEF Sending

LEMMA SendingEnds == ASSUME Basics, Sending, VideoEnds PROVE Sending'
<1>0. UNCHANGED <<cfg, fed, first, sent>> /\ ~VideoPhase' /\ ~VideoFlush' BY DEF VideoEnds
<1>1. V' = V BY <1>0 DEF V
<1>2. V' = <<>> => sent' = <<>> BY <1>0, <1>1 DEF Sending
<1>3. ASSUME After', V' # <<>>, ~lost' PROVE \E nx \in Int : Enough(nx)' /\ Sent(nx)'
  <2>1. WriteFlush /\ pc = "flush" /\ cur.kind = "video" /\ NothingToFlush => V = <<>>
    BY DEF Basics, NothingToFlush, Open, VideoPhase, VF, Times, V
  <2>2. octx' = octx /\ VideoFlush /\ VF.out = <<>> BY <1>1, <1>3, <2>1 DEF VideoEnds
  <2>3. PICK nx \in Int : Enough(nx) /\ Sent(nx) BY <1>1, <1>3, <2>2, FlushedIsEnough
  <2>4. Enough(nx)' BY <1>0, <2>3, EnoughKept
  <2>5. Sent(nx)' BY <1>0, <2>2, <2>3, SentKept
  <2> QED BY <2>4, <2>5
<1> QED BY <1>0, <1>2, <1>3 DEF Sending

LEMMA SendingKept == ASSUME Basics, Sending, VideoKept PROVE Sending'
<1>0. UNCHANGED <<cfg, fed["video"], first["video"], sent, octx.start["video"]>> BY DEF VideoKept, vars
<1>1. V' = V BY <1>0 DEF V
<1>2. ASSUME NEW nx PROVE Sent(nx) => Sent(nx)' BY <1>0, SentKept
<1>3. ASSUME NEW h PROVE Enough(h) => Enough(h)' BY <1>0, EnoughKept
<1>4. Hi' = Hi BY <1>0, <1>1 DEF Hi
<1>5. VF' = VF => AllFlush' = AllFlush BY DEF AllFlush
<1>6. ASSUME VF' = VF, NEW nx PROVE At(nx) => At(nx)'
  <2>1. Sent(nx) => Sent(nx)' BY <1>2
  <2> QED BY <1>0, <1>1, <1>6, <2>1 DEF At
<1>7. V' = <<>> => sent' = <<>> BY <1>0, <1>1 DEF Sending
<1>8. CASE VideoPhase /\ VideoPhase' /\ ~VideoFlush' /\ ~After' /\ filters'["video"] = filters["video"]
  <2>1. VF' = VF BY <1>8 DEF VF
  <2>2. ASSUME V # <<>> PROVE \E nx \in Int : nx = Hi' - Len(VF'.out) /\ At(nx)'
    <3>1. PICK nx \in Int : nx = Hi - Len(VF.out) /\ At(nx) BY <1>8, <2>2 DEF Sending
    <3>2. At(nx)' BY <1>6, <2>1, <3>1
    <3> QED BY <1>4, <2>1, <3>1, <3>2
  <2> QED BY <1>1, <1>7, <1>8, <2>2 DEF Sending
<1>9. CASE After' /\ ~VideoPhase' /\ ~VideoFlush' /\ (After \/ V = <<>>)
  <2>1. ASSUME V # <<>>, ~lost' PROVE \E nx \in Int : Enough(nx)' /\ Sent(nx)'
    <3>1. ~lost BY <2>1 DEF VideoKept
    <3>2. PICK nx \in Int : Enough(nx) /\ Sent(nx) BY <1>9, <2>1, <3>1 DEF Sending
    <3> QED BY <1>2, <1>3, <3>2
  <2> QED BY <1>1, <1>7, <1>9, <2>1 DEF Sending
<1>10. CASE UNCHANGED vars
  <2>1. VF' = VF /\ lost' = lost BY <1>10 DEF VF, vars
  <2>2. VideoPhase' = VideoPhase /\ VideoFlush' = VideoFlush /\ After' = After
    BY <1>10 DEF vars, VideoPhase, VideoFlush, After
  <2>3. VideoPhase' /\ V' # <<>> => \E nx \in Int : nx = Hi' - Len(VF'.out) /\ At(nx)'
    BY <1>1, <1>4, <1>6, <2>1, <2>2 DEF Sending
  <2>4. VideoFlush' /\ V' # <<>> =>
          \/ \E nx \in Int : Enough(nx + Len(VF.out))' /\ At(nx)'
          \/ ~cfg'.fps /\ AllFlush' /\ \E nx \in Int : nx = Hi' /\ Sent(nx)'
    <3> SUFFICES ASSUME VideoFlush, V # <<>>
                 PROVE  \/ \E nx \in Int : Enough(nx + Len(VF.out))' /\ At(nx)'
                        \/ ~cfg'.fps /\ AllFlush' /\ \E nx \in Int : nx = Hi' /\ Sent(nx)'
      BY <1>1, <2>2
    <3>1. CASE \E nx \in Int : Enough(nx + Len(VF.out)) /\ At(nx)
      <4>1. PICK nx \in Int : Enough(nx + Len(VF.out)) /\ At(nx) BY <3>1
      <4>2. At(nx)' BY <1>6, <2>1, <4>1
      <4>3. Enough(nx + Len(VF.out))' BY <1>0, <1>4, <2>1, <4>1 DEF Enough
      <4> QED BY <4>2, <4>3
    <3>2. CASE ~cfg.fps /\ AllFlush /\ \E nx \in Int : nx = Hi /\ Sent(nx)
      BY <1>0, <1>2, <1>4, <1>5, <2>1, <3>2
    <3> QED BY <3>1, <3>2 DEF Sending
  <2>5. VideoFlush' /\ V' = <<>> => AllFlush' BY <1>1, <1>5, <2>1, <2>2 DEF Sending
  <2>6. After' /\ V' # <<>> /\ ~lost' => \E nx \in Int : Enough(nx)' /\ Sent(nx)'
    BY <1>1, <1>2, <1>3, <2>1, <2>2 DEF Sending
  <2> QED BY <1>7, <2>3, <2>4, <2>5, <2>6 DEF Sending
<1> QED BY <1>8, <1>9, <1>10 DEF VideoKept

\* What the filter of the video gives when it is flushed: with a frame rate the
\* last frame again, up to its end or, where nothing has been sent, once.
LEMMA FlushedOut ==
  ASSUME Basics, VideoIsFlushed
  PROVE  /\ VideoPhase /\ ~VideoFlush /\ VF.out = <<>>
         /\ VF'.out \in Seq(Frame)
         /\ V = <<>> /\ sent = <<>> => AllFlush'
         /\ V # <<>> /\ cfg.fps =>
              \E upto \in Int :
                /\ upto >= Hi /\ (sent # <<>> \/ upto > Hi)
                /\ Len(VF'.out) = upto - Hi
                /\ \A i \in 1..Len(VF'.out) : VF'.out[i] = [n |-> Len(V), pts |-> Hi + i - 1]
         /\ V # <<>> /\ ~cfg.fps =>
              \/ sent # <<>> /\ VF'.out = <<>>
              \/ sent = <<>> /\ AllFlush'
<1>0. EncodeTypeOK /\ Control /\ Open /\ Times("video") BY DEF Basics
<1>1. pc = "flush" /\ cur.kind = "video" /\ ~NothingToFlush BY DEF VideoIsFlushed
<1>2. VideoPhase /\ ~VideoFlush BY <1>1 DEF VideoPhase, VideoFlush
<1>3. VF.out = <<>> BY <1>0, <1>1, <1>2 DEF Control
<1>4. ~VF.closed /\ ~VF.flushed /\ VF.active /\ VF.custom = src.last["video"]
      /\ VF.held = IF V = <<>> \/ ~cfg.fps THEN NoFrame
                   ELSE [n |-> Len(V), pts |-> Ticks(V[Len(V)].pts)]
  BY <1>0, <1>1, <1>2 DEF Open, NothingToFlush, VF
<1>5. VF.custom = IF V = <<>> THEN NoPts ELSE V[Len(V)].pts BY <1>0, <1>1, <1>4 DEF Times, V
<1>6. VF' = Flushed(VF, "video") BY <1>4 DEF VideoIsFlushed, VF
<1>7. VF \in Filter /\ octx.frames = Len(sent) /\ sent \in Seq(Packet) BY VideoFrames
<1>8. VF.custom \in Int /\ Tick \in Nat \ {0} /\ Dur \in Nat \ {0} BY <1>7, FilterFields, Constants
<1> DEFINE p == Flushed(VF, "video").out
           r == Repeated(VF, Ticks(VF.custom + Dur))
           q == Repeated(VF, Ticks(VF.custom + Tick))
<1>9. /\ Flushed(VF, "video") \in Filter
      /\ octx.frames > 0 => p = VF.out \o r
      /\ octx.frames = 0 /\ cfg.fps => p = VF.out \o q
      /\ octx.frames = 0 /\ ~cfg.fps => p = Append(VF.out, [n |-> FlushFrame, pts |-> VF.custom + Dur])
  BY <1>0, <1>7, FlushedFields
<1>10. ASSUME NEW t \in Int
       PROVE  LET o == Repeated(VF, t)
              IN  /\ o \in Seq(Frame) /\ VF.out \o o = o
                  /\ Len(o) = IF VF.held # NoFrame /\ t > VF.held.pts THEN t - VF.held.pts ELSE 0
                  /\ \A i \in 1..Len(o) : o[i] = [n |-> VF.held.n, pts |-> VF.held.pts + i - 1]
  <2> DEFINE o == Repeated(VF, t)
  <2>1. /\ o \in Seq(Frame)
        /\ Len(o) = IF VF.held # NoFrame /\ t > VF.held.pts THEN t - VF.held.pts ELSE 0
        /\ \A i \in 1..Len(o) : o[i] = [n |-> VF.held.n, pts |-> VF.held.pts + i - 1]
    BY <1>7, RepeatedFrames
  <2> HIDE DEF o
  <2>2. <<>> \o o = o BY <2>1
  <2> QED BY <1>3, <2>1, <2>2 DEF o
<1>11. Ticks(VF.custom + Dur) \in Int /\ Ticks(VF.custom + Tick) \in Int
  <2>1. VF.custom + Dur \in Int /\ VF.custom + Tick \in Int BY <1>8
  <2> QED BY <2>1, TicksBounds
<1>12. /\ octx.frames > 0 => p = r
       /\ octx.frames = 0 /\ cfg.fps => p = q
  BY <1>9, <1>10, <1>11
<1>13. VF'.out = p BY <1>6
<1>14. p \in Seq(Frame) BY <1>9, FilterFields
<1>15. octx.frames > 0 <=> sent # <<>>
  <2>1. sent # <<>> <=> Len(sent) > 0 BY <1>7
  <2> QED BY <1>7, <2>1
<1>16. octx.frames = 0 <=> sent = <<>>
  <2>1. sent = <<>> <=> Len(sent) = 0 BY <1>7
  <2> QED BY <1>7, <2>1
<1>17. ASSUME sent = <<>>, ~cfg.fps PROVE \A i \in 1..Len(p) : p[i].n = FlushFrame
  <2> DEFINE y == [n |-> FlushFrame, pts |-> VF.custom + Dur]
  <2>1. p = Append(VF.out, y) BY <1>9, <1>16, <1>17
  <2>2. p = <<y>> BY <1>3, <2>1
  <2>3. Len(p) = 1 /\ p[1] = y BY <2>2
  <2> QED BY <2>3
<1>18. ASSUME V = <<>> \/ ~cfg.fps PROVE r = <<>> /\ q = <<>>
  <2>1. VF.held = NoFrame BY <1>4, <1>18
  <2>2. r \in Seq(Frame) /\ Len(r) = 0 /\ q \in Seq(Frame) /\ Len(q) = 0 BY <1>10, <1>11, <2>1
  <2> HIDE DEF r, q
  <2> QED BY <2>2
<1>19. ASSUME V # <<>>, cfg.fps
       PROVE  \E upto \in Int :
                /\ upto >= Hi /\ (sent # <<>> \/ upto > Hi)
                /\ Len(p) = upto - Hi
                /\ \A i \in 1..Len(p) : p[i] = [n |-> Len(V), pts |-> Hi + i - 1]
  <2> DEFINE t == V[Len(V)].pts
  <2>1. Len(V) \in 1..Len(V) /\ Len(V) >= 1 BY <1>19, VideoFrames
  <2>2. t \in Nat /\ Hi = Ticks(t) /\ Hi \in Nat BY <1>19, <2>1, VideoFrames DEF Hi
  <2>3. VF.custom = t BY <1>5, <1>19
  <2>4. VF.held # NoFrame /\ VF.held.n = Len(V) /\ VF.held.pts = Hi
    <3>1. VF.held = [n |-> Len(V), pts |-> Hi] BY <1>4, <1>19, <2>2
    <3> QED BY <2>1, <3>1 DEF NoFrame, FlushFrame
  <2>5. ASSUME NEW u \in Int, u >= Hi, sent # <<>> \/ u > Hi, p = Repeated(VF, u)
        PROVE  \E upto \in Int :
                 /\ upto >= Hi /\ (sent # <<>> \/ upto > Hi)
                 /\ Len(p) = upto - Hi
                 /\ \A i \in 1..Len(p) : p[i] = [n |-> Len(V), pts |-> Hi + i - 1]
    <3> HIDE DEF p
    <3>1. Len(p) = u - Hi
      <4>1. Len(p) = IF u > Hi THEN u - Hi ELSE 0 BY <1>10, <2>4, <2>5
      <4> QED BY <2>2, <2>5, <4>1
    <3>2. \A i \in 1..Len(p) : p[i] = [n |-> Len(V), pts |-> Hi + i - 1] BY <1>10, <2>4, <2>5
    <3> QED BY <2>5, <3>1, <3>2
  <2>6. CASE sent # <<>>
    <3>1. p = r BY <1>12, <1>15, <2>6
    <3>2. t <= t + Dur /\ t + Dur \in Int BY <1>8, <2>2
    <3>3. Ticks(t) <= Ticks(t + Dur) BY <2>2, <3>2, TicksMonotone
    <3>4. Ticks(t + Dur) \in Int /\ Ticks(t + Dur) >= Hi BY <1>11, <2>2, <2>3, <3>3
    <3>5. p = Repeated(VF, Ticks(t + Dur)) BY <2>3, <3>1
    <3> HIDE DEF p, t
    <3> QED BY <2>5, <2>6, <3>4, <3>5
  <2>7. CASE sent = <<>>
    <3>1. p = q BY <1>12, <1>16, <1>19, <2>7
    <3>2. Ticks(t + Tick) = Hi + 1 BY <2>2, TicksShift
    <3>3. Ticks(t + Tick) \in Int /\ Ticks(t + Tick) > Hi BY <2>2, <3>2
    <3>4. p = Repeated(VF, Ticks(t + Tick)) BY <2>3, <3>1
    <3>5. Ticks(t + Tick) >= Hi BY <2>2, <3>3
    <3> HIDE DEF p, t
    <3> QED BY <2>5, <3>3, <3>4, <3>5
  <2> QED BY <2>6, <2>7
<1>20. V = <<>> /\ sent = <<>> => \A i \in 1..Len(p) : p[i].n = FlushFrame
  <2> SUFFICES ASSUME V = <<>>, sent = <<>>, cfg.fps PROVE \A i \in 1..Len(p) : p[i].n = FlushFrame
    BY <1>17
  <2>1. p = <<>> BY <1>12, <1>16, <1>18
  <2>2. Len(p) = 0 BY <2>1
  <2> HIDE DEF p
  <2> QED BY <2>2
<1>21. ~cfg.fps /\ sent # <<>> => p = <<>> BY <1>12, <1>15, <1>18
<1> HIDE DEF p, q, r
<1> QED BY <1>2, <1>3, <1>13, <1>14, <1>17, <1>19, <1>20, <1>21 DEF AllFlush

LEMMA SendingFlushed ==
  ASSUME Basics, Sending, VideoIsFlushed PROVE Sending'
<1>0. EncodeTypeOK /\ Control BY DEF Basics
<1>1. /\ UNCHANGED <<cfg, octx, fed, first, sent>> /\ pc' = "read" /\ cur' = cur
      /\ pc = "flush" /\ cur.kind = "video"
  BY DEF VideoIsFlushed
<1>2. VideoPhase /\ VF.out = <<>> /\ VF'.out \in Seq(Frame) BY FlushedOut
<1>3. VideoFlush' /\ ~VideoPhase' /\ ~After' BY <1>0, <1>1 DEF VideoFlush, VideoPhase, After, Control
<1>4. V' = V /\ Hi' = Hi BY <1>1 DEF V, Hi
<1>5. V = <<>> => sent = <<>> BY DEF Sending
<1>6. CASE V = <<>> BY <1>1, <1>3, <1>4, <1>5, <1>6, FlushedOut DEF Sending
<1>7. CASE V # <<>>
  <2>1. Hi \in Nat /\ Increasing(V) BY <1>7, VideoIncreasing
  <2>2. PICK nx \in Int : nx = Hi /\ Sent(nx)
    <3>1. PICK nx \in Int : nx = Hi - Len(VF.out) /\ At(nx) BY <1>2, <1>7 DEF Sending
    <3>2. Len(VF.out) = 0 BY <1>2
    <3>3. nx = Hi BY <2>1, <3>1, <3>2
    <3> QED BY <3>1, <3>3 DEF At
  <2>3. Sent(nx)' BY <1>1, <2>2, SentKept
  <2>4. CASE ~cfg.fps /\ AllFlush' BY <1>1, <1>3, <1>4, <1>7, <2>2, <2>3, <2>4 DEF Sending
  <2>5. CASE cfg.fps
    <3>1. PICK upto \in Int : /\ upto >= Hi /\ (sent # <<>> \/ upto > Hi)
                              /\ Len(VF'.out) = upto - Hi
                              /\ \A i \in 1..Len(VF'.out) : VF'.out[i] = [n |-> Len(V), pts |-> Hi + i - 1]
      BY <1>7, <2>5, FlushedOut
    <3>2. Queue(cfg.fps, V, VF'.out, nx)
      <4> SUFFICES ASSUME NEW i \in 1..Len(VF'.out)
                   PROVE  VF'.out[i].pts = nx + i - 1 /\ Due(cfg.fps, V, VF'.out[i].n, VF'.out[i].pts)
        BY DEF Queue
      <4> DEFINE t == Hi + i - 1
      <4>1. VF'.out[i] = [n |-> Len(V), pts |-> t] BY <3>1
      <4>2. VF'.out[i].n = Len(V) /\ VF'.out[i].pts = t BY <4>1
      <4>3. t \in Int /\ Hi <= t BY <2>1
      <4>4. Ticks(V[Len(V)].pts) <= t BY <2>5, <4>3 DEF Hi
      <4> HIDE DEF t
      <4>5. Due(TRUE, V, Len(V), t) BY <1>7, <2>1, <4>3, <4>4, LastDue
      <4>6. cfg.fps = TRUE BY <2>5, VideoIncreasing
      <4> QED BY <2>2, <4>2, <4>5, <4>6 DEF t
    <3>3. At(nx)' BY <1>1, <1>4, <2>3, <3>2 DEF At
    <3>4. Enough(upto) BY <2>1, <3>1 DEF Enough
    <3>5. Enough(upto)' BY <1>1, <3>4, EnoughKept
    <3>6. nx + Len(VF'.out) = upto BY <2>1, <2>2, <3>1
    <3>7. Enough(nx + Len(VF.out))' BY <3>5, <3>6 DEF Enough
    <3> QED BY <1>3, <1>4, <1>7, <3>3, <3>7 DEF Sending
  <2>6. CASE ~cfg.fps /\ sent # <<>> /\ VF'.out = <<>>
    <3>1. Len(VF'.out) = 0 BY <2>6
    <3>2. Queue(cfg.fps, V, VF'.out, nx) BY <3>1 DEF Queue
    <3>3. At(nx)' BY <1>1, <1>4, <2>3, <3>2 DEF At
    <3>4. nx + Len(VF'.out) = nx BY <3>1
    <3>5. Enough(nx) BY <2>1, <2>2, <2>6 DEF Enough
    <3>6. Enough(nx)' BY <1>1, <3>5, EnoughKept
    <3>7. Enough(nx + Len(VF.out))' BY <3>4, <3>6 DEF Enough
    <3> QED BY <1>3, <1>4, <1>7, <3>3, <3>7 DEF Sending
  <2> QED BY <1>7, <2>4, <2>5, <2>6, FlushedOut
<1> QED BY <1>6, <1>7

LEMMA SendingNext == ASSUME Basics, Counted, Start, Sending, [Next]_vars PROVE Sending'
<1>1. EncodeTypeOK /\ Control BY DEF Basics
<1> QED BY <1>1, VideoSteps, SendingBegin, SendingDecode, SendingTaken, SendingFlushFrame,
           SendingFlushed, SendingEnds, SendingKept

LEMMA SendingInit == Init => Start /\ Sending
<1> SUFFICES ASSUME Init PROVE Start /\ Sending OBVIOUS
<1>1. /\ V = <<>> /\ sent = <<>> /\ first["video"] = NoPts /\ octx.start["video"] = NoPts
      /\ pc = "idle" /\ outcome = "none"
  BY DEF Init, V, Both, Kinds
<1> QED BY <1>1 DEF Start, Sending, VideoPhase, VideoFlush, After

\* From the first frame on there is one to show at every tick.
Shown ==
  \A t \in Int : V # <<>> /\ Ticks(V[1].pts) <= t => \E n \in 1..Len(V) : Due(TRUE, V, n, t)

LEMMA ShownNext == ASSUME Basics, Shown, [Next]_vars PROVE Shown'
<1>0. EncodeTypeOK BY DEF Basics
<1>1. CASE V' = V BY <1>1 DEF Shown
<1>2. CASE V' = <<>> BY <1>2 DEF Shown
<1>3. CASE DecodeVideo
  <2>1. PICK x : VideoDecoded(x) BY <1>3, DecodeVideoFields DEF Basics
  <2>2. /\ x \in Frame /\ x.pts \in Nat /\ V' = Append(V, x)
        /\ Len(V') = Len(V) + 1 /\ V'[Len(V) + 1] = x /\ V' # <<>>
        /\ V'[1] = IF V = <<>> THEN x ELSE V[1]
        /\ V # <<>> => V[Len(V)].pts < x.pts
    BY <2>1, DecodedVideo DEF VideoDecoded
  <2>3. Increasing(V) /\ Len(V) \in Nat /\ Ticks(x.pts) \in Nat
    BY <2>2, VideoIncreasing, VideoFrames, TicksNat
  <2>4. Increasing(V') BY <2>2, <2>3, IncreasingAppend
  <2> SUFFICES ASSUME NEW t \in Int, Ticks(V'[1].pts) <= t
               PROVE  \E n \in 1..Len(V') : Due(TRUE, V', n, t)
    BY DEF Shown
  <2>5. CASE Ticks(x.pts) <= t
    <3>1. V'[Len(V')] = x /\ Len(V') \in 1..Len(V') BY <2>2, <2>3
    <3>2. Due(TRUE, V', Len(V'), t) BY <2>2, <2>4, <2>5, <3>1, LastDue
    <3> QED BY <3>1, <3>2
  <2>6. CASE ~(Ticks(x.pts) <= t)
    <3>1. V # <<>> /\ Ticks(V[1].pts) <= t BY <2>2, <2>6
    <3>2. PICK n \in 1..Len(V) : Due(TRUE, V, n, t) BY <3>1 DEF Shown
    <3>3. t < AfterFilter(TRUE, x.pts) BY <2>3, <2>6 DEF AfterFilter
    <3>4. Due(TRUE, Append(V, x), n, t) BY <2>2, <2>3, <3>2, <3>3, DueLater
    <3>5. n \in 1..Len(V') BY <2>2, <2>3
    <3> QED BY <2>2, <3>4, <3>5
  <2> QED BY <2>5, <2>6
<1>4. CASE DecodeAudio
  <2>1. PICK raw, x, f : Decodes("audio", raw, x, f) BY <1>0, <1>4, DecodeFields DEF DecodeAudio, Kinds
  <2>2. fed' = [fed EXCEPT !["audio"] = Append(@, x)] BY <2>1 DEF Decodes
  <2>3. V' = V BY <1>0, <2>2 DEF V, EncodeTypeOK, Kinds
  <2> QED BY <1>1, <2>3
<1>5. BeginCall => V' = <<>> BY DEF BeginCall, V, Both, Kinds
<1>6. UNCHANGED <<cfg, src, fed, first, calls>> => V' = V BY DEF V
<1> QED BY <1>1, <1>2, <1>3, <1>4, <1>5, <1>6, Undecoded

LEMMA ShownAtIs ==
  ASSUME Basics, NEW t \in Int, NEW n, Due(TRUE, V, n, t) PROVE ShownAt(t) = n
<1> DEFINE before == {i \in DOMAIN fed["video"] : Ticks(fed["video"][i].pts) <= t}
<1>1. V \in Seq(Frame) /\ DOMAIN V = 1..Len(V) /\ Len(V) \in Nat BY VideoFrames
<1>2. \A i : i \in before <=> i \in 1..Len(V) /\ Ticks(V[i].pts) <= t BY <1>1 DEF V
<1>3. n \in before /\ \A j \in before : j <= n BY <1>2 DEF Due
<1>4. \A i \in before : i \in Int BY <1>1, <1>2
<1>5. ShownAt(t) = CHOOSE i \in before : \A j \in before : j <= i BY DEF ShownAt
<1> HIDE DEF before
<1>6. \A i \in before : (\A j \in before : j <= i) => i = n BY <1>3, <1>4
<1> QED BY <1>3, <1>5, <1>6

\* A call that is done has sent all that was due.
LEMMA AllSent ==
  ASSUME Basics, Sending, Shown PROVE EveryFrameEncoded
<1> SUFFICES ASSUME outcome = "done", ~lost, V # <<>>
             PROVE  LET v == V
                        s == {SentAt[i] : i \in DOMAIN sent}
                        ticks == {t \in Ticks(v[1].pts)..Ticks(v[Len(v)].pts) - 1 : InClip("video", t)}
                    IN  /\ \A i, j \in DOMAIN sent : i < j => SentAt[i].t < SentAt[j].t
                        /\ IF cfg.fps
                           THEN /\ {[n |-> ShownAt(t), t |-> t] : t \in ticks} \subseteq s
                                /\ \A x \in s : InClip("video", x.t) /\ x.n = ShownAt(x.t)
                                /\ cfg.from = 0 /\ cfg.to = 0 => sent # <<>>
                           ELSE s = {[n |-> i, t |-> v[i].pts] :
                                       i \in {j \in DOMAIN v : InClip("video", v[j].pts)}}
  BY Zenon DEF EveryFrameEncoded, V
<1> DEFINE s == {SentAt[i] : i \in DOMAIN sent}
           ticks == {t \in Ticks(V[1].pts)..Ticks(V[Len(V)].pts) - 1 : InClip("video", t)}
<1>1. After BY DEF After, Basics, Control
<1>2. PICK nx \in Int : Enough(nx) /\ Sent(nx) BY <1>1 DEF Sending
<1>3. /\ sent \in Seq(Packet) /\ DOMAIN sent = 1..Len(sent) /\ Len(sent) \in Nat
      /\ SentAt \in Seq(Times2) /\ Len(SentAt) = Len(sent)
      /\ \A i \in 1..Len(sent) : /\ SentAt[i].n \in Nat /\ SentAt[i].t \in Int
                                 /\ SentAt[i] = [n |-> SentAt[i].n, t |-> SentAt[i].t]
  <2>1. sent \in Seq(Packet) /\ DOMAIN sent = 1..Len(sent) /\ Len(sent) \in Nat BY VideoFrames
  <2>2. SentAt \in Seq(Times2) /\ Len(SentAt) = Len(sent) BY SentAtFields
  <2>3. \A z \in Times2 : z.n \in Nat /\ z.t \in Int /\ z = [n |-> z.n, t |-> z.t] BY DEF Times2
  <2> QED BY <2>1, <2>2, <2>3
<1>4. /\ \A i, j \in 1..Len(sent) : i < j => SentAt[i].t < SentAt[j].t
      /\ \A i \in 1..Len(sent) : SentAt[i].t < nx /\ SentAt[i].t \in Clip /\ Due(cfg.fps, V, SentAt[i].n, SentAt[i].t)
      /\ \A n \in Nat, t \in Int : t < nx /\ t \in Clip /\ Due(cfg.fps, V, n, t) =>
           \E i \in 1..Len(sent) : SentAt[i].n = n /\ SentAt[i].t = t
  BY <1>2, <1>3 DEF Sent, Progress
<1>5. Lo \in Nat /\ Hi \in Nat /\ cfg.fps \in BOOLEAN /\ nx >= Hi /\ Increasing(V)
  BY <1>2, VideoIncreasing DEF Enough
<1>6. V \in Seq(Frame) /\ Len(V) \in Nat /\ DOMAIN V = 1..Len(V) /\ Len(V) \in 1..Len(V) /\ 1 \in 1..Len(V)
  BY VideoFrames
<1>7. \A i \in 1..Len(V) : V[i].pts \in Nat /\ Ticks(V[i].pts) \in Nat BY VideoFrames
<1>8. \A x \in s : \E i \in 1..Len(sent) : x = SentAt[i] BY <1>3
<1>9. ASSUME NEW n \in Nat, NEW t \in Int, t < nx, t \in Clip, Due(cfg.fps, V, n, t)
      PROVE  [n |-> n, t |-> t] \in s
  <2>1. PICK i \in 1..Len(sent) : SentAt[i].n = n /\ SentAt[i].t = t BY <1>4, <1>9
  <2>2. SentAt[i] = [n |-> n, t |-> t] BY <1>3, <2>1
  <2> QED BY <1>3, <2>1, <2>2
<1>10. CASE cfg.fps
  <2>0. cfg.fps = TRUE /\ Hi = Ticks(V[Len(V)].pts) BY <1>5, <1>10 DEF Hi
  <2>1. ASSUME NEW t \in ticks PROVE [n |-> ShownAt(t), t |-> t] \in s
    <3>1. /\ t \in Int /\ Ticks(V[1].pts) <= t /\ t < Hi /\ t \in Clip
      BY <1>6, <1>7, <2>0, <2>1 DEF Clip
    <3>2. PICK n \in 1..Len(V) : Due(TRUE, V, n, t) BY <3>1 DEF Shown
    <3>3. n \in Nat BY <1>6
    <3>4. ShownAt(t) = n BY <3>1, <3>2, ShownAtIs
    <3>5. t < nx BY <1>5, <3>1
    <3> QED BY <1>9, <2>0, <3>1, <3>2, <3>3, <3>4, <3>5
  <2>2. ASSUME NEW x \in s PROVE InClip("video", x.t) /\ x.n = ShownAt(x.t)
    <3>1. PICK i \in 1..Len(sent) : x = SentAt[i] BY <1>8
    <3>2. x.t \in Int /\ x.t \in Clip /\ Due(TRUE, V, x.n, x.t) BY <1>3, <1>4, <2>0, <3>1
    <3> QED BY <3>2, ShownAtIs DEF Clip
  <2>3. ASSUME cfg.from = 0, cfg.to = 0 PROVE sent # <<>>
    <3>1. SUFFICES ASSUME nx > Hi PROVE sent # <<>> BY <1>2, <1>10 DEF Enough
    <3>2. Hi \in Clip BY <1>5, <2>3 DEF Clip, InClip
    <3>3. Hi \in Int /\ Ticks(V[Len(V)].pts) <= Hi BY <1>5, <2>0
    <3>4. Due(cfg.fps, V, Len(V), Hi) BY <1>5, <2>0, <3>3, LastDue
    <3>5. Hi < nx BY <1>2, <1>5, <3>1
    <3>6. [n |-> Len(V), t |-> Hi] \in s BY <1>6, <1>9, <3>2, <3>3, <3>4, <3>5
    <3>7. \E i \in 1..Len(sent) : [n |-> Len(V), t |-> Hi] = SentAt[i] BY <1>8, <3>6
    <3> QED BY <1>3, <3>7
  <2> HIDE DEF s, ticks
  <2>4. {[n |-> ShownAt(t), t |-> t] : t \in ticks} \subseteq s BY <2>1
  <2> QED BY <1>3, <1>4, <1>10, <2>2, <2>3, <2>4 DEF s, ticks
<1>11. CASE ~cfg.fps
  <2> DEFINE e == {[n |-> i, t |-> V[i].pts] : i \in {j \in DOMAIN V : InClip("video", V[j].pts)}}
  <2>1. ASSUME NEW x \in s PROVE x \in e
    <3>1. PICK i \in 1..Len(sent) : x = SentAt[i] BY <1>8
    <3>2. /\ x.t \in Clip /\ x.n \in 1..Len(V) /\ x.t = V[x.n].pts /\ x = [n |-> x.n, t |-> x.t]
      BY <1>3, <1>4, <1>11, <3>1 DEF Due
    <3>3. x.n \in DOMAIN V /\ InClip("video", V[x.n].pts) BY <1>6, <3>2 DEF Clip
    <3> QED BY <3>2, <3>3
  <2>2. ASSUME NEW x \in e PROVE x \in s
    <3>1. PICK i \in DOMAIN V : InClip("video", V[i].pts) /\ x = [n |-> i, t |-> V[i].pts] BY <2>2
    <3>2. i \in 1..Len(V) /\ i \in Nat /\ V[i].pts \in Int BY <1>6, <1>7
    <3>3. V[i].pts \in Clip /\ Due(cfg.fps, V, i, V[i].pts) BY <1>11, <3>1, <3>2 DEF Clip, Due
    <3>4. V[i].pts < nx
      <4>1. Hi = V[Len(V)].pts + 1 BY <1>11 DEF Hi
      <4>2. V[i].pts <= V[Len(V)].pts
        <5>1. CASE i = Len(V) BY <1>7, <3>2, <5>1
        <5>2. CASE i # Len(V)
          <6>1. i < Len(V) BY <1>6, <3>2, <5>2
          <6>2. V[i].pts < V[Len(V)].pts BY <1>5, <1>6, <3>2, <6>1 DEF Increasing
          <6> QED BY <1>6, <1>7, <3>2, <6>2
        <5> QED BY <5>1, <5>2
      <4>3. V[Len(V)].pts \in Nat BY <1>6, <1>7
      <4> QED BY <1>5, <3>2, <4>1, <4>2, <4>3
    <3> QED BY <1>9, <3>1, <3>2, <3>3, <3>4
  <2> HIDE DEF s, e
  <2>3. s = e BY <2>1, <2>2
  <2> QED BY <1>3, <1>4, <1>11, <2>3 DEF s, e
<1> QED BY <1>10, <1>11

\* What holds of the video in every state.
VideoInv == Basics /\ Counted /\ Start /\ Sending /\ Shown

LEMMA VideoInvInit == Init => VideoInv
<1> SUFFICES ASSUME Init PROVE VideoInv OBVIOUS
<1>1. Counted BY DEF Init, Counted, VideoPhase
<1>2. V = <<>> BY DEF Init, V, Both, Kinds
<1>3. Shown BY <1>2 DEF Shown
<1> QED BY <1>1, <1>3, BasicsInit, SendingInit DEF VideoInv

LEMMA VideoInvNext == VideoInv /\ [Next]_vars => VideoInv'
BY BasicsNext, CountedNext, StartNext, SendingNext, ShownNext DEF VideoInv

\* Whatever the session, the times of the frames and the order of the steps, no
\* frame is lost or doubled between the decoder and the encoder of the video.
THEOREM FramesEncoded == Spec => []EveryFrameEncoded
<1>1. Init => VideoInv BY VideoInvInit
<1>2. VideoInv /\ [Next]_vars => VideoInv' BY VideoInvNext
<1>3. VideoInv => EveryFrameEncoded BY AllSent DEF VideoInv
<1> QED BY <1>1, <1>2, <1>3, PTL DEF Spec

-----------------------------------------------------------------------------
(* The times of the packets.                                                *)

\* What is known of the time of a packet, and of the packets before it.
LEMMA PacketSent ==
  ASSUME VideoInv, EncodeVideo
  PROVE  /\ sent \in Seq(Packet) /\ VideoPacket \in Packet /\ sent' = Append(sent, VideoPacket)
         /\ Len(sent) \in Nat /\ Len(sent') = Len(sent) + 1 /\ sent'[Len(sent) + 1] = VideoPacket
         /\ \A i \in 1..Len(sent) : sent'[i] = sent[i]
         /\ VideoPacket.at = Shifted("video") /\ VideoPacket.at \in Nat
         /\ \A i \in 1..Len(sent) : sent[i].at < VideoPacket.at
         /\ cfg.from = 0 => Incoming.pts = VideoPacket.at
<1>0. Basics /\ Counted /\ Start /\ Sending /\ EncodeTypeOK BY DEF VideoInv, Basics
<1>1. Reads("video") /\ ~Clipped("video") /\ sent' = Append(sent, VideoPacket) BY DEF EncodeVideo
<1>2. V # <<>> BY <1>0, <1>1, ReadsDue
<1>3. PICK nx \in Int : At(nx) BY <1>0, <1>1, ReadsDue
<1>4. /\ Incoming.pts = nx /\ Due(cfg.fps, V, Incoming.n, nx)
      /\ StartOf("video") = Filtered("video", first["video"])
      /\ nx \in Clip /\ Shifted("video") + Shift = nx
  BY <1>0, <1>1, <1>2, <1>3, FrameInClip
<1>5. VideoPacket \in Packet /\ VideoPacket.at = Shifted("video") /\ Shifted("video") \in Int
  BY <1>0, <1>1, VideoPacketFields
<1>6. sent \in Seq(Packet) /\ Len(sent) \in Nat BY <1>0, VideoFrames
<1>7. /\ Len(sent') = Len(sent) + 1 /\ sent'[Len(sent) + 1] = VideoPacket
      /\ \A i \in 1..Len(sent) : sent'[i] = sent[i]
  BY <1>1, <1>5, <1>6
<1>8. Shift \in Int /\ Lo \in Nat /\ cfg.fps \in BOOLEAN /\ Increasing(V) BY <1>0, <1>2, VideoIncreasing
<1>9. Lo <= nx BY <1>4, <1>8, DueInRange DEF Lo
<1>10. nx >= Shift
  <2>1. CASE cfg.from = 0 BY <1>8, <1>9, <2>1 DEF Shift
  <2>2. CASE cfg.from # 0 BY <1>4, <2>2 DEF Shift, Clip, InClip
  <2> QED BY <2>1, <2>2
<1>11. VideoPacket.at \in Nat BY <1>4, <1>5, <1>8, <1>10
<1>12. ASSUME NEW i \in 1..Len(sent) PROVE sent[i].at < VideoPacket.at
  <2>1. SentAt[i].t = sent[i].at + Shift /\ sent[i].at \in Int /\ Len(SentAt) = Len(sent)
    BY <1>0, SentAtFields
  <2>2. i \in 1..Len(SentAt) BY <2>1
  <2>3. SentAt[i].t < nx BY <1>3, <2>2 DEF At, Sent, Progress
  <2>4. sent[i].at + Shift < Shifted("video") + Shift BY <1>4, <2>1, <2>3
  <2>5. sent[i].at < Shifted("video") BY <1>5, <1>8, <2>1, <2>4
  <2> QED BY <1>5, <2>5
<1>13. cfg.from = 0 => Incoming.pts = VideoPacket.at BY <1>5 DEF Shifted
<1> QED BY <1>1, <1>5, <1>6, <1>7, <1>11, <1>12, <1>13

\* The times of one packet.
PacketTimes(p) ==
  /\ p.at >= 0 /\ p.enc >= 0
  /\ cfg.fps => p.enc = p.at /\ p.pts = p.at
  /\ cfg.from = 0 /\ ~cfg.fps => Ticks(p.pts) = p.enc

\* The times of all, and the last one of the encoder.
Encoders ==
  /\ \A i \in 1..Len(sent) : PacketTimes(sent[i])
  /\ \A i, j \in 1..Len(sent) : i < j => sent[i].enc < sent[j].enc
  /\ (VideoPhase \/ VideoFlush) /\ ~cfg.fps =>
       octx.last_enc = IF sent = <<>> THEN NoPts ELSE sent[Len(sent)].enc

LEMMA PacketTime ==
  ASSUME VideoInv, Encoders, EncodeVideo
  PROVE  /\ PacketTimes(VideoPacket)
         /\ \A i \in 1..Len(sent) : sent[i].enc < VideoPacket.enc
<1>0. EncodeTypeOK /\ Reads("video") /\ (VideoPhase \/ VideoFlush) /\ Basics
  BY VideoTaken DEF VideoInv, Basics, EncodeVideo
<1> DEFINE at == Shifted("video")
           e == EncoderTime(at)
           p == VideoPacket
<1>1. /\ p.at = at /\ p.enc = e /\ p.pts = MuxedTime(at) /\ e \in Int BY <1>0, VideoPacketFields
<1>2. /\ at \in Nat /\ \A i \in 1..Len(sent) : sent[i].at < at
      /\ cfg.from = 0 => Incoming.pts = at
      /\ sent \in Seq(Packet) /\ Len(sent) \in Nat
  BY <1>1, PacketSent
<1>3. \A i \in 1..Len(sent) : PacketTimes(sent[i]) /\ sent[i].enc \in Int
  <2>1. \A q \in Packet : q.enc \in Int BY DEF Packet
  <2> QED BY <1>2, <2>1 DEF Encoders
<1>4. CASE cfg.fps
  <2>1. e = at /\ MuxedTime(at) = at BY <1>4 DEF EncoderTime, MuxedTime
  <2>2. PacketTimes(p) BY <1>1, <1>2, <1>4, <2>1 DEF PacketTimes
  <2>3. \A i \in 1..Len(sent) : sent[i].enc = sent[i].at BY <1>3, <1>4 DEF PacketTimes
  <2> QED BY <1>1, <1>2, <2>1, <2>2, <2>3
<1>5. CASE ~cfg.fps
  <2>1. Ticks(at) \in Nat BY <1>2, TicksNat
  <2>2. octx.last_enc = IF sent = <<>> THEN NoPts ELSE sent[Len(sent)].enc BY <1>0, <1>5 DEF Encoders
  <2>3. sent # <<>> =>
          /\ Len(sent) \in 1..Len(sent) /\ sent[Len(sent)].enc \in Nat
          /\ \A i \in 1..Len(sent) : sent[i].enc <= sent[Len(sent)].enc
    <3> SUFFICES ASSUME sent # <<>>
                 PROVE  /\ Len(sent) \in 1..Len(sent) /\ sent[Len(sent)].enc \in Nat
                        /\ \A i \in 1..Len(sent) : sent[i].enc <= sent[Len(sent)].enc
      OBVIOUS
    <3>1. Len(sent) \in 1..Len(sent) BY <1>2
    <3>2. sent[Len(sent)].enc \in Nat BY <1>3, <3>1 DEF PacketTimes
    <3>3. ASSUME NEW i \in 1..Len(sent) PROVE sent[i].enc <= sent[Len(sent)].enc
      <4>1. CASE i = Len(sent) BY <3>2, <4>1
      <4>2. CASE i # Len(sent)
        <5>1. i < Len(sent) BY <1>2, <4>2
        <5>2. sent[i].enc < sent[Len(sent)].enc BY <3>1, <5>1 DEF Encoders
        <5> QED BY <1>3, <3>1, <5>2
      <4> QED BY <4>1, <4>2
    <3> QED BY <3>1, <3>2, <3>3
  <2>4. e = IF octx.last_enc # NoPts /\ Ticks(at) <= octx.last_enc THEN octx.last_enc + 1 ELSE Ticks(at)
    BY <1>5 DEF EncoderTime
  <2>5. e >= 0 /\ \A i \in 1..Len(sent) : sent[i].enc < e
    <3>1. CASE sent = <<>>
      <4>1. e = Ticks(at) BY <2>2, <2>4, <3>1
      <4>2. Len(sent) = 0 BY <3>1
      <4> QED BY <2>1, <4>1, <4>2
    <3>2. CASE sent # <<>>
      <4> DEFINE l == sent[Len(sent)].enc
      <4>1. l \in Nat /\ octx.last_enc = l /\ \A i \in 1..Len(sent) : sent[i].enc <= l BY <2>2, <2>3, <3>2
      <4>2. l # NoPts BY <4>1, Constants
      <4>3. e = IF Ticks(at) <= l THEN l + 1 ELSE Ticks(at) BY <2>4, <4>1, <4>2
      <4> HIDE DEF l, e
      <4>4. e > l /\ e \in Int BY <2>1, <4>1, <4>3
      <4> QED BY <1>3, <4>1, <4>4
    <3> QED BY <3>1, <3>2
  <2>6. cfg.from = 0 => Ticks(p.pts) = e
    <3> SUFFICES ASSUME cfg.from = 0 PROVE Ticks(MuxedTime(at)) = e BY <1>1
    <3>1. MuxedTime(at) = IF e # Ticks(at) THEN e * Tick ELSE at BY <1>2, <1>5 DEF MuxedTime
    <3> QED BY <1>1, <3>1, TicksWhole
  <2> QED BY <1>1, <1>2, <1>5, <2>5, <2>6 DEF PacketTimes
<1> QED BY <1>4, <1>5

LEMMA EncodersKept ==
  ASSUME Encoders, UNCHANGED <<cfg, sent>>,
         (VideoPhase \/ VideoFlush)' => (VideoPhase \/ VideoFlush) /\ octx'.last_enc = octx.last_enc
  PROVE  Encoders'
BY DEF Encoders, PacketTimes

LEMMA EncodersNext == ASSUME VideoInv, Encoders, [Next]_vars PROVE Encoders'
<1>0. EncodeTypeOK /\ Control /\ Basics BY DEF VideoInv, Basics
<1>1. CASE BeginCall
  <2>1. sent' = <<>> /\ octx'.last_enc = NoPts BY <1>0, <1>1, StreamAddedFields DEF BeginCall
  <2>2. Len(sent') = 0 BY <2>1
  <2> QED BY <2>1, <2>2 DEF Encoders
<1>2. CASE DecodeVideo
  <2>1. UNCHANGED <<cfg, sent, octx>> /\ VideoPhase BY <1>2 DEF DecodeVideo, Decode, VideoPhase
  <2> QED BY <2>1, EncodersKept
<1>3. CASE EncodeVideo
  <2>1. /\ Len(sent) \in Nat /\ Len(sent') = Len(sent) + 1 /\ sent'[Len(sent) + 1] = VideoPacket
        /\ \A i \in 1..Len(sent) : sent'[i] = sent[i]
    BY <1>3, PacketSent
  <2>2. PacketTimes(VideoPacket) /\ \A i \in 1..Len(sent) : sent[i].enc < VideoPacket.enc BY <1>3, PacketTime
  <2>3. cfg' = cfg BY <1>3 DEF EncodeVideo
  <2>4. \A i \in 1..Len(sent') : i \in 1..Len(sent) \/ i = Len(sent) + 1 BY <2>1
  <2>5. \A i \in 1..Len(sent') : PacketTimes(sent'[i]) BY <2>1, <2>2, <2>4 DEF Encoders
  <2>6. \A p : PacketTimes(p) <=> PacketTimes(p)' BY <2>3 DEF PacketTimes
  <2>7. \A i, j \in 1..Len(sent') : i < j => sent'[i].enc < sent'[j].enc
    <3> SUFFICES ASSUME NEW i \in 1..Len(sent'), NEW j \in 1..Len(sent'), i < j
                 PROVE  sent'[i].enc < sent'[j].enc
      OBVIOUS
    <3>1. i \in 1..Len(sent) BY <2>1
    <3>2. CASE j \in 1..Len(sent) BY <2>1, <3>1, <3>2 DEF Encoders
    <3>3. CASE j = Len(sent) + 1 BY <2>1, <2>2, <3>1, <3>3
    <3> QED BY <2>4, <3>2, <3>3
  <2>8. ~cfg.fps => octx'.last_enc = VideoPacket.enc
    BY <1>0, <1>3, MarkedFields, VideoPacketFields DEF EncodeVideo
  <2>9. sent' # <<>> /\ sent'[Len(sent')] = VideoPacket BY <2>1
  <2>10. \A i \in 1..Len(sent') : PacketTimes(sent[i])' BY <2>3, <2>5 DEF PacketTimes
  <2> QED BY <2>3, <2>7, <2>8, <2>9, <2>10 DEF Encoders
<1>4. CASE (SkipFrame \/ ReadFlushFrame) /\ cur.kind = "video"
  <2>1. UNCHANGED <<cfg, sent>> /\ VideoPhase' = VideoPhase /\ VideoFlush' = VideoFlush
    BY <1>0, <1>4, VideoTaken DEF SkipFrame, ReadFlushFrame
  <2>2. octx'.last_enc = octx.last_enc
    <3>1. CASE ReadFlushFrame BY <3>1 DEF ReadFlushFrame
    <3>2. CASE SkipFrame
      <4>1. filters[cur.kind].out # <<>> /\ cur.kind \in Kinds BY <3>2, <1>0, TypeFields DEF SkipFrame, Reads
      <4>2. StartOf(cur.kind) \in Int BY <1>0, <4>1, TypeFields, IncomingFrame DEF StartOf
      <4> QED BY <3>2, <4>1, <4>2, <1>0, StartInContext DEF SkipFrame
    <3> QED BY <1>4, <3>1, <3>2
  <2> QED BY <2>1, <2>2, EncodersKept
<1>5. CASE VideoIsFlushed
  <2>1. UNCHANGED <<cfg, sent, octx>> /\ VideoPhase BY <1>5 DEF VideoIsFlushed, VideoPhase
  <2> QED BY <2>1, EncodersKept
<1>6. CASE VideoEnds BY <1>6, EncodersKept DEF VideoEnds
<1>7. CASE VideoKept
  <2>1. UNCHANGED <<cfg, sent, octx.last_enc>> BY <1>7 DEF VideoKept
  <2>2. (VideoPhase \/ VideoFlush)' => (VideoPhase \/ VideoFlush)
    BY <1>7 DEF VideoKept, vars, VideoPhase, VideoFlush
  <2> QED BY <2>1, <2>2, EncodersKept
<1> QED BY <1>0, <1>1, <1>2, <1>3, <1>4, <1>5, <1>6, <1>7, VideoSteps

-----------------------------------------------------------------------------
\* What the encoder of the video got is at the muxer or still in the encoder,
\* and it is all at the muxer when the video is flushed.
Muxed ==
  /\ pc = "idle" /\ lost => upset
  /\ ~upset /\ ~lost =>
       IF VideoPhase \/ VideoFlush
       THEN muxed["video"] \o enc["video"] = sent
       ELSE enc["video"] = <<>> /\ muxed["video"] = sent

LEMMA EmptyParts ==
  ASSUME NEW S, NEW a \in Seq(S), NEW b \in Seq(S), a \o b = <<>> PROVE a = <<>> /\ b = <<>>
<1>1. Len(a \o b) = Len(a) + Len(b) /\ Len(a \o b) = 0 /\ Len(a) \in Nat /\ Len(b) \in Nat OBVIOUS
<1>2. Len(a) = 0 /\ Len(b) = 0 BY <1>1
<1> QED BY <1>2

\* A call that has lost an error is remembered when it ends.
LEMMA LostIsUpset ==
  ASSUME pc = "idle" /\ lost => upset, [Next]_vars PROVE pc' = "idle" /\ lost' => upset'
<1>1. ASSUME NEW how, NEW f, NEW e, EndCall(how, f, e), lost' PROVE upset' BY <1>1 DEF EndCall
<1>2. ASSUME NEW f, NEW e, NextStream(f, e), pc' = "idle", lost' PROVE upset'
  BY <1>1, <1>2 DEF NextStream
<1>3. WriteFlush /\ pc' = "idle" /\ lost' => upset'
  <2> SUFFICES ASSUME WriteFlush, pc' = "idle", lost' PROVE upset' OBVIOUS
  <2>1. NothingToFlush /\ NextStream(filters, enc) BY DEF WriteFlush
  <2> QED BY <1>2, <2>1
<1>4. EncodeRunsAway /\ pc' = "idle" /\ lost' => upset' BY <1>1, <1>2 DEF EncodeRunsAway
<1>5. (FlushEncoder \/ FlushEncoderFails \/ SkipFlush) /\ pc' = "idle" /\ lost' => upset'
  BY <1>2 DEF FlushEncoder, FlushEncoderFails, SkipFlush, FlushReturns
<1>6. BeginCall \/ DecodeVideo \/ DecodeAudio \/ EndOfInput \/ ReturnToDecode => pc' # "idle"
  BY DEF BeginCall, DecodeVideo, DecodeAudio, Decode, EndOfInput, ReturnToDecode
<1>7. ReadFlushFrame \/ SkipFrame \/ EncodeVideo \/ EncodeAudio => pc' # "idle"
  BY DEF ReadFlushFrame, SkipFrame, EncodeVideo, EncodeAudio, Reads
<1>8. UNCHANGED vars => (pc' = "idle" /\ lost' => upset') BY DEF vars
<1> QED BY <1>3, <1>4, <1>5, <1>6, <1>7, <1>8 DEF Next, Process

LEMMA MuxedNext == ASSUME VideoInv, Muxed, [Next]_vars PROVE Muxed'
<1>0. EncodeTypeOK /\ Control /\ Basics /\ Sending BY DEF VideoInv, Basics
<1>1. pc' = "idle" /\ lost' => upset' BY LostIsUpset DEF Muxed
<1> DEFINE Holds == ~upset /\ ~lost =>
                      IF VideoPhase \/ VideoFlush
                      THEN muxed["video"] \o enc["video"] = sent
                      ELSE enc["video"] = <<>> /\ muxed["video"] = sent
<1>a. muxed["video"] \in Seq(Packet) /\ enc["video"] \in Seq(Packet) BY <1>0, TypeFields DEF Kinds
<1>b. Holds BY DEF Muxed
<1>c. V = <<>> => sent = <<>> BY <1>0 DEF Sending
<1>2. ASSUME BeginCall PROVE Holds'
  <2>1. /\ pc = "idle" /\ pc' = "decode" /\ muxed' = Both(<<>>) /\ sent' = <<>>
        /\ UNCHANGED <<enc, upset>>
    BY <1>2 DEF BeginCall
  <2>2. ~VideoPhase /\ ~VideoFlush /\ VideoPhase' BY <2>1 DEF VideoPhase, VideoFlush
  <2>3. ~upset => enc["video"] = <<>> BY <2>1, <2>2 DEF Muxed
  <2>4. muxed'["video"] = <<>> BY <2>1 DEF Both, Kinds
  <2>5. <<>> \o <<>> = <<>> OBVIOUS
  <2> QED BY <2>1, <2>2, <2>3, <2>4, <2>5
<1>3. ASSUME UNCHANGED <<upset, lost, muxed, enc, sent>>, VideoPhase \/ VideoFlush,
             VideoPhase' \/ VideoFlush'
      PROVE  Holds'
  BY <1>b, <1>3
<1>4. ASSUME DecodeVideo PROVE Holds'
  <2>1. UNCHANGED <<upset, lost, muxed, enc, sent>> /\ VideoPhase /\ VideoPhase'
    BY <1>4 DEF DecodeVideo, Decode, VideoPhase
  <2> QED BY <1>3, <2>1
<1>5. ASSUME EncodeVideo PROVE Holds'
  <2>1. /\ VideoPhase' = VideoPhase /\ VideoFlush' = VideoFlush /\ upset' = upset
        /\ VideoPhase \/ VideoFlush
    BY <1>0, <1>5, VideoTaken
  <2>2. VideoPacket \in Packet /\ sent' = Append(sent, VideoPacket) BY <1>5, PacketSent
  <2>3. CASE lost' BY <2>3
  <2>4. CASE ~lost'
    <3>1. Encoded("video", VideoPacket) /\ lost' = lost BY <1>5, <2>4 DEF EncodeVideo, EncoderFails
    <3>2. muxed'["video"] \o enc'["video"] = Append(muxed["video"] \o enc["video"], VideoPacket)
      BY <1>0, <2>2, <3>1, EncodedFields DEF Kinds
    <3> QED BY <1>b, <2>1, <2>2, <3>1, <3>2
  <2> QED BY <2>3, <2>4
<1>6. ASSUME SkipFrame \/ ReadFlushFrame, cur.kind = "video" PROVE Holds'
  <2>1. UNCHANGED <<upset, lost, muxed, enc, sent>> BY <1>6 DEF SkipFrame, ReadFlushFrame
  <2>2. VideoPhase' = VideoPhase /\ VideoFlush' = VideoFlush /\ (VideoPhase \/ VideoFlush)
    BY <1>0, <1>6, VideoTaken
  <2> QED BY <1>3, <2>1, <2>2
<1>7. ASSUME VideoIsFlushed PROVE Holds'
  <2>1. UNCHANGED <<upset, lost, muxed, enc, sent>> BY <1>7 DEF VideoIsFlushed
  <2>2. VideoPhase /\ VideoFlush' BY <1>0, <1>7 DEF VideoIsFlushed, VideoPhase, VideoFlush, Control
  <2> QED BY <1>3, <2>1, <2>2
<1>8. ASSUME VideoEnds PROVE Holds'
  <2>0. sent' = sent /\ ~VideoPhase' /\ ~VideoFlush' BY <1>8 DEF VideoEnds
  <2> SUFFICES ASSUME ~upset', ~lost' PROVE enc'["video"] = <<>> /\ muxed'["video"] = sent
    BY <2>0
  <2>1. ~upset /\ ~lost BY <1>8 DEF VideoEnds
  <2>2. CASE WriteFlush /\ pc = "flush" /\ cur.kind = "video" /\ NothingToFlush
             /\ muxed' = muxed /\ enc'["video"] \in {enc["video"], <<>>}
    <3>1. V = <<>> BY <1>0, <2>2 DEF Basics, NothingToFlush, Open, VideoPhase, VF, Times, V
    <3>2. VideoPhase BY <2>2 DEF VideoPhase
    <3>3. muxed["video"] \o enc["video"] = <<>> /\ sent = <<>> BY <1>b, <1>c, <2>1, <3>1, <3>2
    <3>4. muxed["video"] = <<>> /\ enc["video"] = <<>> BY <1>a, <3>3, EmptyParts
    <3> QED BY <2>2, <3>3, <3>4
  <2>3. CASE VideoFlush /\ muxed'["video"] = muxed["video"] \o enc["video"] /\ enc'["video"] = <<>>
    BY <1>b, <2>1, <2>3
  <2> QED BY <1>8, <2>2, <2>3 DEF VideoEnds
<1>9. ASSUME VideoKept PROVE Holds'
  <2>1. sent' = sent /\ muxed'["video"] = muxed["video"] BY <1>9 DEF VideoKept
  <2>2. ~upset' /\ ~lost' => ~upset /\ ~lost BY <1>9 DEF VideoKept
  <2>3. CASE VideoPhase /\ VideoPhase' /\ enc'["video"] = enc["video"]
    BY <1>b, <2>1, <2>2, <2>3
  <2>4. CASE After /\ After' /\ ~VideoPhase' /\ ~VideoFlush' /\ enc'["video"] \in {enc["video"], <<>>}
    <3>1. ~VideoPhase /\ ~VideoFlush BY <2>4 DEF After, VideoPhase, VideoFlush
    <3> QED BY <1>b, <2>1, <2>2, <2>4, <3>1
  <2>5. CASE VideoPhase /\ sent = <<>> /\ enc'["video"] = enc["video"] /\ ~VideoPhase' /\ ~VideoFlush'
    <3> SUFFICES ASSUME ~upset', ~lost' PROVE enc'["video"] = <<>> /\ muxed'["video"] = sent' BY <2>5
    <3>1. muxed["video"] \o enc["video"] = <<>> BY <1>b, <2>2, <2>5
    <3>2. muxed["video"] = <<>> /\ enc["video"] = <<>> BY <1>a, <3>1, EmptyParts
    <3> QED BY <2>1, <2>5, <3>2
  <2>6. CASE UNCHANGED vars
    <3>1. UNCHANGED <<upset, lost, muxed, enc, sent>> /\ VideoPhase' = VideoPhase /\ VideoFlush' = VideoFlush
      BY <2>6 DEF vars, VideoPhase, VideoFlush
    <3> QED BY <1>b, <3>1
  <2> QED BY <1>9, <2>3, <2>4, <2>5, <2>6 DEF VideoKept
<1>10. Holds'
  BY <1>0, <1>2, <1>4, <1>5, <1>6, <1>7, <1>8, <1>9, VideoSteps
<1> QED BY <1>1, <1>10 DEF Muxed

-----------------------------------------------------------------------------
\* The time of the next keyframe is a GOP after the last one.
Keyframes ==
  /\ KeyframesOnTime
  /\ cfg.from = 0 /\ GopLen # 0 /\ (VideoPhase \/ VideoFlush) =>
       IF sent = <<>> THEN octx.next_kf = 0
       ELSE \E k \in 1..Len(sent) :
              /\ sent[k].key /\ octx.next_kf = sent[k].at + GopLen
              /\ \A j \in 1..Len(sent) : j > k => ~sent[j].key

LEMMA KeyframesKept ==
  ASSUME Keyframes, UNCHANGED <<cfg, sent>>,
         (VideoPhase \/ VideoFlush)' => (VideoPhase \/ VideoFlush) /\ octx'.next_kf = octx.next_kf
  PROVE  Keyframes'
<1>1. GopLen' = GopLen BY DEF GopLen, Filtered
<1>2. KeyframesOnTime' BY <1>1 DEF Keyframes, KeyframesOnTime
<1> QED BY <1>1, <1>2 DEF Keyframes

\* A frame is encoded as a keyframe exactly when it is due.
LEMMA KeyframeSent ==
  ASSUME VideoInv, Keyframes, EncodeVideo PROVE Keyframes'
<1>0. /\ EncodeTypeOK /\ Reads("video") /\ (VideoPhase \/ VideoFlush) /\ Basics
      /\ VideoPhase' = VideoPhase /\ VideoFlush' = VideoFlush
  BY VideoTaken DEF VideoInv, Basics, EncodeVideo
<1>1. cfg' = cfg /\ GopLen' = GopLen BY DEF EncodeVideo, GopLen, Filtered
<1> SUFFICES ASSUME cfg.from = 0 PROVE Keyframes' BY <1>1 DEF Keyframes, KeyframesOnTime
<1> DEFINE p == VideoPacket
           m == Len(sent)
<1>2. /\ m \in Nat /\ Len(sent') = m + 1 /\ sent'[m + 1] = p
      /\ \A i \in 1..m : sent'[i] = sent[i]
      /\ p.at = Shifted("video") /\ p.at \in Nat
      /\ \A i \in 1..m : sent[i].at < p.at
      /\ sent \in Seq(Packet)
  BY PacketSent
<1>3. NextKf = octx.next_kf /\ octx.next_kf \in Int /\ GopLen \in Int
  BY <1>0, TypeFields, ClipTypes DEF NextKf, ClipStarts
<1>4. p.key <=> (GopLen # 0 /\ p.at >= octx.next_kf) \/ m = 0
  <2>1. octx.frames = m BY <1>0, VideoFrames
  <2>2. p.key = (ClipStarts \/ GopDue \/ octx.frames = 0) BY <1>0, VideoPacketFields
  <2> QED BY <1>2, <1>3, <2>1, <2>2 DEF ClipStarts, GopDue
<1>5. octx'.next_kf = IF GopLen # 0 /\ p.at >= octx.next_kf THEN p.at + GopLen ELSE octx.next_kf
  <2>1. octx' = [Marked EXCEPT !.frames = @ + 1] BY DEF EncodeVideo
  <2>2. octx'.next_kf = IF GopDue THEN Shifted("video") + GopLen ELSE NextKf BY <1>0, <2>1, MarkedFields
  <2> QED BY <1>2, <1>3, <2>2 DEF GopDue
<1>6. \A i \in 1..m : sent[i].at \in Int
  <2>1. \A q \in Packet : q.at \in Int BY DEF Packet
  <2> QED BY <1>2, <2>1
<1>7. \A i, j \in 1..m : i < j => sent[i].at < sent[j].at
  <2>1. SUFFICES ASSUME NEW i \in 1..m, NEW j \in 1..m, i < j PROVE sent[i].at < sent[j].at OBVIOUS
  <2>2. V # <<>> /\ \E nx \in Int : At(nx) BY <1>0, ReadsDue DEF VideoInv
  <2>3. PICK nx \in Int : At(nx) BY <2>2
  <2>4. SentAt[i].t = sent[i].at + Shift /\ SentAt[j].t = sent[j].at + Shift /\ Len(SentAt) = m
    BY <1>0, SentAtFields
  <2>5. SentAt[i].t < SentAt[j].t BY <2>1, <2>3, <2>4 DEF At, Sent, Progress
  <2>6. Shift \in Int BY <1>0, VideoIncreasing
  <2> QED BY <1>6, <2>4, <2>5, <2>6
<1>8. GopLen # 0 /\ m # 0 =>
        \E k \in 1..m : /\ sent[k].key /\ octx.next_kf = sent[k].at + GopLen
                        /\ \A j \in 1..m : j > k => ~sent[j].key
  <2>1. m # 0 => sent # <<>> BY <1>2
  <2> QED BY <1>0, <2>1 DEF Keyframes
<1>9. p.key <=> \/ m = 0
                \/ GopLen # 0 /\ \A j \in 1..m : sent[j].key => p.at - sent[j].at >= GopLen
  <2>1. CASE m = 0 BY <1>4, <2>1
  <2>2. CASE m # 0 /\ GopLen = 0 BY <1>4, <2>2
  <2>3. CASE m # 0 /\ GopLen # 0
    <3>1. PICK k \in 1..m : /\ sent[k].key /\ octx.next_kf = sent[k].at + GopLen
                            /\ \A j \in 1..m : j > k => ~sent[j].key
      BY <1>8, <2>3
    <3>2. p.key <=> p.at >= sent[k].at + GopLen BY <1>4, <2>3, <3>1
    <3>3. p.key <=> p.at - sent[k].at >= GopLen BY <1>2, <1>3, <1>6, <3>2
    <3>4. ASSUME NEW j \in 1..m, sent[j].key, p.at - sent[k].at >= GopLen PROVE p.at - sent[j].at >= GopLen
      <4>1. j <= k BY <3>1, <3>4
      <4>2. sent[j].at <= sent[k].at
        <5>1. CASE j = k BY <1>6, <5>1
        <5>2. CASE j # k
          <6>1. j < k BY <1>2, <4>1, <5>2
          <6> QED BY <1>6, <1>7, <6>1
        <5> QED BY <5>1, <5>2
      <4>3. sent[j].at \in Int /\ sent[k].at \in Int /\ p.at \in Int BY <1>2, <1>6
      <4> QED BY <1>3, <3>4, <4>2, <4>3
    <3> QED BY <2>3, <3>1, <3>3, <3>4
  <2> QED BY <2>1, <2>2, <2>3
<1> HIDE DEF p, m
<1>10. DOMAIN sent = 1..m /\ DOMAIN sent' = 1..m + 1
  <2>1. sent' = Append(sent, p) /\ p \in Packet BY PacketSent DEF p
  <2>2. sent' \in Seq(Packet) BY <1>2, <2>1
  <2> QED BY <1>2, <2>2 DEF m
<1>11. KeyframesOnTime'
  <2> SUFFICES ASSUME NEW i \in 1..m + 1
               PROVE  sent'[i].key <=>
                        \/ i = 1
                        \/ /\ GopLen # 0
                           /\ \A j \in 1..i - 1 : sent'[j].key => sent'[i].at - sent'[j].at >= GopLen
    BY <1>1, <1>10 DEF KeyframesOnTime
  <2>1. CASE i = m + 1
    <3>1. i = 1 <=> m = 0 BY <1>2, <2>1
    <3>2. i - 1 = m BY <1>2, <2>1
    <3>3. \A j \in 1..m : sent'[j] = sent[j] BY <1>2
    <3> QED BY <1>2, <1>9, <2>1, <3>1, <3>2, <3>3
  <2>2. CASE i # m + 1
    <3>1. i \in 1..m BY <1>2, <2>2
    <3>2. \A j \in 1..i - 1 : sent'[j] = sent[j]
      <4>1. \A j \in 1..i - 1 : j \in 1..m BY <1>2, <3>1
      <4> QED BY <1>2, <4>1
    <3>3. sent[i].key <=>
            \/ i = 1
            \/ /\ GopLen # 0
               /\ \A j \in 1..i - 1 : sent[j].key => sent[i].at - sent[j].at >= GopLen
      BY <1>10, <3>1 DEF Keyframes, KeyframesOnTime
    <3> QED BY <1>2, <3>1, <3>2, <3>3
  <2> QED BY <2>1, <2>2
<1>12. ASSUME GopLen # 0
       PROVE  \E k \in 1..m + 1 :
                /\ sent'[k].key /\ octx'.next_kf = sent'[k].at + GopLen
                /\ \A j \in 1..m + 1 : j > k => ~sent'[j].key
  <2>1. CASE p.at >= octx.next_kf
    <3>1. p.key /\ octx'.next_kf = p.at + GopLen BY <1>4, <1>5, <1>12, <2>1
    <3>2. m + 1 \in 1..m + 1 /\ \A j \in 1..m + 1 : ~(j > m + 1) BY <1>2
    <3> QED BY <1>2, <3>1, <3>2
  <2>2. CASE ~(p.at >= octx.next_kf)
    <3>1. m # 0
      <4>1. sent = <<>> => octx.next_kf = 0 BY <1>0, <1>12 DEF Keyframes
      <4>2. m = 0 => sent = <<>> BY <1>2 DEF m
      <4> QED BY <1>2, <2>2, <4>1, <4>2
    <3>2. PICK k \in 1..m : /\ sent[k].key /\ octx.next_kf = sent[k].at + GopLen
                            /\ \A j \in 1..m : j > k => ~sent[j].key
      BY <1>8, <1>12, <3>1
    <3>3. ~p.key /\ octx'.next_kf = octx.next_kf BY <1>4, <1>5, <2>2, <3>1
    <3>4. k \in 1..m + 1 /\ sent'[k] = sent[k] BY <1>2, <3>2
    <3>5. ASSUME NEW j \in 1..m + 1, j > k PROVE ~sent'[j].key
      <4>1. CASE j \in 1..m BY <1>2, <3>2, <3>5, <4>1
      <4>2. CASE j = m + 1 BY <1>2, <3>3, <4>2
      <4>3. j \in 1..m \/ j = m + 1 BY <1>2
      <4> QED BY <4>1, <4>2, <4>3
    <3> QED BY <3>2, <3>3, <3>4, <3>5
  <2> QED BY <2>1, <2>2
<1>13. sent' # <<>> /\ Len(sent') = m + 1
  <2>1. Len(<<>>) = 0 OBVIOUS
  <2> QED BY <1>2, <2>1
<1> QED BY <1>1, <1>11, <1>12, <1>13 DEF Keyframes

LEMMA KeyframesNext == ASSUME VideoInv, Keyframes, [Next]_vars PROVE Keyframes'
<1>0. EncodeTypeOK /\ Control /\ Basics BY DEF VideoInv, Basics
<1>1. CASE BeginCall
  <2>1. sent' = <<>> /\ octx'.next_kf = (IF cfg.gop # 0 THEN 0 ELSE octx.next_kf) /\ cfg' = cfg
    BY <1>0, <1>1, StreamAddedFields DEF BeginCall
  <2>2. Len(sent') = 0 /\ DOMAIN sent' = {} BY <2>1
  <2>3. GopLen # 0 => cfg.gop # 0 BY TicksZero DEF GopLen, Filtered
  <2>4. GopLen' = GopLen BY <2>1 DEF GopLen, Filtered
  <2> QED BY <2>1, <2>2, <2>3, <2>4 DEF Keyframes, KeyframesOnTime
<1>2. CASE DecodeVideo
  <2>1. UNCHANGED <<cfg, sent, octx>> /\ VideoPhase BY <1>2 DEF DecodeVideo, Decode, VideoPhase
  <2> QED BY <2>1, KeyframesKept
<1>3. CASE EncodeVideo BY <1>3, KeyframeSent
<1>4. CASE (SkipFrame \/ ReadFlushFrame) /\ cur.kind = "video"
  <2>1. UNCHANGED <<cfg, sent>> /\ VideoPhase' = VideoPhase /\ VideoFlush' = VideoFlush
    BY <1>0, <1>4, VideoTaken DEF SkipFrame, ReadFlushFrame
  <2>2. octx'.next_kf = octx.next_kf
    <3>1. CASE ReadFlushFrame BY <3>1 DEF ReadFlushFrame
    <3>2. CASE SkipFrame
      <4>1. filters[cur.kind].out # <<>> /\ cur.kind \in Kinds BY <3>2, <1>0, TypeFields DEF SkipFrame, Reads
      <4>2. StartOf(cur.kind) \in Int BY <1>0, <4>1, TypeFields, IncomingFrame DEF StartOf
      <4> QED BY <3>2, <4>1, <4>2, <1>0, StartInContext DEF SkipFrame
    <3> QED BY <1>4, <3>1, <3>2
  <2> QED BY <2>1, <2>2, KeyframesKept
<1>5. CASE VideoIsFlushed
  <2>1. UNCHANGED <<cfg, sent, octx>> /\ VideoPhase BY <1>5 DEF VideoIsFlushed, VideoPhase
  <2> QED BY <2>1, KeyframesKept
<1>6. CASE VideoEnds BY <1>6, KeyframesKept DEF VideoEnds
<1>7. CASE VideoKept
  <2>1. UNCHANGED <<cfg, sent, octx.next_kf>> BY <1>7 DEF VideoKept
  <2>2. (VideoPhase \/ VideoFlush)' => (VideoPhase \/ VideoFlush)
    BY <1>7 DEF VideoKept, vars, VideoPhase, VideoFlush
  <2> QED BY <2>1, <2>2, KeyframesKept
<1> QED BY <1>0, <1>1, <1>2, <1>3, <1>4, <1>5, <1>6, <1>7, VideoSteps

-----------------------------------------------------------------------------
EncodersInv == VideoInv /\ Encoders /\ Muxed /\ Keyframes

LEMMA EncodersInvariant == Spec => []EncodersInv
<1>1. Init => EncodersInv
  <2> SUFFICES ASSUME Init PROVE EncodersInv OBVIOUS
  <2>1. /\ sent = <<>> /\ pc = "idle" /\ lost = FALSE /\ enc["video"] = <<>> /\ muxed["video"] = <<>>
    BY DEF Init, Both, Kinds
  <2>2. Len(sent) = 0 /\ DOMAIN sent = {} BY <2>1
  <2>3. ~VideoPhase /\ ~VideoFlush BY <2>1 DEF VideoPhase, VideoFlush
  <2> QED BY <2>1, <2>2, <2>3, VideoInvInit
     DEF EncodersInv, Encoders, Muxed, Keyframes, KeyframesOnTime
<1>2. EncodersInv /\ [Next]_vars => EncodersInv'
  BY VideoInvNext, EncodersNext, MuxedNext, KeyframesNext DEF EncodersInv
<1> QED BY <1>1, <1>2, PTL DEF Spec

\* The encoder gets increasing times, whatever the decoder gives; so does the
\* muxer, unless the output is a clip, and it gets all packets of the encoder.
THEOREM TimesIncreasing == Spec => []TimesIncrease
<1>1. EncodersInv => TimesIncrease
  <2> SUFFICES ASSUME EncodersInv PROVE TimesIncrease OBVIOUS
  <2>0. Basics /\ Encoders /\ Muxed /\ Control BY DEF EncodersInv, VideoInv, Basics
  <2>1. sent \in Seq(Packet) /\ Len(sent) \in Nat BY <2>0, VideoFrames
  <2>2. ASSUME NEW i \in 1..Len(sent) - 1
        PROVE  /\ sent[i].enc < sent[i + 1].enc
               /\ cfg.from = 0 => sent[i].pts < sent[i + 1].pts
    <3>1. i \in 1..Len(sent) /\ i + 1 \in 1..Len(sent) /\ i < i + 1 BY <2>1
    <3>2. sent[i].enc < sent[i + 1].enc /\ PacketTimes(sent[i]) /\ PacketTimes(sent[i + 1])
      BY <2>0, <3>1 DEF Encoders
    <3>3. \A q \in Packet : q.pts \in Int /\ q.enc \in Int BY DEF Packet
    <3>4. /\ sent[i].pts \in Int /\ sent[i + 1].pts \in Int
          /\ sent[i].enc \in Int /\ sent[i + 1].enc \in Int
      BY <2>1, <3>1, <3>3
    <3>5. ASSUME cfg.from = 0 PROVE sent[i].pts < sent[i + 1].pts
      <4>1. CASE cfg.fps BY <3>2, <4>1 DEF PacketTimes
      <4>2. CASE ~cfg.fps
        <5>1. Ticks(sent[i].pts) = sent[i].enc /\ Ticks(sent[i + 1].pts) = sent[i + 1].enc
          BY <3>2, <3>5, <4>2 DEF PacketTimes
        <5>2. ~(sent[i + 1].pts <= sent[i].pts)
          <6>1. SUFFICES ASSUME sent[i + 1].pts <= sent[i].pts PROVE FALSE OBVIOUS
          <6>2. Ticks(sent[i + 1].pts) <= Ticks(sent[i].pts) BY <3>4, <6>1, TicksMonotone
          <6> QED BY <3>2, <3>4, <5>1, <6>2
        <5> QED BY <3>4, <5>2
      <4> QED BY <4>1, <4>2
    <3> QED BY <3>2, <3>5
  <2>3. ASSUME outcome = "done", ~upset PROVE muxed["video"] = sent
    <3>1. pc = "idle" BY <2>0, <2>3 DEF Control
    <3>2. ~VideoPhase /\ ~VideoFlush /\ ~lost BY <2>0, <2>3, <3>1 DEF VideoPhase, VideoFlush, Muxed
    <3> QED BY <2>0, <2>3, <3>2 DEF Muxed
  <2> QED BY <2>2, <2>3 DEF TimesIncrease
<1> QED BY <1>1, EncodersInvariant, PTL

\* Every segment begins with a keyframe, and another one follows as soon as a
\* GOP is over, whatever the times of the frames; a clip is marked otherwise.
THEOREM KeyframesMarked == Spec => []KeyframesOnTime
<1>1. EncodersInv => KeyframesOnTime BY DEF EncodersInv, Keyframes
<1> QED BY <1>1, EncodersInvariant, PTL

-----------------------------------------------------------------------------
(* Audio.                                                                   *)

\* Its filter has been written to for the flush.
AudioFlush == pc \in {"read", "flush"} /\ cur.flush /\ cur.kind = "audio"

\* The audio at the muxer, and then that in the encoder.
AQ == muxed["audio"] \o enc["audio"]

\* A step of a call that leaves the audio alone.
AudioKept ==
  /\ UNCHANGED <<cfg, fed["audio"], first["audio"], octx.start["audio"], calls, filters["audio"],
                 muxed["audio"], enc["audio"]>>
  /\ sent # <<>> => sent' # <<>>
  /\ octx'.clip_started => octx.clip_started \/ sent' # <<>>
  /\ pc # "idle" /\ pc' # "idle"
  /\ AF.out # <<>> => cur'.flush = cur.flush
  /\ AudioFlush => AudioFlush'

\* A step that ends the call.
AudioEnds ==
  /\ UNCHANGED <<cfg, fed, first, octx.start["audio"], calls, sent>>
  /\ octx'.clip_started => octx.clip_started \/ sent # <<>>
  /\ pc # "idle" /\ pc' = "idle"
  /\ AF.out = <<>> /\ AF'.out = <<>> /\ AF'.closed = AF.closed /\ AF'.held = AF.held
  /\ enc'["audio"] = <<>> /\ AQ' \in {AQ, muxed["audio"]}
  /\ outcome' = "done" /\ ~lost' /\ cfg.from = 0 => AQ' = AQ \/ A = <<>>

\* The filter of the audio is flushed.
AudioIsFlushed ==
  /\ pc = "flush" /\ cur.kind = "audio" /\ cur.flush /\ pc' = "read"
  /\ UNCHANGED <<cfg, src, enc, octx, cur, outcome, fed, sent, muxed, first, lost, upset, calls>>
  /\ filters'["audio"] = IF AF.closed \/ AF.flushed THEN AF ELSE Flushed(AF, "audio")

LEMMA EmptyRight == ASSUME NEW S, NEW a \in Seq(S) PROVE a \o <<>> = a
OBVIOUS

\* The next stream is flushed, or the call is over.
LEMMA NextStreamAudio ==
  ASSUME EncodeTypeOK, NEW f \in [Kinds -> Filter], NEW e \in [Kinds -> Seq(Packet)],
         NextStream(f, e), pc # "idle", cur.flush, f["audio"] = filters["audio"], AF.out = <<>>,
         UNCHANGED <<cfg, fed, first, octx.start["audio"], calls, sent>>,
         octx'.clip_started => octx.clip_started \/ sent # <<>>,
         \/ e["audio"] = enc["audio"] /\ muxed'["audio"] = muxed["audio"]
         \/ cur.kind = "audio" /\ muxed'["audio"] = AQ,
         ~(cur.kind = "video" /\ cfg.audio) /\ ~lost' /\ cfg.from = 0 => muxed'["audio"] = AQ \/ A = <<>>
  PROVE  AudioKept \/ AudioEnds
<1>1. CASE cur.kind = "video" /\ cfg.audio
  <2>1. pc' = "flush" /\ cur'.kind = "audio" /\ cur'.flush = cur.flush /\ filters' = f /\ enc' = e
    BY <1>1, NextStreamFields
  <2> QED BY <1>1, <2>1 DEF AudioKept, AudioFlush, AF
<1>2. CASE ~(cur.kind = "video" /\ cfg.audio)
  <2>1. EndCall("done", f, e) /\ pc' = "idle" BY <1>2, NextStreamFields
  <2>a. /\ AF'.out = f["audio"].out /\ AF'.closed = f["audio"].closed /\ AF'.held = f["audio"].held
        /\ enc'["audio"] = <<>>
    BY <2>1, EndCallFields DEF AF
  <2>b. f["audio"] = AF BY DEF AF
  <2>2. AF'.out = AF.out /\ AF'.closed = AF.closed /\ AF'.held = AF.held /\ enc'["audio"] = <<>>
    BY <2>a, <2>b
  <2>3. muxed["audio"] \in Seq(Packet) /\ enc["audio"] \in Seq(Packet) BY TypeFields DEF Kinds
  <2>4. AQ \in Seq(Packet) BY <2>3 DEF AQ
  <2>5. muxed'["audio"] \in Seq(Packet) /\ muxed'["audio"] \in {AQ, muxed["audio"]} BY <2>3, <2>4
  <2>6. AQ' = muxed'["audio"]
    <3>1. AQ' = muxed'["audio"] \o <<>> BY <2>2 DEF AQ
    <3> QED BY <2>5, <3>1, EmptyRight
  <2> QED BY <1>2, <2>1, <2>2, <2>5, <2>6 DEF AudioEnds
<1> QED BY <1>1, <1>2

\* Before an output runs away it has a frame.
LEMMA RunawayAfterFirst == ASSUME VideoInv, EncodeRunsAway PROVE sent # <<>>
<1>1. Reads("video") /\ RunsAway BY DEF EncodeRunsAway
<1>2. V # <<>> BY <1>1, ReadsDue DEF VideoInv
<1>3. Len(V) \in Nat /\ Len(V) >= 1 /\ octx.frames = Len(sent) BY <1>2, VideoFrames DEF VideoInv
<1>4. Len(sent) + 1 > Runaway * Len(V) BY <1>1, <1>3 DEF RunsAway, V
<1>5. Runaway * Len(V) >= 1
  <2>1. Runaway \in Nat /\ Runaway >= 1 BY Constants
  <2>2. Len(V) * 1 <= Len(V) * Runaway BY <1>3, <2>1, TimesLess
  <2>3. Len(V) * 1 = Len(V) /\ Len(V) * Runaway = Runaway * Len(V) /\ Runaway * Len(V) \in Nat BY <1>3, <2>1
  <2> QED BY <1>3, <2>2, <2>3
<1>6. sent = <<>> => Len(sent) = 0 OBVIOUS
<1>7. Runaway * Len(V) \in Nat BY <1>3, Constants
<1> QED BY <1>4, <1>5, <1>6, <1>7

\* What a step can do to the audio.
LEMMA AudioSteps ==
  ASSUME VideoInv, [Next]_vars
  PROVE  \/ BeginCall
         \/ DecodeAudio
         \/ EncodeAudio
         \/ SkipFrame /\ cur.kind = "audio"
         \/ ReadFlushFrame /\ cur.kind = "audio"
         \/ AudioIsFlushed
         \/ AudioEnds
         \/ AudioKept
         \/ UNCHANGED vars
<1>a. EncodeTypeOK /\ Control /\ Times("audio") BY DEF VideoInv, Basics
<1>b. /\ cur.kind \in Kinds /\ (cur.kind = "video" \/ cur.kind = "audio")
      /\ filters \in [Kinds -> Filter] /\ enc \in [Kinds -> Seq(Packet)]
      /\ muxed["audio"] \in Seq(Packet) /\ enc["audio"] \in Seq(Packet)
  BY <1>a, TypeFields DEF Kinds, EncodeTypeOK
<1>c. ~(pc = "read" /\ cur.kind = "audio") => AF.out = <<>> BY <1>a DEF Control
<1>d. ~cfg.audio => A = <<>> BY <1>a DEF Control
<1>e. (pc = "read" \/ pc = "flush") /\ cur.kind = "audio" => cfg.audio
  BY <1>a, SessionFields, TypeFields DEF Control
<1>1. CASE DecodeVideo
  <2>1. PICK raw, x, f : Decodes("video", raw, x, f) BY <1>1, <1>a, DecodeFields DEF DecodeVideo, Kinds
  <2>2. /\ fed' = [fed EXCEPT !["video"] = Append(@, x)]
        /\ first' = [first EXCEPT !["video"] = IF @ = NoPts THEN x.pts ELSE @]
        /\ \A j \in Kinds : j # "video" => filters'[j] = filters[j]
    BY <2>1 DEF Decodes
  <2>3. fed'["audio"] = fed["audio"] /\ first'["audio"] = first["audio"]
    BY <1>a, <2>2 DEF EncodeTypeOK, Kinds
  <2>4. /\ pc = "decode" /\ pc' = "read" /\ UNCHANGED <<cfg, enc, octx, sent, muxed, calls>>
    BY <1>1 DEF DecodeVideo, Decode
  <2>5. AF.out = <<>> /\ ~AudioFlush BY <1>c, <2>4 DEF AudioFlush
  <2> QED BY <2>2, <2>3, <2>4, <2>5 DEF AudioKept, Kinds
<1>2. CASE EndOfInput
  <2>1. /\ pc = "decode" /\ pc' = "flush"
        /\ UNCHANGED <<cfg, filters, enc, octx, fed, sent, muxed, first, calls>>
    BY <1>2 DEF EndOfInput
  <2>2. AF.out = <<>> /\ ~AudioFlush BY <1>c, <2>1 DEF AudioFlush
  <2> QED BY <2>1, <2>2 DEF AudioKept
<1>3. CASE WriteFlush
  <2>1. /\ pc = "flush" /\ cur.flush
        /\ UNCHANGED <<cfg, src, octx, fed, sent, muxed, first, calls, lost>>
    BY <1>3, <1>a DEF WriteFlush, Control
  <2>2. CASE NothingToFlush /\ NextStream(filters, enc)
    <3>1. ~(cur.kind = "video" /\ cfg.audio) => A = <<>>
      <4>1. CASE cur.kind = "video" BY <1>d, <4>1
      <4>2. CASE cur.kind = "audio"
        <5>1. AF.active BY <1>a DEF Control
        <5>2. "audio" \notin src.seen BY <2>2, <4>2, <5>1 DEF NothingToFlush, AF
        <5> QED BY <1>a, <5>2 DEF Times, A
      <4> QED BY <1>b, <4>1, <4>2
    <3>2. AF.out = <<>> BY <1>c, <2>1
    <3> QED BY <1>a, <1>b, <2>1, <2>2, <3>1, <3>2, NextStreamAudio
  <2>3. CASE ~NothingToFlush
    <3>1. /\ filters'[cur.kind] = IF filters[cur.kind].closed \/ filters[cur.kind].flushed
                                  THEN filters[cur.kind]
                                  ELSE Flushed(filters[cur.kind], cur.kind)
          /\ \A j \in Kinds : j # cur.kind => filters'[j] = filters[j]
          /\ pc' = "read" /\ UNCHANGED <<enc, cur, outcome, upset>>
      BY <1>3, <1>a, <2>3, WriteFlushFields
    <3>2. CASE cur.kind = "audio" BY <2>1, <3>1, <3>2 DEF AudioIsFlushed, AF
    <3>3. CASE cur.kind = "video"
      <4>1. filters'["audio"] = filters["audio"] BY <3>1, <3>3 DEF Kinds
      <4> QED BY <2>1, <3>1, <3>3, <4>1 DEF AudioKept, AudioFlush
    <3> QED BY <1>b, <3>2, <3>3
  <2> QED BY <1>3, <1>a, <2>2, <2>3, WriteFlushFields
<1>4. ASSUME filters'["audio"] = filters["audio"], muxed'["audio"] = muxed["audio"],
             enc'["audio"] = enc["audio"], UNCHANGED <<cfg, fed, first, calls, pc, cur>>, pc = "read",
             octx'.start["audio"] = octx.start["audio"], sent # <<>> => sent' # <<>>,
             octx'.clip_started => octx.clip_started \/ sent' # <<>>
      PROVE  AudioKept
  BY <1>4 DEF AudioKept, AudioFlush
<1>5. CASE ReadFlushFrame /\ cur.kind = "video"
  <2>1. \A j \in Kinds : j # cur.kind => filters'[j] = filters[j] BY <1>5, <1>a, ReadFlushFrameFields
  <2>2. filters'["audio"] = filters["audio"] BY <1>5, <2>1 DEF Kinds
  <2>3. pc = "read" /\ UNCHANGED <<cfg, fed, first, calls, pc, cur, octx, sent, muxed, enc>>
    BY <1>5 DEF ReadFlushFrame
  <2> QED BY <1>4, <2>2, <2>3
<1>6. CASE (SkipFrame /\ cur.kind = "video") \/ EncodeVideo
  <2>1. Reads("video") /\ Taken /\ pc = "read" /\ cur.kind = "video" /\ filters["video"].out # <<>>
        /\ UNCHANGED <<cfg, fed, first, calls, pc, cur>>
    BY <1>6 DEF SkipFrame, EncodeVideo, Reads
  <2>2. filters'["audio"] = filters["audio"] BY <1>a, <2>1, TakenFields DEF Taken, Kinds
  <2>3. CASE SkipFrame
    <3>1. Incoming.pts \in Int BY <1>a, <2>1, IncomingFrame
    <3>2. StartOf("video") \in Int /\ "video" \in Kinds BY <1>a, <3>1, TypeFields DEF StartOf, Kinds
    <3>3. octx' = [octx EXCEPT !.start["video"] = StartOf("video")] /\ UNCHANGED <<sent, muxed, enc>>
      BY <2>1, <2>3 DEF SkipFrame
    <3>4. octx'.start["audio"] = octx.start["audio"] /\ octx'.clip_started = octx.clip_started
      BY <1>a, <3>2, <3>3, StartInContext DEF Kinds
    <3> QED BY <1>4, <2>1, <2>2, <3>3, <3>4
  <2>4. CASE EncodeVideo
    <3>1. VideoPacket \in Packet /\ sent' = Append(sent, VideoPacket) /\ Len(sent') = Len(sent) + 1
          /\ Len(sent) \in Nat
      BY <2>4, PacketSent
    <3>2. sent' # <<>>
      <4>1. Len(<<>>) = 0 OBVIOUS
      <4> QED BY <3>1, <4>1
    <3>3. octx'.start["audio"] = octx.start["audio"] BY <1>a, <2>1, <2>4, MarkedFields DEF EncodeVideo
    <3>4. muxed'["audio"] = muxed["audio"] /\ enc'["audio"] = enc["audio"]
      <4>1. CASE UNCHANGED <<enc, muxed>> BY <4>1
      <4>2. CASE Encoded("video", VideoPacket) BY <1>a, <3>1, <4>2, EncodedFields DEF Kinds
      <4> QED BY <2>4, <4>1, <4>2 DEF EncodeVideo
    <3> QED BY <1>4, <2>1, <2>2, <3>2, <3>3, <3>4
  <2> QED BY <1>6, <2>3, <2>4
<1>7. CASE EncodeRunsAway
  <2>1. /\ Reads("video") /\ pc = "read" /\ cur.kind = "video" /\ filters["video"].out # <<>>
        /\ UNCHANGED <<cfg, fed, sent, muxed, first, calls>> /\ octx' = Marked
    BY <1>7 DEF EncodeRunsAway, Reads
  <2> DEFINE f == [filters EXCEPT !["video"].out = Tail(@)]
  <2>2. f \in [Kinds -> Filter] /\ f["audio"] = filters["audio"] BY <1>a, <2>1, TakenFields DEF Kinds
  <2>3. IF cur.flush THEN lost' = TRUE /\ NextStream(f, enc)
        ELSE UNCHANGED <<lost, cur>> /\ EndCall("runaway", f, enc)
    BY <1>7 DEF EncodeRunsAway
  <2> HIDE DEF f
  <2>4. octx'.start["audio"] = octx.start["audio"] BY <1>a, <2>1, MarkedFields
  <2>5. sent # <<>> BY <1>7, RunawayAfterFirst
  <2>6. AF.out = <<>> BY <1>c, <2>1
  <2>7. CASE cur.flush BY <1>a, <1>b, <2>1, <2>2, <2>3, <2>4, <2>5, <2>6, <2>7, NextStreamAudio
  <2>8. CASE ~cur.flush
    <3>1. EndCall("runaway", f, enc) BY <2>3, <2>8
    <3>2. /\ AF'.out = f["audio"].out /\ AF'.closed = f["audio"].closed /\ AF'.held = f["audio"].held
          /\ enc'["audio"] = <<>>
      BY <1>a, <1>b, <2>2, <3>1, EndCallFields DEF AF
    <3>3. pc' = "idle" /\ outcome' = "runaway" BY <3>1 DEF EndCall
    <3>4. AQ' = muxed["audio"]
      <4>1. AQ' = muxed["audio"] \o <<>> BY <2>1, <3>2 DEF AQ
      <4> QED BY <1>b, <4>1, EmptyRight
    <3> QED BY <2>1, <2>2, <2>4, <2>5, <2>6, <3>2, <3>3, <3>4 DEF AudioEnds, AF
  <2> QED BY <2>7, <2>8
<1>8. CASE ReturnToDecode
  <2>1. /\ pc = "read" /\ pc' = "decode" /\ ~cur.flush
        /\ UNCHANGED <<cfg, filters, enc, octx, cur, fed, sent, muxed, first, calls>>
    BY <1>8 DEF ReturnToDecode, Empty
  <2> QED BY <2>1 DEF AudioKept, AudioFlush
<1>9. ASSUME Empty PROVE AF.out = <<>> BY <1>9, <1>b, <1>c DEF Empty, AF
<1>10. CASE FlushEncoder
  <2> DEFINE e == [enc EXCEPT ![cur.kind] = <<>>]
             q == [muxed EXCEPT ![cur.kind] = @ \o enc[cur.kind]]
  <2>1. /\ Empty /\ cur.flush /\ muxed' = q
        /\ UNCHANGED <<cfg, octx, fed, first, sent, calls, lost>>
        /\ FlushReturns(IF cfg.hw /\ cur.kind = "video" THEN "again" ELSE "eof", e)
    BY <1>10 DEF FlushEncoder
  <2>2. e \in [Kinds -> Seq(Packet)] BY <1>a, FlushedEncoder
  <2>3. muxed \in [Kinds -> Seq(Packet)] BY <1>a DEF EncodeTypeOK
  <2>4. \/ e["audio"] = enc["audio"] /\ muxed'["audio"] = muxed["audio"]
        \/ cur.kind = "audio" /\ muxed'["audio"] = AQ
    BY <1>b, <2>1, <2>3 DEF AQ, Kinds
  <2>5. cur.kind = "audio" => muxed'["audio"] = AQ BY <1>b, <2>1, <2>3 DEF AQ, Kinds
  <2>6. NextStream(filters, e)
    <3> HIDE DEF e
    <3> QED BY <2>1 DEF FlushReturns, Returned
  <2>7. AF.out = <<>> /\ pc = "read" BY <1>9, <2>1 DEF Empty
  <2>8. ~(cur.kind = "video" /\ cfg.audio) => muxed'["audio"] = AQ \/ A = <<>> BY <1>b, <1>d, <2>5
  <2> HIDE DEF e, q
  <2> QED BY <1>a, <1>b, <2>1, <2>2, <2>4, <2>6, <2>7, <2>8, NextStreamAudio
<1>11. CASE FlushEncoderFails
  <2>1. /\ Empty /\ cur.flush /\ lost' = TRUE /\ NextStream(filters, enc)
        /\ UNCHANGED <<cfg, octx, fed, sent, muxed, first, calls>>
    BY <1>11 DEF FlushEncoderFails, EncoderFails
  <2>2. AF.out = <<>> /\ pc = "read" BY <1>9, <2>1 DEF Empty
  <2> QED BY <1>a, <1>b, <2>1, <2>2, NextStreamAudio
<1>12. CASE SkipFlush
  <2>1. /\ Empty /\ cur.flush /\ cur.kind = "audio" /\ cfg.from # 0
        /\ FlushReturns(IF filters["audio"].eof THEN "eof" ELSE "again", enc)
        /\ UNCHANGED <<cfg, octx, fed, sent, muxed, first, calls>>
    BY <1>12, LateFrom DEF SkipFlush, WaitsForVideo, AudioWaits, Late
  <2>2. AF.out = <<>> /\ pc = "read" BY <1>9, <2>1 DEF Empty
  <2>3. CASE NextStream(filters, enc) BY <1>a, <1>b, <2>1, <2>2, <2>3, NextStreamAudio
  <2>4. CASE pc' = "flush" /\ enc' = enc /\ UNCHANGED <<filters, cur>>
    BY <2>1, <2>2, <2>4 DEF AudioKept, AudioFlush
  <2> QED BY <2>1, <2>3, <2>4 DEF FlushReturns
<1> QED BY <1>b, <1>1, <1>2, <1>3, <1>5, <1>6, <1>7, <1>8, <1>10, <1>11, <1>12
        DEF Next, Process

\* The audio filter holds nothing back, and its encoder ends with the call.
AudioOpen == AF.held = NoFrame /\ (pc = "idle" => enc["audio"] = <<>>)

\* Before the first call, and before the audio is flushed.
AudioStart ==
  /\ calls = 0 \/ ~cfg.video => ~AF.closed /\ ~octx.clip_started
  /\ calls = 0 => octx.start["audio"] = NoPts /\ first["audio"] = NoPts /\ A = <<>>
  /\ pc # "idle" /\ ~AudioFlush => ~AF.closed
  /\ octx.clip_started => sent # <<>>

\* The audio filter has the last frame or, once it is flushed, that of the flush.
AudioOut ==
  AF.out # <<>> => IF cur.flush THEN \A i \in 1..Len(AF.out) : AF.out[i].n = FlushFrame
                   ELSE A # <<>> /\ AF.out = <<A[Len(A)]>>

Unread == IF AF.out # <<>> /\ ~cur.flush THEN 1 ELSE 0

\* All audio is with the muxer, in the encoder or in the filter.
AudioNumbers ==
  cfg.from = 0 /\ cfg.to = 0 =>
    /\ \A i \in 1..Len(AQ) : AQ[i].n = i
    /\ pc # "idle" => Len(AQ) + Unread = Len(A)
    /\ outcome = "done" /\ ~lost => Len(AQ) = Len(A)

\* The clip begins with the first frame, and the audio in it after the video.
AudioClip ==
  /\ Late /\ sent = <<>> => AQ = <<>>
  /\ cfg.video =>
       /\ first["audio"] = IF A = <<>> THEN NoPts ELSE A[1].pts
       /\ octx.start["audio"] # NoPts => A # <<>> /\ octx.start["audio"] = first["audio"]
       /\ octx.start["audio"] = NoPts /\ A # <<>> => Len(A) = 1 /\ AF.out # <<>> /\ ~cur.flush
       /\ \A i \in 1..Len(AQ) : AQ[i].n \in 1..Len(A) /\ InClip("audio", A[AQ[i].n].pts)

\* An output that encodes video too keeps the audio filter closed after a call.
FirstCall == cfg.video => calls <= 1
AudioInv == AudioOpen /\ (FirstCall => AudioStart /\ AudioOut /\ AudioNumbers /\ AudioClip)

LEMMA AudioFrames ==
  ASSUME Basics
  PROVE  /\ A \in Seq(Frame) /\ AF \in Filter /\ AF.out \in Seq(Frame) /\ AQ \in Seq(Packet)
         /\ muxed["audio"] \in Seq(Packet) /\ enc["audio"] \in Seq(Packet)
         /\ Len(A) \in Nat /\ Len(AF.out) \in Nat /\ Len(AQ) \in Nat
         /\ A # <<>> <=> Len(A) >= 1
         /\ \A i \in 1..Len(A) : A[i].n = i /\ A[i].pts \in Nat
         /\ \A i \in 1..Len(AQ) : AQ[i].n \in Nat
         /\ octx.start["audio"] \in Int /\ first["audio"] \in Int
         /\ NoPts < 0 /\ NoPts \in Int
<1>0. EncodeTypeOK /\ Times("audio") BY DEF Basics
<1>1. A \in Seq(Frame) /\ AF \in Filter /\ octx.start["audio"] \in Int /\ first["audio"] \in Int
      /\ muxed["audio"] \in Seq(Packet) /\ enc["audio"] \in Seq(Packet)
  BY <1>0, TypeFields DEF A, AF, Kinds
<1>2. AF.out \in Seq(Frame) BY <1>1, FilterFields
<1>3. AQ \in Seq(Packet) BY <1>1 DEF AQ
<1>4. \A i \in 1..Len(A) : A[i].n = i /\ A[i].pts >= 0 BY <1>0 DEF Times, A
<1>5. \A y \in Frame : y.pts \in Int BY DEF Frame
<1>6. \A i \in 1..Len(A) : A[i].pts \in Nat BY <1>1, <1>4, <1>5
<1>7. \A p \in Packet : p.n \in Nat BY DEF Packet
<1>8. \A i \in 1..Len(AQ) : AQ[i].n \in Nat BY <1>3, <1>7
<1> QED BY <1>1, <1>2, <1>3, <1>4, <1>6, <1>8, Constants

\* A call can only be a later one.
LEMMA FirstCallBefore == ASSUME EncodeTypeOK, [Next]_vars, FirstCall' PROVE FirstCall
<1>1. calls \in Nat BY DEF EncodeTypeOK
<1>2. cfg' = cfg /\ (calls' = calls \/ calls' = calls + 1)
  BY Undecoded DEF BeginCall, DecodeVideo, DecodeAudio, Decode
<1> QED BY <1>1, <1>2 DEF FirstCall

\* The frame of the audio that is read is the last one.
LEMMA AudioRead ==
  ASSUME Basics, AudioOut, Reads("audio")
  PROVE  /\ ~cur.flush /\ A # <<>> /\ Incoming = A[Len(A)] /\ Incoming.n = Len(A)
         /\ Incoming.pts \in Nat /\ Len(AF.out) = 1 /\ AF.out # <<>>
<1>1. AF.out # <<>> /\ Incoming = Head(AF.out) /\ Incoming.n # FlushFrame BY DEF Reads, AF, Incoming
<1>2. AF.out \in Seq(Frame) BY AudioFrames
<1>3. Incoming = AF.out[1] /\ 1 \in 1..Len(AF.out) BY <1>1, <1>2
<1>4. ~cur.flush BY <1>1, <1>3 DEF AudioOut
<1>5. A # <<>> /\ AF.out = <<A[Len(A)]>> BY <1>1, <1>4 DEF AudioOut
<1>6. Incoming = A[Len(A)] /\ Len(AF.out) = 1 BY <1>3, <1>5
<1>7. Len(A) \in 1..Len(A) BY <1>5, AudioFrames
<1> QED BY <1>1, <1>4, <1>5, <1>6, <1>7, AudioFrames

\* A frame of the audio is taken, and the start of the clip is set.
LEMMA AudioTaken ==
  ASSUME VideoInv, EncodeAudio \/ (SkipFrame /\ cur.kind = "audio")
  PROVE  /\ Reads("audio") /\ pc = "read" /\ AF'.out = Tail(AF.out)
         /\ AF'.closed = AF.closed /\ AF'.held = AF.held
         /\ UNCHANGED <<cfg, src, pc, cur, outcome, fed, sent, first, lost, upset, calls>>
         /\ octx'.start["audio"] = StartOf("audio") /\ octx'.clip_started = octx.clip_started
<1>0. EncodeTypeOK BY DEF VideoInv, Basics
<1>1. /\ Reads("audio") /\ Taken /\ pc = "read" /\ cur.kind = "audio" /\ filters["audio"].out # <<>>
      /\ UNCHANGED <<cfg, src, pc, cur, outcome, fed, sent, first, lost, upset, calls>>
      /\ octx' = [octx EXCEPT !.start["audio"] = StartOf("audio")]
  BY DEF EncodeAudio, SkipFrame, Reads
<1>2. AF'.out = Tail(AF.out) /\ AF'.closed = AF.closed /\ AF'.held = AF.held
  BY <1>0, <1>1, TakenFields DEF Taken, AF
<1>3. StartOf("audio") \in Int /\ "audio" \in Kinds
  <2>1. Incoming.pts \in Int BY <1>0, <1>1, IncomingFrame
  <2> QED BY <1>0, <2>1, TypeFields DEF StartOf, Kinds
<1>4. octx'.start["audio"] = StartOf("audio") /\ octx'.clip_started = octx.clip_started
  BY <1>0, <1>1, <1>3, StartInContext
<1> QED BY <1>1, <1>2, <1>4

\* A frame of the audio is decoded.
LEMMA AudioDecoded ==
  ASSUME VideoInv, DecodeAudio
  PROVE  /\ pc = "decode" /\ pc' = "read" /\ ~cur'.flush /\ cur'.kind = "audio" /\ AF.out = <<>> /\ ~AudioFlush
         /\ UNCHANGED <<cfg, enc, octx, outcome, sent, muxed, lost, upset, calls>>
         /\ AF'.closed = AF.closed /\ AF'.held = AF.held
         /\ \E x \in Frame :
              /\ A' = Append(A, x) /\ Len(A') = Len(A) + 1 /\ A'[Len(A) + 1] = x /\ A' # <<>>
              /\ \A i \in 1..Len(A) : A'[i] = A[i]
              /\ first'["audio"] = IF first["audio"] = NoPts THEN x.pts ELSE first["audio"]
              /\ ~AF.closed => AF'.out = <<x>>
<1>0. EncodeTypeOK /\ Control /\ Times("audio") /\ Basics BY DEF VideoInv, Basics
<1>1. /\ pc = "decode" /\ pc' = "read" /\ cur' = [kind |-> "audio", flush |-> FALSE]
      /\ UNCHANGED <<cfg, enc, octx, outcome, sent, muxed, lost, upset, calls>>
  BY DEF DecodeAudio, Decode
<1>2. AF.out = <<>> /\ AF.active /\ ~AudioFlush BY <1>0, <1>1 DEF Control, AudioFlush
<1>3. "audio" \in Kinds BY DEF Kinds
<1>4. PICK raw, x, f : Decodes("audio", raw, x, f) BY <1>0, <1>3, DecodeFields DEF DecodeAudio
<1>5. /\ x \in Frame /\ f = AF /\ filters'["audio"] = IF f.closed THEN f ELSE Written(f, "audio", x)
  BY <1>2, <1>4 DEF Decodes, AF
<1>6. A' = Append(A, x) /\ first'["audio"] = IF first["audio"] = NoPts THEN x.pts ELSE first["audio"]
  BY <1>0, <1>1, <1>3, <1>4, DecodeTimes DEF A
<1>7. A \in Seq(Frame) /\ AF \in Filter BY <1>0, AudioFrames
<1>8. Len(A') = Len(A) + 1 /\ A'[Len(A) + 1] = x /\ A' # <<>> /\ \A i \in 1..Len(A) : A'[i] = A[i]
  BY <1>5, <1>6, <1>7
<1>9. CASE AF.closed BY <1>1, <1>2, <1>5, <1>6, <1>8, <1>9 DEF AF
<1>10. CASE ~AF.closed
  <2> DEFINE g == Written(AF, "audio", x)
  <2>1. g.closed = AF.closed /\ g.held = AF.held /\ g.out = Append(AF.out, x)
    BY <1>0, <1>5, <1>7, WrittenFields, TypeFields
  <2>2. AF' = g BY <1>5, <1>10 DEF AF
  <2> HIDE DEF g
  <2>3. AF'.out = <<x>> BY <1>2, <1>5, <2>1, <2>2
  <2> QED BY <1>1, <1>2, <1>5, <1>6, <1>8, <2>1, <2>2, <2>3
<1> QED BY <1>9, <1>10

\* What the flush does to the filter of the audio.
LEMMA AudioFlushed ==
  ASSUME VideoInv, AudioOpen, AudioIsFlushed
  PROVE  /\ pc = "flush" /\ pc' = "read" /\ AF.out = <<>> /\ cur.flush /\ AudioFlush'
         /\ UNCHANGED <<cfg, src, enc, octx, cur, outcome, fed, sent, muxed, first, lost, upset, calls>>
         /\ AF'.held = NoFrame
         /\ sent = <<>> => AF'.closed = AF.closed
         /\ \A i \in 1..Len(AF'.out) : AF'.out[i].n = FlushFrame
<1>0. EncodeTypeOK /\ Control /\ Basics BY DEF VideoInv, Basics
<1>1. /\ pc = "flush" /\ cur.kind = "audio" /\ cur.flush /\ pc' = "read"
      /\ UNCHANGED <<cfg, src, enc, octx, cur, outcome, fed, sent, muxed, first, lost, upset, calls>>
      /\ AF' = IF AF.closed \/ AF.flushed THEN AF ELSE Flushed(AF, "audio")
  BY DEF AudioIsFlushed, AF
<1>2. AF.out = <<>> /\ AudioFlush' BY <1>0, <1>1 DEF Control, AudioFlush
<1>3. AF \in Filter /\ AF.held = NoFrame /\ octx.frames = Len(sent) /\ Len(sent) \in Nat
  BY <1>0, AudioFrames, VideoFrames DEF AudioOpen
<1>4. ASSUME AF' = AF PROVE AF'.held = NoFrame /\ AF'.closed = AF.closed /\ Len(AF'.out) = 0
  BY <1>2, <1>3, <1>4
<1> DEFINE g == Flushed(AF, "audio")
           y == [n |-> FlushFrame, pts |-> AF.custom + Dur]
           t == Ticks(AF.custom + Dur)
<1>5. /\ octx.frames > 0 => g.held = NoFrame /\ g.out = AF.out \o Repeated(AF, t)
      /\ octx.frames = 0 => g.closed = AF.closed /\ g.out = Append(AF.out, y)
  BY <1>0, <1>3, FlushedFields
<1>6. octx.frames = 0 => g.held = NoFrame
  <2> SUFFICES ASSUME octx.frames = 0 PROVE g.held = NoFrame OBVIOUS
  <2> DEFINE c == [AF EXCEPT !.flushing = TRUE]
  <2>1. c \in Filter /\ c.held = NoFrame BY <1>3 DEF Filter
  <2>2. g = Written(c, "audio", y)
    <3>1. ~(octx.frames > 0) /\ "audio" # "video" OBVIOUS
    <3> QED BY <3>1, Zenon DEF Flushed
  <2>3. y \in Frame
    <3>1. AF.custom + Dur \in Int BY <1>3, FilterFields, Constants
    <3> QED BY <3>1 DEF Frame, FlushFrame
  <2> HIDE DEF c, y, g
  <2>4. Written(c, "audio", y).held = c.held BY <1>0, <2>1, <2>3, WrittenFields, TypeFields
  <2> QED BY <2>1, <2>2, <2>4
<1>7. Len(Repeated(AF, t)) = 0
  <2>1. AF.custom + Dur \in Int BY <1>3, FilterFields, Constants
  <2>2. t \in Int BY <2>1, TicksBounds
  <2> QED BY <1>3, <2>2, RepeatedFrames
<1>8. \A i \in 1..Len(g.out) : g.out[i].n = FlushFrame
  <2>1. CASE octx.frames > 0
    <3>1. g.out = <<>> \o Repeated(AF, t) BY <1>2, <1>5, <2>1
    <3>2. Repeated(AF, t) \in Seq(Frame)
      <4>1. AF.custom + Dur \in Int BY <1>3, FilterFields, Constants
      <4>2. t \in Int BY <4>1, TicksBounds
      <4> QED BY <1>3, <4>2, RepeatedFrames
    <3> HIDE DEF g, t
    <3>3. Len(g.out) = 0 BY <1>7, <3>1, <3>2
    <3> QED BY <3>3
  <2>2. CASE octx.frames = 0
    <3>1. g.out = <<y>> BY <1>2, <1>5, <2>2
    <3>2. Len(g.out) = 1 /\ g.out[1] = y BY <3>1
    <3> QED BY <3>2
  <2> QED BY <1>3, <2>1, <2>2
<1>9. sent = <<>> => octx.frames = 0 BY <1>3
<1> HIDE DEF g
<1>10. octx.frames > 0 \/ octx.frames = 0 BY <1>3
<1>11. CASE AF' = g BY <1>1, <1>2, <1>5, <1>6, <1>8, <1>9, <1>10, <1>11
<1>12. CASE AF' = AF BY <1>1, <1>2, <1>4, <1>12
<1> QED BY <1>1, <1>11, <1>12 DEF g

\* The frame of the flush is read.
LEMMA AudioFlushRead ==
  ASSUME VideoInv, ReadFlushFrame, cur.kind = "audio"
  PROVE  /\ pc = "read" /\ AF.out # <<>> /\ Head(AF.out).n = FlushFrame
         /\ AF'.out = Tail(AF.out) /\ AF'.closed = AF.closed /\ AF'.held = AF.held
         /\ UNCHANGED <<cfg, src, enc, octx, pc, cur, outcome, fed, sent, muxed, first, lost, upset, calls>>
<1>0. EncodeTypeOK BY DEF VideoInv, Basics
<1>1. /\ pc = "read" /\ AF.out # <<>> /\ Head(AF.out).n = FlushFrame
      /\ UNCHANGED <<cfg, src, enc, octx, pc, cur, outcome, fed, sent, muxed, first, lost, upset, calls>>
  BY DEF ReadFlushFrame, AF, Incoming
<1>2. AF'.out = Tail(AF.out) /\ AF'.closed = AF.closed /\ AF'.held = AF.held
  BY <1>0, ReadFlushFrameFields DEF AF
<1> QED BY <1>1, <1>2

AudioFine == AudioStart /\ AudioOut /\ AudioNumbers /\ AudioClip

\* A part of the audio at the front of it.
Front(q, p) == Len(q) \in Nat /\ Len(q) <= Len(p) /\ \A i \in 1..Len(q) : q[i] = p[i]

LEMMA FrontOfBoth == ASSUME NEW S, NEW a \in Seq(S), NEW b \in Seq(S) PROVE Front(a, a \o b)
BY DEF Front

LEMMA AudioFacts ==
  ASSUME VideoInv
  PROVE  /\ pc # "idle" => calls # 0 /\ outcome = "none"
         /\ calls \in Nat
         /\ ~cfg.video => sent = <<>>
         /\ ~(pc = "read" /\ cur.kind = "audio") => AF.out = <<>>
BY DEF VideoInv, Basics, Control, EncodeTypeOK

LEMMA FineKept ==
  ASSUME VideoInv, VideoInv', AudioFine, AudioKept PROVE AudioFine'
<1>1. /\ UNCHANGED <<cfg, A, first["audio"], octx.start["audio"], calls, AF, AQ>>
      /\ sent # <<>> => sent' # <<>>
      /\ octx'.clip_started => octx.clip_started \/ sent' # <<>>
      /\ pc # "idle" /\ pc' # "idle" /\ AF'.out = AF.out /\ AF'.closed = AF.closed
      /\ AF.out # <<>> => cur'.flush = cur.flush
      /\ AudioFlush => AudioFlush'
  BY DEF AudioKept, A, AF, AQ
<1>2. calls # 0 /\ outcome' = "none" /\ (~cfg.video => sent' = <<>>)
  BY <1>1, AudioFacts DEF VideoInv, Basics, Control
<1>3. AudioStart' BY <1>1, <1>2 DEF AudioFine, AudioStart
<1>4. AudioOut' BY <1>1 DEF AudioFine, AudioOut
<1>5. Unread' = Unread BY <1>1 DEF Unread
<1>6. AudioNumbers' BY <1>1, <1>2, <1>5 DEF AudioFine, AudioNumbers
<1>7. \A t : InClip("audio", t)' <=> InClip("audio", t) BY <1>1 DEF InClip, Filtered, From, To
<1>8. AudioClip'
  <2>1. Late /\ sent' = <<>> => AQ' = <<>> BY <1>1 DEF AudioFine, AudioClip
  <2>2. cfg.video => \A i \in 1..Len(AQ') : AQ'[i].n \in 1..Len(A') /\ InClip("audio", A[AQ[i].n].pts)'
    BY <1>1, <1>7 DEF AudioFine, AudioClip
  <2> QED BY <1>1, <2>1, <2>2, LateStays DEF AudioFine, AudioClip
<1> QED BY <1>3, <1>4, <1>6, <1>8 DEF AudioFine

LEMMA FrontOfAudio ==
  ASSUME VideoInv, Front(AQ', AQ), UNCHANGED <<cfg, A, first["audio"]>>, AudioFine
  PROVE  /\ cfg.from = 0 /\ cfg.to = 0 => \A i \in 1..Len(AQ') : AQ'[i].n = i
         /\ Late /\ sent = <<>> => Len(AQ') = 0
         /\ cfg.video => \A i \in 1..Len(AQ') : AQ'[i].n \in 1..Len(A') /\ InClip("audio", A[AQ[i].n].pts)'
<1>1. \A t : InClip("audio", t)' <=> InClip("audio", t) BY DEF InClip, Filtered, From, To
<1>2. Len(AQ) \in Nat BY AudioFrames DEF VideoInv
<1>3. Len(AQ') \in Nat /\ \A i \in 1..Len(AQ') : i \in 1..Len(AQ) /\ AQ'[i] = AQ[i] BY <1>2 DEF Front
<1>4. Late /\ sent = <<>> => Len(AQ') = 0
  <2>1. Late /\ sent = <<>> => Len(AQ) = 0 BY DEF AudioFine, AudioClip
  <2> QED BY <1>2, <2>1 DEF Front
<1>5. cfg.from = 0 /\ cfg.to = 0 => \A i \in 1..Len(AQ) : AQ[i].n = i BY DEF AudioFine, AudioNumbers
<1>6. cfg.video => \A i \in 1..Len(AQ) : AQ[i].n \in 1..Len(A) /\ InClip("audio", A[AQ[i].n].pts)
  BY DEF AudioFine, AudioClip
<1> QED BY <1>1, <1>3, <1>4, <1>5, <1>6

LEMMA FineEnds ==
  ASSUME VideoInv, VideoInv', AudioFine, AudioEnds PROVE AudioFine'
<1>1. /\ UNCHANGED <<cfg, A, first["audio"], octx.start["audio"], calls, sent>>
      /\ octx'.clip_started => octx.clip_started \/ sent # <<>>
      /\ pc # "idle" /\ pc' = "idle"
      /\ AF.out = <<>> /\ AF'.out = <<>> /\ AF'.closed = AF.closed
      /\ AQ' \in {AQ, muxed["audio"]}
      /\ outcome' = "done" /\ ~lost' /\ cfg.from = 0 => AQ' = AQ \/ A = <<>>
  BY DEF AudioEnds, A
<1>2. calls # 0 /\ (~cfg.video => sent = <<>>) BY <1>1, AudioFacts
<1>3. AudioStart'
  <2>1. octx'.clip_started => octx.clip_started \/ sent' # <<>> BY <1>1
  <2> QED BY <1>1, <1>2, <2>1 DEF AudioFine, AudioStart
<1>4. AudioOut' BY <1>1 DEF AudioOut
<1>5. AQ \in Seq(Packet) /\ muxed["audio"] \in Seq(Packet) /\ enc["audio"] \in Seq(Packet)
      /\ Len(AQ) \in Nat /\ (A # <<>> <=> Len(A) >= 1) /\ Len(A) \in Nat /\ AQ' \in Seq(Packet)
      /\ Len(AQ') \in Nat
  <2>1. /\ AQ \in Seq(Packet) /\ muxed["audio"] \in Seq(Packet) /\ enc["audio"] \in Seq(Packet)
        /\ Len(AQ) \in Nat /\ (A # <<>> <=> Len(A) >= 1) /\ Len(A) \in Nat
    BY AudioFrames DEF VideoInv
  <2>2. AQ' \in Seq(Packet) BY <1>1, <2>1
  <2> QED BY <2>1, <2>2
<1>6. Front(AQ', AQ)
  <2>1. CASE AQ' = AQ BY <1>5, <2>1 DEF Front
  <2>2. CASE AQ' = muxed["audio"]
    <3>1. Front(muxed["audio"], AQ) BY <1>5, FrontOfBoth DEF AQ
    <3> QED BY <2>2, <3>1
  <2> QED BY <1>1, <2>1, <2>2
<1>7. /\ cfg.from = 0 /\ cfg.to = 0 => \A i \in 1..Len(AQ') : AQ'[i].n = i
      /\ Late /\ sent = <<>> => Len(AQ') = 0
      /\ cfg.video => \A i \in 1..Len(AQ') : AQ'[i].n \in 1..Len(A') /\ InClip("audio", A[AQ[i].n].pts)'
  BY <1>1, <1>6, FrontOfAudio
<1>8. AudioNumbers'
  <2>1. Unread = 0 BY <1>1 DEF Unread
  <2>2. cfg.from = 0 /\ cfg.to = 0 => Len(AQ) = Len(A)
    <3>1. cfg.from = 0 /\ cfg.to = 0 => Len(AQ) + Unread = Len(A) BY <1>1 DEF AudioFine, AudioNumbers
    <3> QED BY <1>5, <2>1, <3>1
  <2>3. cfg.from = 0 /\ cfg.to = 0 /\ outcome' = "done" /\ ~lost' => Len(AQ') = Len(A')
    <3> SUFFICES ASSUME cfg.from = 0, cfg.to = 0, outcome' = "done", ~lost' PROVE Len(AQ') = Len(A') OBVIOUS
    <3>1. CASE AQ' = AQ
      <4>1. Len(AQ') = Len(AQ) /\ A' = A BY <1>1, <3>1
      <4> QED BY <2>2, <4>1
    <3>2. CASE A = <<>>
      <4>1. Len(A) = 0 /\ A' = A BY <1>1, <1>5, <3>2
      <4>2. Len(AQ') <= Len(AQ) BY <1>6 DEF Front
      <4> QED BY <1>5, <2>2, <4>1, <4>2
    <3> QED BY <1>1, <3>1, <3>2
  <2> QED BY <1>1, <1>7, <2>3 DEF AudioNumbers
<1>9. AudioClip'
  <2>1. Late /\ sent' = <<>> => AQ' = <<>> BY <1>1, <1>5, <1>7
  <2>2. cfg.video => /\ first["audio"] = IF A = <<>> THEN NoPts ELSE A[1].pts
                     /\ octx.start["audio"] # NoPts => A # <<>> /\ octx.start["audio"] = first["audio"]
                     /\ ~(octx.start["audio"] = NoPts /\ A # <<>>)
    BY <1>1 DEF AudioFine, AudioClip
  <2> QED BY <1>1, <1>7, <2>1, <2>2, LateStays DEF AudioClip
<1> QED BY <1>3, <1>4, <1>8, <1>9 DEF AudioFine

LEMMA FineBegun ==
  ASSUME VideoInv, VideoInv', AudioOpen, AudioFine, BeginCall, FirstCall' PROVE AudioFine'
<1>1. /\ pc = "idle" /\ pc' = "decode" /\ calls' = calls + 1 /\ cfg' = cfg
      /\ octx' = StreamAdded(octx) /\ sent' = <<>> /\ fed' = Both(<<>>) /\ muxed' = Both(<<>>)
      /\ outcome' = "none" /\ first' = first /\ enc' = enc
      /\ filters' = [filters EXCEPT !["video"] = Fresh(~cfg.hw \/ calls = 0)]
  BY DEF BeginCall
<1>2. EncodeTypeOK BY DEF VideoInv, Basics
<1>3. AF' = AF /\ AF.out = <<>>
  <2>1. filters \in [Kinds -> Filter] BY <1>2 DEF EncodeTypeOK
  <2>2. AF' = AF BY <1>1, <2>1 DEF AF, Kinds
  <2>3. AF.out = <<>> BY <1>1, AudioFacts
  <2> QED BY <2>2, <2>3
<1>4. octx'.clip_started = octx.clip_started /\ octx'.start = octx.start
  BY <1>1, <1>2, Zenon DEF StreamAdded, EncodeTypeOK, OutputCtx
<1>5. AQ' = <<>> /\ A' = <<>>
  <2>1. enc["audio"] = <<>> BY <1>1 DEF AudioOpen
  <2>2. muxed'["audio"] = <<>> /\ A' = <<>> BY <1>1 DEF Both, Kinds, A
  <2>3. AQ' = <<>> \o <<>> BY <1>1, <2>1, <2>2 DEF AQ
  <2> QED BY <2>2, <2>3
<1>6. calls \in Nat /\ (calls = 0 \/ ~cfg.video) /\ calls' # 0
  <2>1. calls \in Nat BY AudioFacts
  <2> QED BY <1>1, <2>1 DEF FirstCall
<1>7. ~AF.closed /\ ~octx.clip_started /\ (calls = 0 => octx.start["audio"] = NoPts /\ first["audio"] = NoPts)
  BY <1>6 DEF AudioFine, AudioStart
<1>8. AudioStart' BY <1>1, <1>3, <1>4, <1>6, <1>7 DEF AudioStart
<1>9. AudioOut' BY <1>3 DEF AudioOut
<1>10. Unread' = 0 /\ Len(AQ') = 0 /\ Len(A') = 0 BY <1>3, <1>5 DEF Unread
<1>11. AudioNumbers' BY <1>1, <1>10 DEF AudioNumbers
<1>12. AudioClip' BY <1>1, <1>4, <1>5, <1>6, <1>7, <1>10 DEF AudioClip
<1> QED BY <1>8, <1>9, <1>11, <1>12 DEF AudioFine

LEMMA FineDecoded ==
  ASSUME VideoInv, VideoInv', AudioFine, DecodeAudio PROVE AudioFine'
<1>1. /\ pc = "decode" /\ pc' = "read" /\ ~cur'.flush /\ cur'.kind = "audio" /\ AF.out = <<>> /\ ~AudioFlush
      /\ UNCHANGED <<cfg, enc, octx, outcome, sent, muxed, lost, upset, calls>>
      /\ AF'.closed = AF.closed
  BY AudioDecoded
<1>2. PICK x \in Frame :
        /\ A' = Append(A, x) /\ Len(A') = Len(A) + 1 /\ A'[Len(A) + 1] = x /\ A' # <<>>
        /\ \A i \in 1..Len(A) : A'[i] = A[i]
        /\ first'["audio"] = IF first["audio"] = NoPts THEN x.pts ELSE first["audio"]
        /\ ~AF.closed => AF'.out = <<x>>
  BY AudioDecoded
<1>3. calls # 0 /\ outcome' = "none" BY <1>1, AudioFacts
<1>4. ~AF.closed BY <1>1 DEF AudioFine, AudioStart
<1>5. AF'.out = <<x>> /\ AF'.out # <<>> BY <1>2, <1>4
<1>6. /\ Len(A) \in Nat /\ (A # <<>> <=> Len(A) >= 1) /\ Len(AQ) \in Nat
      /\ \A i \in 1..Len(A) : A[i].pts \in Nat
      /\ NoPts < 0 /\ NoPts \in Int
  BY AudioFrames DEF VideoInv
<1>7. AudioStart' BY <1>1, <1>3, <1>4 DEF AudioFine, AudioStart
<1>8. AudioOut' BY <1>1, <1>2, <1>5 DEF AudioOut
<1>9. AQ' = AQ /\ Unread = 0 /\ Unread' = 1 BY <1>1, <1>5 DEF AQ, Unread
<1>10. AudioNumbers'
  <2>1. cfg.from = 0 /\ cfg.to = 0 => Len(AQ) + Unread = Len(A) /\ \A i \in 1..Len(AQ) : AQ[i].n = i
    BY <1>1 DEF AudioFine, AudioNumbers
  <2>2. cfg.from = 0 /\ cfg.to = 0 => Len(AQ) + 1 = Len(A) + 1
    BY <2>1, <1>6, <1>9
  <2>3. cfg.from = 0 /\ cfg.to = 0 => Len(AQ') + Unread' = Len(A') BY <1>2, <1>9, <2>2
  <2> QED BY <1>1, <1>3, <1>9, <2>1, <2>3 DEF AudioNumbers
<1>11. AudioClip'
  <2>1. Late /\ sent' = <<>> => AQ' = <<>> BY <1>1, <1>9 DEF AudioFine, AudioClip
  <2>2. ASSUME cfg.video
        PROVE  /\ first["audio"] = IF A = <<>> THEN NoPts ELSE A[1].pts
               /\ octx.start["audio"] # NoPts => A # <<>> /\ octx.start["audio"] = first["audio"]
               /\ ~(octx.start["audio"] = NoPts /\ A # <<>>)
               /\ \A i \in 1..Len(AQ) : AQ[i].n \in 1..Len(A) /\ InClip("audio", A[AQ[i].n].pts)
    BY <1>1, <2>2 DEF AudioFine, AudioClip
  <2>3. ASSUME A # <<>>, cfg.video PROVE first'["audio"] = first["audio"] /\ A'[1] = A[1]
    <3>1. 1 \in 1..Len(A) BY <1>6, <2>3
    <3>2. first["audio"] = A[1].pts /\ A[1].pts \in Nat BY <1>6, <2>2, <2>3, <3>1
    <3>3. first["audio"] # NoPts BY <1>6, <3>2
    <3> QED BY <1>2, <3>1, <3>3
  <2>4. ASSUME A = <<>>, cfg.video PROVE first'["audio"] = A'[1].pts /\ Len(A') = 1
    <3>1. Len(A) = 0 BY <1>6, <2>4
    <3>2. A'[1] = x /\ Len(A') = 1 BY <1>2, <3>1
    <3> QED BY <1>2, <2>2, <2>4, <3>2
  <2>5. cfg.video => first'["audio"] = IF A' = <<>> THEN NoPts ELSE A'[1].pts
    BY <1>2, <2>2, <2>3, <2>4
  <2>6. ASSUME cfg.video, octx'.start["audio"] # NoPts
        PROVE  A' # <<>> /\ octx'.start["audio"] = first'["audio"]
    BY <1>1, <1>2, <2>2, <2>3, <2>6
  <2>7. ASSUME cfg.video, octx'.start["audio"] = NoPts PROVE Len(A') = 1 /\ AF'.out # <<>> /\ ~cur'.flush
    <3>1. A = <<>> BY <1>1, <2>2, <2>7
    <3> QED BY <1>1, <1>5, <2>4, <2>7, <3>1
  <2>8. ASSUME cfg.video, NEW i \in 1..Len(AQ')
        PROVE  AQ'[i].n \in 1..Len(A') /\ InClip("audio", A[AQ[i].n].pts)'
    <3>1. i \in 1..Len(AQ) /\ AQ'[i] = AQ[i] BY <1>9
    <3>2. PICK n \in 1..Len(A) : n = AQ[i].n BY <2>2, <2>8, <3>1
    <3>3. InClip("audio", A[n].pts) BY <2>2, <2>8, <3>1, <3>2
    <3>4. A # <<>> BY <1>6, <3>2
    <3>5. first'["audio"] = first["audio"] BY <2>3, <2>8, <3>4
    <3>6. A'[n] = A[n] BY <1>2
    <3>7. InClip("audio", A[n].pts)' BY <1>1, <3>3, <3>5, <3>6 DEF InClip, Filtered, From, To
    <3>8. n \in 1..Len(A') BY <1>2, <1>6
    <3> QED BY <3>1, <3>2, <3>7, <3>8
  <2> QED BY <1>1, <2>1, <2>5, <2>6, <2>7, <2>8, LateStays DEF AudioClip
<1> QED BY <1>7, <1>8, <1>10, <1>11 DEF AudioFine

LEMMA FineFlushRead ==
  ASSUME VideoInv, VideoInv', AudioFine, ReadFlushFrame, cur.kind = "audio" PROVE AudioFine'
<1>1. /\ pc = "read" /\ AF.out # <<>> /\ Head(AF.out).n = FlushFrame
      /\ AF'.out = Tail(AF.out) /\ AF'.closed = AF.closed
      /\ UNCHANGED <<cfg, src, enc, octx, pc, cur, outcome, fed, sent, muxed, first, lost, upset, calls>>
  BY AudioFlushRead
<1>2. /\ AF.out \in Seq(Frame) /\ Len(A) \in Nat /\ (A # <<>> <=> Len(A) >= 1)
      /\ \A i \in 1..Len(A) : A[i].n = i
  BY AudioFrames DEF VideoInv
<1>3. cur.flush
  <2> SUFFICES ASSUME ~cur.flush PROVE FALSE OBVIOUS
  <2>1. A # <<>> /\ AF.out = <<A[Len(A)]>> BY <1>1 DEF AudioFine, AudioOut
  <2>2. Head(AF.out) = A[Len(A)] BY <2>1
  <2>3. Len(A) \in 1..Len(A) BY <1>2, <2>1
  <2>4. Head(AF.out).n = Len(A) BY <1>2, <2>2, <2>3
  <2> QED BY <1>1, <1>2, <2>1, <2>4 DEF FlushFrame
<1>4. \A i \in 1..Len(AF.out) : AF.out[i].n = FlushFrame BY <1>1, <1>3 DEF AudioFine, AudioOut
<1>5. \A i \in 1..Len(Tail(AF.out)) : Tail(AF.out)[i].n = FlushFrame BY <1>1, <1>2, <1>4
<1>6. A' = A /\ AQ' = AQ /\ Unread' = 0 /\ Unread = 0 /\ AudioFlush' = AudioFlush
  BY <1>1, <1>3 DEF A, AQ, Unread, AudioFlush
<1>7. AudioStart' BY <1>1, <1>6 DEF AudioFine, AudioStart
<1>8. AudioOut' BY <1>1, <1>3, <1>5 DEF AudioOut
<1>9. AudioNumbers' BY <1>1, <1>6 DEF AudioFine, AudioNumbers
<1>10. \A t : InClip("audio", t)' <=> InClip("audio", t) BY <1>1 DEF InClip, Filtered, From, To
<1>11. AudioClip' BY <1>1, <1>3, <1>6, <1>10, LateStays DEF AudioFine, AudioClip
<1> QED BY <1>7, <1>8, <1>9, <1>11 DEF AudioFine

LEMMA FineFlushed ==
  ASSUME VideoInv, VideoInv', AudioOpen, AudioFine, AudioIsFlushed PROVE AudioFine'
<1>1. /\ pc = "flush" /\ pc' = "read" /\ AF.out = <<>> /\ cur.flush /\ AudioFlush'
      /\ UNCHANGED <<cfg, src, enc, octx, cur, outcome, fed, sent, muxed, first, lost, upset, calls>>
      /\ sent = <<>> => AF'.closed = AF.closed
      /\ \A i \in 1..Len(AF'.out) : AF'.out[i].n = FlushFrame
  BY AudioFlushed
<1>2. A' = A /\ AQ' = AQ /\ Unread' = 0 /\ Unread = 0 BY <1>1 DEF A, AQ, Unread
<1>3. calls # 0 /\ outcome = "none" /\ (~cfg.video => sent = <<>>) BY <1>1, AudioFacts
<1>4. AudioStart' BY <1>1, <1>3 DEF AudioFine, AudioStart
<1>5. AudioOut' BY <1>1 DEF AudioOut
<1>6. AudioNumbers' BY <1>1, <1>2, <1>3 DEF AudioFine, AudioNumbers
<1>7. \A t : InClip("audio", t)' <=> InClip("audio", t) BY <1>1 DEF InClip, Filtered, From, To
<1>8. AudioClip' BY <1>1, <1>2, <1>7, LateStays DEF AudioFine, AudioClip
<1> QED BY <1>4, <1>5, <1>6, <1>8 DEF AudioFine

LEMMA TailOfOne == ASSUME NEW S, NEW q \in Seq(S), Len(q) = 1 PROVE Tail(q) = <<>>
<1>1. Tail(q) \in Seq(S) /\ Len(Tail(q)) = 0 OBVIOUS
<1>2. \A t \in Seq(S) : Len(t) = 0 => t = <<>> OBVIOUS
<1> QED BY <1>1, <1>2

\* A frame of the audio is read: the clip starts with the first one.
LEMMA AudioStarts ==
  ASSUME VideoInv, AudioFine, EncodeAudio \/ (SkipFrame /\ cur.kind = "audio")
  PROVE  /\ AF'.out = <<>> /\ AF'.closed = AF.closed /\ ~cur.flush /\ Unread = 1 /\ Unread' = 0
         /\ pc = "read" /\ A # <<>> /\ Incoming = A[Len(A)] /\ Incoming.n = Len(A) /\ Incoming.pts \in Nat
         /\ UNCHANGED <<cfg, src, pc, cur, outcome, A, sent, first, lost, upset, calls>>
         /\ octx'.clip_started = octx.clip_started
         /\ cfg.video => octx'.start["audio"] = first["audio"] /\ StartOf("audio") = first["audio"]
                         /\ octx'.start["audio"] # NoPts
         /\ outcome' = "none" /\ calls # 0
<1>1. /\ Reads("audio") /\ pc = "read" /\ AF'.out = Tail(AF.out) /\ AF'.closed = AF.closed
      /\ UNCHANGED <<cfg, src, pc, cur, outcome, fed, sent, first, lost, upset, calls>>
      /\ octx'.start["audio"] = StartOf("audio") /\ octx'.clip_started = octx.clip_started
  BY AudioTaken
<1>2. /\ ~cur.flush /\ A # <<>> /\ Incoming = A[Len(A)] /\ Incoming.n = Len(A)
      /\ Incoming.pts \in Nat /\ Len(AF.out) = 1 /\ AF.out # <<>>
  BY <1>1, AudioRead DEF AudioFine, VideoInv
<1>3. AF.out \in Seq(Frame) /\ NoPts < 0 /\ NoPts \in Int /\ Len(A) \in Nat
  BY AudioFrames DEF VideoInv
<1>4. AF'.out = <<>> BY <1>1, <1>2, <1>3, TailOfOne
<1>5. Unread = 1 /\ Unread' = 0 BY <1>2, <1>4 DEF Unread
<1>6. ASSUME cfg.video PROVE StartOf("audio") = first["audio"] /\ StartOf("audio") # NoPts
  <2>1. /\ first["audio"] = IF A = <<>> THEN NoPts ELSE A[1].pts
        /\ octx.start["audio"] # NoPts => octx.start["audio"] = first["audio"]
        /\ octx.start["audio"] = NoPts => Len(A) = 1
    BY <1>2, <1>6 DEF AudioFine, AudioClip
  <2>2. CASE octx.start["audio"] = NoPts
    <3>1. StartOf("audio") = Incoming.pts BY <2>2 DEF StartOf
    <3>2. Incoming = A[1] BY <1>2, <2>1, <2>2
    <3>3. Incoming.pts # NoPts BY <1>2, <1>3
    <3> QED BY <1>2, <2>1, <3>1, <3>2, <3>3
  <2>3. CASE octx.start["audio"] # NoPts
    <3>1. StartOf("audio") = octx.start["audio"] BY <2>3 DEF StartOf
    <3> QED BY <2>1, <2>3, <3>1
  <2> QED BY <2>2, <2>3
<1>7. calls # 0 /\ outcome = "none" BY <1>1, AudioFacts
<1>8. A' = A BY <1>1 DEF A
<1> QED BY <1>1, <1>2, <1>4, <1>5, <1>6, <1>7, <1>8

LEMMA FineSkipped ==
  ASSUME VideoInv, VideoInv', AudioFine, SkipFrame, cur.kind = "audio" PROVE AudioFine'
<1>1. /\ AF'.out = <<>> /\ AF'.closed = AF.closed /\ ~cur.flush
      /\ pc = "read" /\ A # <<>>
      /\ UNCHANGED <<cfg, src, pc, cur, outcome, A, sent, first, lost, upset, calls>>
      /\ octx'.clip_started = octx.clip_started
      /\ cfg.video => octx'.start["audio"] = first["audio"] /\ octx'.start["audio"] # NoPts
      /\ outcome' = "none" /\ calls # 0
  BY AudioStarts
<1>2. AQ' = AQ BY DEF SkipFrame, AQ
<1>3. ~(cfg.from = 0 /\ cfg.to = 0) BY LateFrom DEF SkipFrame, Clipped, AudioWaits, Late
<1>4. AudioStart' BY <1>1 DEF AudioFine, AudioStart, AudioFlush
<1>5. AudioOut' BY <1>1 DEF AudioOut
<1>6. AudioNumbers' BY <1>1, <1>3 DEF AudioNumbers
<1>7. \A t : InClip("audio", t)' <=> InClip("audio", t) BY <1>1 DEF InClip, Filtered, From, To
<1>8. AudioClip' BY <1>1, <1>2, <1>7, LateStays DEF AudioFine, AudioClip
<1> QED BY <1>4, <1>5, <1>6, <1>8 DEF AudioFine

LEMMA FineEncoded ==
  ASSUME VideoInv, VideoInv', AudioFine, EncodeAudio PROVE AudioFine'
<1>1. /\ AF'.out = <<>> /\ AF'.closed = AF.closed /\ ~cur.flush /\ Unread = 1 /\ Unread' = 0
      /\ pc = "read" /\ A # <<>> /\ Incoming = A[Len(A)] /\ Incoming.n = Len(A) /\ Incoming.pts \in Nat
      /\ UNCHANGED <<cfg, src, pc, cur, outcome, A, sent, first, lost, upset, calls>>
      /\ octx'.clip_started = octx.clip_started
      /\ cfg.video => octx'.start["audio"] = first["audio"] /\ StartOf("audio") = first["audio"]
                      /\ octx'.start["audio"] # NoPts
      /\ outcome' = "none" /\ calls # 0
  BY AudioStarts
<1>2. EncodeTypeOK /\ Len(A) \in Nat /\ Len(A) >= 1 /\ AQ \in Seq(Packet) /\ Len(AQ) \in Nat
  BY <1>1, AudioFrames DEF VideoInv, Basics
<1> DEFINE at == Shifted("audio")
           p == [n |-> Incoming.n, at |-> at, enc |-> at, pts |-> at, key |-> FALSE]
<1>3. AQ' = Append(AQ, p)
  <2>1. p \in Packet
    <3>1. cfg.from \in Int /\ octx.start["audio"] \in Int
      BY <1>2, AudioFrames, SessionFields, TypeFields DEF VideoInv
    <3>2. StartOf("audio") \in Int BY <1>1, <3>1 DEF StartOf
    <3>3. From("audio") \in Int BY <3>1 DEF From, Filtered
    <3>4. at \in Int BY <1>1, <3>2, <3>3 DEF Shifted
    <3> HIDE DEF at
    <3> QED BY <1>1, <1>2, <3>4 DEF Packet
  <2>2. Encoded("audio", p) BY DEF EncodeAudio
  <2> HIDE DEF p
  <2>3. muxed'["audio"] \o enc'["audio"] = Append(muxed["audio"] \o enc["audio"], p)
    BY <1>2, <2>1, <2>2, EncodedFields DEF Kinds
  <2> QED BY <2>3 DEF AQ
<1>4. p.n = Len(A) BY <1>1
<1> HIDE DEF p
<1>5. Len(AQ') = Len(AQ) + 1 /\ AQ'[Len(AQ) + 1].n = Len(A) /\ \A i \in 1..Len(AQ) : AQ'[i] = AQ[i]
  BY <1>2, <1>3, <1>4
<1>6. ~Clipped("audio") BY DEF EncodeAudio
<1>7. Late => sent # <<>> BY <1>6 DEF Clipped, AudioWaits, Late, AudioFine, AudioStart
<1>8. AudioStart' BY <1>1 DEF AudioFine, AudioStart, AudioFlush
<1>9. AudioOut' BY <1>1 DEF AudioOut
<1>10. AudioNumbers'
  <2> SUFFICES ASSUME cfg.from = 0, cfg.to = 0
               PROVE  Len(AQ') = Len(A) /\ \A i \in 1..Len(AQ') : AQ'[i].n = i
    BY <1>1, <1>2 DEF AudioNumbers
  <2>1. Len(AQ) + 1 = Len(A) /\ \A i \in 1..Len(AQ) : AQ[i].n = i BY <1>1 DEF AudioFine, AudioNumbers
  <2>2. ASSUME NEW i \in 1..Len(AQ') PROVE AQ'[i].n = i
    <3>1. i \in 1..Len(AQ) \/ i = Len(AQ) + 1 BY <1>2, <1>5, <2>2
    <3> QED BY <1>5, <2>1, <3>1
  <2> QED BY <1>5, <2>1, <2>2
<1>11. AudioClip'
  <2>1. Late => sent' # <<>> BY <1>1, <1>7
  <2>2. ASSUME cfg.video, NEW i \in 1..Len(AQ')
        PROVE  AQ'[i].n \in 1..Len(A') /\ InClip("audio", A[AQ[i].n].pts)'
    <3>1. PICK n \in 1..Len(A) : n = AQ'[i].n /\ InClip("audio", A[n].pts)
      <4>1. CASE i \in 1..Len(AQ)
        <5>1. AQ[i].n \in 1..Len(A) /\ InClip("audio", A[AQ[i].n].pts)
          BY <2>2, <4>1 DEF AudioFine, AudioClip
        <5> QED BY <1>5, <4>1, <5>1
      <4>2. CASE i = Len(AQ) + 1
        <5>1. AQ'[i].n = Len(A) /\ Len(A) \in 1..Len(A) BY <1>2, <1>5, <4>2
        <5>2. InClip("audio", Incoming.pts)
          <6>1. cfg.from \in Int /\ cfg.to \in Int /\ first["audio"] \in Int
            BY <1>2, AudioFrames, SessionFields, TypeFields DEF VideoInv
          <6>2. /\ cfg.to # 0 => ~(Incoming.pts > cfg.to + first["audio"])
                /\ cfg.from # 0 => ~(Incoming.pts < cfg.from + first["audio"])
            BY <1>1, <1>6, <2>2 DEF Clipped, From, To, Filtered
          <6>3. /\ cfg.to # 0 => Incoming.pts <= cfg.to + first["audio"]
                /\ cfg.from # 0 => Incoming.pts >= cfg.from + first["audio"]
            BY <1>1, <6>1, <6>2
          <6> QED BY <6>3 DEF InClip, From, To, Filtered
        <5> QED BY <1>1, <5>1, <5>2
      <4> QED BY <1>2, <1>5, <4>1, <4>2
    <3>2. InClip("audio", A[n].pts)' BY <1>1, <3>1 DEF InClip, Filtered, From, To
    <3> QED BY <1>1, <3>1, <3>2
  <2>3. cfg.video => /\ first'["audio"] = IF A' = <<>> THEN NoPts ELSE A'[1].pts
                     /\ A' # <<>> /\ octx'.start["audio"] = first'["audio"] /\ octx'.start["audio"] # NoPts
    BY <1>1 DEF AudioFine, AudioClip
  <2> QED BY <1>1, <2>1, <2>2, <2>3, LateStays DEF AudioClip
<1> QED BY <1>8, <1>9, <1>10, <1>11 DEF AudioFine

LEMMA AudioOpenNext == ASSUME VideoInv, VideoInv', AudioOpen, [Next]_vars PROVE AudioOpen'
<1>1. CASE BeginCall
  <2>1. pc' = "decode" /\ filters' = [filters EXCEPT !["video"] = Fresh(~cfg.hw \/ calls = 0)]
    BY <1>1 DEF BeginCall
  <2>2. filters \in [Kinds -> Filter] BY DEF VideoInv, Basics, EncodeTypeOK
  <2>3. AF' = AF BY <2>1, <2>2 DEF AF, Kinds
  <2> QED BY <2>1, <2>3 DEF AudioOpen
<1>2. CASE DecodeAudio BY <1>2, AudioDecoded DEF AudioOpen
<1>3. CASE EncodeAudio \/ (SkipFrame /\ cur.kind = "audio")
  <2>1. pc = "read" /\ pc' = pc /\ AF'.held = AF.held BY <1>3, AudioTaken
  <2> QED BY <2>1 DEF AudioOpen
<1>4. CASE ReadFlushFrame /\ cur.kind = "audio"
  <2>1. pc = "read" /\ pc' = pc /\ AF'.held = AF.held BY <1>4, AudioFlushRead
  <2> QED BY <2>1 DEF AudioOpen
<1>5. CASE AudioIsFlushed
  <2>1. pc' = "read" /\ AF'.held = NoFrame BY <1>5, AudioFlushed
  <2> QED BY <2>1 DEF AudioOpen
<1>6. CASE AudioEnds BY <1>6 DEF AudioEnds, AudioOpen, NoFrame
<1>7. CASE AudioKept
  <2>1. pc' # "idle" /\ AF'.held = AF.held BY <1>7 DEF AudioKept, AF
  <2> QED BY <2>1 DEF AudioOpen, NoFrame
<1>8. CASE UNCHANGED vars BY <1>8 DEF vars, AudioOpen, AF, NoFrame
<1> QED BY <1>1, <1>2, <1>3, <1>4, <1>5, <1>6, <1>7, <1>8, AudioSteps

LEMMA AudioNext == ASSUME VideoInv, VideoInv', AudioInv, [Next]_vars PROVE AudioInv'
<1>1. AudioOpen' BY AudioOpenNext DEF AudioInv
<1>2. ASSUME FirstCall' PROVE AudioFine'
  <2>1. FirstCall BY <1>2, FirstCallBefore DEF VideoInv, Basics
  <2>2. AudioOpen /\ AudioFine BY <2>1 DEF AudioInv, AudioFine
  <2>3. CASE UNCHANGED vars
    <3>1. UNCHANGED <<cfg, src, filters, enc, octx, pc, cur, outcome, fed, sent, muxed, first, lost, upset, calls>>
      BY <2>3 DEF vars
    <3>2. A' = A /\ AF' = AF /\ AQ' = AQ /\ Unread' = Unread /\ AudioFlush' = AudioFlush
      BY <3>1 DEF A, AF, AQ, Unread, AudioFlush
    <3>3. AudioStart' BY <2>2, <3>1, <3>2 DEF AudioFine, AudioStart
    <3>4. AudioOut' BY <2>2, <3>1, <3>2 DEF AudioFine, AudioOut
    <3>5. AudioNumbers' BY <2>2, <3>1, <3>2 DEF AudioFine, AudioNumbers
    <3>6. \A t : InClip("audio", t)' <=> InClip("audio", t) BY <3>1 DEF InClip, Filtered, From, To
    <3>7. AudioClip' BY <2>2, <3>1, <3>2, <3>6, LateStays DEF AudioFine, AudioClip
    <3> QED BY <3>3, <3>4, <3>5, <3>7 DEF AudioFine
  <2> QED BY <1>2, <2>2, <2>3, AudioSteps, FineBegun, FineDecoded, FineEncoded, FineSkipped, FineFlushRead,
             FineFlushed, FineEnds, FineKept
<1> QED BY <1>1, <1>2 DEF AudioInv, AudioFine

LEMMA AudioInit == Init => AudioInv
<1> SUFFICES ASSUME Init PROVE AudioInv OBVIOUS
<1>1. /\ AF.out = <<>> /\ AF.held = NoFrame /\ ~AF.closed /\ enc["audio"] = <<>> /\ muxed["audio"] = <<>>
      /\ A = <<>> /\ first["audio"] = NoPts /\ octx.start["audio"] = NoPts /\ ~octx.clip_started
      /\ pc = "idle" /\ outcome = "none"
  BY DEF Init, AF, A, Both, Kinds, Fresh
<1>2. AQ = <<>>
  <2>1. AQ = <<>> \o <<>> BY <1>1 DEF AQ
  <2> QED BY <2>1
<1>3. Len(AQ) = 0 BY <1>2
<1> QED BY <1>1, <1>2, <1>3 DEF AudioInv, AudioOpen, AudioStart, AudioOut, AudioNumbers, AudioClip

LEMMA AudioIsComplete == ASSUME VideoInv, AudioInv PROVE AudioComplete
<1> SUFFICES ASSUME FirstCall
             PROVE LET got == muxed["audio"]
                   IN /\ outcome = "done" /\ cfg.to = 0 /\ cfg.from = 0 /\ ~lost =>
                           [i \in DOMAIN got |-> got[i].n] = [i \in DOMAIN fed["audio"] |-> i]
                      /\ \A i \in DOMAIN got : InClip("audio", fed["audio"][got[i].n].pts)
                      /\ From("video") # 0 /\ sent = <<>> => got = <<>> /\ enc["audio"] = <<>>
  BY DEF AudioComplete, FirstCall
<1> DEFINE got == muxed["audio"]
<1>1. AudioOpen /\ AudioNumbers /\ AudioClip BY DEF AudioInv
<1>2. got \in Seq(Packet) /\ enc["audio"] \in Seq(Packet) /\ A \in Seq(Frame) /\ AQ \in Seq(Packet)
  BY AudioFrames DEF VideoInv
<1>3. outcome = "done" => pc = "idle" BY DEF VideoInv, Basics, Control
<1>4. ASSUME outcome = "done", cfg.to = 0, cfg.from = 0, ~lost
      PROVE  [i \in DOMAIN got |-> got[i].n] = [i \in DOMAIN A |-> i]
  <2>1. AQ = got
    <3>1. AQ = got \o <<>> BY <1>1, <1>3, <1>4 DEF AudioOpen, AQ
    <3> QED BY <1>2, <3>1, EmptyRight
  <2>2. Len(got) = Len(A) /\ \A i \in 1..Len(got) : got[i].n = i BY <1>1, <1>4, <2>1 DEF AudioNumbers
  <2>3. DOMAIN got = 1..Len(got) /\ DOMAIN A = 1..Len(A) BY <1>2
  <2> HIDE DEF got
  <2> QED BY <2>2, <2>3
<1>5. Front(got, AQ) BY <1>2, FrontOfBoth DEF AQ
<1>6. ASSUME NEW i \in DOMAIN got PROVE InClip("audio", A[got[i].n].pts)
  <2>1. CASE cfg.video
    <3>1. DOMAIN got = 1..Len(got) /\ Len(AQ) \in Nat BY <1>2
    <3>2. i \in 1..Len(AQ) /\ got[i] = AQ[i] BY <1>5, <3>1 DEF Front
    <3> QED BY <1>1, <2>1, <3>2 DEF AudioClip
  <2>2. CASE ~cfg.video
    <3>1. cfg.from = 0 /\ cfg.to = 0 BY <2>2, SessionFields, TypeFields DEF VideoInv, Basics
    <3> QED BY <3>1 DEF InClip
  <2> QED BY <2>1, <2>2
<1>7. ASSUME From("video") # 0, sent = <<>> PROVE got = <<>> /\ enc["audio"] = <<>>
  <2>1. got \o enc["audio"] = <<>> BY <1>1, <1>7 DEF AudioClip, AQ, Late
  <2> HIDE DEF got
  <2> QED BY <1>2, <2>1
<1> QED BY <1>4, <1>6, <1>7 DEF A

\* The muxer gets all audio of a segment, in order, and in a clip only audio of
\* the clip and, if From is not 0 in ticks of the video, none before its first frame
\* of the video; where video is encoded too this is the first segment of the session.
THEOREM AudioDelivered == Spec => []AudioComplete
<1>1. Init => VideoInv /\ AudioInv BY VideoInvInit, AudioInit
<1>2. VideoInv /\ AudioInv /\ [Next]_vars => (VideoInv /\ AudioInv)' BY VideoInvNext, AudioNext
<1>3. VideoInv /\ AudioInv => AudioComplete BY AudioIsComplete
<1> QED BY <1>1, <1>2, <1>3, PTL DEF Spec
=============================================================================
