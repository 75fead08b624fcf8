---------------------------- MODULE TransmuxClock ----------------------------
(* A transmuxed session: its packets are copied, not transcoded, into one    *)
(* output that stays open over all segments.  The loop of transcode keeps a  *)
(* clock per input stream, which continues over the segments and is set      *)
(* anew by the first packet after lpms_transcode_discontinuity, and hands    *)
(* what it does not skip to mux, which converts it to the time base of the   *)
(* output's stream first.  The clock is in the time base of the input, which *)
(* is that of all segments.  Times are 64 bits wide, and AV_NOPTS_VALUE the  *)
(* smallest.                                                                 *)
EXTENDS MuxTimestamps

CONSTANTS Clocked,     \* streams of an index below MAX_OUTPUT_SIZE
          Bases,       \* ticks of each stream of an output per tick of the input
          Starts,      \* DTS at which a stream of a segment may begin
          Durations,   \* durations of packets, 0 if the demuxer knows none
          Delays,      \* PTS minus DTS of packets
          Unknown,     \* which times of a packet the demuxer may not know
          MaxSegments, \* bound on the segments of a session
          MaxPackets   \* bounds on the packets of each stream in a segment

ASSUME ClockAssumption ==
  /\ Clocked \subseteq Streams
  /\ Bases \subseteq [Streams -> [num : Nat \ {0}, den : Nat \ {0}]]
  /\ Unknown \subseteq SUBSET {"pts", "dts"}
  /\ Starts \subseteq Int
  /\ Durations \subseteq Nat /\ Delays \subseteq Nat
  /\ MaxSegments \in Nat /\ MaxPackets \in [Streams -> Nat]

VARIABLES
  base,     \* the time bases the muxer chose when it was opened
  clock,    \* per stream last_dts, last_duration, dts_diff, discontinuity
  source,   \* per stream the DTS its next packet has, and those left to read
  segments, \* number of segments begun
  inOrder,  \* clocked streams whose segment follows the one before, or was
            \* announced, and whose times were all known and fitted so far
  skipped   \* streams of the segment that lost a packet

clockVars == <<muxVars, base, clock, source, segments, inOrder, skipped>>

Clock == [last_dts : Int, last_duration : Nat, dts_diff : Int, discontinuity : BOOLEAN]

ClockTypeOK ==
  /\ MuxTypeOK
  /\ base \in Bases
  /\ clock \in [Streams -> Clock]
  /\ source \in [Streams -> [dts : Int, left : Nat]]
  /\ segments \in 0..MaxSegments
  /\ inOrder \subseteq Clocked /\ skipped \subseteq Streams

Idle == \A s \in Streams : source[s].left = 0

\* lpms_transcode_discontinuity, between two calls of Transcode: marks every
\* clocked stream.
Discontinuity ==
  /\ Idle
  /\ clock' = [s \in Streams |-> [clock[s] EXCEPT !.discontinuity = s \in Clocked]]
  /\ UNCHANGED <<muxVars, base, source, segments, inOrder, skipped>>

Lengths == {length \in [Streams -> UNION {0..MaxPackets[s] : s \in Streams}] :
              \A s \in Streams : length[s] <= MaxPackets[s]}

\* A call of Transcode for the next segment; its streams may have any length.
Segment ==
  /\ Idle
  /\ segments < MaxSegments
  /\ segments' = segments + 1
  /\ \E start \in [Streams -> Starts], length \in Lengths :
       /\ source' = [s \in Streams |-> [dts |-> start[s], left |-> length[s]]]
       /\ inOrder' = {s \in Clocked : \/ clock[s].discontinuity
                                      \/ start[s] + clock[s].dts_diff > clock[s].last_dts}
  /\ skipped' = {}
  /\ UNCHANGED <<muxVars, base, clock>>

\* A sum of 64 bits, in two's complement.
Wrapped(t) == ((t - NoPts) % (-2 * NoPts)) + NoPts

\* Mutant: the duration of the last packet is left out.
DiffWithoutDuration(c, dts) ==
  IF c.discontinuity THEN Wrapped(c.last_dts - dts) ELSE c.dts_diff

\* The clock of a stream, set by its first packet after a discontinuity.
Diff(c, dts) ==
  IF c.discontinuity THEN Wrapped(c.last_dts + c.last_duration - dts) ELSE c.dts_diff

\* Do the clock of a packet and the times it is copied with fit?
Fits(c, p) ==
  LET diff == IF c.discontinuity THEN c.last_dts + c.last_duration - p.dts ELSE c.dts_diff
  IN  \A t \in {diff, p.pts + diff, p.dts + diff} : NoPts < t /\ t < -NoPts

\* Mutants: only a repeated DTS is stale, only an earlier one is.
StaleRepeated(c, dts) == c.last_dts > -1 /\ dts = c.last_dts
StaleEarlier(c, dts) == c.last_dts > -1 /\ dts < c.last_dts

\* A packet that is not after the last one, once a DTS is known.
Stale(c, dts) == c.last_dts > -1 /\ dts <= c.last_dts

\* av_rescale_q: to the nearest tick, halves away from zero, and to the
\* unknown time if the result does not fit.
Ticks(t, b) == (2 * t * b.num + b.den) \div (2 * b.den)
Rescale(t, b) ==
  LET n == Ticks(IF t < 0 THEN -t ELSE t, b)
  IN  IF n >= -NoPts THEN NoPts ELSE IF t < 0 THEN -n ELSE n

\* mux converts the times a packet knows.
Rescaled(s, p) ==
  LET Time(t) == IF t = NoPts THEN t ELSE Rescale(t, base[s])
  IN  [pts |-> Time(p.pts), dts |-> Time(p.dts)]

\* The copy of a packet for the output: one without a PTS is taken for the end
\* of the input.
Copy(s, p) ==
  IF p.pts = NoPts
  THEN /\ skipped' = skipped \cup {s}
       /\ UNCHANGED muxVars
  ELSE /\ Mux(s, Rescaled(s, p))
       /\ UNCHANGED skipped

\* Packet p of a clocked stream is shifted by the clock, and copied unless it
\* is not after the last one.
Clocking(s, p, duration) ==
  LET c == clock[s]
      diff == Diff(c, p.dts)
      q == [pts |-> Wrapped(p.pts + diff), dts |-> Wrapped(p.dts + diff)]
      shifted == [c EXCEPT !.dts_diff = diff, !.discontinuity = FALSE]
      moved == [shifted EXCEPT !.last_dts = q.dts,
                               !.last_duration = IF duration # 0 THEN duration ELSE @]
  IN  IF Stale(c, q.dts)
      THEN /\ clock' = [clock EXCEPT ![s] = shifted]
           /\ skipped' = skipped \cup {s}
           /\ UNCHANGED muxVars
      ELSE /\ clock' = [clock EXCEPT ![s] = moved]
           /\ Copy(s, q)

\* A packet of stream s as the demuxer reads it.
Packet(s) ==
  /\ source[s].left > 0
  /\ \E duration \in Durations, delay \in Delays, unknown \in Unknown :
       LET p == [pts |-> IF "pts" \in unknown THEN NoPts ELSE source[s].dts + delay,
                 dts |-> IF "dts" \in unknown THEN NoPts ELSE source[s].dts]
       IN  /\ source' = [source EXCEPT ![s].dts = @ + Larger(duration, 1), ![s].left = @ - 1]
           /\ inOrder' = IF unknown = {} /\ Fits(clock[s], p) THEN inOrder ELSE inOrder \ {s}
           /\ IF s \in Clocked THEN Clocking(s, p, duration)
              ELSE Copy(s, p) /\ UNCHANGED clock
  /\ UNCHANGED <<base, segments>>

\* The handle is zeroed when it is allocated, and open_remux_output sets none
\* of the fields that mux reads.  The muxer chooses its time bases when it
\* writes the header.
ClockInit ==
  /\ base \in Bases
  /\ octx = [last |-> [k \in Kinds |-> 0], drop |-> 0]
  /\ given = [k \in Kinds |-> Unsent]
  /\ sent = [k \in Kinds |-> Unsent]
  /\ clock = [s \in Streams |-> [last_dts |-> -1, last_duration |-> 0, dts_diff |-> 0,
                                 discontinuity |-> FALSE]]
  /\ source = [s \in Streams |-> [dts |-> 0, left |-> 0]]
  /\ segments = 0
  /\ inOrder = {}
  /\ skipped = {}

ClockNext == Discontinuity \/ Segment \/ \E s \in Streams : Packet(s)

ClockSpec == ClockInit /\ [][ClockNext]_clockVars

-----------------------------------------------------------------------------
(* Properties.                                                              *)

\* A segment that continues the one before, or was announced by a call of
\* Discontinuity, loses no packet up to the first whose times are unknown or do
\* not fit.
InOrderKept == inOrder \cap skipped = {}

\* The clock of a stream only goes forward, over segments whose own times
\* start again included.
ClockForward ==
  [][\A s \in Streams :
       clock[s].last_dts > -1 => clock'[s].last_dts >= clock[s].last_dts]_clock

\* A packet between two ticks of the muxer, or presented before it is decoded.
LessThanATick(s) ==
  LET step == clock'[s].last_dts - clock[s].last_dts
  IN  0 < step /\ step * base[s].num < base[s].den
LatePts(p) == p.pts < p.dts

\* The clock and mux agree, over all segments: once a stream has sent a packet
\* with the times it was copied with, mux moves a packet of it only if it is
\* presented before it is decoded, or is later than the last by less than a
\* tick of the muxer.
StaysAsCopied ==
  [][\A s \in Clocked :
       LET k == KindOf(s)
       IN  clock[s].last_dts > -1 /\ given[k] # Unsent /\ sent[k] = given[k] =>
             sent'[k] = given'[k] \/ LatePts(given'[k]) \/ LessThanATick(s)]_clockVars
=============================================================================
