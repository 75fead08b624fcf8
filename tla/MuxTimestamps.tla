--------------------------- MODULE MuxTimestamps ---------------------------
(* What mux does to the timestamps of the packets of one output on their way *)
(* to the muxer: it drops the preroll of an audio encoder, repairs packets   *)
(* whose DTS is after their PTS and moves packets whose DTS does not         *)
(* increase.  Times are in the time base of the output's stream: those a     *)
(* packet has once mux has converted it, which TransmuxClock adds.  The      *)
(* median is computed with exact integers: the 64-bit sum it comes from may  *)
(* wrap around, and wraps back when the extremes are subtracted.             *)
EXTENDS Integers

CONSTANTS Streams,  \* streams of the output
          Audio,    \* those with audio; the others have video
          Times,    \* timestamps of the packets mux is given
          NoPts,    \* AV_NOPTS_VALUE
          Strict,   \* FALSE if the format has AVFMT_TS_NONSTRICT
          Padded,   \* does the audio encoder report an initial padding?
          Horizon   \* bound on the DTS the muxer has been given

ASSUME MuxAssumption ==
  /\ Audio \subseteq Streams
  /\ Times \subseteq Int
  /\ NoPts \in Int /\ NoPts + 1 < 0
  /\ \A t \in Times : NoPts + 1 < t
  /\ Strict \in BOOLEAN /\ Padded \in BOOLEAN
  /\ Horizon \in Int

VARIABLES octx, \* the fields of the output context mux reads and writes
          given, \* last packet of each kind that mux was given
          sent   \* last packet of each kind that mux gave the open muxer

muxVars == <<octx, given, sent>>

Kinds == {"audio", "video"}
KindOf(s) == IF s \in Audio THEN "audio" ELSE "video"

TimesOrNone == Times \cup {NoPts}
Packets == [pts : TimesOrNone, dts : TimesOrNone]

Unsent == [pts |-> NoPts, dts |-> NoPts]

\* drop_ts is the PTS of a packet, unknown so far, or not used.
Drops == TimesOrNone \cup {0}

\* The types of the fields: last stands for last_audio_dts and last_video_dts,
\* drop for drop_ts.
MuxTypeOK ==
  /\ octx \in [last : [Kinds -> Int], drop : Drops]
  /\ given \in [Kinds -> [pts : Int, dts : Int]]
  /\ sent \in [Kinds -> [pts : Int, dts : Int]]

-----------------------------------------------------------------------------
Smaller(a, b) == IF a <= b THEN a ELSE b
Larger(a, b) == IF a >= b THEN a ELSE b

Median(a, b, c) ==
  a + b + c - Smaller(Smaller(a, b), c) - Larger(Larger(a, b), c)

\* Mutant: the later of the two times, not the one in the middle.
RepairedLater(p, last) ==
  IF p.dts # NoPts /\ p.pts # NoPts /\ p.dts > p.pts
  THEN [pts |-> p.dts, dts |-> p.dts] ELSE p

\* A packet to be decoded after it is presented gets one time for both.
Repaired(p, last) ==
  LET t == Median(p.pts, p.dts, last + 1)
  IN  IF p.dts # NoPts /\ p.pts # NoPts /\ p.dts > p.pts
      THEN [pts |-> t, dts |-> t] ELSE p

\* Mutants: the PTS is left behind, a DTS may repeat whatever the format.
ClampedKeepsPts(p, last) ==
  LET floor == IF Strict THEN last + 1 ELSE last
  IN  IF p.dts # NoPts /\ last # NoPts /\ p.dts < floor THEN [p EXCEPT !.dts = floor] ELSE p
ClampedNonStrict(p, last) ==
  IF p.dts # NoPts /\ last # NoPts /\ p.dts < last
  THEN [pts |-> IF p.pts >= p.dts THEN Larger(p.pts, last) ELSE p.pts, dts |-> last]
  ELSE p

\* A packet is moved after the last one of its kind.
Clamped(p, last) ==
  LET floor == IF Strict THEN last + 1 ELSE last
  IN  IF p.dts # NoPts /\ last # NoPts /\ p.dts < floor
      THEN [pts |-> IF p.pts >= p.dts THEN Larger(p.pts, floor) ELSE p.pts,
            dts |-> floor]
      ELSE p

Muxed(p, last) == Clamped(Repaired(p, last), last)

\* drop_ts once an audio packet has been seen, and whether it is preroll.
DropAfter(p) == IF octx.drop = NoPts THEN p.pts ELSE octx.drop
Preroll(p) == p.pts # 0 /\ p.pts = DropAfter(p)

\* mux, called with packet p of stream s.
Mux(s, p) ==
  LET k == KindOf(s)
      q == Muxed(p, octx.last[k])
      drop == IF k = "audio" THEN DropAfter(p) ELSE octx.drop
  IN  /\ given' = [given EXCEPT ![k] = p]
      /\ IF k = "audio" /\ Preroll(p)
         THEN /\ octx' = [octx EXCEPT !.drop = drop]
              /\ UNCHANGED sent
         ELSE /\ octx' = [octx EXCEPT !.drop = drop, !.last[k] = q.dts]
              /\ sent' = [sent EXCEPT ![k] = q]

\* The next segment reopens the output: add_video_stream and add_audio_stream
\* forget the last DTS of the streams they add.
AddStreams ==
  LET added == {KindOf(s) : s \in Streams}
  IN  /\ octx' = [last |-> [k \in Kinds |-> IF k \in added THEN NoPts ELSE octx.last[k]],
                  drop |-> IF Padded /\ "audio" \in added THEN NoPts ELSE octx.drop]
      /\ given' = [k \in Kinds |-> IF k \in added THEN Unsent ELSE given[k]]
      /\ sent' = [k \in Kinds |-> IF k \in added THEN Unsent ELSE sent[k]]

WritePacket(s) ==
  /\ octx.last[KindOf(s)] < Horizon
  /\ \E p \in Packets : Mux(s, p)

MuxInit ==
  /\ octx = [last |-> [k \in Kinds |-> NoPts], drop |-> IF Padded THEN NoPts ELSE 0]
  /\ given = [k \in Kinds |-> Unsent]
  /\ sent = [k \in Kinds |-> Unsent]

MuxNext == AddStreams \/ \E s \in Streams : WritePacket(s)

MuxSpec == MuxInit /\ [][MuxNext]_muxVars

-----------------------------------------------------------------------------
(* Properties.                                                              *)

\* The muxer rejects a packet that is presented before it is decoded: mux
\* gives it none, whatever encoders and demuxers produce.
NeverLatePts ==
  \A k \in Kinds : sent[k].pts # NoPts /\ sent[k].dts # NoPts => sent[k].pts >= sent[k].dts

\* Between one packet that knows its DTS and the next of its kind the DTS
\* increases, strictly where the format asks for it.
DtsIncreases ==
  [][\A k \in Kinds :
       sent'[k] # sent[k] /\ sent[k].dts # NoPts /\ sent'[k].dts # NoPts =>
         IF Strict THEN sent'[k].dts > sent[k].dts ELSE sent'[k].dts >= sent[k].dts]_sent

\* mux implements what a muxer needs: nothing but audio of an encoder with a
\* padding is lost, and a repaired or moved packet goes from the times it was
\* given with to the first that are in order.
Ordered == INSTANCE OrderedMux WITH Droppable <- IF Padded THEN {"audio"} ELSE {}
OrderedSpec == Ordered!Spec
=============================================================================
