-------------------------- MODULE DecodeLoop_proofs --------------------------
(* For every number of packets and segments, delay, maximum of sentinels and *)
(* kind of session: the counters of the decode loop keep their type; a flush *)
(* that ends has all frames of a decoder that loses none; and every packet   *)
(* of a segment is decoded and handed on, or copied, once and in order.      *)
EXTENDS DecodeLoop, TLAPS

LEMMA SmallMod ==
  ASSUME NEW m \in Nat, NEW a \in Nat, a < m
  PROVE  a % m = a
OBVIOUS

LEMMA WrappedMod ==
  ASSUME NEW m \in Nat, NEW a \in Nat, a < m
  PROVE  (a + m) % m = a
OBVIOUS

LEMMA ModRange ==
  ASSUME NEW m \in Nat \ {0}, NEW a \in Nat
  PROVE  a % m \in 0..m - 1
OBVIOUS

LEMMA Constants ==
  /\ NoPacket \in Packet /\ Blank \in Packet /\ NoFrame \in Packet
  /\ 0 \in 0..DiffMod - 1
  /\ DiffMod \in Nat \ {0}
  /\ \A c \in Sessions : c.zero \in Kinds
<1>1. NoPacket \in Packet /\ Blank \in Packet /\ NoFrame \in Packet
  BY DEF NoPacket, Blank, NoFrame, Packet, Kinds
<1>2. DiffMod \in Nat \ {0} /\ 0 \in 0..DiffMod - 1
  BY LoopAssumption
<1>3. ASSUME NEW c \in Sessions PROVE c.zero \in Kinds
  <2>1. c \in Config BY LoopAssumption
  <2>2. c.zero \in Streams BY <2>1 DEF Config
  <2> QED BY <2>2, LoopAssumption
<1> QED BY <1>1, <1>2, <1>3

LEMMA TypesInit == Init => LoopTypeOK
<1> SUFFICES ASSUME Init PROVE LoopTypeOK OBVIOUS
<1>1. ictx \in InputCtx BY Constants DEF Init, InputCtx, NoPacket
<1>2. dec \in Decoder BY DEF Init, Decoder
<1>3. loop \in Loop BY DEF Init, Loop
<1>4. it \in Item BY Constants DEF Init, Item, Rets
<1>5. read \in Reading
  <2>1. ASSUME NEW s \in Seq(Nat)
        PROVE  [first |-> 0, last |-> 0, eof |-> FALSE, video |-> s, audio |-> s] \in Reading
    BY DEF Reading
  <2>2. <<>> \in Seq(Nat) OBVIOUS
  <2>3. [first |-> 0, last |-> 0, eof |-> FALSE, video |-> <<>>, audio |-> <<>>] \in Reading
    BY <2>1, <2>2, Zenon
  <2> QED BY <2>3, Zenon DEF Init
<1>6. given \in Giving BY DEF Init, Giving
<1>7. pc \in PCs /\ outcome \in Outcomes BY DEF Init, PCs, Outcomes
<1>8. adec \in Seq(Nat) BY DEF Init
<1>9. cfg \in Sessions /\ calls \in Nat /\ faults \in Nat /\ upset \in BOOLEAN BY DEF Init
<1> QED BY <1>1, <1>2, <1>3, <1>4, <1>5, <1>6, <1>7, <1>8, <1>9 DEF LoopTypeOK

LEMMA TypesEnd ==
  ASSUME LoopTypeOK, NEW how \in Outcomes, NEW c \in InputCtx, EndCall(how, c)
  PROVE  pc' \in PCs /\ outcome' \in Outcomes /\ upset' \in BOOLEAN /\ ictx' \in InputCtx
<1>1. Shutdown(c) \in InputCtx BY Constants DEF Shutdown, InputCtx
<1>2. upset' \in BOOLEAN BY Zenon DEF EndCall, LoopTypeOK
<1> QED BY <1>1, <1>2 DEF EndCall, PCs

LEMMA TypesCounted ==
  ASSUME NEW c \in InputCtx
  PROVE  /\ c.pkt_diff \in Nat /\ c.sentinel_count \in Nat
         /\ (c.pkt_diff + 1) % DiffMod \in 0..DiffMod - 1
         /\ (c.sentinel_count + 1) % DiffMod \in 0..DiffMod - 1
<1>1. c.pkt_diff \in 0..DiffMod - 1 /\ c.sentinel_count \in 0..DiffMod - 1 BY DEF InputCtx
<1>2. c.pkt_diff \in Nat /\ c.sentinel_count \in Nat BY <1>1, Constants
<1>3. \A a \in Nat : (a + 1) % DiffMod \in 0..DiffMod - 1 BY ModRange, Constants
<1> QED BY <1>2, <1>3

LEMMA TypesReceived ==
  ASSUME NEW c \in InputCtx, NEW x \in Nat
  PROVE  Received(c, x) \in InputCtx
<1> DEFINE d == (c.pkt_diff + DiffMod - 1) % DiffMod
           s == IF c.flushing THEN 0 ELSE c.sentinel_count
<1>1. d \in 0..DiffMod - 1
  <2>1. c.pkt_diff + DiffMod - 1 \in Nat BY Constants DEF InputCtx
  <2> QED BY <2>1, ModRange, Constants
<1>2. s \in 0..DiffMod - 1 BY Constants DEF InputCtx
<1>3. Received(c, x) = IF x = Sentinel THEN c ELSE [c EXCEPT !.pkt_diff = d, !.sentinel_count = s]
  BY Zenon DEF Received
<1> HIDE DEF d, s
<1>4. [c EXCEPT !.pkt_diff = d, !.sentinel_count = s] \in InputCtx
  BY <1>1, <1>2 DEF InputCtx
<1> QED BY <1>3, <1>4

LEMMA TypesIncoming ==
  ASSUME LoopTypeOK, NEW p \in Incoming
  PROVE  p \in Demuxable /\ p \in Packet /\ p.kind \in Kinds \cup {"none"}
<1>1. p \in Demuxable
  <2>1. CASE ictx.blocked # NoPacket
    BY <2>1 DEF Incoming, LoopTypeOK, InputCtx
  <2>2. CASE ictx.blocked = NoPacket
    <3>1. read.last + 1 \in Nat \ {Sentinel} BY DEF LoopTypeOK, Reading, Sentinel
    <3>2. PICK k \in Streams : p = [kind |-> k, n |-> read.last + 1]
      BY <2>2 DEF Incoming
    <3>3. k \in Kinds BY LoopAssumption
    <3> QED BY <3>1, <3>2, <3>3 DEF Demuxable
  <2> QED BY <2>1, <2>2
<1>2. p \in Packet
  <2>1. p = [kind |-> p.kind, n |-> p.n] /\ p.kind \in Kinds /\ p.n \in Nat BY <1>1 DEF Demuxable
  <2> QED BY <2>1 DEF Packet
<1> QED BY <1>1, <1>2 DEF Demuxable

LEMMA TypesDemuxed ==
  ASSUME LoopTypeOK, NEW p \in Packet, Demuxed(p)
  PROVE  read' \in Reading
<1> DEFINE v == IF p.kind = "video" THEN Append(read.video, p.n) ELSE read.video
           a == IF p.kind = "audio" THEN Append(read.audio, p.n) ELSE read.audio
<1>1. p.n \in Nat BY DEF Packet
<1>2. v \in Seq(Nat) /\ a \in Seq(Nat) BY <1>1 DEF LoopTypeOK, Reading
<1>3. read' = IF ictx.blocked # NoPacket THEN read
             ELSE [read EXCEPT !.last = p.n, !.video = v, !.audio = a]
  BY Zenon DEF Demuxed
<1> HIDE DEF v, a
<1>4. [read EXCEPT !.last = p.n, !.video = v, !.audio = a] \in Reading
  BY <1>1, <1>2 DEF LoopTypeOK, Reading
<1> QED BY <1>3, <1>4 DEF LoopTypeOK

LEMMA TypesFault ==
  ASSUME LoopTypeOK, NEW f, Fault(f)
  PROVE  faults' \in Nat
BY DEF LoopTypeOK, Fault

LEMMA TypesTail ==
  ASSUME LoopTypeOK, dec.buf # <<>>
  PROVE  /\ [dec EXCEPT !.buf = Tail(dec.buf)] \in Decoder
         /\ Head(dec.buf) \in Nat
<1>1. dec.buf \in Seq(Nat) BY DEF LoopTypeOK, Decoder
<1>2. Tail(dec.buf) \in Seq(Nat) /\ Head(dec.buf) \in Nat BY <1>1
<1> DEFINE t == Tail(dec.buf)
<1> HIDE DEF t
<1> QED BY <1>2 DEF LoopTypeOK, Decoder, t

LEMMA TypesGive ==
  ASSUME LoopTypeOK, Give
  PROVE  dec' \in Decoder /\ faults' \in Nat /\ upset' \in BOOLEAN
BY TypesTail, TypesFault DEF LoopTypeOK, Give

LEMMA TypesWait ==
  ASSUME LoopTypeOK, Wait
  PROVE  dec' \in Decoder /\ faults' \in Nat /\ upset' \in BOOLEAN
BY TypesTail, TypesFault DEF LoopTypeOK, Wait

LEMMA TypesAccept ==
  ASSUME LoopTypeOK, NEW x \in Nat, Accept(x)
  PROVE  dec' \in Decoder /\ faults' \in Nat
<1>1. Append(dec.buf, x) \in Seq(Nat) BY DEF LoopTypeOK, Decoder
<1> QED BY <1>1 DEF LoopTypeOK, Accept, Decoder

LEMMA TypesRefuse ==
  ASSUME LoopTypeOK, Refuse
  PROVE  dec' \in Decoder /\ faults' \in Nat
<1>1. faults' \in Nat BY TypesFault DEF Refuse, LoopTypeOK
<1>2. [dec EXCEPT !.draining = TRUE] \in Decoder BY DEF LoopTypeOK, Decoder
<1> QED BY <1>1, <1>2 DEF Refuse

LEMMA TypesGot ==
  ASSUME NEW stream \in Kinds \cup {"none"}, NEW pkt \in Packet, NEW frame \in Packet,
         NEW ret \in Rets, Got(stream, pkt, frame, ret)
  PROVE  it' \in Item
BY DEF Got, Item

LEMMA TypesFrame ==
  ASSUME NEW kind \in Kinds, NEW n \in Nat
  PROVE  Frame(kind, n) \in Packet
BY DEF Frame, Packet

LEMMA TypesIterate == LoopTypeOK /\ [Next]_vars => LoopTypeOK'
<1> SUFFICES ASSUME LoopTypeOK, [Next]_vars PROVE LoopTypeOK'
  OBVIOUS
<1> USE DEF PCs, Outcomes
<1>1. CASE BeginCall
  <2>1. dec' \in Decoder
    <3>1. [buf |-> <<>>, draining |-> FALSE] \in Decoder BY DEF Decoder
    <3> QED BY <1>1, <3>1 DEF BeginCall, LoopTypeOK
  <2>2. loop' \in Loop
    <3> DEFINE open == cfg.kept /\ loop.open
    <3>1. open \in BOOLEAN BY Zenon
    <3>2. loop' = [ready |-> FALSE, open |-> open, queue |-> <<>>] BY <1>1, Zenon DEF BeginCall
    <3> HIDE DEF open
    <3> QED BY <3>1, <3>2 DEF Loop
  <2>3. read' \in Reading
    <3>1. read.last \in Nat BY DEF LoopTypeOK, Reading
    <3>2. <<>> \in Seq(Nat) OBVIOUS
    <3>3. \A l \in Nat, s \in Seq(Nat) :
            [first |-> l, last |-> l, eof |-> FALSE, video |-> s, audio |-> s] \in Reading
      BY DEF Reading
    <3> QED BY <1>1, <3>1, <3>2, <3>3, Zenon DEF BeginCall
  <2>4. given' \in Giving BY <1>1 DEF BeginCall, Giving
  <2>5. adec' \in Seq(Nat) BY <1>1 DEF BeginCall
  <2>6. pc' \in PCs /\ outcome' \in Outcomes /\ calls' \in Nat
    BY <1>1 DEF BeginCall, LoopTypeOK
  <2> QED BY <1>1, <2>1, <2>2, <2>3, <2>4, <2>5, <2>6 DEF BeginCall, LoopTypeOK
<1>2. CASE SendVideo
  <2>1. PICK p \in Incoming, key \in BOOLEAN :
          /\ Demuxed(p)
          /\ Got("video", p, NoFrame, "ok")
          /\ \/ /\ Accept(p.n)
                /\ ictx' = [ictx EXCEPT !.pkt_diff = (@ + 1) % DiffMod,
                                        !.flush_pkt = @ \/ key, !.blocked = NoPacket]
             \/ /\ Refuse
                /\ ictx' = [ictx EXCEPT !.flush_pkt = @ \/ key, !.blocked = p]
    BY <1>2, Zenon DEF SendVideo
  <2>2. p \in Packet /\ p.n \in Nat /\ p \in Demuxable
    BY TypesIncoming DEF Packet
  <2>3. read' \in Reading BY <2>1, <2>2, TypesDemuxed
  <2>4. it' \in Item BY <2>1, <2>2, TypesGot, Constants DEF Kinds, Rets
  <2>5. dec' \in Decoder /\ faults' \in Nat BY <2>1, <2>2, TypesAccept, TypesRefuse
  <2>6. ictx' \in InputCtx
    <3> DEFINE f == ictx.flush_pkt \/ key
               d == (ictx.pkt_diff + 1) % DiffMod
    <3>1. f \in BOOLEAN BY Zenon
    <3>2. d \in 0..DiffMod - 1 BY TypesCounted DEF LoopTypeOK
    <3>3. \/ ictx' = [ictx EXCEPT !.pkt_diff = d, !.flush_pkt = f, !.blocked = NoPacket]
          \/ ictx' = [ictx EXCEPT !.flush_pkt = f, !.blocked = p]
      BY <2>1, Zenon
    <3> HIDE DEF f, d
    <3> QED BY <3>1, <3>2, <3>3, <2>2 DEF LoopTypeOK, InputCtx
  <2> QED BY <1>2, <2>3, <2>4, <2>5, <2>6 DEF SendVideo, LoopTypeOK
<1>3. CASE ReceiveDecoded
  <2>1. dec' \in Decoder /\ faults' \in Nat /\ upset' \in BOOLEAN
    BY <1>3, TypesGive, TypesWait DEF ReceiveDecoded
  <2>2. CASE /\ Give /\ ictx' = Received(ictx, Head(dec.buf))
             /\ it' = [it EXCEPT !.frame = Frame("video", Head(dec.buf))]
    <3>1. Head(dec.buf) \in Nat BY <2>2, TypesTail DEF Give
    <3>2. ictx' \in InputCtx BY <2>2, <3>1, TypesReceived DEF LoopTypeOK
    <3>3. it' \in Item BY <2>2, <3>1, TypesFrame DEF LoopTypeOK, Item, Kinds
    <3> QED BY <1>3, <2>1, <3>2, <3>3 DEF ReceiveDecoded, LoopTypeOK
  <2>3. CASE Wait /\ it' = [it EXCEPT !.ret = "packet_only"] /\ UNCHANGED ictx
    <3>1. it' \in Item BY <2>3 DEF LoopTypeOK, Item, Rets
    <3> QED BY <1>3, <2>1, <2>3, <3>1 DEF ReceiveDecoded, LoopTypeOK
  <2> QED BY <1>3, <2>2, <2>3 DEF ReceiveDecoded
<1>4. CASE DecoderFails
  <2>1. faults' \in Nat BY <1>4, TypesFault DEF DecoderFails
  <2>2. CASE UNCHANGED read /\ EndCall("decoder", ictx)
    <3>1. pc' \in PCs /\ outcome' \in Outcomes /\ upset' \in BOOLEAN /\ ictx' \in InputCtx
      BY <2>2, TypesEnd DEF LoopTypeOK
    <3> QED BY <1>4, <2>1, <2>2, <3>1 DEF DecoderFails, LoopTypeOK
  <2>3. CASE /\ \E p \in Incoming : Demuxed(p)
             /\ EndCall("decoder", [ictx EXCEPT !.blocked = NoPacket])
    <3>1. read' \in Reading BY <2>3, TypesIncoming, TypesDemuxed
    <3>2. [ictx EXCEPT !.blocked = NoPacket] \in InputCtx
      BY DEF LoopTypeOK, InputCtx, NoPacket
    <3>3. pc' \in PCs /\ outcome' \in Outcomes /\ upset' \in BOOLEAN /\ ictx' \in InputCtx
      BY <2>3, <3>2, TypesEnd
    <3> QED BY <1>4, <2>1, <3>1, <3>3 DEF DecoderFails, LoopTypeOK
  <2> QED BY <1>4, <2>2, <2>3 DEF DecoderFails
<1>5. CASE DecodeAudio
  <2>1. PICK p \in Incoming :
          /\ Demuxed(p)
          /\ LET held == Append(adec, p.n)
             IN  IF Len(held) > AudioDelay
                 THEN /\ adec' = Tail(held)
                      /\ Got("audio", p, Frame("audio", Head(held)), "ok")
                 ELSE adec' = held /\ Got("audio", p, NoFrame, "packet_only")
    BY <1>5, Zenon DEF DecodeAudio
  <2>2. p \in Packet /\ p.n \in Nat BY TypesIncoming DEF Packet
  <2>3. read' \in Reading BY <2>1, <2>2, TypesDemuxed
  <2> DEFINE held == Append(adec, p.n)
  <2>4. held \in Seq(Nat) /\ held # <<>> BY <2>2 DEF LoopTypeOK
  <2>5. Tail(held) \in Seq(Nat) /\ Head(held) \in Nat BY <2>4
  <2>6. adec' \in Seq(Nat) BY <2>1, <2>4, <2>5
  <2>7. it' \in Item
    <3>1. Frame("audio", Head(held)) \in Packet BY <2>5, TypesFrame DEF Kinds
    <3>2. \/ Got("audio", p, Frame("audio", Head(held)), "ok")
          \/ Got("audio", p, NoFrame, "packet_only")
      BY <2>1, Zenon
    <3> HIDE DEF held
    <3> QED BY <3>1, <3>2, <2>2, TypesGot, Constants DEF Kinds, Rets
  <2> QED BY <1>5, <2>3, <2>6, <2>7 DEF DecodeAudio, LoopTypeOK
<1>6. CASE PassPacket
  <2>1. PICK p \in Incoming :
          Demuxed(p) /\ Got(p.kind, IF p.kind = "other" THEN Blank ELSE p, NoFrame, "ok")
    BY <1>6 DEF PassPacket
  <2>2. p \in Packet BY TypesIncoming
  <2>3. p.kind \in Kinds \cup {"none"} BY TypesIncoming
  <2>4. read' \in Reading BY <2>1, <2>2, TypesDemuxed
  <2>5. it' \in Item BY <2>1, <2>2, <2>3, TypesGot, Constants DEF Rets
  <2> QED BY <1>6, <2>4, <2>5 DEF PassPacket, LoopTypeOK
<1>7. CASE SendSentinel
  <2>1. read' \in Reading BY <1>7 DEF SendSentinel, LoopTypeOK, Reading
  <2>2. it' \in Item BY <1>7, TypesGot, Constants DEF SendSentinel, Kinds, Rets
  <2>3. dec' \in Decoder /\ faults' \in Nat
    BY <1>7, TypesAccept, TypesRefuse DEF SendSentinel, Sentinel
  <2>4. ictx' \in InputCtx
    <3>1. (ictx.sentinel_count + 1) % DiffMod \in 0..DiffMod - 1
      BY TypesCounted DEF LoopTypeOK
    <3> QED BY <1>7, <3>1 DEF SendSentinel, CountedSentinel, LoopTypeOK, InputCtx
  <2> QED BY <1>7, <2>1, <2>2, <2>3, <2>4 DEF SendSentinel, LoopTypeOK
<1>8. CASE FlushFails
  <2>1. faults' \in Nat BY <1>8, TypesFault DEF FlushFails, LoopTypeOK
  <2>2. pc' \in PCs /\ outcome' \in Outcomes /\ upset' \in BOOLEAN /\ ictx' \in InputCtx
    BY <1>8, TypesEnd DEF FlushFails, LoopTypeOK
  <2> QED BY <1>8, <2>1, <2>2 DEF FlushFails, LoopTypeOK
<1>9. CASE ReceiveFlushed
  <2>1. CASE Give /\ it' = [it EXCEPT !.frame = Frame("video", Head(dec.buf))]
             /\ LET c == Received(ictx, Head(dec.buf)) IN ictx' = [c EXCEPT !.flushed = ~GoesOn(c)]
             /\ pc' = "handle"
    <3>1. Head(dec.buf) \in Nat BY <2>1, TypesTail DEF Give
    <3>2. ictx' \in InputCtx
      <4> DEFINE c == Received(ictx, Head(dec.buf))
                 f == ~GoesOn(c)
      <4>1. c \in InputCtx BY <3>1, TypesReceived DEF LoopTypeOK
      <4>2. f \in BOOLEAN BY Zenon
      <4>3. ictx' = [c EXCEPT !.flushed = f] BY <2>1, Zenon
      <4> HIDE DEF c, f
      <4> QED BY <4>1, <4>2, <4>3 DEF InputCtx
    <3>3. it' \in Item BY <2>1, <3>1, TypesFrame DEF LoopTypeOK, Item, Kinds
    <3>4. dec' \in Decoder /\ faults' \in Nat /\ upset' \in BOOLEAN BY <2>1, TypesGive
    <3> QED BY <1>9, <2>1, <3>2, <3>3, <3>4 DEF ReceiveFlushed, LoopTypeOK
  <2>2. CASE Wait /\ ictx' = [ictx EXCEPT !.flushed = ~GoesOn(ictx)]
             /\ it' = [it EXCEPT !.ret = "again"]
             /\ pc' = IF GoesOn(ictx) THEN "handle" ELSE "audio"
    <3>1. ictx' \in InputCtx
      <4> DEFINE f == ~GoesOn(ictx)
      <4>1. f \in BOOLEAN BY Zenon
      <4>2. ictx' = [ictx EXCEPT !.flushed = f] BY <2>2, Zenon
      <4> HIDE DEF f
      <4> QED BY <4>1, <4>2 DEF LoopTypeOK, InputCtx
    <3>2. it' \in Item BY <2>2 DEF LoopTypeOK, Item, Rets
    <3>3. dec' \in Decoder /\ faults' \in Nat /\ upset' \in BOOLEAN BY <2>2, TypesWait
    <3>4. pc' \in PCs BY <2>2
    <3> QED BY <1>9, <3>1, <3>2, <3>3, <3>4 DEF ReceiveFlushed, LoopTypeOK
  <2>3. CASE /\ Fault("error") /\ upset' = TRUE /\ ictx' = [ictx EXCEPT !.flushed = TRUE]
             /\ pc' = "audio" /\ UNCHANGED <<dec, it>>
    <3>1. ictx' \in InputCtx BY <2>3 DEF LoopTypeOK, InputCtx
    <3>2. faults' \in Nat BY <2>3, TypesFault
    <3> QED BY <1>9, <2>3, <3>1, <3>2 DEF ReceiveFlushed, LoopTypeOK
  <2> QED BY <1>9, <2>1, <2>2, <2>3, Zenon DEF ReceiveFlushed
<1>10. CASE FlushAudio
  <2>1. read' \in Reading BY <1>10 DEF FlushAudio, LoopTypeOK, Reading
  <2>2. CASE /\ cfg.adec /\ adec # <<>>
             /\ Got("audio", Blank, Frame("audio", Head(adec)), "ok")
             /\ adec' = Tail(adec)
    <3>1. Head(adec) \in Nat /\ Tail(adec) \in Seq(Nat) BY <2>2 DEF LoopTypeOK
    <3>2. Frame("audio", Head(adec)) \in Packet BY <3>1, TypesFrame DEF Kinds
    <3>3. it' \in Item BY <2>2, <3>2, TypesGot, Constants DEF Kinds, Rets
    <3> QED BY <1>10, <2>1, <2>2, <3>1, <3>3 DEF FlushAudio, LoopTypeOK
  <2>3. CASE /\ Got(IF cfg.adec THEN "audio" ELSE IF pc = "audio" THEN "video" ELSE "none",
                    Blank, NoFrame, "eof")
             /\ UNCHANGED adec
    <3> DEFINE k == IF cfg.adec THEN "audio" ELSE IF pc = "audio" THEN "video" ELSE "none"
    <3>1. k \in Kinds \cup {"none"} BY DEF Kinds
    <3>2. Got(k, Blank, NoFrame, "eof") BY <2>3
    <3> HIDE DEF k
    <3>3. it' \in Item BY <3>1, <3>2, TypesGot, Constants DEF Rets
    <3> QED BY <1>10, <2>1, <2>3, <3>3 DEF FlushAudio, LoopTypeOK
  <2> QED BY <1>10, <2>2, <2>3, Zenon DEF FlushAudio
<1>11. CASE ReadQueue
  <2> DEFINE q == loop.queue
  <2>1. q \in Seq(Item) /\ q # <<>> BY <1>11 DEF ReadQueue, LoopTypeOK, Loop
  <2>2. Head(q) \in Item /\ Tail(q) \in Seq(Item) BY <2>1
  <2>3. StreamOf(Head(q).pkt) \in Kinds \cup {"none"}
    <3>1. cfg.zero \in Kinds BY Constants DEF LoopTypeOK
    <3>2. Head(q).pkt.kind \in Kinds \cup {"none", "blank"} BY <2>2 DEF Item, Packet
    <3> QED BY <3>1, <3>2 DEF StreamOf
  <2> DEFINE k == StreamOf(Head(q).pkt)
  <2>4. it' = [Head(q) EXCEPT !.stream = k] /\ loop' = [loop EXCEPT !.queue = Tail(q)]
    BY <1>11 DEF ReadQueue, NextItem
  <2> HIDE DEF k
  <2>5. it' \in Item BY <2>2, <2>3, <2>4 DEF Item, k
  <2>6. loop' \in Loop
    <3> HIDE DEF q
    <3> QED BY <2>2, <2>4 DEF LoopTypeOK, Loop
  <2> QED BY <1>11, <2>5, <2>6 DEF ReadQueue, LoopTypeOK
<1>12. CASE Enqueue
  <2> DEFINE i == IF it.ret = "eof" THEN [it EXCEPT !.pkt = NoPacket] ELSE it
             q == Append(loop.queue, i)
             o == Opens
  <2>1. i \in Item BY Constants DEF LoopTypeOK, Item
  <2> HIDE DEF i
  <2>2. q \in Seq(Item) BY <2>1 DEF LoopTypeOK, Loop
  <2>3. o \in BOOLEAN BY Zenon DEF Opens
  <2>4. loop' = [ready |-> o, open |-> o, queue |-> q] BY <1>12, Zenon DEF Enqueue, i
  <2> HIDE DEF q, o
  <2>5. loop' \in Loop BY <2>2, <2>3, <2>4 DEF Loop
  <2> QED BY <1>12, <2>5 DEF Enqueue, LoopTypeOK
<1>13. CASE QueueFails
  <2> DEFINE o == Opens
  <2>1. o \in BOOLEAN BY Zenon DEF Opens
  <2>2. loop' = [loop EXCEPT !.open = o] BY <1>13, Zenon DEF QueueFails
  <2> HIDE DEF o
  <2>3. loop' \in Loop BY <2>1, <2>2 DEF LoopTypeOK, Loop
  <2>4. pc' \in PCs /\ outcome' \in Outcomes /\ upset' \in BOOLEAN /\ ictx' \in InputCtx
    BY <1>13, TypesEnd DEF QueueFails, LoopTypeOK
  <2> QED BY <1>13, <2>3, <2>4 DEF QueueFails, LoopTypeOK
<1>14. CASE Deliver
  <2>1. loop' \in Loop BY <1>14 DEF Deliver, LoopTypeOK, Loop
  <2>2. given' \in Giving
    <3> DEFINE v == IF HasFrame(it) /\ it.stream = "video"
                    THEN Append(given.video, it.frame.n) ELSE given.video
               a == IF HasFrame(it) /\ it.stream = "audio"
                    THEN Append(given.audio, it.frame.n) ELSE given.audio
               c(cut) == IF Copies(it) /\ ~cut THEN Append(given.copied, it.pkt.n) ELSE given.copied
    <3>1. given.video \in Seq(Nat) /\ given.audio \in Seq(Nat) /\ given.copied \in Seq(Nat)
      BY DEF LoopTypeOK, Giving
    <3>2. it.frame.n \in Nat /\ it.pkt.n \in Nat BY DEF LoopTypeOK, Item, Packet
    <3>3. v \in Seq(Nat) /\ a \in Seq(Nat) /\ \A cut \in BOOLEAN : c(cut) \in Seq(Nat) BY <3>1, <3>2
    <3>4. PICK cut \in BOOLEAN :
            given' = IF IsSentinel(it) THEN given ELSE [video |-> v, audio |-> a, copied |-> c(cut)]
      BY <1>14, Zenon DEF Deliver
    <3> HIDE DEF v, a, c
    <3> QED BY <3>3, <3>4 DEF LoopTypeOK, Giving
  <2> QED BY <1>14, <2>1, <2>2 DEF Deliver, LoopTypeOK
<1>15. CASE Finish
  <2>1. pc' \in PCs /\ outcome' \in Outcomes /\ upset' \in BOOLEAN /\ ictx' \in InputCtx
    BY <1>15, TypesEnd DEF Finish, LoopTypeOK
  <2> QED BY <1>15, <2>1 DEF Finish, LoopTypeOK
<1>16. CASE UNCHANGED vars
  BY <1>16 DEF vars, LoopTypeOK
<1> QED BY <1>1, <1>2, <1>3, <1>4, <1>5, <1>6, <1>7, <1>8, <1>9, <1>10, <1>11, <1>12, <1>13,
           <1>14, <1>15, <1>16 DEF Next, Iterate

\* The decoding loop keeps its types: the counters stay unsigned numbers of
\* their width whatever the decoder loses or doubles.
THEOREM LoopTypes == Spec => []LoopTypeOK
<1>1. Init => LoopTypeOK BY TypesInit
<1>2. LoopTypeOK /\ [Next]_vars => LoopTypeOK' BY TypesIterate
<1> QED BY <1>1, <1>2, PTL DEF Spec

-----------------------------------------------------------------------------
(* The inductive invariant of the flush.                                    *)

EofQueued == \E i \in DOMAIN loop.queue : loop.queue[i].ret = "eof"

\* What the control flow of a call guarantees, whatever the decoder does.
Control ==
  /\ ictx.flushing => read.eof /\ ictx.blocked = NoPacket
  /\ ictx.flushed => ictx.flushing
  /\ ~ictx.flushing => ictx.sentinel_count = 0
  /\ pc = "idle" => ~ictx.flushing /\ ictx.pkt_diff = 0
  /\ pc = "receive" => cfg.vdec /\ ~ictx.flushed /\ it.ret = "ok"
  /\ pc = "audio" => ictx.flushed
  /\ outcome = "done" => pc = "idle"
  /\ ~cfg.vdec => ictx.pkt_diff = 0
  /\ EofQueued => loop.ready /\ pc \notin {"receive", "audio"}

\* A decoder that holds the frames b: h sentinels of an earlier flush, then the
\* diff frames that are missing, then sentinels of this flush, of which it has
\* count or more.
Shape(b, diff, count, flushing, h) ==
  /\ h + diff <= Len(b)
  /\ \A i \in 1..Len(b) : b[i] # Sentinel <=> (h < i /\ i <= h + diff)
  /\ ~flushing => h + diff = Len(b)
  /\ diff > 0 => h + diff + count <= Len(b)

Holds(h) == Shape(dec.buf, ictx.pkt_diff, ictx.sentinel_count, ictx.flushing, h)

Balance ==
  /\ \E h \in Nat : Holds(h)
  /\ Len(dec.buf) <= Delay + 1
  /\ pc # "receive" => Len(dec.buf) <= Delay
  /\ ictx.flushed \/ EofQueued \/ (pc = "handle" /\ it.ret = "eof") => ictx.pkt_diff = 0

FlushInv == Control /\ (~upset /\ Delay <= SentinelMax + 1 => Balance)

LEMMA ProcessingNoEof ==
  ASSUME LoopTypeOK, Control, Processing
  PROVE  ~EofQueued /\ pc = "read"
<1>1. loop.queue = <<>> => ~EofQueued BY DEF EofQueued
<1> QED BY <1>1 DEF Processing, Control

LEMMA ControlEnd ==
  ASSUME LoopTypeOK, Control, NEW how \in Outcomes, NEW c \in InputCtx, EndCall(how, c),
         UNCHANGED <<cfg, it>>, loop'.queue = loop.queue, EofQueued => loop'.ready
  PROVE  Control'
<1>1. /\ ~ictx'.flushed /\ ~ictx'.flushing /\ ictx'.pkt_diff = 0 /\ ictx'.sentinel_count = 0
  BY DEF EndCall, Shutdown, InputCtx
<1>2. pc' = "idle" BY DEF EndCall
<1>3. EofQueued' <=> EofQueued BY DEF EofQueued
<1> QED BY <1>1, <1>2, <1>3 DEF Control

\* What receiving leaves of the context.
LEMMA ReceivedFields ==
  ASSUME NEW c \in InputCtx, NEW x \in Nat
  PROVE  LET r == Received(c, x)
         IN  /\ r.flushed = c.flushed /\ r.flushing = c.flushing /\ r.blocked = c.blocked
             /\ x = Sentinel => r = c
             /\ x # Sentinel => /\ r.pkt_diff = (c.pkt_diff + DiffMod - 1) % DiffMod
                                /\ c.flushing => r.sentinel_count = 0
                                /\ ~c.flushing => r.sentinel_count = c.sentinel_count
<1> DEFINE d == (c.pkt_diff + DiffMod - 1) % DiffMod
           s == IF c.flushing THEN 0 ELSE c.sentinel_count
<1>1. Received(c, x) = IF x = Sentinel THEN c ELSE [c EXCEPT !.pkt_diff = d, !.sentinel_count = s]
  BY Zenon DEF Received
<1>2. (c.flushing => s = 0) /\ (~c.flushing => s = c.sentinel_count) OBVIOUS
<1> HIDE DEF d, s
<1>3. CASE x = Sentinel BY <1>1, <1>3
<1>4. CASE x # Sentinel
  <2>1. Received(c, x) = [c EXCEPT !.pkt_diff = d, !.sentinel_count = s] BY <1>1, <1>4
  <2> QED BY <1>2, <1>4, <2>1 DEF InputCtx, d
<1> QED BY <1>3, <1>4

LEMMA FlushedFields ==
  ASSUME NEW c \in InputCtx, NEW d, d = [c EXCEPT !.flushed = ~GoesOn(c)]
  PROVE  /\ d.flushed <=> ~GoesOn(c)
         /\ d.flushing = c.flushing /\ d.blocked = c.blocked
         /\ d.pkt_diff = c.pkt_diff /\ d.sentinel_count = c.sentinel_count
<1> DEFINE f == ~GoesOn(c)
<1>1. d = [c EXCEPT !.flushed = f] BY Zenon
<1>2. f <=> ~GoesOn(c) OBVIOUS
<1> HIDE DEF f
<1> QED BY <1>1, <1>2 DEF InputCtx

LEMMA ControlInit == Init => Control
<1> SUFFICES ASSUME Init PROVE Control OBVIOUS
<1>1. ~EofQueued BY DEF Init, EofQueued
<1> QED BY <1>1 DEF Init, Control

LEMMA ControlNext == LoopTypeOK /\ Control /\ [Next]_vars => Control'
<1> SUFFICES ASSUME LoopTypeOK, Control, [Next]_vars PROVE Control'
  OBVIOUS
<1>1. CASE BeginCall
  <2>1. loop'.queue = <<>>
    <3> DEFINE open == cfg.kept /\ loop.open
    <3>1. loop' = [ready |-> FALSE, open |-> open, queue |-> <<>>] BY <1>1, Zenon DEF BeginCall
    <3> HIDE DEF open
    <3> QED BY <3>1
  <2>2. ~EofQueued' BY <2>1 DEF EofQueued
  <2> QED BY <1>1, <2>2 DEF BeginCall, Control
<1>2. CASE SendVideo
  <2>1. PICK p \in Incoming, key \in BOOLEAN :
          /\ cfg.vdec /\ Got("video", p, NoFrame, "ok")
          /\ \/ ictx' = [ictx EXCEPT !.pkt_diff = (@ + 1) % DiffMod,
                                     !.flush_pkt = @ \/ key, !.blocked = NoPacket]
             \/ ictx' = [ictx EXCEPT !.flush_pkt = @ \/ key, !.blocked = p]
    BY <1>2, Zenon DEF SendVideo
  <2>2. ~ictx.flushing
    BY <2>1 DEF Control, Incoming
  <2>3. /\ ictx'.flushing = ictx.flushing /\ ictx'.flushed = ictx.flushed
        /\ ictx'.sentinel_count = ictx.sentinel_count
    <3> DEFINE f == ictx.flush_pkt \/ key
               d == (ictx.pkt_diff + 1) % DiffMod
    <3>1. \/ ictx' = [ictx EXCEPT !.pkt_diff = d, !.flush_pkt = f, !.blocked = NoPacket]
          \/ ictx' = [ictx EXCEPT !.flush_pkt = f, !.blocked = p]
      BY <2>1, Zenon
    <3> HIDE DEF f, d
    <3> QED BY <3>1 DEF LoopTypeOK, InputCtx
  <2>4. ~EofQueued' BY <1>2, ProcessingNoEof DEF SendVideo, EofQueued
  <2>5. it'.ret = "ok" BY <2>1 DEF Got
  <2>6. cfg' = cfg /\ pc' = "receive" /\ outcome' = outcome /\ pc = "read"
    BY <1>2 DEF SendVideo, Processing
  <2> QED BY <2>1, <2>2, <2>3, <2>4, <2>5, <2>6 DEF Control
<1>3. CASE ReceiveDecoded
  <2>1. ~EofQueued' BY <1>3 DEF ReceiveDecoded, EofQueued, Control
  <2>2. /\ ictx'.flushed = ictx.flushed /\ ictx'.flushing = ictx.flushing
        /\ ictx'.sentinel_count = ictx.sentinel_count
    <3>1. CASE Give /\ ictx' = Received(ictx, Head(dec.buf))
      <4>1. Head(dec.buf) \in Nat BY <3>1, TypesTail DEF Give
      <4> QED BY <1>3, <3>1, <4>1, ReceivedFields DEF ReceiveDecoded, LoopTypeOK
    <3>2. CASE UNCHANGED ictx BY <3>2
    <3> QED BY <1>3, <3>1, <3>2 DEF ReceiveDecoded
  <2> QED BY <1>3, <2>1, <2>2 DEF ReceiveDecoded, Control
<1>4. CASE DecoderFails
  <2>1. EofQueued => loop'.ready BY <1>4 DEF DecoderFails, Control
  <2>2. [ictx EXCEPT !.blocked = NoPacket] \in InputCtx BY DEF LoopTypeOK, InputCtx, NoPacket
  <2>3. PICK c \in InputCtx : EndCall("decoder", c)
    BY <1>4, <2>2 DEF DecoderFails, LoopTypeOK
  <2> QED BY <1>4, <2>1, <2>3, ControlEnd DEF DecoderFails, Outcomes
<1>5. CASE DecodeAudio
  <2>1. read'.eof = read.eof
    BY <1>5 DEF DecodeAudio, Demuxed, LoopTypeOK, Reading
  <2>2. ~EofQueued' BY <1>5, ProcessingNoEof DEF DecodeAudio, EofQueued
  <2> QED BY <1>5, <2>1, <2>2 DEF DecodeAudio, Processing, Control
<1>6. CASE PassPacket
  <2>1. read'.eof = read.eof
    BY <1>6 DEF PassPacket, Demuxed, LoopTypeOK, Reading
  <2>2. ~EofQueued' BY <1>6, ProcessingNoEof DEF PassPacket, EofQueued
  <2> QED BY <1>6, <2>1, <2>2 DEF PassPacket, Processing, Control
<1>7. CASE SendSentinel
  <2>1. ~EofQueued' BY <1>7, ProcessingNoEof DEF SendSentinel, AtEnd, EofQueued
  <2>2. ictx'.flushing /\ ictx'.flushed = ictx.flushed /\ ictx'.blocked = ictx.blocked
    BY <1>7 DEF SendSentinel, CountedSentinel, LoopTypeOK, InputCtx
  <2>3. read'.eof BY <1>7 DEF SendSentinel, LoopTypeOK, Reading
  <2>4. it'.ret = "ok" BY <1>7 DEF SendSentinel, Got
  <2> QED BY <1>7, <2>1, <2>2, <2>3, <2>4 DEF SendSentinel, AtEnd, NeedsFlush, Processing, Control
<1>8. CASE FlushFails
  <2>1. EofQueued => loop'.ready BY <1>8 DEF FlushFails, Control
  <2> QED BY <1>8, <2>1, ControlEnd DEF FlushFails, Outcomes, LoopTypeOK
<1>9. CASE ReceiveFlushed
  <2>1. ~EofQueued' BY <1>9 DEF ReceiveFlushed, EofQueued, Control
  <2>2. CASE Give /\ (LET c == Received(ictx, Head(dec.buf)) IN ictx' = [c EXCEPT !.flushed = ~GoesOn(c)])
             /\ pc' = "handle"
    <3> DEFINE c == Received(ictx, Head(dec.buf))
    <3>1. Head(dec.buf) \in Nat BY <2>2, TypesTail DEF Give
    <3>2. c \in InputCtx BY <3>1, TypesReceived DEF LoopTypeOK
    <3>3. c.flushing = ictx.flushing /\ c.blocked = ictx.blocked
      BY <3>1, ReceivedFields DEF LoopTypeOK
    <3>4. ictx' = [c EXCEPT !.flushed = ~GoesOn(c)] BY <2>2
    <3> HIDE DEF c
    <3>5. ictx'.flushing = c.flushing /\ ictx'.blocked = c.blocked BY <3>2, <3>4, FlushedFields
    <3> QED BY <1>9, <2>1, <2>2, <3>3, <3>5 DEF ReceiveFlushed, Control
  <2>3. CASE ictx' = [ictx EXCEPT !.flushed = ~GoesOn(ictx)]
             /\ pc' = IF GoesOn(ictx) THEN "handle" ELSE "audio"
    <3>1. /\ ictx'.flushing = ictx.flushing /\ ictx'.blocked = ictx.blocked
          /\ ictx'.flushed <=> ~GoesOn(ictx)
      BY <2>3, FlushedFields DEF LoopTypeOK
    <3> QED BY <1>9, <2>1, <2>3, <3>1 DEF ReceiveFlushed, Control
  <2>4. CASE ictx' = [ictx EXCEPT !.flushed = TRUE] /\ pc' = "audio"
    <3>1. ictx'.flushed /\ ictx'.flushing = ictx.flushing /\ ictx'.blocked = ictx.blocked
      BY <2>4 DEF LoopTypeOK, InputCtx
    <3> QED BY <1>9, <2>1, <2>4, <3>1 DEF ReceiveFlushed, Control
  <2> QED BY <1>9, <2>2, <2>3, <2>4, Zenon DEF ReceiveFlushed
<1>10. CASE FlushAudio
  <2>1. ~EofQueued' BY <1>10, ProcessingNoEof DEF FlushAudio, AtEnd, EofQueued, Control
  <2>2. read'.eof BY <1>10 DEF FlushAudio, LoopTypeOK, Reading
  <2> QED BY <1>10, <2>1, <2>2 DEF FlushAudio, AtEnd, Processing, Control
<1>11. CASE ReadQueue
  <2>1. loop.queue \in Seq(Item) BY DEF LoopTypeOK, Loop
  <2>2. loop' = [loop EXCEPT !.queue = Tail(loop.queue)] BY <1>11 DEF ReadQueue, NextItem
  <2>3. loop'.queue = Tail(loop.queue) /\ loop'.ready = loop.ready
    BY <2>2 DEF LoopTypeOK, Loop
  <2>4. EofQueued' => EofQueued
    <3>1. \A i \in DOMAIN Tail(loop.queue) :
            i + 1 \in DOMAIN loop.queue /\ Tail(loop.queue)[i] = loop.queue[i + 1]
      BY <1>11, <2>1 DEF ReadQueue
    <3> QED BY <2>3, <3>1 DEF EofQueued
  <2> QED BY <1>11, <2>3, <2>4 DEF ReadQueue, Control
<1>12. CASE Enqueue
  <2> DEFINE i == IF it.ret = "eof" THEN [it EXCEPT !.pkt = NoPacket] ELSE it
             o == Opens
  <2>1. i.ret = it.ret BY DEF LoopTypeOK, Item
  <2>2. it.ret = "eof" => o BY Zenon DEF Opens
  <2>3. loop' = [ready |-> o, open |-> o, queue |-> Append(loop.queue, i)] BY <1>12, Zenon DEF Enqueue
  <2>4. ~loop.ready BY <1>12 DEF Enqueue, SetOutputs
  <2>5. ~EofQueued BY <2>4 DEF Control
  <2> HIDE DEF i, o
  <2>6. EofQueued' => it.ret = "eof"
    <3>1. loop'.queue = Append(loop.queue, i) BY <2>3
    <3>2. \A k \in DOMAIN loop'.queue :
            \/ k \in DOMAIN loop.queue /\ loop'.queue[k] = loop.queue[k]
            \/ loop'.queue[k] = i
      BY <3>1 DEF LoopTypeOK, Loop
    <3> QED BY <2>1, <2>5, <3>2 DEF EofQueued
  <2>7. loop'.ready <=> o BY <2>3
  <2> QED BY <1>12, <2>2, <2>6, <2>7 DEF Enqueue, Control
<1>13. CASE QueueFails
  <2> DEFINE o == Opens
  <2>1. loop' = [loop EXCEPT !.open = o] BY <1>13, Zenon DEF QueueFails
  <2> HIDE DEF o
  <2>2. loop'.queue = loop.queue /\ loop'.ready = loop.ready BY <2>1 DEF LoopTypeOK, Loop
  <2>3. EofQueued => loop'.ready BY <2>2 DEF Control
  <2> QED BY <1>13, <2>2, <2>3, ControlEnd DEF QueueFails, Outcomes, LoopTypeOK
<1>14. CASE Deliver
  <2>1. loop'.queue = loop.queue /\ loop'.ready BY <1>14 DEF Deliver, LoopTypeOK, Loop
  <2>2. EofQueued' <=> EofQueued BY <2>1 DEF EofQueued
  <2>3. pc' = "read" /\ UNCHANGED <<cfg, ictx, it, outcome, read>> /\ pc = "handle" BY <1>14 DEF Deliver
  <2> QED BY <2>1, <2>2, <2>3 DEF Control
<1>15. CASE Finish
  <2>1. EofQueued => loop'.ready BY <1>15 DEF Finish, Control
  <2> QED BY <1>15, <2>1, ControlEnd DEF Finish, Outcomes, LoopTypeOK
<1>16. CASE UNCHANGED vars
  BY <1>16 DEF vars, Control, EofQueued
<1> QED BY <1>1, <1>2, <1>3, <1>4, <1>5, <1>6, <1>7, <1>8, <1>9, <1>10, <1>11, <1>12, <1>13,
           <1>14, <1>15, <1>16 DEF Next, Iterate

\* The decoder takes a frame of the segment.
LEMMA ShapeFrame ==
  ASSUME NEW b \in Seq(Nat), NEW d \in Nat, NEW h \in Nat, NEW x \in Nat \ {Sentinel},
         Shape(b, d, 0, FALSE, h)
  PROVE  Shape(Append(b, x), d + 1, 0, FALSE, h)
<1> DEFINE c == Append(b, x)
<1>1. /\ Len(b) \in Nat /\ Len(c) = Len(b) + 1
      /\ \A i \in 1..Len(b) : c[i] = b[i]
      /\ c[Len(b) + 1] = x
  OBVIOUS
<1>2. h + d = Len(b) BY DEF Shape
<1>3. \A i \in 1..Len(b) : b[i] # Sentinel <=> (h < i /\ i <= h + d) BY DEF Shape
<1> HIDE DEF c
<1>4. ASSUME NEW i \in 1..Len(c)
      PROVE  c[i] # Sentinel <=> (h < i /\ i <= h + (d + 1))
  <2>1. CASE i \in 1..Len(b)
    <3>1. c[i] = b[i] /\ i <= h + d BY <1>1, <1>2, <2>1
    <3> QED BY <1>3, <2>1, <3>1
  <2>2. CASE i = Len(b) + 1 BY <1>1, <1>2, <2>2
  <2> QED BY <1>1, <2>1, <2>2
<1>5. h + (d + 1) = Len(c) /\ h + (d + 1) + 0 <= Len(c) BY <1>1, <1>2
<1>6. Shape(c, d + 1, 0, FALSE, h) BY <1>4, <1>5 DEF Shape
<1> QED BY <1>6 DEF c

\* It takes a sentinel while frames are missing.
LEMMA ShapeSentinel ==
  ASSUME NEW b \in Seq(Nat), NEW d \in Nat \ {0}, NEW h \in Nat, NEW s \in Nat, NEW f,
         Shape(b, d, s, f, h)
  PROVE  Shape(Append(b, Sentinel), d, s + 1, TRUE, h)
<1> DEFINE c == Append(b, Sentinel)
<1>1. /\ Len(b) \in Nat /\ Len(c) = Len(b) + 1
      /\ \A i \in 1..Len(b) : c[i] = b[i]
      /\ c[Len(b) + 1] = Sentinel
  BY DEF Sentinel
<1>2. h + d + s <= Len(b) BY DEF Shape
<1>3. \A i \in 1..Len(b) : b[i] # Sentinel <=> (h < i /\ i <= h + d) BY DEF Shape
<1> HIDE DEF c
<1>4. ASSUME NEW i \in 1..Len(c)
      PROVE  c[i] # Sentinel <=> (h < i /\ i <= h + d)
  <2>1. CASE i \in 1..Len(b) BY <1>1, <1>3, <2>1
  <2>2. CASE i = Len(b) + 1 BY <1>1, <1>2, <2>2
  <2> QED BY <1>1, <2>1, <2>2
<1>5. h + d <= Len(c) /\ h + d + (s + 1) <= Len(c) BY <1>1, <1>2
<1>6. Shape(c, d, s + 1, TRUE, h) BY <1>4, <1>5 DEF Shape
<1> QED BY <1>6 DEF c

\* It gives a frame of the segment; the sentinels sent so far do not count.
LEMMA ShapeGivesFrame ==
  ASSUME NEW b \in Seq(Nat), NEW d \in Nat, NEW h \in Nat, NEW s, NEW f,
         b # <<>>, Head(b) # Sentinel, Shape(b, d, s, f, h)
  PROVE  d > 0 /\ Shape(Tail(b), d - 1, 0, f, 0)
<1> DEFINE c == Tail(b)
<1>1. /\ Len(b) \in Nat \ {0} /\ Len(c) = Len(b) - 1
      /\ \A i \in 1..Len(c) : c[i] = b[i + 1]
      /\ b[1] # Sentinel
  OBVIOUS
<1>2. h + d <= Len(b) BY DEF Shape
<1>3. \A i \in 1..Len(b) : b[i] # Sentinel <=> (h < i /\ i <= h + d) BY DEF Shape
<1>4. h = 0 /\ d > 0 BY <1>1, <1>3
<1> HIDE DEF c
<1>5. ASSUME NEW i \in 1..Len(c)
      PROVE  c[i] # Sentinel <=> (0 < i /\ i <= 0 + (d - 1))
  <2>1. c[i] = b[i + 1] /\ i + 1 \in 1..Len(b) BY <1>1
  <2>2. b[i + 1] # Sentinel <=> (h < i + 1 /\ i + 1 <= h + d) BY <1>3, <2>1
  <2> QED BY <1>4, <2>1, <2>2
<1>6. ~f => h + d = Len(b) BY DEF Shape
<1>7. ~f => 0 + (d - 1) = Len(c) BY <1>1, <1>4, <1>6
<1>8. 0 + (d - 1) <= Len(c) /\ (d - 1 > 0 => 0 + (d - 1) + 0 <= Len(c)) BY <1>1, <1>2, <1>4
<1>9. Shape(c, d - 1, 0, f, 0) BY <1>5, <1>7, <1>8 DEF Shape
<1> QED BY <1>4, <1>9 DEF c

\* It gives a sentinel.
LEMMA ShapeGivesSentinel ==
  ASSUME NEW b \in Seq(Nat), NEW d \in Nat, NEW h \in Nat, NEW s \in Nat, NEW f,
         b # <<>>, Head(b) = Sentinel, Shape(b, d, s, f, h)
  PROVE  /\ \E k \in Nat : Shape(Tail(b), d, s, f, k)
         /\ d > 0 => d + s < Len(b)
<1> DEFINE c == Tail(b)
<1>1. /\ Len(b) \in Nat \ {0} /\ Len(c) = Len(b) - 1
      /\ \A i \in 1..Len(c) : c[i] = b[i + 1]
      /\ b[1] = Sentinel
  OBVIOUS
<1>2. h + d <= Len(b) /\ (d > 0 => h + d + s <= Len(b)) BY DEF Shape
<1>3. \A i \in 1..Len(b) : b[i] # Sentinel <=> (h < i /\ i <= h + d) BY DEF Shape
<1>4. d > 0 => h > 0 BY <1>1, <1>3
<1>5. ~f => h + d = Len(b) BY DEF Shape
<1> HIDE DEF c
<1> DEFINE k == IF h > 0 THEN h - 1 ELSE 0
<1>6. k \in Nat /\ (h > 0 => k = h - 1) /\ (h = 0 => k = 0) OBVIOUS
<1> HIDE DEF k
<1>7. ASSUME NEW i \in 1..Len(c)
      PROVE  c[i] # Sentinel <=> (k < i /\ i <= k + d)
  <2>1. c[i] = b[i + 1] /\ i + 1 \in 1..Len(b) BY <1>1
  <2>2. b[i + 1] # Sentinel <=> (h < i + 1 /\ i + 1 <= h + d) BY <1>3, <2>1
  <2> QED BY <1>4, <1>6, <2>1, <2>2
<1>8. k + d <= Len(c) /\ (d > 0 => k + d + s <= Len(c)) BY <1>1, <1>2, <1>4, <1>6
<1>9. ~f => k + d = Len(c)
  <2>1. CASE h = 0
    <3>1. d = 0 BY <1>4, <2>1
    <3>2. Len(b) # h + d BY <1>1, <2>1, <3>1
    <3> QED BY <1>5, <3>2
  <2>2. CASE h > 0
    <3>1. k = h - 1 /\ Len(c) = Len(b) - 1 /\ Len(b) \in Nat BY <1>1, <1>6, <2>2
    <3>2. ASSUME h + d = Len(b) PROVE k + d = Len(c) BY <3>1, <3>2
    <3> QED BY <1>5, <3>2
  <2> QED BY <2>1, <2>2
<1>10. Shape(c, d, s, f, k) BY <1>7, <1>8, <1>9 DEF Shape
<1> QED BY <1>1, <1>2, <1>4, <1>6, <1>10 DEF c

\* A received frame keeps the shape, and a flush that then gives up has all.
LEMMA ShapeReceived ==
  ASSUME Delay <= SentinelMax + 1, NEW c \in InputCtx, NEW b \in Seq(Nat), NEW h \in Nat,
         NEW r, r = Received(c, Head(b)), b # <<>>, Len(b) <= Delay + 1,
         ~c.flushing => c.sentinel_count = 0,
         Shape(b, c.pkt_diff, c.sentinel_count, c.flushing, h)
  PROVE  /\ \E k \in Nat : Shape(Tail(b), r.pkt_diff, r.sentinel_count, r.flushing, k)
         /\ r.pkt_diff = 0 \/ GoesOn(r)
<1>1. /\ Head(b) \in Nat /\ Len(b) \in Nat
      /\ c.pkt_diff \in Nat /\ c.sentinel_count \in Nat
      /\ Delay \in Nat /\ SentinelMax \in Nat /\ DiffMod \in Nat /\ Delay + 1 < DiffMod
  <2>1. Head(b) \in Nat /\ Len(b) \in Nat OBVIOUS
  <2>2. c.pkt_diff \in Nat /\ c.sentinel_count \in Nat BY TypesCounted
  <2> QED BY <2>1, <2>2, LoopAssumption
<1>2. CASE Head(b) # Sentinel
  <2>1. c.pkt_diff > 0 /\ Shape(Tail(b), c.pkt_diff - 1, 0, c.flushing, 0)
    BY <1>1, <1>2, ShapeGivesFrame
  <2>2. c.pkt_diff < DiffMod
    <3>1. h + c.pkt_diff <= Len(b) BY DEF Shape
    <3> QED BY <1>1, <3>1
  <2>3. r.pkt_diff = c.pkt_diff - 1
    <3>1. (c.pkt_diff - 1 + DiffMod) % DiffMod = c.pkt_diff - 1
      <4>1. c.pkt_diff - 1 \in Nat /\ c.pkt_diff - 1 < DiffMod BY <1>1, <2>1, <2>2
      <4> QED BY <1>1, <4>1, WrappedMod
    <3>2. c.pkt_diff - 1 + DiffMod = c.pkt_diff + DiffMod - 1 BY <1>1
    <3>3. r.pkt_diff = (c.pkt_diff + DiffMod - 1) % DiffMod BY <1>1, <1>2, ReceivedFields
    <3> QED BY <3>1, <3>2, <3>3
  <2>4. r.sentinel_count = 0 /\ r.flushing = c.flushing BY <1>1, <1>2, ReceivedFields
  <2>5. Shape(Tail(b), r.pkt_diff, r.sentinel_count, r.flushing, 0) BY <2>1, <2>3, <2>4
  <2>6. r.pkt_diff = 0 \/ GoesOn(r) BY <1>1, <2>4 DEF GoesOn
  <2> QED BY <2>5, <2>6
<1>3. CASE Head(b) = Sentinel
  <2>1. r = c BY <1>1, <1>3, ReceivedFields
  <2>2. /\ \E k \in Nat : Shape(Tail(b), c.pkt_diff, c.sentinel_count, c.flushing, k)
        /\ c.pkt_diff > 0 => c.pkt_diff + c.sentinel_count < Len(b)
    BY <1>1, <1>3, ShapeGivesSentinel
  <2>3. c.pkt_diff > 0 => c.sentinel_count <= SentinelMax BY <1>1, <2>2
  <2>4. c.pkt_diff = 0 \/ GoesOn(c) BY <1>1, <2>3 DEF GoesOn
  <2> QED BY <2>1, <2>2, <2>4
<1> QED BY <1>2, <1>3

\* So has a flush that gives up because no frame comes.
LEMMA ShapeWaiting ==
  ASSUME Delay <= SentinelMax + 1, NEW c \in InputCtx, NEW b \in Seq(Nat), NEW h \in Nat,
         Len(b) <= Delay, Shape(b, c.pkt_diff, c.sentinel_count, c.flushing, h)
  PROVE  c.pkt_diff = 0 \/ GoesOn(c)
<1>1. /\ Len(b) \in Nat /\ c.pkt_diff \in Nat /\ c.sentinel_count \in Nat
      /\ Delay \in Nat /\ SentinelMax \in Nat
  BY TypesCounted, LoopAssumption
<1>2. c.pkt_diff > 0 => h + c.pkt_diff + c.sentinel_count <= Len(b) BY DEF Shape
<1>3. c.pkt_diff > 0 => c.sentinel_count <= SentinelMax BY <1>1, <1>2
<1> QED BY <1>1, <1>3 DEF GoesOn

LEMMA UpsetForGood == LoopTypeOK /\ [Next]_vars /\ upset => upset'
<1> SUFFICES ASSUME LoopTypeOK, [Next]_vars, upset PROVE upset' OBVIOUS
<1>1. CASE BeginCall BY <1>1 DEF BeginCall
<1>2. CASE SendVideo BY <1>2 DEF SendVideo
<1>3. CASE ReceiveDecoded BY <1>3 DEF ReceiveDecoded, Give, Wait
<1>4. CASE DecoderFails BY <1>4 DEF DecoderFails, EndCall
<1>5. CASE DecodeAudio \/ PassPacket BY <1>5 DEF DecodeAudio, PassPacket
<1>6. CASE SendSentinel BY <1>6 DEF SendSentinel
<1>7. CASE FlushFails \/ QueueFails \/ Finish BY <1>7 DEF FlushFails, QueueFails, Finish, EndCall
<1>8. CASE ReceiveFlushed BY <1>8 DEF ReceiveFlushed, Give, Wait
<1>9. CASE FlushAudio BY <1>9 DEF FlushAudio
<1>10. CASE ReadQueue \/ Enqueue \/ Deliver BY <1>10 DEF ReadQueue, Enqueue, Deliver
<1>11. CASE UNCHANGED vars BY <1>11 DEF vars
<1> QED BY <1>1, <1>2, <1>3, <1>4, <1>5, <1>6, <1>7, <1>8, <1>9, <1>10, <1>11 DEF Next, Iterate

\* A step that leaves the decoder and its counters alone.
LEMMA BalanceSame ==
  ASSUME Balance, UNCHANGED <<ictx, dec>>, pc # "receive",
         EofQueued' \/ (pc' = "handle" /\ it'.ret = "eof") => ictx.pkt_diff = 0
  PROVE  Balance'
<1>1. \A h \in Nat : Holds(h) => Holds(h)' BY DEF Holds
<1>2. \E h \in Nat : Holds(h)' BY <1>1 DEF Balance
<1> QED BY <1>2 DEF Balance

LEMMA BalanceNext ==
  ASSUME LoopTypeOK, Control, Delay <= SentinelMax + 1, Balance, ~upset', [Next]_vars
  PROVE  Balance'
<1>1. PICK h \in Nat : Shape(dec.buf, ictx.pkt_diff, ictx.sentinel_count, ictx.flushing, h)
  BY DEF Balance, Holds
<1>2. dec.buf \in Seq(Nat) /\ ictx \in InputCtx BY DEF LoopTypeOK, Decoder
<1>3. /\ Len(dec.buf) \in Nat /\ Len(dec.buf) <= Delay + 1
      /\ pc # "receive" => Len(dec.buf) <= Delay
      /\ Delay \in Nat /\ Delay + 1 < DiffMod /\ SentinelMax + 1 < DiffMod
      /\ DiffMod \in Nat /\ SentinelMax \in Nat
      /\ ictx.pkt_diff \in Nat /\ ictx.sentinel_count \in Nat
  <2>1. Len(dec.buf) \in Nat BY <1>2
  <2>2. ictx.pkt_diff \in Nat /\ ictx.sentinel_count \in Nat BY <1>2, TypesCounted
  <2> QED BY <2>1, <2>2, LoopAssumption DEF Balance
<1>4. CASE BeginCall
  <2>1. UNCHANGED ictx /\ pc' = "read" /\ pc = "idle" BY <1>4 DEF BeginCall
  <2>2. ictx.pkt_diff = 0 /\ ~ictx.flushing /\ ictx.sentinel_count = 0 BY <2>1 DEF Control
  <2>3. loop'.queue = <<>>
    <3> DEFINE open == cfg.kept /\ loop.open
    <3>1. loop' = [ready |-> FALSE, open |-> open, queue |-> <<>>] BY <1>4, Zenon DEF BeginCall
    <3> HIDE DEF open
    <3> QED BY <3>1
  <2>4. dec'.buf = dec.buf \/ dec'.buf = <<>> BY <1>4 DEF BeginCall
  <2>5. \E k \in Nat : Shape(dec'.buf, 0, 0, ictx.flushing, k)
    <3>1. CASE dec'.buf = dec.buf BY <1>1, <2>2, <3>1
    <3>2. CASE dec'.buf = <<>>
      <4>1. Shape(<<>>, 0, 0, ictx.flushing, 0) BY DEF Shape
      <4> QED BY <3>2, <4>1
    <3> QED BY <2>4, <3>1, <3>2
  <2>6. Len(dec'.buf) <= Delay BY <1>3, <2>1, <2>4
  <2> QED BY <1>3, <2>1, <2>2, <2>5, <2>6 DEF Balance, Holds
<1>5. CASE SendVideo
  <2>1. PICK p \in Incoming, key \in BOOLEAN :
          /\ Got("video", p, NoFrame, "ok")
          /\ \/ /\ Accept(p.n)
                /\ ictx' = [ictx EXCEPT !.pkt_diff = (@ + 1) % DiffMod,
                                        !.flush_pkt = @ \/ key, !.blocked = NoPacket]
             \/ /\ Refuse
                /\ ictx' = [ictx EXCEPT !.flush_pkt = @ \/ key, !.blocked = p]
    BY <1>5, Zenon DEF SendVideo
  <2>2. pc = "read" /\ pc' = "receive" /\ ~EofQueued' /\ ~ictx.flushing /\ ictx.sentinel_count = 0
    <3>1. ~EofQueued' BY <1>5, ProcessingNoEof DEF SendVideo, EofQueued
    <3>2. ~ictx.flushing BY <2>1 DEF Control, Incoming
    <3> QED BY <1>5, <3>1, <3>2 DEF SendVideo, Processing, Control
  <2>3. /\ ictx'.flushing = ictx.flushing /\ ictx'.flushed = ictx.flushed
        /\ ictx'.sentinel_count = ictx.sentinel_count
        /\ \/ Accept(p.n) /\ ictx'.pkt_diff = (ictx.pkt_diff + 1) % DiffMod
           \/ Refuse /\ ictx'.pkt_diff = ictx.pkt_diff
    <3> DEFINE f == ictx.flush_pkt \/ key
               d == (ictx.pkt_diff + 1) % DiffMod
    <3>1. \/ /\ Accept(p.n)
             /\ ictx' = [ictx EXCEPT !.pkt_diff = d, !.flush_pkt = f, !.blocked = NoPacket]
          \/ Refuse /\ ictx' = [ictx EXCEPT !.flush_pkt = f, !.blocked = p]
      BY <2>1, Zenon
    <3> HIDE DEF f, d
    <3>2. d = (ictx.pkt_diff + 1) % DiffMod BY DEF d
    <3> QED BY <1>2, <3>1, <3>2 DEF InputCtx
  <2>4. ~ictx'.flushed BY <2>2, <2>3 DEF Control
  <2>5. CASE Accept(p.n) /\ ictx'.pkt_diff = (ictx.pkt_diff + 1) % DiffMod
    <3>1. p.n \in Nat \ {Sentinel} BY TypesIncoming DEF Demuxable
    <3>2. dec'.buf = Append(dec.buf, p.n) BY <2>5 DEF Accept
    <3>3. Shape(dec.buf, ictx.pkt_diff, 0, FALSE, h) BY <1>1, <2>2 DEF Shape
    <3>4. Shape(dec'.buf, ictx.pkt_diff + 1, 0, FALSE, h) BY <1>2, <1>3, <3>1, <3>2, <3>3, ShapeFrame
    <3>5. ictx'.pkt_diff = ictx.pkt_diff + 1
      <4>1. h + ictx.pkt_diff <= Len(dec.buf) BY <1>1 DEF Shape
      <4>2. ictx.pkt_diff + 1 < DiffMod BY <1>3, <2>2, <4>1
      <4> QED BY <1>3, <2>5, <4>2, SmallMod
    <3>6. Holds(h)' BY <2>2, <2>3, <3>4, <3>5 DEF Holds, Shape
    <3>7. Len(dec'.buf) <= Delay + 1 BY <1>2, <1>3, <2>2, <3>2
    <3> QED BY <2>2, <2>4, <3>6, <3>7 DEF Balance
  <2>6. CASE Refuse /\ ictx'.pkt_diff = ictx.pkt_diff
    <3>1. dec'.buf = dec.buf BY <2>6 DEF Refuse, LoopTypeOK, Decoder
    <3>2. Holds(h)' BY <1>1, <2>3, <2>6, <3>1 DEF Holds
    <3> QED BY <1>3, <2>2, <2>4, <3>1, <3>2 DEF Balance
  <2> QED BY <2>3, <2>5, <2>6
<1>6. CASE ReceiveDecoded
  <2>1. ~EofQueued' /\ pc' = "handle" /\ pc = "receive" /\ ~ictx.flushing
    BY <1>6 DEF ReceiveDecoded, EofQueued, Control
  <2>2. ~ictx.flushed /\ ictx.sentinel_count = 0 /\ it.ret = "ok" BY <2>1 DEF Control
  <2>3. CASE /\ Give /\ ictx' = Received(ictx, Head(dec.buf))
             /\ it' = [it EXCEPT !.frame = Frame("video", Head(dec.buf))]
    <3>1. dec.buf # <<>> /\ dec' = [dec EXCEPT !.buf = Tail(dec.buf)] BY <2>3 DEF Give
    <3>2. dec'.buf = Tail(dec.buf) BY <3>1 DEF LoopTypeOK, Decoder
    <3>3. \E k \in Nat : Holds(k)'
      <4>1. dec.buf # <<>> /\ Len(dec.buf) <= Delay + 1 BY <1>3, <3>1
      <4>2. \E k \in Nat : Shape(Tail(dec.buf), ictx'.pkt_diff, ictx'.sentinel_count,
                                 ictx'.flushing, k)
        BY <1>1, <1>2, <2>2, <2>3, <4>1, ShapeReceived, Zenon
      <4> QED BY <3>2, <4>2 DEF Holds
    <3>4. Len(dec'.buf) <= Delay BY <1>2, <1>3, <3>1, <3>2
    <3>5. ~ictx'.flushed
      <4>1. Head(dec.buf) \in Nat BY <1>2, <3>1
      <4> QED BY <1>2, <2>2, <2>3, <4>1, ReceivedFields
    <3>6. it'.ret = "ok" BY <2>2, <2>3 DEF LoopTypeOK, Item
    <3> QED BY <1>3, <2>1, <3>3, <3>4, <3>5, <3>6 DEF Balance
  <2>4. CASE Wait /\ it' = [it EXCEPT !.ret = "packet_only"] /\ UNCHANGED ictx
    <3>1. MayWait(dec) /\ UNCHANGED dec BY <2>4 DEF Wait
    <3>2. Holds(h)' BY <1>1, <2>4, <3>1 DEF Holds
    <3>3. it'.ret = "packet_only" BY <2>4 DEF LoopTypeOK, Item
    <3> QED BY <1>3, <2>1, <2>2, <2>4, <3>1, <3>2, <3>3 DEF Balance, MayWait
  <2> QED BY <1>6, <2>3, <2>4 DEF ReceiveDecoded
<1>7. CASE DecoderFails
  BY <1>7 DEF DecoderFails, EndCall
<1>8. CASE DecodeAudio \/ PassPacket
  <2>1. /\ ~EofQueued' /\ pc = "read" /\ UNCHANGED <<ictx, dec>>
    BY <1>8, ProcessingNoEof DEF DecodeAudio, PassPacket, EofQueued
  <2>2. it'.ret # "eof" BY <1>8 DEF DecodeAudio, PassPacket, Got
  <2> QED BY <2>1, <2>2, BalanceSame
<1>9. CASE SendSentinel
  <2>1. /\ ~EofQueued' /\ pc = "read" /\ pc' = "receive" /\ ictx.pkt_diff > 0 /\ ~ictx.flushed
    BY <1>9, ProcessingNoEof DEF SendSentinel, AtEnd, NeedsFlush, EofQueued
  <2>2. CASE Accept(Sentinel) /\ ictx' = CountedSentinel(ictx)
    <3>1. dec'.buf = Append(dec.buf, Sentinel) BY <2>2 DEF Accept
    <3>2. /\ ictx'.pkt_diff = ictx.pkt_diff /\ ictx'.flushing /\ ictx'.flushed = ictx.flushed
          /\ ictx'.sentinel_count = (ictx.sentinel_count + 1) % DiffMod
      BY <1>2, <2>2 DEF CountedSentinel, InputCtx
    <3>3. ictx'.sentinel_count = ictx.sentinel_count + 1
      <4>1. h + ictx.pkt_diff + ictx.sentinel_count <= Len(dec.buf) BY <1>1, <2>1 DEF Shape
      <4>2. ictx.sentinel_count + 1 < DiffMod BY <1>3, <2>1, <4>1
      <4> QED BY <1>3, <3>2, <4>2, SmallMod
    <3>4. Shape(dec'.buf, ictx.pkt_diff, ictx.sentinel_count + 1, TRUE, h)
      <4>1. ictx.pkt_diff \in Nat \ {0} BY <1>3, <2>1
      <4>2. Shape(Append(dec.buf, Sentinel), ictx.pkt_diff, ictx.sentinel_count + 1, TRUE, h)
        BY <1>1, <1>2, <1>3, <4>1, ShapeSentinel
      <4> QED BY <3>1, <4>2
    <3>5. Holds(h)' BY <3>2, <3>3, <3>4 DEF Holds, Shape
    <3>6. Len(dec'.buf) <= Delay + 1 BY <1>2, <1>3, <2>1, <3>1 DEF Sentinel
    <3> QED BY <2>1, <3>2, <3>5, <3>6 DEF Balance
  <2>3. CASE Refuse /\ ictx' = [ictx EXCEPT !.flushing = TRUE]
    <3>1. dec'.buf = dec.buf BY <2>3 DEF Refuse, LoopTypeOK, Decoder
    <3>2. /\ ictx'.pkt_diff = ictx.pkt_diff /\ ictx'.flushing /\ ictx'.flushed = ictx.flushed
          /\ ictx'.sentinel_count = ictx.sentinel_count
      BY <1>2, <2>3 DEF InputCtx
    <3>3. Holds(h)' BY <1>1, <3>1, <3>2 DEF Holds, Shape
    <3> QED BY <1>3, <2>1, <3>1, <3>2, <3>3 DEF Balance
  <2> QED BY <1>9, <2>2, <2>3 DEF SendSentinel
<1>10. CASE FlushFails
  BY <1>10 DEF FlushFails, EndCall
<1>11. CASE ReceiveFlushed
  <2>1. ~EofQueued' /\ pc = "receive" /\ ictx.flushing
    BY <1>11 DEF ReceiveFlushed, EofQueued, Control
  <2>2. it.ret = "ok" BY <2>1 DEF Control
  <2>3. CASE /\ Give /\ it' = [it EXCEPT !.frame = Frame("video", Head(dec.buf))]
             /\ LET c == Received(ictx, Head(dec.buf)) IN ictx' = [c EXCEPT !.flushed = ~GoesOn(c)]
    <3> DEFINE r == Received(ictx, Head(dec.buf))
    <3>1. dec.buf # <<>> /\ dec' = [dec EXCEPT !.buf = Tail(dec.buf)] BY <2>3 DEF Give
    <3>2. dec'.buf = Tail(dec.buf) BY <3>1 DEF LoopTypeOK, Decoder
    <3>3. r \in InputCtx BY <1>2, <3>1, TypesReceived
    <3>4. ictx' = [r EXCEPT !.flushed = ~GoesOn(r)] /\ r = Received(ictx, Head(dec.buf)) BY <2>3
    <3> HIDE DEF r
    <3>5. /\ \E k \in Nat : Shape(dec'.buf, r.pkt_diff, r.sentinel_count, r.flushing, k)
          /\ r.pkt_diff = 0 \/ GoesOn(r)
      <4>1. dec.buf # <<>> /\ Len(dec.buf) <= Delay + 1 BY <1>3, <3>1
      <4>2. /\ \E k \in Nat : Shape(Tail(dec.buf), r.pkt_diff, r.sentinel_count, r.flushing, k)
            /\ r.pkt_diff = 0 \/ GoesOn(r)
        BY <1>1, <1>2, <2>1, <3>4, <4>1, ShapeReceived, Zenon
      <4> QED BY <3>2, <4>2
    <3>6. /\ ictx'.flushed <=> ~GoesOn(r)
          /\ ictx'.flushing = r.flushing /\ ictx'.pkt_diff = r.pkt_diff
          /\ ictx'.sentinel_count = r.sentinel_count
      BY <3>3, <3>4, FlushedFields
    <3>7. \E k \in Nat : Holds(k)' BY <3>5, <3>6 DEF Holds
    <3>8. Len(dec'.buf) <= Delay BY <1>2, <1>3, <3>1, <3>2
    <3>9. it'.ret = "ok" BY <2>2, <2>3 DEF LoopTypeOK, Item
    <3> QED BY <1>3, <2>1, <3>5, <3>6, <3>7, <3>8, <3>9 DEF Balance
  <2>4. CASE Wait /\ ictx' = [ictx EXCEPT !.flushed = ~GoesOn(ictx)] /\ it' = [it EXCEPT !.ret = "again"]
    <3>1. MayWait(dec) /\ UNCHANGED dec BY <2>4 DEF Wait
    <3>2. /\ ictx'.flushed <=> ~GoesOn(ictx)
          /\ ictx'.flushing = ictx.flushing /\ ictx'.pkt_diff = ictx.pkt_diff
          /\ ictx'.sentinel_count = ictx.sentinel_count
      BY <1>2, <2>4, FlushedFields
    <3>3. Holds(h)' BY <1>1, <3>1, <3>2 DEF Holds
    <3>4. it'.ret = "again" BY <2>4 DEF LoopTypeOK, Item
    <3>5. ictx.pkt_diff = 0 \/ GoesOn(ictx) BY <1>1, <1>2, <3>1, ShapeWaiting DEF MayWait
    <3> QED BY <1>3, <2>1, <3>1, <3>2, <3>3, <3>4, <3>5 DEF Balance, MayWait
  <2>5. CASE upset' = TRUE BY <2>5
  <2> QED BY <1>11, <2>3, <2>4, <2>5, Zenon DEF ReceiveFlushed
<1>12. CASE FlushAudio
  <2>1. ictx.pkt_diff = 0
    <3>1. CASE pc = "audio" BY <3>1 DEF Control, Balance
    <3>2. CASE ~NeedsFlush BY <1>3, <3>2 DEF NeedsFlush, Control, Balance
    <3> QED BY <1>12, <3>1, <3>2 DEF FlushAudio
  <2>2. UNCHANGED <<ictx, dec>> /\ pc # "receive" BY <1>12 DEF FlushAudio, AtEnd, Processing
  <2> QED BY <2>1, <2>2, BalanceSame
<1>13. CASE ReadQueue
  <2>1. loop.queue \in Seq(Item) /\ loop.queue # <<>> BY <1>13 DEF ReadQueue, LoopTypeOK, Loop
  <2>2. /\ loop' = [loop EXCEPT !.queue = Tail(loop.queue)]
        /\ it' = [Head(loop.queue) EXCEPT !.stream = StreamOf(Head(loop.queue).pkt)]
    BY <1>13 DEF ReadQueue, NextItem
  <2>3. loop'.queue = Tail(loop.queue) BY <2>2 DEF LoopTypeOK, Loop
  <2>4. EofQueued' => EofQueued
    <3>1. \A i \in DOMAIN Tail(loop.queue) :
            i + 1 \in DOMAIN loop.queue /\ Tail(loop.queue)[i] = loop.queue[i + 1]
      BY <2>1
    <3> QED BY <2>3, <3>1 DEF EofQueued
  <2>5. it'.ret = "eof" => EofQueued
    <3>1. Head(loop.queue) \in Item /\ Head(loop.queue) = loop.queue[1] /\ 1 \in DOMAIN loop.queue
      BY <2>1
    <3>2. it'.ret = Head(loop.queue).ret BY <2>2, <3>1 DEF Item
    <3> QED BY <3>1, <3>2 DEF EofQueued
  <2>6. UNCHANGED <<ictx, dec>> /\ pc # "receive" BY <1>13 DEF ReadQueue
  <2> QED BY <2>4, <2>5, <2>6, BalanceSame DEF Balance
<1>14. CASE Enqueue
  <2> DEFINE i == IF it.ret = "eof" THEN [it EXCEPT !.pkt = NoPacket] ELSE it
             o == Opens
  <2>1. i.ret = it.ret BY DEF LoopTypeOK, Item
  <2>2. loop' = [ready |-> o, open |-> o, queue |-> Append(loop.queue, i)] BY <1>14, Zenon DEF Enqueue
  <2>3. ~EofQueued BY <1>14 DEF Enqueue, SetOutputs, Control
  <2> HIDE DEF i, o
  <2>4. EofQueued' => it.ret = "eof"
    <3>1. loop'.queue = Append(loop.queue, i) BY <2>2
    <3>2. \A k \in DOMAIN loop'.queue :
            \/ k \in DOMAIN loop.queue /\ loop'.queue[k] = loop.queue[k]
            \/ loop'.queue[k] = i
      BY <3>1 DEF LoopTypeOK, Loop
    <3> QED BY <2>1, <2>3, <3>2 DEF EofQueued
  <2>5. UNCHANGED <<ictx, dec, it>> /\ pc = "handle" /\ pc' = "read" BY <1>14 DEF Enqueue
  <2> QED BY <2>4, <2>5, BalanceSame DEF Balance
<1>15. CASE QueueFails
  BY <1>15 DEF QueueFails, EndCall
<1>16. CASE Deliver
  <2>1. loop'.queue = loop.queue BY <1>16 DEF Deliver, LoopTypeOK, Loop
  <2>2. EofQueued' <=> EofQueued BY <2>1 DEF EofQueued
  <2>3. UNCHANGED <<ictx, dec>> /\ pc = "handle" /\ pc' = "read" BY <1>16 DEF Deliver
  <2> QED BY <2>2, <2>3, BalanceSame DEF Balance
<1>17. CASE Finish
  <2>1. pc = "handle" /\ it.ret = "eof" /\ UNCHANGED <<dec, loop>> /\ ictx' = Shutdown(ictx) /\ pc' = "idle"
    BY <1>17 DEF Finish, EndCall
  <2>2. ictx.pkt_diff = 0 BY <2>1 DEF Balance
  <2>3. ictx'.pkt_diff = 0 /\ ictx'.sentinel_count = 0 /\ ~ictx'.flushing /\ ~ictx'.flushed
    BY <1>2, <2>1 DEF Shutdown, InputCtx
  <2>4. Shape(dec.buf, 0, 0, FALSE, Len(dec.buf))
    <3>1. \A i \in 1..Len(dec.buf) : ~(h < i /\ i <= h + 0) BY <1>3
    <3>2. \A i \in 1..Len(dec.buf) : dec.buf[i] = Sentinel BY <1>1, <2>2, <3>1 DEF Shape
    <3> QED BY <1>3, <3>2 DEF Shape
  <2>5. Holds(Len(dec.buf))' BY <2>1, <2>3, <2>4 DEF Holds, Shape
  <2> QED BY <1>3, <2>1, <2>3, <2>5 DEF Balance
<1>18. CASE UNCHANGED vars
  <2>1. UNCHANGED <<ictx, dec, pc, it, loop>> BY <1>18 DEF vars
  <2> QED BY <2>1 DEF Balance, Holds, EofQueued
<1> QED BY <1>4, <1>5, <1>6, <1>7, <1>8, <1>9, <1>10, <1>11, <1>12, <1>13, <1>14, <1>15,
           <1>16, <1>17, <1>18 DEF Next, Iterate

LEMMA BalanceInit == Init => Balance
<1> SUFFICES ASSUME Init PROVE Balance OBVIOUS
<1>1. Holds(0) BY DEF Init, Holds, Shape
<1>2. ~EofQueued BY DEF Init, EofQueued
<1>3. Delay \in Nat BY LoopAssumption
<1> QED BY <1>1, <1>2, <1>3 DEF Init, Balance

LEMMA FlushInvariant == Spec => []FlushInv
<1>1. Init => FlushInv BY ControlInit, BalanceInit DEF FlushInv
<1>2. LoopTypeOK /\ FlushInv /\ [Next]_vars => FlushInv'
  <2> SUFFICES ASSUME LoopTypeOK, FlushInv, [Next]_vars PROVE FlushInv' OBVIOUS
  <2>1. Control' BY ControlNext DEF FlushInv
  <2>2. ASSUME ~upset', Delay <= SentinelMax + 1 PROVE Balance'
    <3>1. ~upset BY <2>2, UpsetForGood
    <3>2. Control /\ Balance BY <2>2, <3>1 DEF FlushInv
    <3> QED BY <2>2, <3>2, BalanceNext
  <2> QED BY <2>1, <2>2 DEF FlushInv
<1> QED BY <1>1, <1>2, LoopTypes, PTL DEF Spec

\* No frame is left in the decoder when flush_in is done: for every delay up to
\* SENTINEL_MAX + 1, every number of packets and calls, and every interleaving of
\* refusals, queueing and audio with the flush.  The argument is the shape of the
\* decoder's queue: what is missing is a block of pkt_diff frames behind which
\* there are as many sentinels as were counted, so that a decoder that waits
\* with the full count would hold more than its delay.
THEOREM FlushComplete == Spec => []FlushReturnsAll
<1>1. LoopTypeOK /\ FlushInv => FlushReturnsAll
  <2> SUFFICES ASSUME LoopTypeOK, Control, Balance, ictx.flushed \/ outcome = "done",
                      NEW i \in 1..Len(dec.buf)
               PROVE  dec.buf[i] = Sentinel
    BY DEF FlushInv, FlushReturnsAll
  <2>1. ictx.pkt_diff = 0 BY DEF Control, Balance
  <2>2. PICK h \in Nat : Holds(h) BY DEF Balance
  <2>3. dec.buf[i] # Sentinel <=> (h < i /\ i <= h + 0) BY <2>1, <2>2 DEF Holds, Shape
  <2>4. Len(dec.buf) \in Nat BY DEF LoopTypeOK, Decoder
  <2> QED BY <2>3, <2>4
<1> QED BY <1>1, FlushInvariant, LoopTypes, PTL

None == -1

\* pos counts the numbers of m from a on.
Counts(pos, m, a) ==
  /\ pos \in [0..Len(m) -> Nat]
  /\ pos[0] = a
  /\ \A i \in 1..Len(m) : pos[i] = IF m[i] = None THEN pos[i - 1] ELSE pos[i - 1] + 1

Passes(g, m, r, n) ==
  /\ Len(g) <= Len(r) /\ n <= Len(r)
  /\ \A i \in 1..Len(g) : g[i] = r[i]
  /\ \E pos : /\ Counts(pos, m, Len(g)) /\ pos[Len(m)] = n
              /\ \A i \in 1..Len(m) : m[i] # None => pos[i] <= Len(r) /\ m[i] = r[pos[i]]

LEMMA CountsRange ==
  ASSUME NEW m \in Seq(Int), NEW a \in Nat, NEW pos, Counts(pos, m, a), NEW i \in 1..Len(m)
  PROVE  /\ pos[i] \in Nat
         /\ m[i] # None => pos[i] \in Nat \ {0}
<1>1. Len(m) \in Nat OBVIOUS
<1>2. i \in 0..Len(m) /\ i - 1 \in 0..Len(m) BY <1>1
<1>3. \A j \in 0..Len(m) : pos[j] \in Nat BY DEF Counts
<1>4. pos[i] \in Nat /\ pos[i - 1] \in Nat BY <1>2, <1>3
<1>5. m[i] # None => pos[i] = pos[i - 1] + 1 BY DEF Counts
<1> QED BY <1>4, <1>5

LEMMA PassesStart == Passes(<<>>, <<>>, <<>>, 0)
<1> DEFINE pos == [i \in 0..0 |-> 0]
<1>1. Counts(pos, <<>>, 0) /\ pos[0] = 0 BY DEF Counts
<1> HIDE DEF pos
<1> QED BY <1>1 DEF Passes

LEMMA PassesRead ==
  ASSUME NEW g \in Seq(Nat), NEW m \in Seq(Int), NEW r \in Seq(Nat), NEW n \in Nat, NEW x \in Nat,
         Passes(g, m, r, n)
  PROVE  Passes(g, m, Append(r, x), n)
<1> DEFINE s == Append(r, x)
<1>1. /\ Len(r) \in Nat /\ Len(s) = Len(r) + 1 /\ Len(g) \in Nat /\ Len(m) \in Nat
      /\ \A i \in 1..Len(r) : s[i] = r[i]
  OBVIOUS
<1>2. PICK pos : /\ Counts(pos, m, Len(g)) /\ pos[Len(m)] = n
                 /\ \A i \in 1..Len(m) : m[i] # None => pos[i] <= Len(r) /\ m[i] = r[pos[i]]
  BY DEF Passes
<1> HIDE DEF s
<1>3. Len(g) <= Len(s) /\ n <= Len(s) /\ \A i \in 1..Len(g) : g[i] = s[i]
  BY <1>1 DEF Passes
<1>4. ASSUME NEW i \in 1..Len(m), m[i] # None PROVE pos[i] <= Len(s) /\ m[i] = s[pos[i]]
  <2>1. pos[i] \in Nat \ {0} BY <1>1, <1>2, <1>4, CountsRange
  <2>2. pos[i] <= Len(r) /\ m[i] = r[pos[i]] BY <1>2, <1>4
  <2>3. pos[i] \in 1..Len(r) BY <1>1, <2>1, <2>2
  <2> QED BY <1>1, <2>2, <2>3
<1>5. Passes(g, m, s, n) BY <1>2, <1>3, <1>4 DEF Passes
<1> QED BY <1>5 DEF s

LEMMA CountsAppend ==
  ASSUME NEW m \in Seq(Int), NEW a \in Nat, NEW pos, Counts(pos, m, a), NEW x \in Int,
         NEW n \in Nat, n = IF x = None THEN pos[Len(m)] ELSE pos[Len(m)] + 1
  PROVE  Counts([i \in 0..Len(m) + 1 |-> IF i = Len(m) + 1 THEN n ELSE pos[i]], Append(m, x), a)
<1> DEFINE c == Append(m, x)
           p == [i \in 0..Len(m) + 1 |-> IF i = Len(m) + 1 THEN n ELSE pos[i]]
<1>1. /\ Len(m) \in Nat /\ Len(c) = Len(m) + 1
      /\ \A i \in 1..Len(m) : c[i] = m[i]
      /\ c[Len(m) + 1] = x
  OBVIOUS
<1>2. \A i \in 0..Len(m) : pos[i] \in Nat BY DEF Counts
<1> HIDE DEF c
<1>3. p \in [0..Len(c) -> Nat] BY <1>1, <1>2
<1>4. p[0] = a BY <1>1 DEF Counts
<1>5. ASSUME NEW i \in 1..Len(c)
      PROVE  p[i] = IF c[i] = None THEN p[i - 1] ELSE p[i - 1] + 1
  <2>1. CASE i \in 1..Len(m)
    <3>1. p[i] = pos[i] /\ p[i - 1] = pos[i - 1] BY <1>1, <2>1
    <3> QED BY <1>1, <2>1, <3>1 DEF Counts
  <2>2. CASE i = Len(m) + 1
    <3>1. p[i] = n /\ p[i - 1] = pos[Len(m)] BY <1>1, <2>2
    <3> QED BY <1>1, <2>2, <3>1
  <2> QED BY <1>1, <2>1, <2>2
<1>6. Counts(p, c, a) BY <1>3, <1>4, <1>5 DEF Counts
<1> QED BY <1>6 DEF c

LEMMA PassesPutNone ==
  ASSUME NEW g \in Seq(Nat), NEW m \in Seq(Int), NEW r \in Seq(Nat), NEW n \in Nat,
         Passes(g, m, r, n)
  PROVE  Passes(g, Append(m, None), r, n)
<1> DEFINE c == Append(m, None)
<1>1. /\ Len(m) \in Nat /\ Len(c) = Len(m) + 1 /\ Len(g) \in Nat
      /\ \A i \in 1..Len(m) : c[i] = m[i]
      /\ c[Len(m) + 1] = None
  BY DEF None
<1>2. PICK pos : /\ Counts(pos, m, Len(g)) /\ pos[Len(m)] = n
                 /\ \A i \in 1..Len(m) : m[i] # None => pos[i] <= Len(r) /\ m[i] = r[pos[i]]
  BY DEF Passes
<1> DEFINE p == [i \in 0..Len(m) + 1 |-> IF i = Len(m) + 1 THEN n ELSE pos[i]]
<1>3. Counts(p, c, Len(g)) BY <1>1, <1>2, CountsAppend DEF None
<1> HIDE DEF c
<1>4. p[Len(c)] = n BY <1>1
<1>5. ASSUME NEW i \in 1..Len(c), c[i] # None PROVE p[i] <= Len(r) /\ c[i] = r[p[i]]
  <2>1. i \in 1..Len(m) /\ m[i] = c[i] BY <1>1, <1>5
  <2>2. pos[i] <= Len(r) /\ m[i] = r[pos[i]] BY <1>2, <1>5, <2>1
  <2>3. p[i] = pos[i] BY <1>1, <2>1
  <2> QED BY <2>1, <2>2, <2>3
<1> HIDE DEF p
<1>6. Passes(g, c, r, n) BY <1>3, <1>4, <1>5 DEF Passes
<1> QED BY <1>6 DEF c

LEMMA PassesPut ==
  ASSUME NEW g \in Seq(Nat), NEW m \in Seq(Int), NEW r \in Seq(Nat), NEW n \in Nat,
         Passes(g, m, r, n), n < Len(r)
  PROVE  Passes(g, Append(m, r[n + 1]), r, n + 1)
<1> DEFINE x == r[n + 1]
           c == Append(m, x)
<1>0. Len(r) \in Nat /\ x \in Nat /\ x # None BY DEF None
<1>1. /\ Len(m) \in Nat /\ Len(c) = Len(m) + 1 /\ Len(g) \in Nat
      /\ \A i \in 1..Len(m) : c[i] = m[i]
      /\ c[Len(m) + 1] = x
  BY <1>0
<1>2. PICK pos : /\ Counts(pos, m, Len(g)) /\ pos[Len(m)] = n
                 /\ \A i \in 1..Len(m) : m[i] # None => pos[i] <= Len(r) /\ m[i] = r[pos[i]]
  BY DEF Passes
<1> DEFINE p == [i \in 0..Len(m) + 1 |-> IF i = Len(m) + 1 THEN n + 1 ELSE pos[i]]
<1> HIDE DEF x
<1>3. Counts(p, c, Len(g))
  <2>1. n + 1 \in Nat /\ x \in Int /\ n + 1 = IF x = None THEN pos[Len(m)] ELSE pos[Len(m)] + 1
    BY <1>0, <1>2
  <2> HIDE DEF p
  <2> QED BY <1>1, <1>2, <2>1, CountsAppend DEF p
<1> HIDE DEF c
<1>4. p[Len(c)] = n + 1 BY <1>1
<1>5. ASSUME NEW i \in 1..Len(c), c[i] # None PROVE p[i] <= Len(r) /\ c[i] = r[p[i]]
  <2>1. CASE i \in 1..Len(m)
    <3>1. p[i] = pos[i] /\ m[i] = c[i] BY <1>1, <2>1
    <3>2. pos[i] <= Len(r) /\ m[i] = r[pos[i]] BY <1>2, <1>5, <2>1, <3>1
    <3> QED BY <3>1, <3>2
  <2>2. CASE i = Len(m) + 1 BY <1>0, <1>1, <2>2 DEF x
  <2> QED BY <1>1, <2>1, <2>2
<1> HIDE DEF p
<1>6. Passes(g, c, r, n + 1) BY <1>0, <1>3, <1>4, <1>5 DEF Passes
<1> QED BY <1>6 DEF c, x

LEMMA CountsTail ==
  ASSUME NEW m \in Seq(Int), m # <<>>, NEW a \in Nat, NEW pos, Counts(pos, m, a)
  PROVE  /\ Counts([i \in 0..Len(m) - 1 |-> pos[i + 1]], Tail(m), pos[1])
         /\ pos[1] = IF Head(m) = None THEN a ELSE a + 1
<1> DEFINE c == Tail(m)
           p == [i \in 0..Len(m) - 1 |-> pos[i + 1]]
<1>1. /\ Len(m) \in Nat \ {0} /\ Len(c) = Len(m) - 1 /\ Head(m) = m[1]
      /\ \A i \in 1..Len(c) : c[i] = m[i + 1]
  OBVIOUS
<1>2. \A i \in 0..Len(m) : pos[i] \in Nat BY DEF Counts
<1>3. pos[1] = IF Head(m) = None THEN a ELSE a + 1 BY <1>1 DEF Counts
<1> HIDE DEF c
<1>4. p \in [0..Len(c) -> Nat] BY <1>1, <1>2
<1>5. p[0] = pos[1] BY <1>1
<1>6. ASSUME NEW i \in 1..Len(c)
      PROVE  p[i] = IF c[i] = None THEN p[i - 1] ELSE p[i - 1] + 1
  <2>1. p[i] = pos[i + 1] /\ p[i - 1] = pos[i] /\ i + 1 \in 1..Len(m) /\ c[i] = m[i + 1]
    BY <1>1
  <2>2. pos[i + 1] = IF m[i + 1] = None THEN pos[(i + 1) - 1] ELSE pos[(i + 1) - 1] + 1
    BY <2>1 DEF Counts
  <2> QED BY <2>1, <2>2
<1>7. Counts(p, c, pos[1]) BY <1>4, <1>5, <1>6 DEF Counts
<1> QED BY <1>3, <1>7 DEF c

LEMMA PassesTake ==
  ASSUME NEW g \in Seq(Nat), NEW m \in Seq(Int), NEW r \in Seq(Nat), NEW n \in Nat,
         Passes(g, m, r, n), m # <<>>
  PROVE  /\ Head(m) = None => Passes(g, Tail(m), r, n)
         /\ Head(m) # None => Head(m) \in Nat /\ Passes(Append(g, Head(m)), Tail(m), r, n)
<1> DEFINE c == Tail(m)
           x == Head(m)
<1>1. /\ Len(m) \in Nat \ {0} /\ Len(c) = Len(m) - 1 /\ x = m[1] /\ Len(g) \in Nat
      /\ \A i \in 1..Len(c) : c[i] = m[i + 1]
  OBVIOUS
<1>2. PICK pos : /\ Counts(pos, m, Len(g)) /\ pos[Len(m)] = n
                 /\ \A i \in 1..Len(m) : m[i] # None => pos[i] <= Len(r) /\ m[i] = r[pos[i]]
  BY DEF Passes
<1> DEFINE p == [i \in 0..Len(m) - 1 |-> pos[i + 1]]
<1>3. Counts(p, c, pos[1]) /\ pos[1] = IF x = None THEN Len(g) ELSE Len(g) + 1
  <2>1. Len(g) \in Nat /\ Counts(pos, m, Len(g)) BY <1>1, <1>2
  <2> QED BY <2>1, CountsTail, Zenon
<1> HIDE DEF c, x
<1>4. p[Len(c)] = n BY <1>1, <1>2
<1>5. ASSUME NEW i \in 1..Len(c), c[i] # None PROVE p[i] <= Len(r) /\ c[i] = r[p[i]]
  <2>1. i + 1 \in 1..Len(m) /\ c[i] = m[i + 1] /\ p[i] = pos[i + 1] BY <1>1
  <2>2. pos[i + 1] <= Len(r) /\ m[i + 1] = r[pos[i + 1]] BY <1>2, <1>5, <2>1
  <2> QED BY <2>1, <2>2
<1> HIDE DEF p
<1>6. CASE x = None
  <2>1. Counts(p, c, Len(g)) BY <1>3, <1>6
  <2>2. Passes(g, c, r, n) BY <1>4, <1>5, <2>1 DEF Passes
  <2> QED BY <1>6, <2>2 DEF c, x
<1>7. CASE x # None
  <2>1. 1 \in 1..Len(m) BY <1>1
  <2>2. pos[1] <= Len(r) /\ m[1] = r[pos[1]] BY <1>1, <1>2, <1>7, <2>1
  <2>3. pos[1] = Len(g) + 1 /\ x = r[Len(g) + 1] /\ Len(g) + 1 <= Len(r) BY <1>1, <1>3, <1>7, <2>2
  <2>4. Len(g) + 1 \in 1..Len(r) BY <1>1, <2>3
  <2>5. x \in Nat BY <2>3, <2>4
  <2> DEFINE h == Append(g, x)
  <2>6. Len(h) = Len(g) + 1 /\ (\A i \in 1..Len(g) : h[i] = g[i]) /\ h[Len(g) + 1] = x
    BY <2>5
  <2> HIDE DEF h
  <2>7. ASSUME NEW i \in 1..Len(h) PROVE h[i] = r[i]
    <3>1. CASE i \in 1..Len(g)
      <4>1. g[i] = r[i] BY <3>1 DEF Passes
      <4> QED BY <2>6, <3>1, <4>1
    <3>2. CASE i = Len(g) + 1 BY <2>3, <2>6, <3>2
    <3> QED BY <1>1, <2>6, <3>1, <3>2
  <2>8. n <= Len(r) BY DEF Passes
  <2>9. Counts(p, c, Len(h)) BY <1>3, <2>3, <2>6
  <2>10. Passes(h, c, r, n) BY <1>4, <1>5, <2>3, <2>6, <2>7, <2>8, <2>9 DEF Passes
  <2> QED BY <1>7, <2>5, <2>10 DEF c, x, h
<1> QED BY <1>6, <1>7

LEMMA PassesAll ==
  ASSUME NEW g \in Seq(Nat), NEW r \in Seq(Nat), Passes(g, <<>>, r, Len(r))
  PROVE  g = r
<1>1. PICK pos : Counts(pos, <<>>, Len(g)) /\ pos[0] = Len(r) BY DEF Passes
<1>2. Len(g) = Len(r) BY <1>1 DEF Counts
<1>3. \A i \in 1..Len(g) : g[i] = r[i] BY DEF Passes
<1> QED BY <1>2, <1>3

\* What item i brings the outputs of kind w, or the outputs that copy.
Mark(i, w) ==
  IF w = "copy" THEN IF Copies(i) THEN i.pkt.n ELSE None
  ELSE IF i.ret # "packet_only" /\ i.frame.kind = w /\ i.frame # Frame("video", Sentinel)
       THEN i.frame.n ELSE None

Marks(q, w) == [j \in 1..Len(q) |-> Mark(q[j], w)]

LEMMA SameSeq ==
  ASSUME NEW s \in Seq(Int), NEW t \in Seq(Int), Len(s) = Len(t), \A i \in 1..Len(s) : s[i] = t[i]
  PROVE  s = t
OBVIOUS

LEMMA MarksSeq ==
  ASSUME NEW q \in Seq(Item), NEW w
  PROVE  /\ Marks(q, w) \in Seq(Int) /\ Len(Marks(q, w)) = Len(q)
         /\ \A i \in 1..Len(q) : Marks(q, w)[i] = Mark(q[i], w)
<1>1. ASSUME NEW i \in 1..Len(q) PROVE Mark(q[i], w) \in Int
  <2>1. q[i] \in Item BY <1>1
  <2>2. q[i].pkt.n \in Int /\ q[i].frame.n \in Int BY <2>1 DEF Item, Packet
  <2> QED BY <2>2 DEF Mark, None
<1>2. Len(q) \in Nat OBVIOUS
<1> QED BY <1>1, <1>2 DEF Marks

LEMMA MarksAppend ==
  ASSUME NEW q \in Seq(Item), NEW x \in Item, NEW w
  PROVE  Marks(Append(q, x), w) = Append(Marks(q, w), Mark(x, w))
<1> DEFINE c == Append(q, x)
           m == Marks(q, w)
           k == Mark(x, w)
<1>1. c \in Seq(Item) /\ Len(c) = Len(q) + 1 /\ (\A i \in 1..Len(q) : c[i] = q[i]) /\ c[Len(q) + 1] = x
      /\ Len(q) \in Nat
  OBVIOUS
<1>2. /\ Marks(c, w) \in Seq(Int) /\ Len(Marks(c, w)) = Len(c)
      /\ \A i \in 1..Len(c) : Marks(c, w)[i] = Mark(c[i], w)
  BY <1>1, MarksSeq
<1>3. /\ m \in Seq(Int) /\ Len(m) = Len(q) /\ \A i \in 1..Len(q) : m[i] = Mark(q[i], w)
  BY MarksSeq
<1> HIDE DEF c, m
<1>4. k \in Int
  <2>1. k = Marks(c, w)[Len(q) + 1] BY <1>1, <1>2
  <2> QED BY <1>1, <1>2, <2>1
<1> HIDE DEF k
<1>5. \A i \in 1..Len(q) : Marks(c, w)[i] = m[i] BY <1>1, <1>2, <1>3
<1>6. Marks(c, w)[Len(q) + 1] = k BY <1>1, <1>2 DEF k
<1> DEFINE n == Marks(c, w)
           a == Append(m, k)
<1>7. Len(a) = Len(q) + 1 /\ a \in Seq(Int) /\ (\A i \in 1..Len(q) : a[i] = m[i]) /\ a[Len(q) + 1] = k
  BY <1>3, <1>4
<1>8. n \in Seq(Int) /\ Len(n) = Len(q) + 1 BY <1>1, <1>2
<1> HIDE DEF n, a
<1>9. \A i \in 1..Len(q) + 1 : n[i] = a[i] BY <1>1, <1>5, <1>6, <1>7 DEF n
<1>10. n = a BY <1>7, <1>8, <1>9
<1> QED BY <1>10 DEF n, a, c, m, k

LEMMA MarksTail ==
  ASSUME NEW q \in Seq(Item), q # <<>>, NEW w
  PROVE  /\ Marks(q, w) # <<>> /\ Head(Marks(q, w)) = Mark(Head(q), w)
         /\ Tail(Marks(q, w)) = Marks(Tail(q), w)
<1> DEFINE c == Tail(q)
           m == Marks(q, w)
           n == Marks(c, w)
           t == Tail(m)
<1>1. /\ c \in Seq(Item) /\ Len(q) \in Nat \ {0} /\ Len(c) = Len(q) - 1 /\ Head(q) = q[1]
      /\ \A i \in 1..Len(c) : c[i] = q[i + 1]
  OBVIOUS
<1>2. /\ m \in Seq(Int) /\ Len(m) = Len(q)
      /\ \A i \in 1..Len(q) : m[i] = Mark(q[i], w)
  BY MarksSeq
<1>3. /\ n \in Seq(Int) /\ Len(n) = Len(c) /\ \A i \in 1..Len(c) : n[i] = Mark(c[i], w)
  BY <1>1, MarksSeq
<1> HIDE DEF c, m, n
<1>4. m # <<>> /\ Head(m) = m[1] BY <1>1, <1>2
<1>5. t \in Seq(Int) /\ Len(t) = Len(m) - 1 /\ \A i \in 1..Len(t) : t[i] = m[i + 1] BY <1>2, <1>4
<1>6. Head(m) = Mark(Head(q), w) BY <1>1, <1>2, <1>4
<1> HIDE DEF t
<1>7. ASSUME NEW i \in 1..Len(c) PROVE n[i] = t[i]
  <2>1. i \in 1..Len(t) /\ i + 1 \in 1..Len(q) BY <1>1, <1>2, <1>5
  <2>2. t[i] = Mark(q[i + 1], w) BY <1>2, <1>5, <2>1
  <2> QED BY <1>1, <1>3, <2>2
<1>8. n = t
  <2>1. Len(n) = Len(t) /\ Len(n) = Len(c) BY <1>1, <1>2, <1>3, <1>5
  <2>2. \A i \in 1..Len(n) : n[i] = t[i] BY <1>7, <2>1
  <2>3. n \in Seq(Int) /\ t \in Seq(Int) BY <1>3, <1>5
  <2> QED BY <2>1, <2>2, <2>3, SameSeq
<1> QED BY <1>4, <1>6, <1>8 DEF c, m, n, t

LEMMA MarksEmpty == \A w : Marks(<<>>, w) = <<>>
BY DEF Marks

\* The items that are with the loop: the queue, and the item of this iteration at
\* its end or, when the outputs are open, before it.
Line ==
  IF pc # "handle" THEN loop.queue
  ELSE IF SetOutputs THEN Append(loop.queue, it) ELSE <<it>> \o loop.queue

\* A packet goes to the outputs that copy from the moment it is demuxed.
Passing(w) ==
  IF w = "copy" /\ pc = "receive" /\ ~ictx.flushing THEN Marks(Append(loop.queue, it), w)
  ELSE Marks(Line, w)

\* A decoder that holds the frames b: sentinels, then the d frames that come
\* after the first n of r.
Behind(h, b, d, r, n) ==
  /\ h + d <= Len(b) /\ n + d <= Len(r)
  /\ \A i \in 1..h : b[i] = Sentinel
  /\ \A i \in 1..d : b[h + i] = r[n + i]

Contains(b, d, r, n) == \E h \in Nat : Behind(h, b, d, r, n)

LEMMA ContainsRead ==
  ASSUME NEW b \in Seq(Nat), NEW d \in Nat, NEW r \in Seq(Nat), NEW n \in Nat, NEW x \in Nat,
         Contains(b, d, r, n)
  PROVE  Contains(b, d, Append(r, x), n)
<1> DEFINE s == Append(r, x)
<1>1. Len(r) \in Nat /\ Len(s) = Len(r) + 1 /\ \A i \in 1..Len(r) : s[i] = r[i] OBVIOUS
<1>2. PICK h \in Nat : /\ h + d <= Len(b) /\ n + d <= Len(r)
                       /\ \A i \in 1..h : b[i] = Sentinel
                       /\ \A i \in 1..d : b[h + i] = r[n + i]
  BY DEF Contains, Behind
<1> HIDE DEF s
<1>3. ASSUME NEW i \in 1..d PROVE b[h + i] = s[n + i]
  <2>1. n + i \in 1..Len(r) BY <1>1, <1>2
  <2> QED BY <1>1, <1>2, <2>1
<1>4. Behind(h, b, d, s, n) BY <1>1, <1>2, <1>3 DEF Behind
<1>5. Contains(b, d, s, n) BY <1>4 DEF Contains
<1> QED BY <1>5 DEF s

LEMMA ContainsSentinel ==
  ASSUME NEW b \in Seq(Nat), NEW d \in Nat, NEW r \in Seq(Nat), NEW n \in Nat, NEW x \in Nat,
         Contains(b, d, r, n)
  PROVE  Contains(Append(b, x), d, r, n)
<1> DEFINE c == Append(b, x)
<1>1. Len(b) \in Nat /\ Len(c) = Len(b) + 1 /\ \A i \in 1..Len(b) : c[i] = b[i] OBVIOUS
<1>2. PICK h \in Nat : /\ h + d <= Len(b) /\ n + d <= Len(r)
                       /\ \A i \in 1..h : b[i] = Sentinel
                       /\ \A i \in 1..d : b[h + i] = r[n + i]
  BY DEF Contains, Behind
<1> HIDE DEF c
<1>3. ASSUME NEW i \in 1..h PROVE c[i] = Sentinel
  <2>1. i \in 1..Len(b) BY <1>1, <1>2
  <2> QED BY <1>1, <1>2, <2>1
<1>4. ASSUME NEW i \in 1..d PROVE c[h + i] = r[n + i]
  <2>1. h + i \in 1..Len(b) BY <1>1, <1>2
  <2> QED BY <1>1, <1>2, <2>1
<1>5. Behind(h, c, d, r, n) BY <1>1, <1>2, <1>3, <1>4 DEF Behind
<1> QED BY <1>5 DEF c, Contains

\* The decoder takes the next frame: it holds no sentinel of this flush.
LEMMA ContainsFrame ==
  ASSUME NEW b \in Seq(Nat), NEW d \in Nat, NEW r \in Seq(Nat), NEW n \in Nat, NEW k \in Nat,
         Contains(b, d, r, n), Shape(b, d, 0, FALSE, k), n + d < Len(r),
         \A i \in 1..Len(r) : r[i] # Sentinel
  PROVE  Contains(Append(b, r[n + d + 1]), d + 1, r, n)
<1> DEFINE x == r[n + d + 1]
           c == Append(b, x)
<1>1. Len(b) \in Nat /\ Len(r) \in Nat /\ x \in Nat
      /\ Len(c) = Len(b) + 1 /\ (\A i \in 1..Len(b) : c[i] = b[i]) /\ c[Len(b) + 1] = x
  OBVIOUS
<1>2. PICK g \in Nat : /\ g + d <= Len(b) /\ n + d <= Len(r)
                       /\ \A i \in 1..g : b[i] = Sentinel
                       /\ \A i \in 1..d : b[g + i] = r[n + i]
  BY DEF Contains, Behind
<1>3. k + d = Len(b) /\ \A i \in 1..Len(b) : b[i] # Sentinel <=> (k < i /\ i <= k + d)
  BY DEF Shape
<1> HIDE DEF c, x
<1>4. \A i \in 1..k : b[i] = Sentinel BY <1>1, <1>3
<1>5. ASSUME NEW i \in 1..d PROVE b[k + i] = r[n + i]
  <2>1. g + 1 \in 1..Len(b) /\ n + 1 \in 1..Len(r) /\ 1 \in 1..d BY <1>1, <1>2
  <2>2. b[g + 1] = r[n + 1] BY <1>2, <2>1
  <2>3. b[g + 1] # Sentinel BY <2>1, <2>2
  <2>4. k < g + 1 BY <1>3, <2>1, <2>3
  <2>5. k = g BY <1>1, <1>2, <1>3, <2>4
  <2> QED BY <1>2, <2>5
<1>6. ASSUME NEW i \in 1..d + 1 PROVE c[k + i] = r[n + i]
  <2>1. CASE i \in 1..d
    <3>1. k + i \in 1..Len(b) BY <1>1, <1>3, <2>1
    <3> QED BY <1>1, <1>5, <2>1, <3>1
  <2>2. CASE i = d + 1
    <3>1. k + i = Len(b) + 1 /\ n + i = n + d + 1 BY <1>1, <1>3, <2>2
    <3> QED BY <1>1, <3>1 DEF x
  <2> QED BY <2>1, <2>2
<1>7. ASSUME NEW i \in 1..k PROVE c[i] = Sentinel
  <2>1. i \in 1..Len(b) BY <1>1, <1>3
  <2> QED BY <1>1, <1>4, <2>1
<1>8. k + (d + 1) <= Len(c) /\ n + (d + 1) <= Len(r) BY <1>1, <1>3
<1>9. Behind(k, c, d + 1, r, n) BY <1>6, <1>7, <1>8 DEF Behind
<1> QED BY <1>9 DEF c, x, Contains

\* It gives its oldest frame.
LEMMA ContainsGives ==
  ASSUME NEW b \in Seq(Nat), NEW d \in Nat, NEW r \in Seq(Nat), NEW n \in Nat, b # <<>>,
         Contains(b, d, r, n), \A i \in 1..Len(r) : r[i] # Sentinel
  PROVE  /\ Head(b) = Sentinel => Contains(Tail(b), d, r, n)
         /\ Head(b) # Sentinel /\ d > 0 => /\ Head(b) = r[n + 1] /\ n < Len(r)
                                           /\ Contains(Tail(b), d - 1, r, n + 1)
<1> DEFINE c == Tail(b)
<1>1. /\ Len(b) \in Nat \ {0} /\ Len(r) \in Nat /\ Len(c) = Len(b) - 1 /\ Head(b) = b[1]
      /\ \A i \in 1..Len(c) : c[i] = b[i + 1]
  OBVIOUS
<1>2. PICK h \in Nat : /\ h + d <= Len(b) /\ n + d <= Len(r)
                       /\ \A i \in 1..h : b[i] = Sentinel
                       /\ \A i \in 1..d : b[h + i] = r[n + i]
  BY DEF Contains, Behind
<1>3. d > 0 => b[h + 1] = r[n + 1] /\ b[h + 1] # Sentinel /\ n < Len(r)
  <2> SUFFICES ASSUME d > 0 PROVE b[h + 1] = r[n + 1] /\ b[h + 1] # Sentinel /\ n < Len(r) OBVIOUS
  <2>1. 1 \in 1..d /\ n + 1 \in 1..Len(r) /\ n < Len(r) BY <1>1, <1>2
  <2> QED BY <1>2, <2>1
<1> HIDE DEF c
<1>4. CASE Head(b) = Sentinel
  <2>1. CASE h = 0
    <3>1. d = 0 BY <1>1, <1>3, <1>4, <2>1
    <3>2. 0 + d <= Len(c) /\ n + d <= Len(r) BY <1>1, <1>2, <3>1
    <3>3. Behind(0, c, d, r, n) BY <3>1, <3>2 DEF Behind
    <3> QED BY <1>4, <3>3 DEF c, Contains
  <2>2. CASE h > 0
    <3> DEFINE k == h - 1
    <3>1. k \in Nat /\ k + d <= Len(c) /\ n + d <= Len(r) BY <1>1, <1>2, <2>2
    <3>2. ASSUME NEW i \in 1..k PROVE c[i] = Sentinel
      <4>1. i \in 1..Len(c) /\ i + 1 \in 1..h BY <1>1, <3>1, <3>2
      <4> QED BY <1>1, <1>2, <4>1
    <3>3. ASSUME NEW i \in 1..d PROVE c[k + i] = r[n + i]
      <4>1. k + i \in 1..Len(c) /\ (k + i) + 1 = h + i BY <1>1, <3>1, <3>3
      <4>2. c[k + i] = b[h + i] BY <1>1, <4>1
      <4> QED BY <1>2, <4>2
    <3> HIDE DEF k
    <3>4. Behind(k, c, d, r, n) BY <3>1, <3>2, <3>3 DEF Behind
    <3>5. Contains(c, d, r, n) BY <3>1, <3>4 DEF Contains
    <3> QED BY <1>4, <3>5 DEF c
  <2> QED BY <2>1, <2>2
<1>5. CASE Head(b) # Sentinel /\ d > 0
  <2>1. h = 0
    <3>1. h > 0 => 1 \in 1..h OBVIOUS
    <3> QED BY <1>1, <1>2, <1>5, <3>1
  <2>2. Head(b) = r[n + 1] /\ n < Len(r) BY <1>1, <1>3, <1>5, <2>1
  <2>3. ASSUME NEW i \in 1..d - 1 PROVE c[0 + i] = r[(n + 1) + i]
    <3>1. i \in 1..Len(c) /\ i + 1 \in 1..d /\ n + (i + 1) = (n + 1) + i BY <1>1, <1>2, <2>1, <2>3
    <3>2. b[0 + (i + 1)] = r[n + (i + 1)] BY <1>2, <2>1, <3>1
    <3> QED BY <1>1, <3>1, <3>2
  <2>4. d - 1 \in Nat /\ 0 + (d - 1) <= Len(c) /\ (n + 1) + (d - 1) <= Len(r) BY <1>1, <1>2, <1>5
  <2>5. Behind(0, c, d - 1, r, n + 1) BY <2>3, <2>4 DEF Behind
  <2> QED BY <1>5, <2>2, <2>5 DEF c, Contains
<1> QED BY <1>4, <1>5

LEMMA DemuxedView ==
  ASSUME LoopTypeOK, NEW p \in Incoming, Demuxed(p)
  PROVE  \/ ictx.blocked # NoPacket /\ p = ictx.blocked /\ read' = read
         \/ /\ ictx.blocked = NoPacket /\ ~read.eof /\ p.n = read.last + 1
            /\ read'.first = read.first /\ read'.last = p.n /\ ~read'.eof
            /\ read'.video = IF p.kind = "video" THEN Append(read.video, p.n) ELSE read.video
            /\ read'.audio = IF p.kind = "audio" THEN Append(read.audio, p.n) ELSE read.audio
<1>1. CASE ictx.blocked # NoPacket BY <1>1, Zenon DEF Incoming, Demuxed
<1>2. CASE ictx.blocked = NoPacket
  <2>1. ~read.eof /\ p.n = read.last + 1 BY <1>2 DEF Incoming
  <2> DEFINE v == IF p.kind = "video" THEN Append(read.video, p.n) ELSE read.video
             a == IF p.kind = "audio" THEN Append(read.audio, p.n) ELSE read.audio
  <2>2. read' = [read EXCEPT !.last = p.n, !.video = v, !.audio = a]
    BY <1>2, Zenon DEF Demuxed
  <2> HIDE DEF v, a
  <2>3. /\ read'.first = read.first /\ read'.last = p.n /\ read'.eof = read.eof
        /\ read'.video = v /\ read'.audio = a
    BY <2>2 DEF LoopTypeOK, Reading
  <2> QED BY <1>2, <2>1, <2>3 DEF v, a
<1> QED BY <1>1, <1>2

LEMMA GotFields ==
  ASSUME NEW stream, NEW pkt, NEW frame, NEW ret, Got(stream, pkt, frame, ret)
  PROVE  it'.stream = stream /\ it'.pkt = pkt /\ it'.frame = frame /\ it'.ret = ret
BY DEF Got

LEMMA RefuseFields ==
  ASSUME LoopTypeOK, Refuse
  PROVE  /\ dec'.buf = dec.buf /\ dec.buf # <<>> /\ dec'.draining
         /\ (dec.draining /\ faults' = faults) \/ faults' = faults + 1
BY DEF Refuse, Fault, LoopTypeOK, Decoder

LEMMA SendVideoView ==
  ASSUME LoopTypeOK, Control, SendVideo
  PROVE  \E p \in Incoming :
    /\ p.kind = "video" /\ cfg.vdec /\ pc = "read" /\ pc' = "receive"
    /\ UNCHANGED <<cfg, adec, loop, outcome, given, upset>>
    /\ Demuxed(p)
    /\ it'.stream = "video" /\ it'.pkt = p /\ it'.frame = NoFrame /\ it'.ret = "ok"
    /\ ~ictx.flushing /\ ~ictx'.flushing
    /\ \/ /\ dec'.buf = Append(dec.buf, p.n) /\ ~dec'.draining /\ faults' = faults
          /\ ictx'.pkt_diff = (ictx.pkt_diff + 1) % DiffMod /\ ictx'.blocked = NoPacket
       \/ /\ dec'.buf = dec.buf /\ ((dec.draining /\ faults' = faults) \/ faults' = faults + 1)
          /\ ictx'.pkt_diff = ictx.pkt_diff /\ ictx'.blocked = p
<1>1. PICK p \in Incoming, key \in BOOLEAN :
        /\ p.kind = "video" /\ cfg.vdec
        /\ Demuxed(p)
        /\ Got("video", p, NoFrame, "ok")
        /\ \/ /\ Accept(p.n)
              /\ ictx' = [ictx EXCEPT !.pkt_diff = (@ + 1) % DiffMod,
                                      !.flush_pkt = @ \/ key, !.blocked = NoPacket]
           \/ /\ Refuse
              /\ ictx' = [ictx EXCEPT !.flush_pkt = @ \/ key, !.blocked = p]
  BY Zenon DEF SendVideo
<1>2. ~ictx.flushing BY <1>1 DEF Control, Incoming
<1> DEFINE f == ictx.flush_pkt \/ key
           d == (ictx.pkt_diff + 1) % DiffMod
<1>3. \/ /\ Accept(p.n)
         /\ ictx' = [ictx EXCEPT !.pkt_diff = d, !.flush_pkt = f, !.blocked = NoPacket]
      \/ Refuse /\ ictx' = [ictx EXCEPT !.flush_pkt = f, !.blocked = p]
  BY <1>1, Zenon
<1> HIDE DEF f, d
<1>4. /\ ictx'.flushing = ictx.flushing
      /\ \/ Accept(p.n) /\ ictx'.pkt_diff = d /\ ictx'.blocked = NoPacket
         \/ Refuse /\ ictx'.pkt_diff = ictx.pkt_diff /\ ictx'.blocked = p
  BY <1>3 DEF LoopTypeOK, InputCtx
<1>5. \/ /\ dec'.buf = Append(dec.buf, p.n) /\ ~dec'.draining /\ faults' = faults
         /\ ictx'.pkt_diff = d /\ ictx'.blocked = NoPacket
      \/ /\ dec'.buf = dec.buf /\ ((dec.draining /\ faults' = faults) \/ faults' = faults + 1)
         /\ ictx'.pkt_diff = ictx.pkt_diff /\ ictx'.blocked = p
  <2>1. Accept(p.n) => dec'.buf = Append(dec.buf, p.n) /\ ~dec'.draining /\ faults' = faults
    <3> DEFINE b == Append(dec.buf, p.n)
    <3>1. Accept(p.n) => dec' = [buf |-> b, draining |-> FALSE] /\ faults' = faults BY DEF Accept
    <3> HIDE DEF b
    <3>2. Accept(p.n) => dec'.buf = b /\ ~dec'.draining /\ faults' = faults BY <3>1
    <3> QED BY <3>2 DEF b
  <2> QED BY <1>4, <2>1, RefuseFields
<1>6. it'.stream = "video" /\ it'.pkt = p /\ it'.frame = NoFrame /\ it'.ret = "ok"
  BY <1>1, GotFields
<1>7. pc = "read" /\ pc' = "receive" /\ UNCHANGED <<cfg, adec, loop, outcome, given, upset>>
  BY DEF SendVideo, Processing
<1> QED BY <1>1, <1>2, <1>4, <1>5, <1>6, <1>7 DEF d

\* What receiving does, for a packet or for a sentinel.
LEMMA ReceiveView ==
  ASSUME LoopTypeOK, Control, ReceiveDecoded \/ ReceiveFlushed
  PROVE
    /\ pc = "receive" /\ UNCHANGED <<cfg, adec, loop, outcome, read, given>>
    /\ it'.stream = it.stream /\ it'.pkt = it.pkt
    /\ ictx'.blocked = ictx.blocked /\ ictx'.flushing = ictx.flushing
    /\ upset => upset'
    /\ faults' \in Nat /\ faults' >= faults
    /\ dec'.draining = dec.draining
    /\ dec'.buf = dec.buf \/ (dec.buf # <<>> /\ dec'.buf = Tail(dec.buf))
    /\ \/ /\ pc' = "handle" /\ dec.buf # <<>> /\ (upset' \/ dec'.buf = Tail(dec.buf))
          /\ it'.frame = Frame("video", Head(dec.buf)) /\ it'.ret = "ok"
          /\ ictx'.pkt_diff = IF Head(dec.buf) = Sentinel THEN ictx.pkt_diff
                              ELSE (ictx.pkt_diff + DiffMod - 1) % DiffMod
       \/ /\ pc' = "handle" \/ (pc' = "audio" /\ ictx.flushing)
          /\ upset' \/ dec' = dec
          /\ it'.frame = it.frame /\ it'.ret \in {"packet_only", "again"}
          /\ ictx'.pkt_diff = ictx.pkt_diff
       \/ /\ pc' = "audio" /\ ictx.flushing /\ upset' /\ it' = it
          /\ ictx'.pkt_diff = ictx.pkt_diff
<1>1. /\ pc = "receive" /\ UNCHANGED <<cfg, adec, loop, outcome, read, given>>
      /\ faults \in Nat /\ it \in Item /\ it.ret = "ok" /\ ictx \in InputCtx /\ dec \in Decoder
  BY DEF ReceiveDecoded, ReceiveFlushed, LoopTypeOK, Control
<1>2. ASSUME Give
      PROVE  /\ dec.buf # <<>> /\ faults' \in Nat /\ faults' >= faults /\ (upset => upset')
             /\ dec'.draining = dec.draining
             /\ dec'.buf = dec.buf \/ dec'.buf = Tail(dec.buf)
             /\ upset' \/ dec'.buf = Tail(dec.buf)
             /\ Head(dec.buf) \in Nat
  <2>1. dec.buf # <<>> BY <1>2 DEF Give
  <2>2. Head(dec.buf) \in Nat BY <2>1, TypesTail
  <2> DEFINE t == Tail(dec.buf)
  <2>3. \/ dec' = [dec EXCEPT !.buf = t] /\ UNCHANGED <<faults, upset>>
        \/ faults' = faults + 1 /\ upset' /\ UNCHANGED dec
    BY <1>2 DEF Give, Fault
  <2> HIDE DEF t
  <2>4. \/ dec'.buf = t /\ dec'.draining = dec.draining /\ UNCHANGED <<faults, upset>>
        \/ faults' = faults + 1 /\ upset' /\ UNCHANGED dec
    BY <1>1, <2>3 DEF Decoder
  <2> QED BY <1>1, <2>1, <2>2, <2>4 DEF t
<1>3. ASSUME Wait
      PROVE  /\ faults' \in Nat /\ faults' >= faults /\ (upset => upset')
             /\ dec'.draining = dec.draining
             /\ dec'.buf = dec.buf \/ (dec.buf # <<>> /\ dec'.buf = Tail(dec.buf))
             /\ upset' \/ dec' = dec
  <2> DEFINE t == Tail(dec.buf)
  <2>1. \/ dec.buf # <<>> /\ dec' = [dec EXCEPT !.buf = t] /\ faults' = faults + 1 /\ upset'
        \/ UNCHANGED <<dec, faults, upset>>
    BY <1>3 DEF Wait, Fault
  <2> HIDE DEF t
  <2>2. \/ dec.buf # <<>> /\ dec'.buf = t /\ dec'.draining = dec.draining /\ faults' = faults + 1 /\ upset'
        \/ UNCHANGED <<dec, faults, upset>>
    BY <1>1, <2>1 DEF Decoder
  <2> QED BY <1>1, <2>2 DEF t
<1>4. ASSUME Give, it' = [it EXCEPT !.frame = Frame("video", Head(dec.buf))]
      PROVE  /\ it'.stream = it.stream /\ it'.pkt = it.pkt /\ it'.ret = "ok"
             /\ it'.frame = Frame("video", Head(dec.buf))
  BY <1>1, <1>4 DEF Item
<1>5. ASSUME NEW r, it' = [it EXCEPT !.ret = r]
      PROVE  it'.stream = it.stream /\ it'.pkt = it.pkt /\ it'.ret = r /\ it'.frame = it.frame
  BY <1>1, <1>5 DEF Item
<1> DEFINE c == Received(ictx, Head(dec.buf))
<1>6. ASSUME Give
      PROVE  /\ c \in InputCtx /\ c.flushing = ictx.flushing /\ c.blocked = ictx.blocked
             /\ c.pkt_diff = IF Head(dec.buf) = Sentinel THEN ictx.pkt_diff
                             ELSE (ictx.pkt_diff + DiffMod - 1) % DiffMod
  <2>1. Head(dec.buf) \in Nat BY <1>2, <1>6
  <2>2. c \in InputCtx BY <1>1, <2>1, TypesReceived
  <2> QED BY <1>1, <2>1, <2>2, ReceivedFields
<1> HIDE DEF c
<1>7. CASE /\ Give /\ it' = [it EXCEPT !.frame = Frame("video", Head(dec.buf))] /\ pc' = "handle"
           /\ ictx' = c \/ ictx' = [c EXCEPT !.flushed = ~GoesOn(c)]
  <2>1. /\ ictx'.flushing = ictx.flushing /\ ictx'.blocked = ictx.blocked
        /\ ictx'.pkt_diff = c.pkt_diff
    BY <1>6, <1>7, FlushedFields
  <2> QED BY <1>1, <1>2, <1>4, <1>6, <1>7, <2>1
<1>8. CASE /\ Wait /\ (it' = [it EXCEPT !.ret = "packet_only"] \/ it' = [it EXCEPT !.ret = "again"])
           /\ pc' = "handle" \/ (pc' = "audio" /\ ictx.flushing)
           /\ ictx' = ictx \/ ictx' = [ictx EXCEPT !.flushed = ~GoesOn(ictx)]
  <2>1. /\ ictx'.flushing = ictx.flushing /\ ictx'.blocked = ictx.blocked
        /\ ictx'.pkt_diff = ictx.pkt_diff
    BY <1>1, <1>8, FlushedFields
  <2>2. /\ it'.stream = it.stream /\ it'.pkt = it.pkt /\ it'.frame = it.frame
        /\ it'.ret \in {"packet_only", "again"}
    BY <1>5, <1>8
  <2> QED BY <1>1, <1>3, <1>8, <2>1, <2>2
<1>9. CASE /\ Fault("error") /\ upset' = TRUE /\ ictx' = [ictx EXCEPT !.flushed = TRUE]
           /\ pc' = "audio" /\ UNCHANGED <<dec, it>> /\ ictx.flushing
  <2>1. /\ ictx'.flushing = ictx.flushing /\ ictx'.blocked = ictx.blocked
        /\ ictx'.pkt_diff = ictx.pkt_diff
    BY <1>1, <1>9 DEF InputCtx
  <2>2. faults' \in Nat /\ faults' >= faults BY <1>1, <1>9 DEF Fault
  <2>3. upset' BY <1>9, Zenon
  <2>4. pc' = "audio" /\ ictx.flushing /\ dec' = dec /\ it' = it BY <1>9
  <2>5. it'.stream = it.stream /\ it'.pkt = it.pkt /\ dec'.draining = dec.draining /\ dec'.buf = dec.buf
    BY <2>4
  <2> QED BY <1>1, <2>1, <2>2, <2>3, <2>4, <2>5, Zenon
<1>10. CASE ReceiveDecoded BY <1>10, <1>7, <1>8, Zenon DEF ReceiveDecoded, c
<1>11. CASE ReceiveFlushed BY <1>11, <1>7, <1>8, <1>9, Zenon DEF ReceiveFlushed, c
<1> QED BY <1>10, <1>11

LEMMA SendSentinelView ==
  ASSUME LoopTypeOK, Control, SendSentinel
  PROVE  /\ pc = "read" /\ pc' = "receive" /\ cfg.vdec
         /\ UNCHANGED <<cfg, adec, loop, outcome, given, upset>>
         /\ ictx.blocked = NoPacket /\ ictx'.blocked = NoPacket
         /\ read'.eof /\ read'.first = read.first /\ read'.last = read.last
         /\ read'.video = read.video /\ read'.audio = read.audio
         /\ it'.stream = "video" /\ it'.pkt = Blank /\ it'.frame = NoFrame /\ it'.ret = "ok"
         /\ ictx.pkt_diff > 0 /\ ictx'.pkt_diff = ictx.pkt_diff /\ ictx'.flushing
         /\ \/ dec'.buf = Append(dec.buf, Sentinel) /\ ~dec'.draining /\ faults' = faults
            \/ dec'.buf = dec.buf /\ ((dec.draining /\ faults' = faults) \/ faults' = faults + 1)
<1>1. it'.stream = "video" /\ it'.pkt = Blank /\ it'.frame = NoFrame /\ it'.ret = "ok"
  BY GotFields DEF SendSentinel
<1>2. /\ read'.eof /\ read'.first = read.first /\ read'.last = read.last
      /\ read'.video = read.video /\ read'.audio = read.audio
  BY DEF SendSentinel, LoopTypeOK, Reading
<1>3. ictx'.blocked = ictx.blocked /\ ictx'.pkt_diff = ictx.pkt_diff /\ ictx'.flushing
  BY DEF SendSentinel, CountedSentinel, LoopTypeOK, InputCtx
<1>4. \/ dec'.buf = Append(dec.buf, Sentinel) /\ ~dec'.draining /\ faults' = faults
      \/ dec'.buf = dec.buf /\ ((dec.draining /\ faults' = faults) \/ faults' = faults + 1)
  <2> DEFINE b == Append(dec.buf, Sentinel)
  <2>1. (dec' = [buf |-> b, draining |-> FALSE] /\ faults' = faults) \/ Refuse
    BY DEF SendSentinel, Accept
  <2> HIDE DEF b
  <2>2. (dec'.buf = b /\ ~dec'.draining /\ faults' = faults) \/ Refuse BY <2>1
  <2> QED BY <2>2, RefuseFields DEF b
<1> QED BY <1>1, <1>2, <1>3, <1>4 DEF SendSentinel, AtEnd, NeedsFlush, Processing

LEMMA DecodeAudioView ==
  ASSUME LoopTypeOK, Control, DecodeAudio
  PROVE  \E p \in Incoming :
    /\ pc = "read" /\ pc' = "handle" /\ p.kind = "audio" /\ cfg.adec /\ Demuxed(p)
    /\ UNCHANGED <<cfg, ictx, dec, loop, outcome, given, faults, upset>>
    /\ it'.stream = "audio" /\ it'.pkt = p
    /\ LET held == Append(adec, p.n)
       IN  \/ it'.frame = Frame("audio", Head(held)) /\ it'.ret = "ok" /\ adec' = Tail(held)
           \/ it'.frame = NoFrame /\ it'.ret = "packet_only" /\ adec' = held
<1>1. PICK p \in Incoming :
          /\ p.kind = "audio" /\ cfg.adec /\ Demuxed(p)
          /\ LET held == Append(adec, p.n)
             IN  IF Len(held) > AudioDelay
                 THEN /\ adec' = Tail(held)
                      /\ Got("audio", p, Frame("audio", Head(held)), "ok")
                 ELSE adec' = held /\ Got("audio", p, NoFrame, "packet_only")
  BY Zenon DEF DecodeAudio
<1> DEFINE held == Append(adec, p.n)
<1>2. \/ adec' = Tail(held) /\ Got("audio", p, Frame("audio", Head(held)), "ok")
      \/ adec' = held /\ Got("audio", p, NoFrame, "packet_only")
  BY <1>1, Zenon
<1> HIDE DEF held
<1>3. /\ it'.stream = "audio" /\ it'.pkt = p
      /\ \/ it'.frame = Frame("audio", Head(held)) /\ it'.ret = "ok" /\ adec' = Tail(held)
         \/ it'.frame = NoFrame /\ it'.ret = "packet_only" /\ adec' = held
  BY <1>2, GotFields
<1>4. /\ pc = "read" /\ pc' = "handle"
      /\ UNCHANGED <<cfg, ictx, dec, loop, outcome, given, faults, upset>>
  BY DEF DecodeAudio, Processing
<1> QED BY <1>1, <1>3, <1>4 DEF held

LEMMA PassPacketView ==
  ASSUME LoopTypeOK, Control, PassPacket
  PROVE  \E p \in Incoming :
    /\ pc = "read" /\ pc' = "handle" /\ Demuxed(p)
    /\ p.kind \in Kinds /\ (p.kind = "video" => ~cfg.vdec) /\ (p.kind = "audio" => ~cfg.adec)
    /\ UNCHANGED <<cfg, ictx, dec, adec, loop, outcome, given, faults, upset>>
    /\ it'.stream = p.kind /\ it'.pkt = (IF p.kind = "other" THEN Blank ELSE p)
    /\ it'.frame = NoFrame /\ it'.ret = "ok"
<1>1. PICK p \in Incoming :
        /\ IF p.kind = "video" THEN ~cfg.vdec ELSE p.kind = "audio" => ~cfg.adec
        /\ Demuxed(p) /\ Got(p.kind, IF p.kind = "other" THEN Blank ELSE p, NoFrame, "ok")
  BY DEF PassPacket
<1>2. /\ it'.stream = p.kind /\ it'.pkt = (IF p.kind = "other" THEN Blank ELSE p)
      /\ it'.frame = NoFrame /\ it'.ret = "ok"
  BY <1>1, GotFields
<1>3. /\ pc = "read" /\ pc' = "handle"
      /\ UNCHANGED <<cfg, ictx, dec, adec, loop, outcome, given, faults, upset>>
  BY DEF PassPacket, Processing
<1>4. p.kind \in Kinds BY TypesIncoming DEF Demuxable
<1> QED BY <1>1, <1>2, <1>3, <1>4

LEMMA FlushAudioView ==
  ASSUME LoopTypeOK, Control, FlushAudio
  PROVE  /\ pc \in {"read", "audio"} /\ pc' = "handle" /\ ~EofQueued
         /\ UNCHANGED <<cfg, ictx, dec, loop, outcome, given, faults, upset>>
         /\ ictx.blocked = NoPacket
         /\ read'.eof /\ read'.first = read.first /\ read'.last = read.last
         /\ read'.video = read.video /\ read'.audio = read.audio
         /\ it'.pkt = Blank
         /\ \/ /\ cfg.adec /\ adec # <<>> /\ adec' = Tail(adec)
               /\ it'.stream = "audio" /\ it'.frame = Frame("audio", Head(adec)) /\ it'.ret = "ok"
            \/ /\ (cfg.adec => adec = <<>>) /\ adec' = adec
               /\ it'.frame = NoFrame /\ it'.ret = "eof"
<1>1. /\ read'.eof /\ read'.first = read.first /\ read'.last = read.last
      /\ read'.video = read.video /\ read'.audio = read.audio
  BY DEF FlushAudio, LoopTypeOK, Reading
<1>2. /\ it'.pkt = Blank
      /\ \/ /\ cfg.adec /\ adec # <<>> /\ adec' = Tail(adec)
            /\ it'.stream = "audio" /\ it'.frame = Frame("audio", Head(adec)) /\ it'.ret = "ok"
         \/ /\ (cfg.adec => adec = <<>>) /\ adec' = adec
            /\ it'.frame = NoFrame /\ it'.ret = "eof"
  BY DEF FlushAudio, Got
<1>3. pc \in {"read", "audio"} /\ ~EofQueued /\ ictx.blocked = NoPacket
  <2>1. CASE pc = "audio" BY <2>1 DEF Control
  <2>2. CASE AtEnd BY <2>2, ProcessingNoEof DEF AtEnd
  <2> QED BY <2>1, <2>2 DEF FlushAudio
<1> QED BY <1>1, <1>2, <1>3 DEF FlushAudio

LEMMA ReadQueueView ==
  ASSUME LoopTypeOK, ReadQueue
  PROVE  LET x == Head(loop.queue)
         IN  /\ pc = "read" /\ pc' = "handle" /\ loop.queue # <<>> /\ loop.queue \in Seq(Item)
             /\ UNCHANGED <<cfg, ictx, dec, adec, outcome, read, given, faults, upset>>
             /\ loop.ready /\ loop'.ready /\ loop'.open = loop.open /\ loop'.queue = Tail(loop.queue)
             /\ x \in Item /\ it'.stream = StreamOf(x.pkt) /\ it'.pkt = x.pkt
             /\ it'.frame = x.frame /\ it'.ret = x.ret
<1>1. loop.queue \in Seq(Item) /\ loop.queue # <<>> BY DEF ReadQueue, LoopTypeOK, Loop
<1> DEFINE x == Head(loop.queue)
           t == Tail(loop.queue)
           s == StreamOf(x.pkt)
<1>2. x \in Item BY <1>1
<1>3. loop' = [loop EXCEPT !.queue = t] /\ it' = [x EXCEPT !.stream = s] BY DEF ReadQueue, NextItem
<1> HIDE DEF x, t, s
<1>4. loop'.ready = loop.ready /\ loop'.open = loop.open /\ loop'.queue = t BY <1>3 DEF LoopTypeOK, Loop
<1>5. it'.stream = s /\ it'.pkt = x.pkt /\ it'.frame = x.frame /\ it'.ret = x.ret BY <1>2, <1>3 DEF Item
<1> QED BY <1>1, <1>2, <1>4, <1>5 DEF ReadQueue, x, t, s

LEMMA EnqueueView ==
  ASSUME LoopTypeOK, Control, Enqueue
  PROVE  \E x \in Item :
    /\ pc = "handle" /\ pc' = "read" /\ SetOutputs /\ ~EofQueued
    /\ UNCHANGED <<cfg, ictx, dec, adec, it, outcome, read, given, faults, upset>>
    /\ loop'.queue = Append(loop.queue, x) /\ (loop'.ready <=> Opens) /\ (loop'.open <=> Opens)
    /\ x.stream = it.stream /\ x.frame = it.frame /\ x.ret = it.ret
    /\ x.pkt = IF it.ret = "eof" THEN NoPacket ELSE it.pkt
<1> DEFINE x == IF it.ret = "eof" THEN [it EXCEPT !.pkt = NoPacket] ELSE it
           o == Opens
           q == Append(loop.queue, x)
<1>1. /\ x \in Item /\ x.stream = it.stream /\ x.frame = it.frame /\ x.ret = it.ret
      /\ x.pkt = IF it.ret = "eof" THEN NoPacket ELSE it.pkt
  BY Constants DEF LoopTypeOK, Item
<1>2. loop' = [ready |-> o, open |-> o, queue |-> q] BY Zenon DEF Enqueue
<1> HIDE DEF x, o, q
<1>3. loop'.queue = q /\ loop'.ready = o /\ loop'.open = o BY <1>2
<1>4. ~EofQueued BY DEF Enqueue, SetOutputs, Control
<1> QED BY <1>1, <1>3, <1>4 DEF Enqueue, o, q

LEMMA DeliverView ==
  ASSUME LoopTypeOK, Deliver
  PROVE  /\ pc = "handle" /\ pc' = "read" /\ ~SetOutputs /\ it.ret # "eof"
         /\ UNCHANGED <<cfg, ictx, dec, adec, it, outcome, read, faults, upset>>
         /\ loop'.queue = loop.queue /\ loop'.ready /\ loop'.open = loop.open
BY DEF Deliver, LoopTypeOK, Loop

LEMMA DeliverGives ==
  ASSUME LoopTypeOK, Deliver
  PROVE  /\ given'.video = IF ~IsSentinel(it) /\ HasFrame(it) /\ it.stream = "video"
                           THEN Append(given.video, it.frame.n) ELSE given.video
         /\ given'.audio = IF ~IsSentinel(it) /\ HasFrame(it) /\ it.stream = "audio"
                           THEN Append(given.audio, it.frame.n) ELSE given.audio
         /\ ~cfg.cuts => given'.copied = IF ~IsSentinel(it) /\ Copies(it)
                                         THEN Append(given.copied, it.pkt.n) ELSE given.copied
<1> DEFINE v == IF HasFrame(it) /\ it.stream = "video"
                THEN Append(given.video, it.frame.n) ELSE given.video
           a == IF HasFrame(it) /\ it.stream = "audio"
                THEN Append(given.audio, it.frame.n) ELSE given.audio
           c(cut) == IF Copies(it) /\ ~cut THEN Append(given.copied, it.pkt.n) ELSE given.copied
<1>1. PICK cut \in BOOLEAN :
        /\ cut => cfg.cuts
        /\ given' = IF IsSentinel(it) THEN given ELSE [video |-> v, audio |-> a, copied |-> c(cut)]
  BY Zenon DEF Deliver
<1> HIDE DEF v, a, c
<1>2. given'.video = IF IsSentinel(it) THEN given.video ELSE v BY <1>1
<1>3. given'.audio = IF IsSentinel(it) THEN given.audio ELSE a BY <1>1
<1>4. ~cfg.cuts => cut = FALSE BY <1>1
<1>5. ~cfg.cuts => given'.copied = IF IsSentinel(it) THEN given.copied ELSE c(FALSE) BY <1>1, <1>4
<1> QED BY <1>2, <1>3, <1>5 DEF v, a, c

LEMMA BeginView ==
  ASSUME LoopTypeOK, BeginCall
  PROVE  /\ pc = "idle" /\ pc' = "read" /\ outcome' = "none"
         /\ UNCHANGED <<cfg, ictx, faults, upset>>
         /\ adec' = <<>> /\ loop'.queue = <<>> /\ ~loop'.ready
         /\ read'.first = read.last /\ read'.last = read.last /\ ~read'.eof
         /\ read'.video = <<>> /\ read'.audio = <<>>
         /\ given'.video = <<>> /\ given'.audio = <<>> /\ given'.copied = <<>>
         /\ dec' = dec \/ (dec'.buf = <<>> /\ ~dec'.draining)
         /\ ~cfg.hw => dec'.buf = <<>>
<1> DEFINE open == cfg.kept /\ loop.open
           e == <<>>
<1>1. loop' = [ready |-> FALSE, open |-> open, queue |-> e] BY Zenon DEF BeginCall
<1>2. /\ read' = [first |-> read.last, last |-> read.last, eof |-> FALSE, video |-> e, audio |-> e]
      /\ given' = [video |-> e, audio |-> e, copied |-> e]
      /\ dec' = IF cfg.hw THEN dec ELSE [buf |-> e, draining |-> FALSE]
  BY Zenon DEF BeginCall
<1> HIDE DEF open, e
<1>3. loop'.queue = e /\ ~loop'.ready BY <1>1
<1>4. /\ read'.first = read.last /\ read'.last = read.last /\ ~read'.eof
      /\ read'.video = e /\ read'.audio = e
      /\ given'.video = e /\ given'.audio = e /\ given'.copied = e
      /\ dec' = dec \/ (dec'.buf = e /\ ~dec'.draining)
      /\ ~cfg.hw => dec'.buf = e
  BY <1>2
<1> QED BY <1>3, <1>4 DEF BeginCall, e

LEMMA EndView ==
  ASSUME LoopTypeOK, NEW how, NEW c \in InputCtx, EndCall(how, c)
  PROVE  /\ pc' = "idle" /\ outcome' = how /\ (upset' <=> upset \/ how # "done")
         /\ ictx'.blocked = c.blocked /\ ~ictx'.flushing /\ ictx'.pkt_diff = 0
BY DEF EndCall, Shutdown, InputCtx

-----------------------------------------------------------------------------
(* What is read, what waits and what is under way, whatever the decoder does. *)

Reads ==
  /\ read.first <= read.last
  /\ \A i \in 1..Len(read.video) : read.first < read.video[i] /\ read.video[i] <= read.last
  /\ \A i \in 1..Len(read.audio) : read.first < read.audio[i] /\ read.audio[i] <= read.last
  /\ read.eof => ictx.blocked = NoPacket
  /\ ictx.blocked # NoPacket =>
       /\ ictx.blocked.kind = "video" /\ cfg.vdec /\ ictx.blocked.n <= read.last
       /\ ictx.blocked.n > read.first =>
            \E i \in 1..Len(read.video) : read.video[i] = ictx.blocked.n
  /\ faults = 0 => ~dec.draining /\ ictx.blocked = NoPacket

\* The end of the input without a video packet.
Unheard == read.eof /\ read.video = <<>>

\* The stream of an item that waits can be told from its packet.
Fits(i) ==
  /\ Mark(i, "video") # None => i.pkt.kind = "video"
  /\ Mark(i, "audio") # None => i.pkt.kind = "audio" \/ (i.pkt.kind = "blank" /\ Unheard)

\* The item that says the end.
Ended(i) == read.eof /\ (cfg.adec => adec = <<>>) /\ i.frame = NoFrame /\ ~Copies(i)

Waiting ==
  /\ \A i \in 1..Len(loop.queue) : Fits(loop.queue[i])
  /\ \A i \in 1..Len(loop.queue) :
       loop.queue[i].ret = "eof" => i = Len(loop.queue) /\ Ended(loop.queue[i])
  /\ loop.open /\ ~loop.ready => loop.queue = <<>>
  /\ pc \in {"receive", "audio"} /\ loop.ready => loop.queue = <<>>

Handling ==
  pc = "handle" =>
    /\ Mark(it, "video") # None => it.stream = "video"
    /\ Mark(it, "audio") # None => it.stream = "audio" \/ (it.stream = cfg.zero /\ Unheard)
    /\ SetOutputs => Fits(it)
    /\ it.ret = "eof" => Ended(it) /\ (~SetOutputs => loop.queue = <<>>)

Receiving ==
  pc = "receive" =>
    /\ it.frame = NoFrame /\ it.stream = "video"
    /\ it.pkt.kind = IF ictx.flushing THEN "blank" ELSE "video"

\* The first packet of the video opens the outputs.
Opened ==
  /\ read.video # <<>> \/ ictx.pkt_diff # 0 =>
       loop.ready \/ (pc \in {"receive", "handle"} /\ it.stream = "video")
  /\ ictx.flushing => loop.ready

Flow == IF pc = "idle" THEN ~upset => ictx.blocked = NoPacket
        ELSE Waiting /\ Handling /\ Receiving /\ Opened

ReadRange ==
  /\ read.first <= read.last
  /\ \A i \in 1..Len(read.video) : read.first < read.video[i] /\ read.video[i] <= read.last
  /\ \A i \in 1..Len(read.audio) : read.first < read.audio[i] /\ read.audio[i] <= read.last

\* A packet out of the demuxer is the next of its stream.
LEMMA RangeDemuxed ==
  ASSUME LoopTypeOK, ReadRange, NEW p \in Incoming, Demuxed(p)
  PROVE  ReadRange' /\ read'.first = read.first /\ read.last <= read'.last
<1>1. CASE read' = read BY <1>1 DEF ReadRange, LoopTypeOK, Reading
<1>2. CASE /\ p.n = read.last + 1
           /\ read'.first = read.first /\ read'.last = p.n
           /\ read'.video = IF p.kind = "video" THEN Append(read.video, p.n) ELSE read.video
           /\ read'.audio = IF p.kind = "audio" THEN Append(read.audio, p.n) ELSE read.audio
  <2>1. /\ read.first \in Nat /\ read.last \in Nat
        /\ read.video \in Seq(Nat) /\ read.audio \in Seq(Nat)
    BY DEF LoopTypeOK, Reading
  <2>2. ASSUME NEW s \in Seq(Nat),
               \A i \in 1..Len(s) : read.first < s[i] /\ s[i] <= read.last
        PROVE  /\ \A i \in 1..Len(s) : read.first < s[i] /\ s[i] <= p.n
               /\ \A i \in 1..Len(Append(s, p.n)) :
                    read.first < Append(s, p.n)[i] /\ Append(s, p.n)[i] <= p.n
    <3>1. \A i \in 1..Len(s) : read.first < s[i] /\ s[i] <= p.n
      <4>1. \A i \in 1..Len(s) : s[i] \in Nat BY <2>2
      <4> QED BY <1>2, <2>1, <2>2, <4>1
    <3> DEFINE t == Append(s, p.n)
    <3>2. Len(s) \in Nat /\ Len(t) = Len(s) + 1 /\ (\A i \in 1..Len(s) : t[i] = s[i]) /\ t[Len(s) + 1] = p.n
      BY <1>2, <2>1
    <3> HIDE DEF t
    <3>3. read.first < p.n /\ p.n <= p.n BY <1>2, <2>1 DEF ReadRange
    <3>4. \A i \in 1..Len(t) : i \in 1..Len(s) \/ i = Len(s) + 1 BY <3>2
    <3>5. \A i \in 1..Len(t) : read.first < t[i] /\ t[i] <= p.n BY <3>1, <3>2, <3>3, <3>4
    <3> QED BY <3>1, <3>5 DEF t
  <2>3. \A i \in 1..Len(read'.video) : read.first < read'.video[i] /\ read'.video[i] <= p.n
    BY <1>2, <2>1, <2>2 DEF ReadRange
  <2>4. \A i \in 1..Len(read'.audio) : read.first < read'.audio[i] /\ read'.audio[i] <= p.n
    BY <1>2, <2>1, <2>2 DEF ReadRange
  <2>5. read'.first <= read'.last /\ read.last <= read'.last BY <1>2, <2>1 DEF ReadRange
  <2> QED BY <1>2, <2>3, <2>4, <2>5 DEF ReadRange
<1> QED BY <1>1, <1>2, DemuxedView

LEMMA ReadsSame ==
  ASSUME Reads, UNCHANGED cfg, ictx'.blocked = ictx.blocked \/ ictx'.blocked = NoPacket,
         read'.first = read.first, read'.last = read.last,
         read'.video = read.video, read'.audio = read.audio,
         read'.eof => read.eof \/ ictx'.blocked = NoPacket,
         faults' = 0 => faults = 0 /\ ~dec'.draining
  PROVE  Reads'
BY DEF Reads

LEMMA NoPacketNumber ==
  ASSUME LoopTypeOK, NEW p \in Incoming PROVE p # NoPacket /\ p.n \in Nat /\ p.n # Sentinel
<1>1. p.n # Sentinel /\ p.n \in Nat BY TypesIncoming DEF Demuxable
<1> QED BY <1>1 DEF NoPacket, Sentinel

LEMMA ReadsNext ==
  ASSUME LoopTypeOK, Control, Reads, [Next]_vars
  PROVE  Reads'
<1>1. faults \in Nat /\ ReadRange BY DEF LoopTypeOK, Reads, ReadRange
<1>2. CASE BeginCall
  <2>1. /\ UNCHANGED <<cfg, ictx, faults>> /\ read'.first = read.last /\ read'.last = read.last
        /\ ~read'.eof /\ read'.video = <<>> /\ read'.audio = <<>>
        /\ dec' = dec \/ ~dec'.draining
    BY <1>2, BeginView
  <2>2. read.last \in Nat /\ Len(<<>>) = 0 BY DEF LoopTypeOK, Reading
  <2>3. /\ read'.first <= read'.last
        /\ \A i \in 1..Len(read'.video) : FALSE
        /\ \A i \in 1..Len(read'.audio) : FALSE
    BY <2>1, <2>2
  <2>4. ictx.blocked # NoPacket => ictx.blocked.n \in Nat BY DEF LoopTypeOK, InputCtx, Demuxable
  <2>5. ictx.blocked # NoPacket => ~(ictx.blocked.n > read'.first)
    BY <2>1, <2>2, <2>4 DEF Reads
  <2> QED BY <2>1, <2>3, <2>5 DEF Reads
<1>3. CASE SendVideo
  <2>1. PICK p \in Incoming :
          /\ p.kind = "video" /\ cfg.vdec /\ UNCHANGED cfg /\ Demuxed(p)
          /\ \/ ~dec'.draining /\ faults' = faults /\ ictx'.blocked = NoPacket
             \/ ((dec.draining /\ faults' = faults) \/ faults' = faults + 1) /\ ictx'.blocked = p
    BY <1>3, SendVideoView
  <2>2. ReadRange' /\ read'.first = read.first BY <1>1, <2>1, RangeDemuxed
  <2>3. ~read'.eof /\ p.n <= read'.last
        /\ (p.n > read'.first => \E i \in 1..Len(read'.video) : read'.video[i] = p.n)
    <3>1. CASE ictx.blocked # NoPacket /\ p = ictx.blocked /\ read' = read BY <3>1 DEF Reads
    <3>2. CASE /\ ~read'.eof /\ p.n = read.last + 1 /\ read'.last = p.n
               /\ read'.video = IF p.kind = "video" THEN Append(read.video, p.n) ELSE read.video
      <4>1. read.video \in Seq(Nat) /\ p.n \in Nat BY NoPacketNumber DEF LoopTypeOK, Reading
      <4>2. read'.video = Append(read.video, p.n) BY <2>1, <3>2
      <4>3. Len(read.video) + 1 \in 1..Len(read'.video) /\ read'.video[Len(read.video) + 1] = p.n
        BY <4>1, <4>2
      <4> QED BY <3>2, <4>1, <4>3
    <3> QED BY <2>1, <3>1, <3>2, DemuxedView
  <2>4. faults' = 0 => faults = 0 /\ ~dec'.draining /\ ictx'.blocked = NoPacket
    BY <1>1, <2>1 DEF Reads
  <2> QED BY <2>1, <2>2, <2>3, <2>4 DEF Reads, ReadRange
<1>4. CASE ReceiveDecoded \/ ReceiveFlushed
  <2>1. /\ UNCHANGED <<cfg, read>> /\ ictx'.blocked = ictx.blocked
        /\ faults' \in Nat /\ faults' >= faults /\ dec'.draining = dec.draining
    BY <1>4, ReceiveView
  <2>2. faults' = 0 => faults = 0 /\ ~dec'.draining BY <1>1, <2>1 DEF Reads
  <2> QED BY <2>1, <2>2, ReadsSame
<1>5. CASE DecoderFails
  <2>1. UNCHANGED <<cfg, dec>> /\ faults' = faults + 1 BY <1>5 DEF DecoderFails, Fault
  <2>2. ~(faults' = 0) BY <1>1, <2>1
  <2>3. CASE UNCHANGED read /\ EndCall("decoder", ictx)
    <3>1. ictx'.blocked = ictx.blocked BY <2>3, EndView DEF LoopTypeOK
    <3> QED BY <2>1, <2>2, <2>3, <3>1, ReadsSame
  <2>4. CASE \E p \in Incoming : Demuxed(p) /\ EndCall("decoder", [ictx EXCEPT !.blocked = NoPacket])
    <3>1. PICK p \in Incoming : Demuxed(p) BY <2>4
    <3>2. [ictx EXCEPT !.blocked = NoPacket] \in InputCtx BY DEF LoopTypeOK, InputCtx, NoPacket
    <3>3. ictx'.blocked = NoPacket
      <4>1. ictx'.blocked = [ictx EXCEPT !.blocked = NoPacket].blocked BY <2>4, <3>2, EndView
      <4> QED BY <4>1 DEF LoopTypeOK, InputCtx
    <3>4. ReadRange' BY <1>1, <3>1, RangeDemuxed
    <3> QED BY <2>2, <3>3, <3>4 DEF Reads, ReadRange
  <2> QED BY <1>5, <2>3, <2>4 DEF DecoderFails
<1>6. CASE DecodeAudio \/ PassPacket
  <2>1. PICK p \in Incoming : Demuxed(p) /\ UNCHANGED <<cfg, ictx, dec, faults>>
                              /\ (p.kind = "video" => ~cfg.vdec)
    BY <1>6, DecodeAudioView, PassPacketView
  <2>2. ReadRange' BY <1>1, <2>1, RangeDemuxed
  <2>3. CASE ictx.blocked # NoPacket /\ p = ictx.blocked BY <2>1, <2>3 DEF Reads
  <2>4. CASE ictx.blocked = NoPacket BY <2>1, <2>2, <2>4 DEF Reads, ReadRange
  <2> QED BY <2>1, <2>3, <2>4, DemuxedView
<1>7. CASE SendSentinel
  <2>1. /\ UNCHANGED cfg /\ ictx'.blocked = NoPacket
        /\ read'.first = read.first /\ read'.last = read.last
        /\ read'.video = read.video /\ read'.audio = read.audio
        /\ \/ ~dec'.draining /\ faults' = faults
           \/ dec'.buf = dec.buf /\ ((dec.draining /\ faults' = faults) \/ faults' = faults + 1)
    BY <1>7, SendSentinelView
  <2>2. faults' = 0 => faults = 0 /\ ~dec'.draining BY <1>1, <2>1 DEF Reads
  <2> QED BY <2>1, <2>2, ReadsSame
<1>8. CASE FlushFails
  <2>1. UNCHANGED <<cfg, dec, read>> /\ faults' \in {faults, faults + 1}
        /\ \E how : EndCall(how, ictx)
    BY <1>8 DEF FlushFails, Fault
  <2>2. ictx'.blocked = ictx.blocked BY <2>1, EndView DEF LoopTypeOK
  <2>3. faults' = 0 => faults = 0 /\ ~dec'.draining BY <1>1, <2>1 DEF Reads
  <2> QED BY <2>1, <2>2, <2>3, ReadsSame
<1>9. CASE FlushAudio
  <2>1. /\ UNCHANGED <<cfg, ictx, dec, faults>> /\ ictx.blocked = NoPacket
        /\ read'.first = read.first /\ read'.last = read.last
        /\ read'.video = read.video /\ read'.audio = read.audio
    BY <1>9, FlushAudioView
  <2>2. faults' = 0 => faults = 0 /\ ~dec'.draining BY <1>1, <2>1 DEF Reads
  <2> QED BY <2>1, <2>2, ReadsSame
<1>10. CASE ReadQueue \/ Enqueue \/ Deliver
  BY <1>10 DEF ReadQueue, Enqueue, Deliver, Reads
<1>11. CASE QueueFails \/ Finish
  <2>1. UNCHANGED <<cfg, dec, read, faults>> /\ \E how : EndCall(how, ictx)
    BY <1>11 DEF QueueFails, Finish
  <2>2. ictx'.blocked = ictx.blocked BY <2>1, EndView DEF LoopTypeOK
  <2> QED BY <2>1, <2>2 DEF Reads
<1>12. CASE UNCHANGED vars BY <1>12 DEF vars, Reads
<1> QED BY <1>2, <1>3, <1>4, <1>5, <1>6, <1>7, <1>8, <1>9, <1>10, <1>11, <1>12 DEF Next, Iterate

LEMMA TailItems ==
  ASSUME NEW q \in Seq(Item), q # <<>>
  PROVE  /\ Head(q) = q[1] /\ 1 \in 1..Len(q) /\ Len(q) \in Nat /\ Len(Tail(q)) = Len(q) - 1
         /\ \A i \in 1..Len(Tail(q)) : Tail(q)[i] = q[i + 1] /\ i + 1 \in 1..Len(q)
         /\ Len(q) = 1 => Tail(q) = <<>>
OBVIOUS

LEMMA NoMark ==
  ASSUME NEW i
  PROVE  /\ i.frame = NoFrame => Mark(i, "video") = None /\ Mark(i, "audio") = None
         /\ \A n : i.frame = Frame("video", n) => Mark(i, "audio") = None
         /\ \A n : i.frame = Frame("audio", n) => Mark(i, "video") = None
BY DEF Mark, NoFrame, Frame

LEMMA SameMark ==
  ASSUME NEW i, NEW j, i.frame = j.frame, i.ret = j.ret
  PROVE  Mark(i, "video") = Mark(j, "video") /\ Mark(i, "audio") = Mark(j, "audio")
BY DEF Mark

LEMMA NotAtEnd ==
  ASSUME Reads, NEW p \in Incoming
  PROVE  ~read.eof /\ ~Unheard
BY DEF Reads, Incoming, Unheard

LEMMA WaitingSame ==
  ASSUME Waiting, UNCHANGED <<cfg, loop>>, Unheard => Unheard', read.eof => read'.eof,
         EofQueued => adec' = adec,
         pc' \in {"receive", "audio"} /\ loop.ready => loop.queue = <<>>
  PROVE  Waiting'
<1>1. ASSUME NEW i \in 1..Len(loop.queue)
      PROVE  /\ Fits(loop.queue[i])'
             /\ loop.queue[i].ret = "eof" => i = Len(loop.queue) /\ Ended(loop.queue[i])'
  <2>1. Fits(loop.queue[i])' BY <1>1 DEF Waiting, Fits
  <2>2. ASSUME loop.queue[i].ret = "eof" PROVE i = Len(loop.queue) /\ Ended(loop.queue[i])'
    <3>1. EofQueued BY <1>1, <2>2 DEF EofQueued
    <3> QED BY <1>1, <2>2, <3>1 DEF Waiting, Ended
  <2> QED BY <2>1, <2>2
<1> QED BY <1>1 DEF Waiting

LEMMA FlowNext ==
  ASSUME LoopTypeOK, Control, Reads, Flow, [Next]_vars
  PROVE  Flow'
<1>1. CASE BeginCall
  <2>1. /\ pc' = "read" /\ loop'.queue = <<>> /\ read'.video = <<>> /\ pc = "idle"
        /\ UNCHANGED ictx
    BY <1>1, BeginView
  <2>2. ~ictx'.flushing /\ ictx'.pkt_diff = 0 BY <2>1 DEF Control
  <2>3. Waiting'
    <3>1. Len(<<>>) = 0 OBVIOUS
    <3>2. 1..Len(loop'.queue) = {} BY <2>1, <3>1
    <3> QED BY <2>1, <3>2 DEF Waiting
  <2> QED BY <2>1, <2>2, <2>3 DEF Flow, Handling, Receiving, Opened
<1>2. CASE SendVideo
  <2>1. PICK p \in Incoming :
          /\ p.kind = "video" /\ pc = "read" /\ pc' = "receive" /\ UNCHANGED <<cfg, adec, loop>>
          /\ it'.stream = "video" /\ it'.pkt = p /\ it'.frame = NoFrame /\ ~ictx'.flushing
    BY <1>2, SendVideoView
  <2>2. loop.ready => loop.queue = <<>> BY <1>2 DEF SendVideo, Processing
  <2>3. ~read.eof /\ ~Unheard BY NotAtEnd
  <2>4. Waiting' BY <2>1, <2>2, <2>3, WaitingSame DEF Flow
  <2> QED BY <2>1, <2>4 DEF Flow, Handling, Receiving, Opened
<1>3. CASE ReceiveDecoded \/ ReceiveFlushed
  <2>1. /\ pc = "receive" /\ UNCHANGED <<cfg, adec, loop, read>>
        /\ it'.stream = it.stream /\ it'.pkt = it.pkt /\ ictx'.flushing = ictx.flushing
        /\ \/ /\ pc' = "handle" /\ it'.ret # "eof"
              /\ it'.frame = it.frame \/ it'.frame = Frame("video", Head(dec.buf))
           \/ pc' = "audio" /\ ictx.flushing
    BY <1>3, ReceiveView
  <2>2. it.frame = NoFrame /\ it.stream = "video" /\ (~ictx.flushing => it.pkt.kind = "video")
    BY <2>1 DEF Flow, Receiving
  <2>3. loop.ready => loop.queue = <<>> BY <2>1 DEF Flow, Waiting
  <2>4. Waiting' BY <2>1, <2>3, WaitingSame DEF Flow, Unheard
  <2>5. ictx.flushing => loop.ready BY <2>1 DEF Flow, Opened
  <2>6. Opened' BY <2>1, <2>2, <2>5 DEF Opened
  <2>7. Handling'
    <3> SUFFICES ASSUME pc' = "handle" PROVE Handling' BY DEF Handling
    <3>1. Mark(it', "audio") = None BY <2>1, <2>2, NoMark
    <3>2. SetOutputs' => it'.pkt.kind = "video" BY <2>1, <2>2, <2>5 DEF SetOutputs
    <3> QED BY <2>1, <2>2, <3>1, <3>2 DEF Handling, Fits
  <2>8. Receiving' BY <2>1 DEF Receiving
  <2>9. pc' # "idle" BY <2>1
  <2> QED BY <2>4, <2>6, <2>7, <2>8, <2>9 DEF Flow
<1>4. CASE DecoderFails
  <2>1. pc' = "idle" /\ upset' BY <1>4, Zenon DEF DecoderFails, EndCall
  <2> QED BY <2>1 DEF Flow
<1>5. CASE DecodeAudio
  <2>1. PICK p \in Incoming :
          /\ pc = "read" /\ pc' = "handle" /\ p.kind = "audio" /\ Demuxed(p)
          /\ UNCHANGED <<cfg, ictx, loop>> /\ it'.stream = "audio" /\ it'.pkt = p /\ it'.ret # "eof"
          /\ it'.frame = NoFrame \/ \E n : it'.frame = Frame("audio", n)
    BY <1>5, DecodeAudioView
  <2>2. (loop.ready => loop.queue = <<>>) /\ ~EofQueued
    BY <1>5, ProcessingNoEof DEF DecodeAudio, Processing
  <2>3. ~read.eof /\ ~Unheard BY NotAtEnd
  <2>4. Waiting' BY <2>1, <2>2, <2>3, WaitingSame DEF Flow
  <2>5. read'.video = read.video BY <2>1, DemuxedView
  <2>6. Opened' BY <2>1, <2>5 DEF Flow, Opened
  <2>7. Mark(it', "video") = None BY <2>1, NoMark
  <2>8. Handling' BY <2>1, <2>7 DEF Handling, Fits
  <2> QED BY <2>1, <2>4, <2>6, <2>8 DEF Flow, Receiving
<1>6. CASE PassPacket
  <2>1. PICK p \in Incoming :
          /\ pc = "read" /\ pc' = "handle" /\ Demuxed(p)
          /\ UNCHANGED <<cfg, ictx, adec, loop>> /\ it'.stream = p.kind
          /\ it'.frame = NoFrame /\ it'.ret # "eof"
    BY <1>6, PassPacketView
  <2>2. loop.ready => loop.queue = <<>> BY <1>6 DEF PassPacket, Processing
  <2>3. ~read.eof /\ ~Unheard BY NotAtEnd
  <2>4. Waiting' BY <2>1, <2>2, <2>3, WaitingSame DEF Flow
  <2>5. read'.video = read.video \/ p.kind = "video" BY <2>1, DemuxedView
  <2>6. Opened' BY <2>1, <2>5 DEF Flow, Opened
  <2>7. Mark(it', "video") = None /\ Mark(it', "audio") = None BY <2>1, NoMark
  <2>8. Handling' BY <2>1, <2>7 DEF Handling, Fits
  <2> QED BY <2>1, <2>4, <2>6, <2>8 DEF Flow, Receiving
<1>7. CASE SendSentinel
  <2>1. /\ pc = "read" /\ pc' = "receive" /\ UNCHANGED <<cfg, adec, loop>>
        /\ read'.eof /\ read'.video = read.video
        /\ it'.stream = "video" /\ it'.pkt = Blank /\ it'.frame = NoFrame
        /\ ictx.pkt_diff > 0 /\ ictx'.flushing
    BY <1>7, SendSentinelView
  <2>2. loop.ready => loop.queue = <<>> BY <1>7 DEF SendSentinel, AtEnd, Processing
  <2>3. Waiting' BY <2>1, <2>2, WaitingSame DEF Flow, Unheard
  <2>4. loop.ready BY <2>1 DEF Flow, Opened
  <2> QED BY <2>1, <2>3, <2>4 DEF Flow, Handling, Receiving, Opened, Blank
<1>8. CASE FlushFails
  <2>1. pc' = "idle" /\ upset' BY <1>8, Zenon DEF FlushFails, EndCall
  <2> QED BY <2>1 DEF Flow
<1>9. CASE FlushAudio
  <2>1. /\ pc \in {"read", "audio"} /\ pc' = "handle" /\ ~EofQueued
        /\ UNCHANGED <<cfg, ictx, loop>>
        /\ read'.eof /\ read'.video = read.video /\ it'.pkt = Blank
        /\ \/ /\ it'.stream = "audio" /\ it'.frame = Frame("audio", Head(adec)) /\ it'.ret = "ok"
           \/ /\ (cfg.adec => adec = <<>>) /\ adec' = adec
              /\ it'.frame = NoFrame /\ it'.ret = "eof"
    BY <1>9, FlushAudioView
  <2>2. pc = "audio" => loop.ready BY DEF Control, Flow, Opened
  <2>3. loop.ready => loop.queue = <<>>
    <3>1. CASE pc = "audio" BY <3>1 DEF Flow, Waiting
    <3>2. CASE AtEnd BY <3>2 DEF AtEnd, Processing
    <3> QED BY <1>9, <3>1, <3>2 DEF FlushAudio
  <2>4. ~SetOutputs => loop.queue = <<>> BY <2>1, <2>3 DEF SetOutputs, Flow, Waiting
  <2>5. SetOutputs => Unheard' BY <2>1, <2>2 DEF SetOutputs, Flow, Opened, Unheard
  <2>6. Waiting' BY <2>1, <2>3, WaitingSame DEF Flow, Unheard
  <2>7. Opened' BY <2>1, <2>2 DEF Flow, Opened
  <2>8. Mark(it', "video") = None BY <2>1, NoMark
  <2>9. it'.ret = "eof" => Ended(it)' BY <2>1 DEF Ended, Copies, Blank
  <2>10. Handling'
    <3>1. SetOutputs' <=> SetOutputs BY <2>1 DEF SetOutputs
    <3>2. SetOutputs' => Fits(it)' BY <2>1, <2>5, <2>8, <3>1 DEF Fits, Blank
    <3>3. Mark(it', "audio") # None => it'.stream = "audio" BY <2>1, NoMark
    <3> QED BY <2>1, <2>4, <2>8, <2>9, <3>1, <3>2, <3>3 DEF Handling
  <2> QED BY <2>1, <2>6, <2>7, <2>10 DEF Flow, Receiving
<1>10. CASE ReadQueue
  <2> DEFINE q == loop.queue
             x == Head(q)
  <2>1. /\ pc = "read" /\ pc' = "handle" /\ q # <<>> /\ q \in Seq(Item)
        /\ UNCHANGED <<cfg, ictx, adec, read>>
        /\ loop.ready /\ loop'.ready /\ loop'.queue = Tail(q)
        /\ it'.stream = StreamOf(x.pkt) /\ it'.pkt = x.pkt /\ it'.frame = x.frame /\ it'.ret = x.ret
    BY <1>10, ReadQueueView
  <2>2. /\ x = q[1] /\ 1 \in 1..Len(q) /\ Len(q) \in Nat
        /\ Len(loop'.queue) = Len(q) - 1
        /\ \A i \in 1..Len(loop'.queue) : loop'.queue[i] = q[i + 1] /\ i + 1 \in 1..Len(q)
        /\ Len(q) = 1 => loop'.queue = <<>>
    <3>1. q \in Seq(Item) /\ q # <<>> /\ loop'.queue = Tail(q) BY <2>1
    <3> HIDE DEF q
    <3> QED BY <3>1, TailItems
  <2> HIDE DEF x, q
  <2>3. Fits(x) /\ (x.ret = "eof" => Len(q) = 1 /\ Ended(x))
    BY <2>1, <2>2 DEF Flow, Waiting, q
  <2>4. Waiting'
    <3>1. ASSUME NEW i \in 1..Len(loop'.queue)
          PROVE  /\ Fits(loop.queue[i])'
                 /\ loop'.queue[i].ret = "eof" => i = Len(loop'.queue) /\ Ended(loop.queue[i])'
      <4>1. loop'.queue[i] = q[i + 1] /\ i + 1 \in 1..Len(q) BY <2>2, <3>1
      <4>2. Fits(q[i + 1]) /\ (q[i + 1].ret = "eof" => i + 1 = Len(q) /\ Ended(q[i + 1]))
        BY <2>1, <4>1 DEF Flow, Waiting, q
      <4>3. Fits(loop.queue[i])' BY <2>1, <4>1, <4>2 DEF Fits, Unheard
      <4>4. loop'.queue[i].ret = "eof" => i = Len(loop'.queue) BY <2>2, <4>1, <4>2
      <4>5. loop'.queue[i].ret = "eof" => Ended(loop.queue[i])' BY <2>1, <4>1, <4>2 DEF Ended
      <4> QED BY <4>3, <4>4, <4>5
    <3> QED BY <2>1, <3>1 DEF Waiting
  <2>5. Handling'
    <3>1. Mark(it', "video") = Mark(x, "video") /\ Mark(it', "audio") = Mark(x, "audio")
      BY <2>1, SameMark
    <3>2. ~SetOutputs' BY <2>1 DEF SetOutputs
    <3>3. x.pkt.kind = "video" => it'.stream = "video" BY <2>1 DEF StreamOf
    <3>4. x.pkt.kind = "audio" => it'.stream = "audio" BY <2>1 DEF StreamOf
    <3>5. x.pkt.kind = "blank" => it'.stream = cfg.zero BY <2>1 DEF StreamOf
    <3>6. it'.ret = "eof" => Ended(it)' /\ loop'.queue = <<>> BY <2>1, <2>2, <2>3 DEF Ended, Copies
    <3>7. Unheard' <=> Unheard BY <2>1 DEF Unheard
    <3> QED BY <2>1, <2>3, <3>1, <3>2, <3>3, <3>4, <3>5, <3>6, <3>7 DEF Handling, Fits
  <2>6. Opened' BY <2>1 DEF Opened
  <2> QED BY <2>1, <2>4, <2>5, <2>6 DEF Flow, Receiving
<1>11. CASE Enqueue
  <2>1. PICK x \in Item :
          /\ pc = "handle" /\ pc' = "read" /\ SetOutputs /\ ~EofQueued
          /\ UNCHANGED <<cfg, ictx, adec, it, read>>
          /\ loop'.queue = Append(loop.queue, x) /\ (loop'.ready <=> Opens) /\ (loop'.open <=> Opens)
          /\ x.frame = it.frame /\ x.ret = it.ret
          /\ x.pkt = IF it.ret = "eof" THEN NoPacket ELSE it.pkt
    BY <1>11, EnqueueView
  <2>2. /\ Len(loop'.queue) = Len(loop.queue) + 1 /\ Len(loop.queue) \in Nat
        /\ loop'.queue[Len(loop.queue) + 1] = x
        /\ \A i \in 1..Len(loop.queue) : loop'.queue[i] = loop.queue[i]
    BY <2>1 DEF LoopTypeOK, Loop
  <2>3. Handling /\ Waiting /\ Opened BY <2>1 DEF Flow
  <2>4. Fits(x)' /\ (x.ret = "eof" => Ended(x)')
    <3>1. Mark(x, "video") = Mark(it, "video") /\ Mark(x, "audio") = Mark(it, "audio")
      BY <2>1, SameMark
    <3>2. Fits(it) /\ (it.ret = "eof" => Ended(it)) BY <2>1, <2>3 DEF Handling
    <3>3. it.ret = "eof" => Mark(it, "video") = None /\ Mark(it, "audio") = None
      BY <3>2, NoMark DEF Ended
    <3>4. Fits(x) BY <2>1, <3>1, <3>2, <3>3 DEF Fits
    <3>5. Fits(x)' BY <2>1, <3>4 DEF Fits, Unheard
    <3>6. x.ret = "eof" => Ended(x)' BY <2>1, <3>2 DEF Ended, Copies, NoPacket
    <3> QED BY <3>5, <3>6
  <2>5. Waiting'
    <3>1. ASSUME NEW i \in 1..Len(loop'.queue)
          PROVE  /\ Fits(loop.queue[i])'
                 /\ loop'.queue[i].ret = "eof" => i = Len(loop'.queue) /\ Ended(loop.queue[i])'
      <4>1. CASE i \in 1..Len(loop.queue)
        <5>1. Fits(loop.queue[i]) BY <2>3, <4>1 DEF Waiting
        <5>2. Fits(loop.queue[i])' BY <2>1, <2>2, <4>1, <5>1 DEF Fits, Unheard
        <5>3. loop'.queue[i].ret # "eof"
          <6>1. loop'.queue[i] = loop.queue[i] /\ i \in DOMAIN loop.queue
            BY <2>2, <4>1 DEF LoopTypeOK, Loop
          <6> QED BY <2>1, <6>1 DEF EofQueued
        <5> QED BY <5>2, <5>3
      <4>2. CASE i = Len(loop'.queue)
        <5>1. loop'.queue[i] = x BY <2>2, <4>2
        <5>2. Fits(loop.queue[i])' BY <2>4, <5>1 DEF Fits
        <5>3. loop'.queue[i].ret = "eof" => Ended(loop.queue[i])' BY <2>4, <5>1 DEF Ended
        <5> QED BY <4>2, <5>2, <5>3
      <4> QED BY <2>2, <4>1, <4>2
    <3> QED BY <2>1, <3>1 DEF Waiting
  <2>6. Opened'
    <3>1. ~loop.ready BY <2>1 DEF SetOutputs
    <3>2. it.stream = "video" => Opens BY DEF Opens
    <3> QED BY <2>1, <2>3, <3>1, <3>2 DEF Opened
  <2> QED BY <2>1, <2>5, <2>6 DEF Flow, Handling, Receiving
<1>12. CASE QueueFails
  <2>1. pc' = "idle" /\ upset' BY <1>12, Zenon DEF QueueFails, EndCall
  <2> QED BY <2>1 DEF Flow
<1>13. CASE Deliver
  <2>1. /\ pc = "handle" /\ pc' = "read" /\ UNCHANGED <<cfg, ictx, adec, read>>
        /\ loop'.queue = loop.queue /\ loop'.ready
    BY <1>13, DeliverView
  <2>2. Waiting' BY <2>1 DEF Flow, Waiting, Fits, Ended, Unheard
  <2>3. Opened' BY <2>1 DEF Opened
  <2> QED BY <2>1, <2>2, <2>3 DEF Flow, Handling, Receiving
<1>14. CASE Finish
  <2>1. pc = "handle" /\ it.ret = "eof" /\ EndCall("done", ictx) BY <1>14 DEF Finish
  <2>2. read.eof BY <2>1 DEF Flow, Handling, Ended
  <2>3. ictx'.blocked = NoPacket /\ pc' = "idle" BY <2>1, <2>2, EndView DEF Reads, LoopTypeOK
  <2> QED BY <2>3 DEF Flow
<1>15. CASE UNCHANGED vars
  BY <1>15 DEF vars, Flow, Waiting, Handling, Receiving, Opened, Fits, Ended, Unheard, SetOutputs
<1> QED BY <1>1, <1>2, <1>3, <1>4, <1>5, <1>6, <1>7, <1>8, <1>9, <1>10, <1>11, <1>12, <1>13,
           <1>14, <1>15 DEF Next, Iterate

-----------------------------------------------------------------------------
(* How what passes moves with the steps of the loop.                        *)

LEMMA SameHeadTail ==
  ASSUME NEW a \in Seq(Int), NEW b \in Seq(Int), a # <<>>, b # <<>>, Head(a) = Head(b), Tail(a) = Tail(b)
  PROVE  a = b
<1> DEFINE c == Tail(a)
           d == Tail(b)
<1>1. Len(a) \in Nat \ {0} /\ Len(b) \in Nat \ {0} /\ a[1] = b[1] /\ c = d
      /\ Len(c) = Len(a) - 1 /\ Len(d) = Len(b) - 1
      /\ (\A i \in 1..Len(c) : c[i] = a[i + 1]) /\ (\A i \in 1..Len(d) : d[i] = b[i + 1])
  OBVIOUS
<1> HIDE DEF c, d
<1>2. Len(a) = Len(b) BY <1>1
<1>3. ASSUME NEW i \in 1..Len(a) PROVE a[i] = b[i]
  <2>1. CASE i = 1 BY <1>1, <2>1
  <2>2. CASE i - 1 \in 1..Len(c)
    <3>1. c[i - 1] = a[(i - 1) + 1] /\ d[i - 1] = b[(i - 1) + 1] BY <1>1, <2>2
    <3> QED BY <1>1, <3>1
  <2> QED BY <1>1, <2>1, <2>2
<1> QED BY <1>2, <1>3, SameSeq

LEMMA PassingSeq ==
  ASSUME LoopTypeOK, NEW w
  PROVE  /\ Passing(w) \in Seq(Int) /\ loop.queue \in Seq(Item) /\ it \in Item
         /\ Line \in Seq(Item)
<1>1. loop.queue \in Seq(Item) /\ it \in Item BY DEF LoopTypeOK, Loop
<1>2. Line \in Seq(Item) BY <1>1 DEF Line
<1>3. Append(loop.queue, it) \in Seq(Item) BY <1>1
<1> QED BY <1>1, <1>2, <1>3, MarksSeq DEF Passing

\* An iteration has something for the outputs.
LEMMA PassingGrows ==
  ASSUME LoopTypeOK, LoopTypeOK', UNCHANGED loop, pc # "handle", pc' = "handle", NEW w,
         ~SetOutputs => loop.queue = <<>>
  PROVE  Passing(w)' = Append(Marks(loop.queue, w), Mark(it', w))
<1>1. loop.queue \in Seq(Item) /\ it' \in Item BY DEF LoopTypeOK, Loop
<1>2. Line' = Append(loop.queue, it')
  <2>1. CASE SetOutputs BY <2>1 DEF Line, SetOutputs
  <2>2. CASE ~SetOutputs
    <3>1. Line' = <<it'>> \o <<>> BY <2>2 DEF Line, SetOutputs
    <3>2. <<it'>> \o <<>> = Append(<<>>, it') OBVIOUS
    <3> QED BY <2>2, <3>1, <3>2
  <2> QED BY <2>1, <2>2
<1>3. Passing(w)' = Marks(Line', w) BY DEF Passing
<1> QED BY <1>1, <1>2, <1>3, MarksAppend

LEMMA PassingBegins ==
  ASSUME LoopTypeOK, BeginCall, NEW w
  PROVE  Passing(w)' = <<>>
BY BeginView, MarksEmpty DEF Passing, Line

LEMMA PassingSends ==
  ASSUME LoopTypeOK, LoopTypeOK', Control, SendVideo \/ SendSentinel, NEW w
  PROVE  /\ w # "copy" => Passing(w)' = Passing(w)
         /\ SendVideo => Passing("copy")' = Append(Passing("copy"), it'.pkt.n)
         /\ SendSentinel => Passing("copy")' = Passing("copy")
<1>1. pc = "read" /\ pc' = "receive" /\ UNCHANGED loop BY SendVideoView, SendSentinelView
<1>2. \A v : Passing(v) = Marks(loop.queue, v) BY <1>1 DEF Passing, Line
<1>3. w # "copy" => Passing(w)' = Marks(loop.queue, w) BY <1>1 DEF Passing, Line
<1>4. ASSUME SendSentinel PROVE Passing("copy")' = Marks(loop.queue, "copy")
  <2>1. ictx'.flushing BY <1>4, SendSentinelView
  <2> QED BY <1>1, <2>1 DEF Passing, Line
<1>5. ASSUME SendVideo PROVE Passing("copy")' = Append(Marks(loop.queue, "copy"), it'.pkt.n)
  <2>1. ~ictx'.flushing /\ it'.pkt.kind = "video" BY <1>5, SendVideoView
  <2>2. Passing("copy")' = Marks(Append(loop.queue, it'), "copy") BY <1>1, <2>1 DEF Passing
  <2>3. loop.queue \in Seq(Item) /\ it' \in Item BY DEF LoopTypeOK, Loop
  <2>4. Mark(it', "copy") = it'.pkt.n BY <2>1 DEF Mark, Copies
  <2> QED BY <2>2, <2>3, <2>4, MarksAppend
<1> QED BY <1>2, <1>3, <1>4, <1>5

LEMMA PassingReceives ==
  ASSUME LoopTypeOK, LoopTypeOK', Control, Flow, ReceiveDecoded \/ ReceiveFlushed, NEW w
  PROVE  /\ pc' = "audio" => Passing(w)' = Passing(w)
         /\ pc' = "handle" /\ w # "copy" => Passing(w)' = Append(Passing(w), Mark(it', w))
         /\ \/ Passing("copy")' = Passing("copy")
            \/ Passing("copy")' = Append(Passing("copy"), None)
<1>1. /\ pc = "receive" /\ pc' \in {"handle", "audio"} /\ UNCHANGED loop
      /\ (pc' = "audio" => ictx.flushing)
      /\ ictx'.flushing = ictx.flushing /\ it'.pkt = it.pkt
  BY ReceiveView
<1>2. ~SetOutputs => loop.queue = <<>> BY <1>1 DEF SetOutputs, Flow, Waiting
<1>3. pc' = "handle" => \A v : Passing(v)' = Append(Marks(loop.queue, v), Mark(it', v))
  BY <1>1, <1>2, PassingGrows
<1>4. w # "copy" => Passing(w) = Marks(loop.queue, w) BY <1>1 DEF Passing, Line
<1>5. pc' = "audio" => Passing(w)' = Passing(w) /\ Passing("copy")' = Passing("copy")
  BY <1>1 DEF Passing, Line
<1>6. CASE ictx.flushing
  <2>1. Passing("copy") = Marks(loop.queue, "copy") BY <1>1, <1>6 DEF Passing, Line
  <2>2. Mark(it', "copy") = None BY <1>1, <1>6 DEF Flow, Receiving, Mark, Copies
  <2>3. pc' = "handle" => Passing("copy")' = Append(Passing("copy"), None) BY <1>3, <2>1, <2>2
  <2> QED BY <1>1, <1>3, <1>4, <1>5, <2>3
<1>7. CASE ~ictx.flushing
  <2>1. Passing("copy") = Marks(Append(loop.queue, it), "copy") BY <1>1, <1>7 DEF Passing
  <2>2. loop.queue \in Seq(Item) /\ it \in Item BY DEF LoopTypeOK, Loop
  <2>3. Passing("copy") = Append(Marks(loop.queue, "copy"), Mark(it, "copy"))
    BY <2>1, <2>2, MarksAppend
  <2>4. Mark(it', "copy") = Mark(it, "copy") BY <1>1 DEF Mark, Copies
  <2>5. Passing("copy")' = Passing("copy") BY <1>1, <1>3, <1>7, <2>3, <2>4
  <2> QED BY <1>1, <1>3, <1>4, <1>5, <1>7, <2>5
<1> QED BY <1>6, <1>7

LEMMA PassingAdds ==
  ASSUME LoopTypeOK, LoopTypeOK', Control, Flow, DecodeAudio \/ PassPacket \/ FlushAudio, NEW w
  PROVE  Passing(w)' = Append(Passing(w), Mark(it', w))
<1>1. pc \in {"read", "audio"} /\ pc' = "handle" /\ UNCHANGED loop
  BY DecodeAudioView, PassPacketView, FlushAudioView
<1>2. loop.ready => loop.queue = <<>>
  <2>1. CASE pc = "audio" BY <2>1 DEF Flow, Waiting
  <2>2. CASE Processing BY <2>2 DEF Processing
  <2>3. Processing \/ pc = "audio" BY DEF DecodeAudio, PassPacket, FlushAudio, AtEnd
  <2> QED BY <2>1, <2>2, <2>3
<1>3. ~SetOutputs => loop.queue = <<>> BY <1>1, <1>2 DEF SetOutputs, Flow, Waiting
<1>4. Passing(w)' = Append(Marks(loop.queue, w), Mark(it', w)) BY <1>1, <1>3, PassingGrows
<1>5. Passing(w) = Marks(loop.queue, w) BY <1>1 DEF Passing, Line
<1> QED BY <1>4, <1>5

\* The first item is that of the iteration, when the outputs are open.
LEMMA PassingHead ==
  ASSUME LoopTypeOK, pc = "handle", ~SetOutputs, NEW w
  PROVE  /\ Passing(w) # <<>> /\ Head(Passing(w)) = Mark(it, w)
         /\ Tail(Passing(w)) = Marks(loop.queue, w)
<1>1. loop.queue \in Seq(Item) /\ it \in Item BY DEF LoopTypeOK, Loop
<1> DEFINE q == <<it>> \o loop.queue
<1>2. q \in Seq(Item) /\ q # <<>> /\ Head(q) = it /\ Tail(q) = loop.queue BY <1>1
<1>3. Passing(w) = Marks(q, w) BY DEF Passing, Line
<1> HIDE DEF q
<1> QED BY <1>2, <1>3, MarksTail

LEMMA PassingQueue ==
  ASSUME LoopTypeOK, LoopTypeOK', Control, Flow, ReadQueue \/ Enqueue, NEW w
  PROVE  Passing(w)' = Passing(w)
<1>1. CASE ReadQueue
  <2> DEFINE q == loop.queue
             x == Head(q)
  <2>1. /\ pc = "read" /\ pc' = "handle" /\ q # <<>> /\ q \in Seq(Item)
        /\ loop'.ready /\ loop'.queue = Tail(q)
        /\ it'.pkt = x.pkt /\ it'.frame = x.frame /\ it'.ret = x.ret
    BY <1>1, ReadQueueView
  <2>2. Mark(it', w) = Mark(x, w) BY <2>1 DEF Mark, Copies
  <2>3. Passing(w) = Marks(q, w) BY <2>1 DEF Passing, Line
  <2>4. Marks(q, w) # <<>> /\ Head(Marks(q, w)) = Mark(x, w) /\ Tail(Marks(q, w)) = Marks(Tail(q), w)
    BY <2>1, MarksTail
  <2>5. ~SetOutputs' BY <2>1 DEF SetOutputs
  <2>6. /\ Passing(w)' # <<>> /\ Head(Passing(w)') = Mark(it', w)
        /\ Tail(Passing(w)') = Marks(loop'.queue, w)
    <3>1. it' \in Item /\ loop'.queue \in Seq(Item) BY DEF LoopTypeOK, Loop
    <3> DEFINE r == <<it'>> \o loop'.queue
    <3>2. r \in Seq(Item) /\ r # <<>> /\ Head(r) = it' /\ Tail(r) = loop'.queue BY <3>1
    <3>3. Passing(w)' = Marks(r, w) BY <2>1, <2>5 DEF Passing, Line
    <3> HIDE DEF r
    <3> QED BY <3>2, <3>3, MarksTail
  <2>7. Passing(w)' \in Seq(Int) /\ Passing(w) \in Seq(Int)
    <3>1. Passing(w) \in Seq(Int) BY PassingSeq
    <3>2. Line' \in Seq(Item)
      <4>1. it' \in Item /\ loop'.queue \in Seq(Item) BY DEF LoopTypeOK, Loop
      <4> QED BY <4>1 DEF Line
    <3>3. Passing(w)' = Marks(Line', w) BY <2>1 DEF Passing
    <3> QED BY <3>1, <3>2, <3>3, MarksSeq
  <2> DEFINE a == Passing(w)
             b == Passing(w)'
  <2>8. b \in Seq(Int) /\ a \in Seq(Int) /\ a # <<>> /\ b # <<>> /\ Head(a) = Head(b) /\ Tail(a) = Tail(b)
    BY <2>1, <2>2, <2>3, <2>4, <2>6, <2>7
  <2> HIDE DEF a, b
  <2>9. a = b BY <2>8, SameHeadTail
  <2> QED BY <2>9 DEF a, b
<1>2. CASE Enqueue
  <2>1. PICK x \in Item :
          /\ pc = "handle" /\ pc' = "read" /\ SetOutputs
          /\ loop'.queue = Append(loop.queue, x)
          /\ x.frame = it.frame /\ x.ret = it.ret
          /\ x.pkt = IF it.ret = "eof" THEN NoPacket ELSE it.pkt
    BY <1>2, EnqueueView
  <2>2. Mark(x, w) = Mark(it, w)
    <3>1. it.ret = "eof" => ~Copies(it) BY <2>1 DEF Flow, Handling, Ended
    <3>2. Copies(x) <=> Copies(it) BY <2>1, <3>1 DEF Copies, NoPacket
    <3>3. Copies(x) => x.pkt = it.pkt BY <2>1, <3>1, <3>2
    <3> QED BY <2>1, <3>2, <3>3 DEF Mark
  <2>3. loop.queue \in Seq(Item) /\ it \in Item BY DEF LoopTypeOK, Loop
  <2>4. Passing(w)' = Marks(Append(loop.queue, x), w) BY <2>1 DEF Passing, Line
  <2>5. Passing(w) = Marks(Append(loop.queue, it), w) BY <2>1 DEF Passing, Line
  <2> QED BY <2>1, <2>2, <2>3, <2>4, <2>5, MarksAppend
<1> QED BY <1>1, <1>2

LEMMA PassingDelivered ==
  ASSUME LoopTypeOK, Deliver, NEW w
  PROVE  /\ Passing(w) # <<>> /\ Head(Passing(w)) = Mark(it, w)
         /\ Passing(w)' = Tail(Passing(w))
<1>1. pc = "handle" /\ pc' = "read" /\ ~SetOutputs /\ loop'.queue = loop.queue BY DeliverView
<1>2. Passing(w)' = Marks(loop.queue, w) BY <1>1 DEF Passing, Line
<1> QED BY <1>1, <1>2, PassingHead

\* Nothing passes behind the item that says the end.
LEMMA PassingFinished ==
  ASSUME LoopTypeOK, Flow, Finish, NEW w \in {"video", "audio", "copy"},
         NEW g \in Seq(Nat), NEW r \in Seq(Nat), Passes(g, Passing(w), r, Len(r))
  PROVE  g = r
<1>1. pc = "handle" /\ ~SetOutputs /\ it.ret = "eof" BY DEF Finish
<1>2. loop.queue = <<>> /\ Ended(it) BY <1>1 DEF Flow, Handling
<1>3. Mark(it, w) = None
  <2>1. Mark(it, "video") = None /\ Mark(it, "audio") = None BY <1>2, NoMark DEF Ended
  <2>2. Mark(it, "copy") = None BY <1>2 DEF Ended, Mark
  <2> QED BY <2>1, <2>2
<1>4. Passing(w) # <<>> /\ Head(Passing(w)) = None /\ Tail(Passing(w)) = <<>>
  BY <1>1, <1>2, <1>3, PassingHead, MarksEmpty
<1>5. Passing(w) \in Seq(Int) /\ Len(r) \in Nat BY PassingSeq
<1>6. Passes(g, <<>>, r, Len(r)) BY <1>4, <1>5, PassesTake
<1> QED BY <1>6, PassesAll

-----------------------------------------------------------------------------
(* Audio.                                                                   *)

\* A decoder that holds b: all that comes after the first n of r.
Follows(b, r, n) ==
  /\ n + Len(b) = Len(r)
  /\ \A i \in 1..Len(b) : b[i] = r[n + i]

LEMMA AppendNat ==
  ASSUME NEW s \in Seq(Nat), NEW x \in Nat
  PROVE  Append(s, x) \in Seq(Nat) /\ Append(s, x) # <<>>
<1>1. Append(s, x) \in Seq(Nat) /\ Len(Append(s, x)) = Len(s) + 1 /\ Len(s) \in Nat OBVIOUS
<1> QED BY <1>1

LEMMA FollowsPut ==
  ASSUME NEW b \in Seq(Nat), NEW r \in Seq(Nat), NEW n \in Nat, NEW x \in Nat, Follows(b, r, n)
  PROVE  Follows(Append(b, x), Append(r, x), n)
<1> DEFINE c == Append(b, x)
           s == Append(r, x)
<1>1. /\ Len(b) \in Nat /\ Len(r) \in Nat /\ Len(c) = Len(b) + 1 /\ Len(s) = Len(r) + 1
      /\ (\A i \in 1..Len(b) : c[i] = b[i]) /\ c[Len(b) + 1] = x
      /\ (\A i \in 1..Len(r) : s[i] = r[i]) /\ s[Len(r) + 1] = x
  OBVIOUS
<1> HIDE DEF c, s
<1>2. n + Len(b) = Len(r) BY DEF Follows
<1>3. ASSUME NEW i \in 1..Len(c) PROVE c[i] = s[n + i]
  <2>1. CASE i \in 1..Len(b)
    <3>1. n + i \in 1..Len(r) /\ b[i] = r[n + i] BY <1>1, <1>2, <2>1 DEF Follows
    <3> QED BY <1>1, <2>1, <3>1
  <2>2. CASE i = Len(b) + 1
    <3>1. Len(b) \in Nat /\ n + Len(b) = Len(r) BY <1>1, <1>2
    <3>2. n + i = Len(r) + 1 BY <2>2, <3>1
    <3> QED BY <1>1, <2>2, <3>2
  <2> QED BY <1>1, <2>1, <2>2
<1>4. Follows(c, s, n) BY <1>1, <1>2, <1>3 DEF Follows
<1> QED BY <1>4 DEF c, s

LEMMA FollowsTake ==
  ASSUME NEW b \in Seq(Nat), NEW r \in Seq(Nat), NEW n \in Nat, b # <<>>, Follows(b, r, n)
  PROVE  n < Len(r) /\ Head(b) = r[n + 1] /\ Follows(Tail(b), r, n + 1)
<1> DEFINE c == Tail(b)
<1>1. /\ Len(b) \in Nat \ {0} /\ Len(r) \in Nat /\ Len(c) = Len(b) - 1 /\ Head(b) = b[1]
      /\ \A i \in 1..Len(c) : c[i] = b[i + 1]
  OBVIOUS
<1> HIDE DEF c
<1>2. n + Len(b) = Len(r) /\ 1 \in 1..Len(b) BY <1>1 DEF Follows
<1>3. Head(b) = r[n + 1] BY <1>1, <1>2 DEF Follows
<1>4. ASSUME NEW i \in 1..Len(c) PROVE c[i] = r[(n + 1) + i]
  <2>1. i + 1 \in 1..Len(b) /\ n + (i + 1) = (n + 1) + i BY <1>1
  <2>2. b[i + 1] = r[n + (i + 1)] BY <2>1 DEF Follows
  <2> QED BY <1>1, <2>1, <2>2
<1>5. Follows(c, r, n + 1) /\ n < Len(r) BY <1>1, <1>2, <1>4 DEF Follows
<1> QED BY <1>3, <1>5 DEF c

Heard(n) == Passes(given.audio, Passing("audio"), read.audio, n) /\ Follows(adec, read.audio, n)

\* What the segment has of audio is given, passes or is in the decoder, in this
\* order.
AudioFlow ==
  pc # "idle" /\ cfg.adec /\ ~(Unheard /\ cfg.zero # "audio") => \E n \in Nat : Heard(n)

LEMMA Numbered ==
  ASSUME LoopTypeOK
  PROVE  /\ read.video \in Seq(Nat) /\ read.audio \in Seq(Nat) /\ adec \in Seq(Nat)
         /\ dec.buf \in Seq(Nat)
         /\ given.video \in Seq(Nat) /\ given.audio \in Seq(Nat) /\ given.copied \in Seq(Nat)
BY DEF LoopTypeOK, Reading, Giving, Decoder

LEMMA AudioFlowNext ==
  ASSUME LoopTypeOK, LoopTypeOK', Control, Reads, Flow, AudioFlow, [Next]_vars
  PROVE  AudioFlow'
<1> SUFFICES ASSUME pc' # "idle", cfg'.adec, ~(Unheard' /\ cfg'.zero # "audio")
             PROVE  \E n \in Nat : Heard(n)'
  BY DEF AudioFlow
<1> USE Numbered
<1>1. CASE BeginCall
  <2>1. Passing("audio")' = <<>> BY <1>1, PassingBegins
  <2>2. given'.audio = <<>> /\ read'.audio = <<>> /\ adec' = <<>> BY <1>1, BeginView
  <2>3. Follows(<<>>, <<>>, 0) BY DEF Follows
  <2>4. Heard(0)' BY <2>1, <2>2, <2>3, PassesStart DEF Heard
  <2> QED BY <2>4
<1> SUFFICES ASSUME ~BeginCall PROVE \E n \in Nat : Heard(n)'
  BY <1>1
<1>2. UNCHANGED cfg /\ (pc # "idle" \/ UNCHANGED vars)
  BY DEF Next, Iterate, vars, BeginCall, SendVideo, ReceiveDecoded, DecoderFails, DecodeAudio,
         PassPacket, SendSentinel, FlushFails, ReceiveFlushed, FlushAudio, ReadQueue, Enqueue,
         QueueFails, Deliver, Finish, AtEnd, Processing
<1>3. Unheard => Unheard'
  <2>1. CASE \E p \in Incoming : TRUE BY <2>1, NotAtEnd
  <2>2. CASE UNCHANGED <<read>> BY <2>2 DEF Unheard
  <2>3. CASE SendSentinel \/ FlushAudio BY <2>3, SendSentinelView, FlushAudioView DEF Unheard
  <2> QED BY <2>1, <2>2, <2>3 DEF Next, Iterate, vars, SendVideo, ReceiveDecoded, DecoderFails,
        DecodeAudio, PassPacket, FlushFails, ReceiveFlushed, ReadQueue, Enqueue, QueueFails,
        Deliver, Finish
<1>4. PICK n \in Nat : Heard(n)
  <2>1. CASE pc # "idle" BY <1>2, <1>3, <2>1 DEF AudioFlow
  <2>2. CASE UNCHANGED vars BY <2>2 DEF AudioFlow, Unheard, vars
  <2> QED BY <1>2, <2>1, <2>2
<1>5. Passing("audio") \in Seq(Int) BY PassingSeq
<1>6. ASSUME given'.audio = given.audio, read'.audio = read.audio, adec' = adec,
             Passing("audio")' = Passing("audio") \/ Passing("audio")' = Append(Passing("audio"), None)
      PROVE  Heard(n)'
  BY <1>4, <1>5, <1>6, PassesPutNone DEF Heard
<1>7. CASE SendVideo
  <2>1. PICK p \in Incoming : p.kind = "video" /\ Demuxed(p) /\ UNCHANGED <<adec, given>>
    BY <1>7, SendVideoView
  <2>2. read'.audio = read.audio BY <2>1, DemuxedView
  <2>3. Passing("audio")' = Passing("audio") BY <1>7, PassingSends
  <2> QED BY <1>6, <2>1, <2>2, <2>3
<1>8. CASE ReceiveDecoded \/ ReceiveFlushed
  <2>1. /\ pc = "receive" /\ UNCHANGED <<adec, read, given>>
        /\ \/ /\ pc' = "handle"
              /\ it'.frame = it.frame \/ it'.frame = Frame("video", Head(dec.buf))
           \/ pc' = "audio"
    BY <1>8, ReceiveView
  <2>2. it.frame = NoFrame BY <2>1 DEF Flow, Receiving
  <2>3. Mark(it', "audio") = None \/ pc' = "audio" BY <2>1, <2>2, NoMark
  <2>4. \/ Passing("audio")' = Passing("audio")
        \/ Passing("audio")' = Append(Passing("audio"), None)
    BY <1>8, <2>1, <2>3, PassingReceives
  <2> QED BY <1>6, <2>1, <2>4
<1>9. CASE DecodeAudio
  <2>1. PICK p \in Incoming :
          /\ p.kind = "audio" /\ Demuxed(p) /\ UNCHANGED given
          /\ LET held == Append(adec, p.n)
             IN  \/ it'.frame = Frame("audio", Head(held)) /\ it'.ret = "ok" /\ adec' = Tail(held)
                 \/ it'.frame = NoFrame /\ it'.ret = "packet_only" /\ adec' = held
    BY <1>9, DecodeAudioView
  <2>2. p.n \in Nat BY NoPacketNumber
  <2>3. read'.audio = Append(read.audio, p.n)
    <3>1. ~(ictx.blocked # NoPacket /\ p = ictx.blocked) BY <2>1 DEF Reads
    <3> QED BY <2>1, <3>1, DemuxedView
  <2> DEFINE held == Append(adec, p.n)
             r == Append(read.audio, p.n)
             m == Passing("audio")
  <2>4. Passing("audio")' = Append(m, Mark(it', "audio")) BY <1>9, PassingAdds
  <2>5. Follows(held, r, n) /\ Passes(given.audio, m, r, n)
    BY <1>4, <1>5, <2>2, FollowsPut, PassesRead DEF Heard
  <2>6. held \in Seq(Nat) /\ held # <<>> /\ r \in Seq(Nat)
    <3>1. adec \in Seq(Nat) /\ read.audio \in Seq(Nat) OBVIOUS
    <3> QED BY <2>2, <3>1, AppendNat
  <2>7. \/ it'.frame = Frame("audio", Head(held)) /\ it'.ret = "ok" /\ adec' = Tail(held)
        \/ it'.frame = NoFrame /\ it'.ret = "packet_only" /\ adec' = held
    BY <2>1
  <2> HIDE DEF held, r
  <2>8. CASE it'.frame = Frame("audio", Head(held)) /\ it'.ret = "ok" /\ adec' = Tail(held)
    <3>1. Mark(it', "audio") = Head(held) BY <2>8 DEF Mark, Frame
    <3>2. n < Len(r) /\ Head(held) = r[n + 1] /\ Follows(Tail(held), r, n + 1)
      BY <2>5, <2>6, FollowsTake
    <3>3. Passes(given.audio, Append(m, r[n + 1]), r, n + 1) BY <1>5, <2>5, <2>6, <3>2, PassesPut
    <3>4. Heard(n + 1)' BY <2>1, <2>3, <2>4, <2>8, <3>1, <3>2, <3>3 DEF Heard, r
    <3> QED BY <3>4
  <2>9. CASE it'.frame = NoFrame /\ it'.ret = "packet_only" /\ adec' = held
    <3>1. Mark(it', "audio") = None BY <2>9, NoMark
    <3>2. Passes(given.audio, Append(m, None), r, n) BY <1>5, <2>5, <2>6, PassesPutNone
    <3>3. Heard(n)' BY <2>1, <2>3, <2>4, <2>5, <2>9, <3>1, <3>2 DEF Heard, r
    <3> QED BY <3>3
  <2> QED BY <2>7, <2>8, <2>9
<1>10. CASE PassPacket
  <2>1. PICK p \in Incoming :
          /\ p.kind # "audio" /\ Demuxed(p) /\ UNCHANGED <<adec, given>> /\ it'.frame = NoFrame
    BY <1>2, <1>10, PassPacketView
  <2>2. read'.audio = read.audio BY <2>1, DemuxedView
  <2>3. Passing("audio")' = Append(Passing("audio"), None) BY <1>10, <2>1, PassingAdds, NoMark
  <2> QED BY <1>6, <2>1, <2>2, <2>3
<1>11. CASE SendSentinel
  <2>1. UNCHANGED <<adec, given>> /\ read'.audio = read.audio BY <1>11, SendSentinelView
  <2>2. Passing("audio")' = Passing("audio") BY <1>11, PassingSends
  <2> QED BY <1>6, <2>1, <2>2
<1>12. CASE FlushAudio
  <2>1. /\ UNCHANGED given /\ read'.audio = read.audio
        /\ \/ /\ adec # <<>> /\ adec' = Tail(adec)
              /\ it'.frame = Frame("audio", Head(adec)) /\ it'.ret = "ok"
           \/ adec' = adec /\ it'.frame = NoFrame
    BY <1>12, FlushAudioView
  <2>2. Passing("audio")' = Append(Passing("audio"), Mark(it', "audio")) BY <1>12, PassingAdds
  <2>3. CASE adec' = adec /\ it'.frame = NoFrame
    BY <1>6, <2>1, <2>2, <2>3, NoMark
  <2>4. CASE /\ adec # <<>> /\ adec' = Tail(adec)
             /\ it'.frame = Frame("audio", Head(adec)) /\ it'.ret = "ok"
    <3>1. Mark(it', "audio") = Head(adec) BY <2>4 DEF Mark, Frame
    <3>2. n < Len(read.audio) /\ Head(adec) = read.audio[n + 1] /\ Follows(Tail(adec), read.audio, n + 1)
      BY <1>4, <2>4, FollowsTake DEF Heard
    <3>3. Passes(given.audio, Append(Passing("audio"), read.audio[n + 1]), read.audio, n + 1)
      BY <1>4, <1>5, <3>2, PassesPut DEF Heard
    <3>4. Heard(n + 1)' BY <2>1, <2>2, <2>4, <3>1, <3>2, <3>3 DEF Heard
    <3> QED BY <3>4
  <2> QED BY <2>1, <2>3, <2>4
<1>13. CASE ReadQueue \/ Enqueue
  <2>1. UNCHANGED <<adec, read, given>> BY <1>13 DEF ReadQueue, Enqueue
  <2>2. Passing("audio")' = Passing("audio") BY <1>13, PassingQueue
  <2> QED BY <1>6, <2>1, <2>2
<1>14. CASE Deliver
  <2>1. UNCHANGED <<adec, read>> /\ pc = "handle" BY <1>14, DeliverView
  <2>2. /\ Passing("audio") # <<>> /\ Head(Passing("audio")) = Mark(it, "audio")
        /\ Passing("audio")' = Tail(Passing("audio"))
    BY <1>14, PassingDelivered
  <2>3. given'.audio = IF Mark(it, "audio") # None THEN Append(given.audio, Mark(it, "audio"))
                       ELSE given.audio
    <3>1. given'.audio = IF ~IsSentinel(it) /\ HasFrame(it) /\ it.stream = "audio"
                         THEN Append(given.audio, it.frame.n) ELSE given.audio
      BY <1>14, DeliverGives
    <3>2. Mark(it, "audio") # None => it.stream = "audio"
      BY <1>2, <1>3, <2>1 DEF Flow, Handling
    <3>3. it.frame.n \in Nat BY DEF LoopTypeOK, Item, Packet
    <3>4. it.stream = "audio" /\ ~IsSentinel(it) /\ HasFrame(it) =>
            Mark(it, "audio") = it.frame.n /\ it.frame.n # None
      BY <3>3 DEF IsSentinel, HasFrame, Mark, Frame, None
    <3>5. Mark(it, "audio") # None => ~IsSentinel(it) /\ HasFrame(it)
      BY <3>2 DEF IsSentinel, HasFrame, Mark
    <3> QED BY <3>1, <3>2, <3>4, <3>5
  <2>4. Passes(given'.audio, Tail(Passing("audio")), read.audio, n)
    BY <1>4, <1>5, <2>2, <2>3, PassesTake DEF Heard
  <2>5. Heard(n)' BY <1>4, <2>1, <2>2, <2>4 DEF Heard
  <2> QED BY <2>5
<1>15. CASE UNCHANGED vars
  <2>1. Passing("audio")' = Passing("audio") BY <1>15 DEF vars, Passing, Line, SetOutputs
  <2> QED BY <1>6, <1>15, <2>1 DEF vars
<1>16. ~(DecoderFails \/ FlushFails \/ QueueFails \/ Finish)
  BY DEF DecoderFails, FlushFails, QueueFails, Finish, EndCall
<1> QED BY <1>7, <1>8, <1>9, <1>10, <1>11, <1>12, <1>13, <1>14, <1>15, <1>16 DEF Next, Iterate

-----------------------------------------------------------------------------
(* Video.                                                                   *)

Blocked == IF ictx.blocked = NoPacket THEN 0 ELSE 1

Seen(n) ==
  /\ Passes(given.video, Passing("video"), read.video, n)
  /\ Contains(dec.buf, ictx.pkt_diff, read.video, n)
  /\ n + ictx.pkt_diff + Blocked = Len(read.video)
  /\ ictx.blocked # NoPacket => read.video[Len(read.video)] = ictx.blocked.n

\* What the segment has of video is given, passes, is in the decoder or blocked,
\* in this order.
VideoFlow ==
  pc # "idle" /\ cfg.vdec /\ ~upset /\ Delay <= SentinelMax + 1 => \E n \in Nat : Seen(n)

LEMMA VideoFlowNext ==
  ASSUME LoopTypeOK, LoopTypeOK', Control, Reads, Flow, FlushInv, VideoFlow, [Next]_vars
  PROVE  VideoFlow'
<1> SUFFICES ASSUME pc' # "idle", cfg'.vdec, ~upset', Delay <= SentinelMax + 1
             PROVE  \E n \in Nat : Seen(n)'
  BY DEF VideoFlow
<1> USE Numbered
<1>1. ~upset BY UpsetForGood
<1>2. Balance BY <1>1 DEF FlushInv
<1>3. CASE BeginCall
  <2>1. Passing("video")' = <<>> BY <1>3, PassingBegins
  <2>2. given'.video = <<>> /\ read'.video = <<>> /\ pc = "idle" /\ UNCHANGED ictx
    BY <1>3, BeginView
  <2>3. ictx.pkt_diff = 0 /\ ictx.blocked = NoPacket BY <1>1, <2>2 DEF Control, Flow
  <2>4. Contains(dec'.buf, 0, <<>>, 0)
    <3>1. Len(dec'.buf) \in Nat BY Numbered DEF LoopTypeOK, Decoder
    <3>2. Behind(0, dec'.buf, 0, <<>>, 0) BY <3>1 DEF Behind
    <3> QED BY <3>2 DEF Contains
  <2>5. Seen(0)' BY <2>1, <2>2, <2>3, <2>4, PassesStart DEF Seen, Blocked
  <2> QED BY <2>5
<1> SUFFICES ASSUME ~BeginCall PROVE \E n \in Nat : Seen(n)'
  BY <1>3
<1>4. UNCHANGED cfg /\ (pc # "idle" \/ UNCHANGED vars)
  BY DEF Next, Iterate, vars, BeginCall, SendVideo, ReceiveDecoded, DecoderFails, DecodeAudio,
         PassPacket, SendSentinel, FlushFails, ReceiveFlushed, FlushAudio, ReadQueue, Enqueue,
         QueueFails, Deliver, Finish, AtEnd, Processing
<1>5. PICK n \in Nat : Seen(n)
  <2>1. CASE pc # "idle" BY <1>1, <1>4, <2>1 DEF VideoFlow
  <2>2. CASE UNCHANGED vars BY <1>1, <2>2 DEF VideoFlow, vars
  <2> QED BY <1>4, <2>1, <2>2
<1> DEFINE m == Passing("video")
           d == ictx.pkt_diff
           r == read.video
<1>6. /\ m \in Seq(Int) /\ d \in Nat /\ r \in Seq(Nat) /\ Len(r) \in Nat
      /\ Delay \in Nat /\ DiffMod \in Nat /\ Delay + 1 < DiffMod
  <2>1. m \in Seq(Int) BY PassingSeq
  <2>2. d \in Nat BY TypesCounted DEF LoopTypeOK
  <2>3. r \in Seq(Nat) BY DEF LoopTypeOK, Reading
  <2>4. Len(r) \in Nat
    <3> HIDE DEF r
    <3> QED BY <2>3
  <2>5. Delay \in Nat /\ DiffMod \in Nat /\ Delay + 1 < DiffMod BY LoopAssumption
  <2> QED BY <2>1, <2>2, <2>3, <2>4, <2>5
<1>7. \A i \in 1..Len(r) : r[i] # Sentinel
  <2>1. read.first \in Nat BY DEF LoopTypeOK, Reading
  <2>2. \A i \in 1..Len(r) : r[i] \in Nat
    <3>1. r \in Seq(Nat) BY <1>6
    <3> HIDE DEF r
    <3> QED BY <3>1, Numbered
  <2> QED BY <2>1, <2>2 DEF Reads, Sentinel
<1>8. ASSUME given'.video = given.video, read'.video = read.video, dec'.buf = dec.buf,
             ictx'.pkt_diff = d, ictx'.blocked = ictx.blocked,
             Passing("video")' = m \/ Passing("video")' = Append(m, None)
      PROVE  Seen(n)'
  BY <1>5, <1>6, <1>8, PassesPutNone DEF Seen, Blocked
<1>9. CASE SendVideo
  <2>1. PICK p \in Incoming :
          /\ p.kind = "video" /\ pc = "read" /\ UNCHANGED given /\ Demuxed(p) /\ ~ictx.flushing
          /\ \/ /\ dec'.buf = Append(dec.buf, p.n)
                /\ ictx'.pkt_diff = (d + 1) % DiffMod /\ ictx'.blocked = NoPacket
             \/ dec'.buf = dec.buf /\ ictx'.pkt_diff = d /\ ictx'.blocked = p
    BY <1>9, SendVideoView
  <2>2. Passing("video")' = m BY <1>9, PassingSends
  <2>3. p.n \in Nat /\ p.n # Sentinel /\ p # NoPacket BY NoPacketNumber
  <2> DEFINE s == read'.video
  <2>4. /\ s \in Seq(Nat) /\ Len(s) = n + d + 1 /\ s[Len(s)] = p.n
        /\ Passes(given.video, m, s, n) /\ Contains(dec.buf, d, s, n)
        /\ \A i \in 1..Len(s) : s[i] # Sentinel
    <3>1. CASE ictx.blocked # NoPacket /\ p = ictx.blocked /\ read' = read
      BY <1>5, <1>6, <1>7, <3>1 DEF Seen, Blocked
    <3>2. CASE ictx.blocked = NoPacket /\ s = Append(r, p.n)
      <4>1. n + d = Len(r) BY <1>5, <1>6, <3>2 DEF Seen, Blocked
      <4>2. Passes(given.video, m, s, n) BY <1>5, <1>6, <2>3, <3>2, PassesRead DEF Seen
      <4>3. Contains(dec.buf, d, s, n) BY <1>5, <1>6, <2>3, <3>2, ContainsRead DEF Seen
      <4>4. s \in Seq(Nat) /\ Len(s) = Len(r) + 1 /\ s[Len(s)] = p.n /\ \A i \in 1..Len(r) : s[i] = r[i]
        BY <1>6, <2>3, <3>2
      <4>5. \A i \in 1..Len(s) : i \in 1..Len(r) \/ i = Len(s) BY <1>6, <4>4
      <4> HIDE DEF s
      <4>6. \A i \in 1..Len(s) : s[i] # Sentinel BY <1>7, <2>3, <4>4, <4>5
      <4> QED BY <4>1, <4>2, <4>3, <4>4, <4>6, <1>6
    <3> QED BY <2>1, <3>1, <3>2, DemuxedView
  <2> HIDE DEF s
  <2>5. CASE /\ dec'.buf = Append(dec.buf, p.n)
             /\ ictx'.pkt_diff = (d + 1) % DiffMod /\ ictx'.blocked = NoPacket
    <3>1. PICK h \in Nat : Holds(h) BY <1>2 DEF Balance
    <3>2. Shape(dec.buf, d, 0, FALSE, h) BY <2>1, <3>1 DEF Holds, Shape, Control
    <3>3. s[n + d + 1] = p.n /\ n + d < Len(s) BY <1>6, <2>4
    <3>4. Contains(dec'.buf, d + 1, s, n)
      <4>1. Contains(Append(dec.buf, s[n + d + 1]), d + 1, s, n)
        BY <1>6, <2>4, <3>2, <3>3, ContainsFrame
      <4> QED BY <2>5, <3>3, <4>1
    <3>5. ictx'.pkt_diff = d + 1
      <4>1. h + d <= Len(dec.buf) BY <3>2 DEF Shape
      <4>2. Len(dec.buf) <= Delay /\ Len(dec.buf) \in Nat BY <1>2, <2>1 DEF Balance
      <4>3. d + 1 < DiffMod /\ d + 1 \in Nat
        <5>1. d \in Nat /\ Delay \in Nat /\ DiffMod \in Nat /\ Delay + 1 < DiffMod BY <1>6
        <5> HIDE DEF d
        <5> QED BY <4>1, <4>2, <5>1
      <4> QED BY <1>6, <2>5, <4>3, SmallMod
    <3>6. Seen(n)' BY <1>6, <2>1, <2>2, <2>4, <2>5, <3>4, <3>5 DEF Seen, Blocked, s
    <3> QED BY <3>6
  <2>6. CASE dec'.buf = dec.buf /\ ictx'.pkt_diff = d /\ ictx'.blocked = p
    <3>1. Seen(n)' BY <1>6, <2>1, <2>2, <2>3, <2>4, <2>6 DEF Seen, Blocked, s
    <3> QED BY <3>1
  <2> QED BY <2>1, <2>5, <2>6
<1>10. CASE ReceiveDecoded \/ ReceiveFlushed
  <2>1. /\ pc = "receive" /\ UNCHANGED <<read, given>> /\ ictx'.blocked = ictx.blocked
        /\ \/ /\ pc' = "handle" /\ dec.buf # <<>> /\ dec'.buf = Tail(dec.buf)
              /\ it'.frame = Frame("video", Head(dec.buf)) /\ it'.ret = "ok"
              /\ ictx'.pkt_diff = IF Head(dec.buf) = Sentinel THEN d ELSE (d + DiffMod - 1) % DiffMod
           \/ /\ dec' = dec /\ it'.frame = it.frame /\ ictx'.pkt_diff = d
              /\ pc' \in {"handle", "audio"}
    BY <1>10, ReceiveView
  <2>2. it.frame = NoFrame BY <2>1 DEF Flow, Receiving
  <2>3. /\ pc' = "handle" => Passing("video")' = Append(m, Mark(it', "video"))
        /\ pc' = "audio" => Passing("video")' = m
    BY <1>10, PassingReceives
  <2>4. CASE dec' = dec /\ it'.frame = it.frame /\ ictx'.pkt_diff = d /\ pc' \in {"handle", "audio"}
    <3>1. Mark(it', "video") = None BY <2>2, <2>4, NoMark
    <3> QED BY <1>8, <2>1, <2>3, <2>4, <3>1
  <2>5. CASE /\ pc' = "handle" /\ dec.buf # <<>> /\ dec'.buf = Tail(dec.buf)
             /\ it'.frame = Frame("video", Sentinel) /\ Head(dec.buf) = Sentinel
             /\ ictx'.pkt_diff = d
    <3>1. Mark(it', "video") = None BY <2>5 DEF Mark
    <3>2. Contains(dec'.buf, d, r, n)
      <4>1. Contains(dec.buf, d, r, n) BY <1>5 DEF Seen
      <4> HIDE DEF d, r
      <4>2. Contains(Tail(dec.buf), d, r, n) BY <1>6, <1>7, <2>5, <4>1, ContainsGives
      <4> QED BY <2>5, <4>2
    <3>3. Passes(given.video, Append(m, None), r, n) BY <1>5, <1>6, PassesPutNone DEF Seen
    <3>4. Seen(n)' BY <1>5, <2>1, <2>3, <2>5, <3>1, <3>2, <3>3 DEF Seen, Blocked
    <3> QED BY <3>4
  <2>6. CASE /\ pc' = "handle" /\ dec.buf # <<>> /\ dec'.buf = Tail(dec.buf)
             /\ it'.frame = Frame("video", Head(dec.buf)) /\ it'.ret = "ok"
             /\ Head(dec.buf) # Sentinel /\ ictx'.pkt_diff = (d + DiffMod - 1) % DiffMod
    <3>1. Mark(it', "video") = Head(dec.buf) BY <2>6 DEF Mark, Frame
    <3>2. d > 0
      <4>1. PICK h \in Nat : Holds(h) BY <1>2 DEF Balance
      <4>2. Shape(dec.buf, d, ictx.sentinel_count, ictx.flushing, h) BY <4>1 DEF Holds
      <4> QED BY <1>6, <2>6, <4>2, ShapeGivesFrame
    <3>3. Head(dec.buf) = r[n + 1] /\ n < Len(r) /\ Contains(dec'.buf, d - 1, r, n + 1)
      <4>1. Contains(dec.buf, d, r, n) BY <1>5 DEF Seen
      <4> HIDE DEF d, r
      <4>2. Head(dec.buf) = r[n + 1] /\ n < Len(r) /\ Contains(Tail(dec.buf), d - 1, r, n + 1)
        BY <1>6, <1>7, <2>6, <3>2, <4>1, ContainsGives
      <4> QED BY <2>6, <4>2
    <3>4. ictx'.pkt_diff = d - 1
      <4>1. d - 1 \in Nat /\ (d - 1) + DiffMod = d + DiffMod - 1 BY <1>6, <3>2
      <4>2. d - 1 < DiffMod
        <5>1. d < DiffMod BY <1>6 DEF LoopTypeOK, InputCtx
        <5> QED BY <1>6, <5>1
      <4>3. ((d - 1) + DiffMod) % DiffMod = d - 1 BY <1>6, <4>1, <4>2, WrappedMod
      <4> QED BY <2>6, <4>1, <4>3
    <3>5. Passes(given.video, Append(m, r[n + 1]), r, n + 1) BY <1>5, <1>6, <3>3, PassesPut DEF Seen
    <3>6. (n + 1) + (d - 1) + Blocked = Len(r)
      <4>1. n + d + Blocked = Len(r) /\ Blocked \in Nat BY <1>5 DEF Seen, Blocked
      <4>2. d \in Nat /\ Len(r) \in Nat BY <1>6
      <4> HIDE DEF d, r
      <4> QED BY <4>1, <4>2
    <3>7. Seen(n + 1)' BY <1>5, <2>1, <2>3, <2>6, <3>1, <3>3, <3>4, <3>5, <3>6 DEF Seen, Blocked
    <3> QED BY <3>7
  <2> QED BY <2>1, <2>4, <2>5, <2>6
<1>11. CASE DecodeAudio
  <2>1. PICK p \in Incoming :
          /\ p.kind = "audio" /\ Demuxed(p) /\ UNCHANGED <<ictx, dec, given>>
          /\ it'.frame = NoFrame \/ \E k : it'.frame = Frame("audio", k)
    BY <1>11, DecodeAudioView
  <2>2. read'.video = read.video BY <2>1, DemuxedView
  <2>3. Passing("video")' = Append(m, None) BY <1>11, <2>1, PassingAdds, NoMark
  <2> QED BY <1>8, <2>1, <2>2, <2>3
<1>12. CASE PassPacket
  <2>1. PICK p \in Incoming :
          /\ p.kind # "video" /\ Demuxed(p) /\ UNCHANGED <<ictx, dec, given>> /\ it'.frame = NoFrame
    BY <1>4, <1>12, PassPacketView
  <2>2. read'.video = read.video BY <2>1, DemuxedView
  <2>3. Passing("video")' = Append(m, None) BY <1>12, <2>1, PassingAdds, NoMark
  <2> QED BY <1>8, <2>1, <2>2, <2>3
<1>13. CASE SendSentinel
  <2>1. /\ UNCHANGED given /\ read'.video = read.video
        /\ ictx.blocked = NoPacket /\ ictx'.blocked = NoPacket /\ ictx'.pkt_diff = d
        /\ dec'.buf = Append(dec.buf, Sentinel) \/ dec'.buf = dec.buf
    BY <1>13, SendSentinelView
  <2>2. Passing("video")' = m BY <1>13, PassingSends
  <2>3. Contains(dec'.buf, d, r, n)
    BY <1>5, <1>6, <2>1, ContainsSentinel DEF Seen, Sentinel
  <2>4. Seen(n)' BY <1>5, <2>1, <2>2, <2>3 DEF Seen, Blocked
  <2> QED BY <2>4
<1>14. CASE FlushAudio
  <2>1. /\ UNCHANGED <<ictx, dec, given>> /\ read'.video = read.video
        /\ it'.frame = NoFrame \/ \E k : it'.frame = Frame("audio", k)
    BY <1>14, FlushAudioView
  <2>2. Passing("video")' = Append(m, None) BY <1>14, <2>1, PassingAdds, NoMark
  <2> QED BY <1>8, <2>1, <2>2
<1>15. CASE ReadQueue \/ Enqueue
  <2>1. UNCHANGED <<ictx, dec, read, given>> BY <1>15 DEF ReadQueue, Enqueue
  <2>2. Passing("video")' = m BY <1>15, PassingQueue
  <2> QED BY <1>8, <2>1, <2>2
<1>16. CASE Deliver
  <2>1. UNCHANGED <<ictx, dec, read>> /\ pc = "handle" BY <1>16, DeliverView
  <2>2. m # <<>> /\ Head(m) = Mark(it, "video") /\ Passing("video")' = Tail(m)
    BY <1>16, PassingDelivered
  <2>3. given'.video = IF Mark(it, "video") # None THEN Append(given.video, Mark(it, "video"))
                       ELSE given.video
    <3>1. given'.video = IF ~IsSentinel(it) /\ HasFrame(it) /\ it.stream = "video"
                         THEN Append(given.video, it.frame.n) ELSE given.video
      BY <1>16, DeliverGives
    <3>2. Mark(it, "video") # None => it.stream = "video" BY <2>1 DEF Flow, Handling
    <3>3. it.frame.n \in Nat BY DEF LoopTypeOK, Item, Packet
    <3>4. it.stream = "video" /\ ~IsSentinel(it) /\ HasFrame(it) =>
            Mark(it, "video") = it.frame.n /\ it.frame.n # None
      BY <3>3 DEF IsSentinel, HasFrame, Mark, None
    <3>5. Mark(it, "video") # None => ~IsSentinel(it) /\ HasFrame(it)
      BY <3>2 DEF IsSentinel, HasFrame, Mark
    <3> QED BY <3>1, <3>2, <3>4, <3>5
  <2>4. Passes(given'.video, Tail(m), r, n) BY <1>5, <1>6, <2>2, <2>3, PassesTake DEF Seen
  <2>5. Seen(n)' BY <1>5, <2>1, <2>2, <2>4 DEF Seen, Blocked
  <2> QED BY <2>5
<1>17. CASE UNCHANGED vars
  <2>1. Passing("video")' = m BY <1>17 DEF vars, Passing, Line, SetOutputs
  <2> QED BY <1>8, <1>17, <2>1 DEF vars
<1>18. ~(DecoderFails \/ FlushFails \/ QueueFails \/ Finish)
  BY DEF DecoderFails, FlushFails, QueueFails, Finish, EndCall
<1> QED BY <1>9, <1>10, <1>11, <1>12, <1>13, <1>14, <1>15, <1>16, <1>17, <1>18 DEF Next, Iterate

-----------------------------------------------------------------------------
(* Packets to copy.                                                         *)

Has(s, x) == \E i \in 1..Len(s) : s[i] = x

\* r, in order: the packets of this call that have gone to the outputs that copy
\* or pass, those of its own once if none was refused.
Ledger(r) ==
  /\ InOrder(r)
  /\ \A x \in Nat : Has(r, x) =>
       x <= read.last /\ (ictx.blocked # NoPacket => x <= ictx.blocked.n)
  /\ \A x \in Nat : read.first < x => (Has(r, x) <=> Has(read.video, x) \/ Has(read.audio, x))
  /\ faults = 0 => Len(r) = Len(read.video) + Len(read.audio)

Copied(r) == Passes(given.copied, Passing("copy"), r, Len(r)) /\ Ledger(r)

\* Its packet is not taken for that of a sentinel.
Whole(i) == Copies(i) => i.frame # Frame("video", Sentinel)

\* A software decoder has no sentinels before its own flush.
Wholes ==
  pc # "idle" /\ ~cfg.hw =>
    /\ ~ictx.flushing => \A i \in 1..Len(dec.buf) : dec.buf[i] # Sentinel
    /\ \A i \in 1..Len(loop.queue) : Whole(loop.queue[i])
    /\ pc = "handle" => Whole(it)

CopyFlow == pc # "idle" /\ ~cfg.hw /\ ~cfg.cuts => \E r \in Seq(Nat) : Copied(r)

LEMMA HasAppend ==
  ASSUME NEW s \in Seq(Nat), NEW x \in Nat
  PROVE  /\ \A y : Has(Append(s, x), y) <=> Has(s, y) \/ y = x
         /\ Len(Append(s, x)) = Len(s) + 1
         /\ InOrder(s) /\ (\A y \in Nat : Has(s, y) => y <= x) => InOrder(Append(s, x))
<1> DEFINE t == Append(s, x)
<1>1. /\ Len(s) \in Nat /\ Len(t) = Len(s) + 1 /\ (\A i \in 1..Len(s) : t[i] = s[i] /\ s[i] \in Nat)
      /\ t[Len(s) + 1] = x
  OBVIOUS
<1> HIDE DEF t
<1>2. ASSUME NEW y, Has(t, y) PROVE Has(s, y) \/ y = x
  <2>1. PICK i \in 1..Len(t) : t[i] = y BY <1>2 DEF Has
  <2>2. i \in 1..Len(s) \/ i = Len(s) + 1 BY <1>1
  <2> QED BY <1>1, <2>1, <2>2 DEF Has
<1>3. ASSUME NEW y, Has(s, y) PROVE Has(t, y)
  <2>1. PICK i \in 1..Len(s) : s[i] = y BY <1>3 DEF Has
  <2>2. i \in 1..Len(t) /\ t[i] = y BY <1>1, <2>1
  <2> QED BY <2>2 DEF Has
<1>4. Has(t, x)
  <2>1. Len(s) + 1 \in 1..Len(t) BY <1>1
  <2> QED BY <1>1, <2>1 DEF Has
<1>5. ASSUME InOrder(s), \A y \in Nat : Has(s, y) => y <= x PROVE InOrder(t)
  <2>1. ASSUME NEW i \in 1..Len(t), NEW j \in 1..Len(t), i < j PROVE t[i] <= t[j]
    <3>1. i \in 1..Len(s) BY <1>1, <2>1
    <3>2. CASE j \in 1..Len(s) BY <1>1, <1>5, <2>1, <3>1, <3>2 DEF InOrder
    <3>3. CASE j = Len(s) + 1
      <4>1. Has(s, s[i]) /\ s[i] \in Nat BY <1>1, <3>1 DEF Has
      <4> QED BY <1>1, <1>5, <3>1, <3>3, <4>1
    <3> QED BY <1>1, <3>2, <3>3
  <2> QED BY <2>1 DEF InOrder
<1> QED BY <1>1, <1>2, <1>3, <1>4, <1>5 DEF t

\* A packet of video or audio is demuxed, or tried again.
LEMMA LedgerMore ==
  ASSUME LoopTypeOK, Reads, NEW p \in Incoming, Demuxed(p), p.kind \in {"video", "audio"},
         ictx'.blocked \in {NoPacket, p}, faults' = 0 => faults = 0,
         NEW r \in Seq(Nat), Ledger(r)
  PROVE  Ledger(Append(r, p.n))'
<1>1. /\ read.first \in Nat /\ read.last \in Nat /\ read.video \in Seq(Nat) /\ read.audio \in Seq(Nat)
      /\ read.first <= read.last
  BY DEF LoopTypeOK, Reading, Reads
<1>2. p # NoPacket /\ p.n \in Nat BY NoPacketNumber
<1> DEFINE s == Append(r, p.n)
<1>3. /\ \A y : Has(s, y) <=> Has(r, y) \/ y = p.n
      /\ Len(s) = Len(r) + 1
      /\ InOrder(r) /\ (\A y \in Nat : Has(r, y) => y <= p.n) => InOrder(s)
  BY <1>2, HasAppend
<1> HIDE DEF s
<1>4. CASE ictx.blocked # NoPacket /\ p = ictx.blocked /\ read' = read
  <2>1. \A y \in Nat : Has(r, y) => y <= p.n /\ y <= read.last BY <1>4 DEF Ledger
  <2>2. InOrder(s) BY <1>3, <2>1 DEF Ledger
  <2>3. p.n <= read.last /\ (read.first < p.n => Has(read.video, p.n)) BY <1>1, <1>2, <1>4 DEF Reads, Has
  <2>4. \A y \in Nat : Has(s, y) => y <= p.n /\ y <= read.last BY <1>2, <1>3, <2>1, <2>3
  <2>5. \A y \in Nat : read.first < y => (Has(s, y) <=> Has(read.video, y) \/ Has(read.audio, y))
    BY <1>3, <2>3 DEF Ledger
  <2>6. faults' # 0 BY <1>4 DEF Reads
  <2>7. Ledger(s)' BY <1>4, <2>2, <2>4, <2>5, <2>6 DEF Ledger, s
  <2> QED BY <2>7 DEF s
<1>5. CASE /\ ictx.blocked = NoPacket /\ p.n = read.last + 1
           /\ read'.first = read.first /\ read'.last = p.n
           /\ read'.video = IF p.kind = "video" THEN Append(read.video, p.n) ELSE read.video
           /\ read'.audio = IF p.kind = "audio" THEN Append(read.audio, p.n) ELSE read.audio
  <2>1. \A y \in Nat : Has(r, y) => y <= p.n
    <3>1. \A y \in Nat : Has(r, y) => y <= read.last BY DEF Ledger
    <3> QED BY <1>1, <1>5, <3>1
  <2>2. InOrder(s) BY <1>3, <2>1 DEF Ledger
  <2>3. \A y \in Nat : Has(s, y) => y <= p.n BY <1>2, <1>3, <2>1
  <2>4. /\ \A y : Has(read'.video, y) <=> Has(read.video, y) \/ (p.kind = "video" /\ y = p.n)
        /\ Len(read'.video) = IF p.kind = "video" THEN Len(read.video) + 1 ELSE Len(read.video)
    BY <1>1, <1>2, <1>5, HasAppend
  <2>5. /\ \A y : Has(read'.audio, y) <=> Has(read.audio, y) \/ (p.kind = "audio" /\ y = p.n)
        /\ Len(read'.audio) = IF p.kind = "audio" THEN Len(read.audio) + 1 ELSE Len(read.audio)
    BY <1>1, <1>2, <1>5, HasAppend
  <2>6. \A y \in Nat : read'.first < y => (Has(s, y) <=> Has(read'.video, y) \/ Has(read'.audio, y))
    BY <1>3, <1>5, <2>4, <2>5 DEF Ledger
  <2>7. faults' = 0 => Len(s) = Len(read'.video) + Len(read'.audio)
    <3>1. faults' = 0 => Len(r) = Len(read.video) + Len(read.audio) BY DEF Ledger
    <3>2. Len(r) \in Nat /\ Len(read.video) \in Nat /\ Len(read.audio) \in Nat BY <1>1
    <3>3. ASSUME NEW a \in Nat, NEW b \in Nat, NEW c \in Nat, c = a + b
          PROVE  c + 1 = (a + 1) + b /\ c + 1 = a + (b + 1)
      BY <3>3
    <3> DEFINE a == Len(read.video)
               b == Len(read.audio)
               c == Len(r)
    <3>4. a \in Nat /\ b \in Nat /\ c \in Nat /\ Len(s) = c + 1 /\ (faults' = 0 => c = a + b)
      BY <1>3, <3>1, <3>2
    <3>5. \/ Len(read'.video) = a + 1 /\ Len(read'.audio) = b
          \/ Len(read'.video) = a /\ Len(read'.audio) = b + 1
      BY <2>4, <2>5, Zenon
    <3> HIDE DEF a, b, c
    <3>6. faults' = 0 => c + 1 = (a + 1) + b /\ c + 1 = a + (b + 1) BY <3>3, <3>4
    <3> QED BY <3>4, <3>5, <3>6
  <2>8. Ledger(s)' BY <1>5, <2>2, <2>3, <2>6, <2>7 DEF Ledger, s
  <2> QED BY <2>8 DEF s
<1> QED BY <1>4, <1>5, DemuxedView

LEMMA LedgerSame ==
  ASSUME read'.first = read.first, read'.last >= read.last, read.last \in Nat, read'.last \in Nat,
         read'.video = read.video, read'.audio = read.audio,
         ictx'.blocked = ictx.blocked \/ ictx'.blocked = NoPacket, faults' = 0 => faults = 0,
         NEW r, Ledger(r)
  PROVE  Ledger(r)'
<1>1. \A x \in Nat : Has(r, x) => x <= read'.last
  <2>1. \A x \in Nat : Has(r, x) => x <= read.last BY DEF Ledger
  <2> QED BY <2>1
<1> QED BY <1>1 DEF Ledger

LEMMA PassesMore ==
  ASSUME NEW g \in Seq(Nat), NEW m \in Seq(Int), NEW r \in Seq(Nat), NEW x \in Nat,
         Passes(g, m, r, Len(r))
  PROVE  Passes(g, Append(m, x), Append(r, x), Len(Append(r, x)))
<1> DEFINE s == Append(r, x)
<1>1. s \in Seq(Nat) /\ Len(r) \in Nat /\ Len(s) = Len(r) + 1 /\ s[Len(r) + 1] = x OBVIOUS
<1>2. Passes(g, m, s, Len(r)) BY <1>1, PassesRead
<1> HIDE DEF s
<1>3. Passes(g, Append(m, s[Len(r) + 1]), s, Len(r) + 1)
  <2>1. Len(r) \in Nat /\ Len(r) < Len(s) /\ s \in Seq(Nat) BY <1>1
  <2> DEFINE n == Len(r)
  <2>2. n \in Nat /\ n < Len(s) /\ s \in Seq(Nat) /\ Passes(g, m, s, n) BY <1>2, <2>1
  <2> HIDE DEF n
  <2>3. Passes(g, Append(m, s[n + 1]), s, n + 1) BY <2>2, PassesPut
  <2> QED BY <2>3 DEF n
<1>4. Passes(g, Append(m, x), s, Len(s)) BY <1>1, <1>3
<1> QED BY <1>4 DEF s

LEMMA WholesNext ==
  ASSUME LoopTypeOK, LoopTypeOK', Control, Flow, Wholes, [Next]_vars
  PROVE  Wholes'
<1> SUFFICES ASSUME pc' # "idle", ~cfg'.hw PROVE Wholes'
  BY DEF Wholes
<1>1. UNCHANGED cfg
  BY DEF Next, Iterate, vars, BeginCall, SendVideo, ReceiveDecoded, DecoderFails, DecodeAudio,
         PassPacket, SendSentinel, FlushFails, ReceiveFlushed, FlushAudio, ReadQueue, Enqueue,
         QueueFails, Deliver, Finish, AtEnd, Processing
<1>2. loop.queue \in Seq(Item) /\ dec.buf \in Seq(Nat) /\ it \in Item /\ Len(<<>>) = 0
      /\ Len(loop.queue) \in Nat /\ Len(dec.buf) \in Nat
  BY DEF LoopTypeOK, Loop, Decoder
<1>3. CASE BeginCall
  <2>1. pc' = "read" /\ dec'.buf = <<>> /\ loop'.queue = <<>> BY <1>1, <1>3, BeginView
  <2> QED BY <1>2, <2>1 DEF Wholes
<1>4. CASE pc # "idle"
  <2>1. /\ ~ictx.flushing => \A i \in 1..Len(dec.buf) : dec.buf[i] # Sentinel
        /\ \A i \in 1..Len(loop.queue) : Whole(loop.queue[i])
        /\ pc = "handle" => Whole(it)
    BY <1>1, <1>4 DEF Wholes
  <2>2. CASE SendVideo
    <3>1. PICK p \in Incoming :
            /\ pc' = "receive" /\ UNCHANGED loop /\ ~ictx.flushing
            /\ dec'.buf = Append(dec.buf, p.n) \/ dec'.buf = dec.buf
      BY <2>2, SendVideoView
    <3>2. p.n \in Nat /\ p.n # Sentinel BY NoPacketNumber
    <3>3. \A i \in 1..Len(Append(dec.buf, p.n)) : Append(dec.buf, p.n)[i] # Sentinel
      <4>1. ASSUME NEW b \in Seq(Nat), NEW x \in Nat, x # Sentinel, \A i \in 1..Len(b) : b[i] # Sentinel
            PROVE  \A i \in 1..Len(Append(b, x)) : Append(b, x)[i] # Sentinel
        BY <4>1
      <4> QED BY <1>2, <2>1, <3>1, <3>2, <4>1
    <3> QED BY <2>1, <3>1, <3>3 DEF Wholes
  <2>3. CASE ReceiveDecoded \/ ReceiveFlushed
    <3>1. /\ pc = "receive" /\ UNCHANGED loop /\ it'.pkt = it.pkt /\ ictx'.flushing = ictx.flushing
          /\ dec'.buf = dec.buf \/ (dec.buf # <<>> /\ dec'.buf = Tail(dec.buf))
          /\ \/ dec.buf # <<>> /\ it'.frame = Frame("video", Head(dec.buf))
             \/ it'.frame = it.frame
      BY <2>3, ReceiveView
    <3>2. ~ictx.flushing => \A i \in 1..Len(dec'.buf) : dec'.buf[i] # Sentinel
      <4>1. dec.buf # <<>> => /\ Len(Tail(dec.buf)) = Len(dec.buf) - 1
                              /\ \A i \in 1..Len(Tail(dec.buf)) : Tail(dec.buf)[i] = dec.buf[i + 1]
        BY <1>2
      <4>2. dec.buf # <<>> => \A i \in 1..Len(Tail(dec.buf)) : i + 1 \in 1..Len(dec.buf)
        BY <1>2, <4>1
      <4> QED BY <2>1, <3>1, <4>1, <4>2
    <3>3. Whole(it')
      <4>1. CASE ictx.flushing BY <3>1, <4>1 DEF Flow, Receiving, Whole, Copies
      <4>2. CASE ~ictx.flushing
        <5>1. dec.buf # <<>> => Head(dec.buf) # Sentinel
          <6>1. dec.buf # <<>> => 1 \in 1..Len(dec.buf) /\ Head(dec.buf) = dec.buf[1] BY <1>2
          <6> QED BY <2>1, <4>2, <6>1
        <5>2. it.frame = NoFrame BY <3>1 DEF Flow, Receiving
        <5> QED BY <3>1, <5>1, <5>2 DEF Whole, Frame, NoFrame
      <4> QED BY <4>1, <4>2
    <3> QED BY <2>1, <3>1, <3>2, <3>3 DEF Wholes, Whole, Copies
  <2>4. CASE DecodeAudio \/ PassPacket \/ FlushAudio
    <3>1. /\ UNCHANGED <<dec, ictx, loop>>
          /\ it'.frame = NoFrame \/ \E k : it'.frame = Frame("audio", k)
      BY <2>4, DecodeAudioView, PassPacketView, FlushAudioView
    <3>2. /\ NoFrame # Frame("video", Sentinel)
          /\ \A k : Frame("audio", k) # Frame("video", Sentinel)
      <4>1. /\ NoFrame.kind = "none" /\ Frame("video", Sentinel).kind = "video"
            /\ \A k : Frame("audio", k).kind = "audio"
        BY DEF Frame, NoFrame
      <4> QED BY <4>1
    <3>3. it'.frame # Frame("video", Sentinel) BY <3>1, <3>2
    <3> QED BY <2>1, <3>1, <3>3 DEF Wholes, Whole
  <2>5. CASE SendSentinel
    <3>1. pc' = "receive" /\ UNCHANGED loop /\ ictx'.flushing BY <2>5, SendSentinelView
    <3> QED BY <2>1, <3>1 DEF Wholes
  <2>6. CASE ReadQueue
    <3> DEFINE q == loop.queue
    <3>1. /\ UNCHANGED <<dec, ictx>> /\ q # <<>> /\ loop'.queue = Tail(q)
          /\ it'.pkt = Head(q).pkt /\ it'.frame = Head(q).frame
      BY <2>6, ReadQueueView
    <3>2. /\ Head(q) = q[1] /\ 1 \in 1..Len(q)
          /\ \A i \in 1..Len(Tail(q)) : i + 1 \in 1..Len(q) /\ Tail(q)[i] = q[i + 1]
      BY <1>2, <3>1, TailItems
    <3>3. Whole(q[1]) /\ \A i \in 1..Len(Tail(q)) : Whole(Tail(q)[i]) BY <2>1, <3>2
    <3>4. Whole(it') BY <3>1, <3>2, <3>3 DEF Whole, Copies
    <3> HIDE DEF q
    <3>5. \A i \in 1..Len(loop'.queue) : Whole(loop'.queue[i]) BY <3>1, <3>3
    <3> QED BY <2>1, <3>1, <3>4, <3>5 DEF Wholes, Whole, Copies
  <2>7. CASE Enqueue
    <3>1. PICK x \in Item :
            /\ pc = "handle" /\ pc' = "read" /\ UNCHANGED <<dec, ictx, it>>
            /\ loop'.queue = Append(loop.queue, x) /\ x.frame = it.frame
            /\ x.pkt = IF it.ret = "eof" THEN NoPacket ELSE it.pkt
      BY <2>7, EnqueueView
    <3>2. Whole(x) BY <2>1, <3>1 DEF Whole, Copies, NoPacket
    <3> DEFINE t == Append(loop.queue, x)
    <3>3. Len(t) = Len(loop.queue) + 1 /\ (\A i \in 1..Len(loop.queue) : t[i] = loop.queue[i])
          /\ t[Len(loop.queue) + 1] = x
      BY <1>2
    <3> HIDE DEF t
    <3>4. \A i \in 1..Len(t) : i \in 1..Len(loop.queue) \/ i = Len(loop.queue) + 1 BY <1>2, <3>3
    <3>5. \A i \in 1..Len(t) : Whole(t[i]) BY <2>1, <3>2, <3>3, <3>4
    <3>6. \A i \in 1..Len(loop'.queue) : Whole(loop'.queue[i]) BY <3>1, <3>5 DEF t
    <3> QED BY <2>1, <3>1, <3>6 DEF Wholes
  <2>8. CASE Deliver
    <3>1. pc' = "read" /\ UNCHANGED <<dec, ictx>> /\ loop'.queue = loop.queue BY <2>8, DeliverView
    <3> QED BY <2>1, <3>1 DEF Wholes
  <2>9. CASE UNCHANGED vars BY <2>9, <1>4, <1>1 DEF vars, Wholes, Whole, Copies
  <2> QED
    BY <1>4, <2>2, <2>3, <2>4, <2>5, <2>6, <2>7, <2>8, <2>9
    DEF Next, Iterate, BeginCall, DecoderFails, FlushFails, QueueFails, Finish, EndCall
<1> QED
  BY <1>3, <1>4 DEF Next, Iterate, vars, SendVideo, ReceiveDecoded, DecoderFails,
         DecodeAudio, PassPacket, SendSentinel, FlushFails, ReceiveFlushed, FlushAudio, ReadQueue,
         Enqueue, QueueFails, Deliver, Finish, AtEnd, Processing, BeginCall, Wholes, Whole, Copies

LEMMA CopyFlowNext ==
  ASSUME LoopTypeOK, LoopTypeOK', Control, Reads, Flow, Wholes, CopyFlow, [Next]_vars
  PROVE  CopyFlow'
<1> SUFFICES ASSUME pc' # "idle", ~cfg'.hw, ~cfg'.cuts PROVE \E r \in Seq(Nat) : Copied(r)'
  BY DEF CopyFlow
<1> USE Numbered
<1>1. UNCHANGED cfg /\ (pc # "idle" \/ BeginCall \/ UNCHANGED vars)
  BY DEF Next, Iterate, vars, BeginCall, SendVideo, ReceiveDecoded, DecoderFails, DecodeAudio,
         PassPacket, SendSentinel, FlushFails, ReceiveFlushed, FlushAudio, ReadQueue, Enqueue,
         QueueFails, Deliver, Finish, AtEnd, Processing
<1>2. CASE BeginCall
  <2>1. Passing("copy")' = <<>> BY <1>2, PassingBegins
  <2>2. given'.copied = <<>> /\ read'.video = <<>> /\ read'.audio = <<>> BY <1>2, BeginView
  <2>3. /\ <<>> \in Seq(Nat) /\ Len(<<>>) = 0 /\ 0 = 0 + 0 /\ InOrder(<<>>)
        /\ \A x : ~Has(<<>>, x)
    BY DEF InOrder, Has
  <2>4. Ledger(<<>>)' BY <2>2, <2>3 DEF Ledger
  <2>5. Copied(<<>>)' BY <2>1, <2>2, <2>3, <2>4, PassesStart DEF Copied
  <2> QED BY <2>3, <2>5
<1> SUFFICES ASSUME ~BeginCall PROVE \E r \in Seq(Nat) : Copied(r)'
  BY <1>2
<1>3. PICK r \in Seq(Nat) : Copied(r)
  <2>1. CASE pc # "idle" BY <1>1, <2>1 DEF CopyFlow
  <2>2. CASE UNCHANGED vars BY <1>1, <2>2 DEF CopyFlow, vars
  <2> QED BY <1>1, <2>1, <2>2
<1> DEFINE m == Passing("copy")
<1>4. m \in Seq(Int) /\ Len(r) \in Nat /\ faults \in Nat BY PassingSeq DEF LoopTypeOK
<1>5. /\ read.first \in Nat /\ read.last \in Nat /\ read'.last \in Nat /\ read.last >= read.last
  BY DEF LoopTypeOK, Reading
\* Nothing new to copy.
<1>6. ASSUME Passing("copy")' = m \/ Passing("copy")' = Append(m, None),
             UNCHANGED given, Ledger(r)'
      PROVE  Copied(r)'
  <2>1. Passes(given.copied, m, r, Len(r)) BY <1>3 DEF Copied
  <2>2. Passes(given.copied, Append(m, None), r, Len(r)) BY <1>4, <2>1, PassesPutNone
  <2> QED BY <1>6, <2>1, <2>2 DEF Copied
\* A packet to copy.
<1>7. ASSUME NEW p \in Incoming, Demuxed(p), p.kind \in {"video", "audio"},
             ictx'.blocked \in {NoPacket, p}, faults' = 0 => faults = 0, UNCHANGED given,
             Passing("copy")' = Append(m, p.n)
      PROVE  \E s \in Seq(Nat) : Copied(s)'
  <2>1. p.n \in Nat BY NoPacketNumber
  <2>2. Ledger(Append(r, p.n))' BY <1>3, <1>7, LedgerMore DEF Copied
  <2>3. Passes(given.copied, m, r, Len(r)) BY <1>3 DEF Copied
  <2>4. Passes(given.copied, Append(m, p.n), Append(r, p.n), Len(Append(r, p.n)))
    BY <1>4, <2>1, <2>3, PassesMore
  <2>5. Copied(Append(r, p.n))' BY <1>7, <2>2, <2>4 DEF Copied
  <2>6. Append(r, p.n) \in Seq(Nat) BY <2>1, AppendNat
  <2> QED BY <2>5, <2>6
<1>8. CASE SendVideo
  <2>1. PICK p \in Incoming :
          /\ p.kind = "video" /\ Demuxed(p) /\ it'.pkt = p /\ UNCHANGED given
          /\ ictx'.blocked \in {NoPacket, p}
          /\ faults' = faults \/ faults' = faults + 1
    BY <1>8, SendVideoView
  <2>2. Passing("copy")' = Append(m, p.n) BY <1>8, <2>1, PassingSends
  <2>3. faults' = 0 => faults = 0 BY <1>4, <2>1
  <2> QED BY <1>7, <2>1, <2>2, <2>3
<1>9. CASE ReceiveDecoded \/ ReceiveFlushed
  <2>1. UNCHANGED <<read, given>> /\ ictx'.blocked = ictx.blocked /\ faults' \in Nat /\ faults' >= faults
    BY <1>9, ReceiveView
  <2>2. Passing("copy")' = m \/ Passing("copy")' = Append(m, None) BY <1>9, PassingReceives
  <2>3. faults' = 0 => faults = 0 BY <1>4, <2>1
  <2>4. Ledger(r)' BY <1>3, <1>5, <2>1, <2>3, LedgerSame DEF Copied
  <2> QED BY <1>6, <2>1, <2>2, <2>4
<1>10. CASE DecodeAudio \/ PassPacket
  <2>1. PICK p \in Incoming :
          /\ p.kind \in Kinds /\ Demuxed(p) /\ UNCHANGED <<ictx, faults, given>>
          /\ it'.pkt = IF p.kind = "other" THEN Blank ELSE p
          /\ ~(ictx.blocked # NoPacket /\ p = ictx.blocked)
    <3>1. CASE DecodeAudio
      BY <3>1, DecodeAudioView DEF Kinds, Reads
    <3>2. CASE PassPacket
      BY <1>1, <3>2, PassPacketView DEF Reads
    <3> QED BY <1>10, <3>1, <3>2
  <2>2. Passing("copy")' = Append(m, Mark(it', "copy")) BY <1>10, PassingAdds
  <2>3. /\ ictx.blocked = NoPacket /\ p.n = read.last + 1
        /\ read'.first = read.first /\ read'.last = p.n
        /\ read'.video = IF p.kind = "video" THEN Append(read.video, p.n) ELSE read.video
        /\ read'.audio = IF p.kind = "audio" THEN Append(read.audio, p.n) ELSE read.audio
    BY <2>1, DemuxedView
  <2>4. CASE p.kind = "other"
    <3>1. Mark(it', "copy") = None BY <2>1, <2>4 DEF Mark, Copies, Blank
    <3>2. read'.last >= read.last BY <1>5, <2>3
    <3>3. Ledger(r)' BY <1>3, <1>5, <2>1, <2>3, <2>4, <3>2, LedgerSame DEF Copied
    <3> QED BY <1>6, <2>1, <2>2, <3>1, <3>3
  <2>5. CASE p.kind \in {"video", "audio"}
    <3>1. Mark(it', "copy") = p.n BY <2>1, <2>5 DEF Mark, Copies
    <3> QED BY <1>7, <2>1, <2>2, <2>3, <2>5, <3>1
  <2> QED BY <2>1, <2>4, <2>5 DEF Kinds
<1>11. CASE SendSentinel
  <2>1. /\ UNCHANGED given /\ ictx'.blocked = NoPacket
        /\ read'.first = read.first /\ read'.last = read.last
        /\ read'.video = read.video /\ read'.audio = read.audio
        /\ faults' = faults \/ faults' = faults + 1
    BY <1>11, SendSentinelView
  <2>2. Passing("copy")' = m BY <1>11, PassingSends
  <2>3. faults' = 0 => faults = 0 BY <1>4, <2>1
  <2>4. Ledger(r)' BY <1>3, <1>5, <2>1, <2>3, LedgerSame DEF Copied
  <2> QED BY <1>6, <2>1, <2>2, <2>4
<1>12. CASE FlushAudio
  <2>1. /\ UNCHANGED <<ictx, faults, given>>
        /\ read'.first = read.first /\ read'.last = read.last
        /\ read'.video = read.video /\ read'.audio = read.audio /\ it'.pkt = Blank
    BY <1>12, FlushAudioView
  <2>2. Mark(it', "copy") = None BY <2>1 DEF Mark, Copies, Blank
  <2>3. Passing("copy")' = Append(m, None) BY <1>12, <2>2, PassingAdds
  <2>4. Ledger(r)' BY <1>3, <1>5, <2>1, LedgerSame DEF Copied
  <2> QED BY <1>6, <2>1, <2>3, <2>4
<1>13. CASE ReadQueue \/ Enqueue
  <2>1. UNCHANGED <<ictx, faults, read, given>> BY <1>13 DEF ReadQueue, Enqueue
  <2>2. Passing("copy")' = m BY <1>13, PassingQueue
  <2>3. Ledger(r)' BY <1>3, <2>1 DEF Copied, Ledger
  <2> QED BY <1>6, <2>1, <2>2, <2>3
<1>14. CASE Deliver
  <2>1. UNCHANGED <<ictx, faults, read>> /\ pc = "handle" BY <1>14, DeliverView
  <2>2. m # <<>> /\ Head(m) = Mark(it, "copy") /\ Passing("copy")' = Tail(m)
    BY <1>14, PassingDelivered
  <2>3. given'.copied = IF Mark(it, "copy") # None THEN Append(given.copied, Mark(it, "copy"))
                        ELSE given.copied
    <3>1. given'.copied = IF ~IsSentinel(it) /\ Copies(it)
                          THEN Append(given.copied, it.pkt.n) ELSE given.copied
      BY <1>1, <1>14, DeliverGives
    <3>2. it.pkt.n \in Nat BY DEF LoopTypeOK, Item, Packet
    <3>3. Copies(it) <=> Mark(it, "copy") # None BY <3>2 DEF Mark, None
    <3>4. Copies(it) => Mark(it, "copy") = it.pkt.n BY DEF Mark
    <3>5. Copies(it) => ~IsSentinel(it) BY <1>1, <2>1 DEF Wholes, Whole, IsSentinel
    <3> QED BY <3>1, <3>3, <3>4, <3>5
  <2>4. Passes(given.copied, m, r, Len(r)) BY <1>3 DEF Copied
  <2>5. Passes(given'.copied, Tail(m), r, Len(r)) BY <1>4, <2>2, <2>3, <2>4, PassesTake
  <2>6. Ledger(r)' BY <1>3, <2>1 DEF Copied, Ledger
  <2> QED BY <2>2, <2>5, <2>6 DEF Copied
<1>15. CASE UNCHANGED vars
  <2>1. Passing("copy")' = m BY <1>15 DEF vars, Passing, Line, SetOutputs
  <2>2. Ledger(r)' BY <1>3, <1>15 DEF Copied, Ledger, vars
  <2> QED BY <1>6, <1>15, <2>1, <2>2 DEF vars
<1>16. ~(DecoderFails \/ FlushFails \/ QueueFails \/ Finish)
  BY DEF DecoderFails, FlushFails, QueueFails, Finish, EndCall
<1> QED BY <1>8, <1>9, <1>10, <1>11, <1>12, <1>13, <1>14, <1>15, <1>16 DEF Next, Iterate

-----------------------------------------------------------------------------
(* A call that is done has given all.                                       *)

Flows == Control /\ Reads /\ Flow /\ AudioFlow /\ VideoFlow /\ Wholes /\ CopyFlow

Complete == VideoComplete /\ AudioComplete /\ EveryPacketCopied

CopiesAll(g, r, f) ==
  /\ InOrder(g.copied)
  /\ {g.copied[i] : i \in DOMAIN g.copied} \ 0..r.first =
       {r.video[i] : i \in DOMAIN r.video} \cup {r.audio[i] : i \in DOMAIN r.audio}
  /\ f = 0 => Len(g.copied) = Len(r.video) + Len(r.audio)

LEMMA EveryPacketCopiedNext ==
  ASSUME outcome' = "done" /\ ~cfg'.hw /\ ~cfg'.cuts => CopiesAll(given', read', faults')
  PROVE  EveryPacketCopied'
BY Zenon DEF EveryPacketCopied, CopiesAll

LEMMA CompleteInit == Init => Flows /\ Complete
<1> SUFFICES ASSUME Init PROVE Flows /\ Complete
  OBVIOUS
<1>1. pc = "idle" /\ outcome = "none" /\ ictx.blocked = NoPacket /\ ~dec.draining
  BY DEF Init
<1>2. read.first = 0 /\ read.last = 0 /\ ~read.eof /\ read.video = <<>> /\ read.audio = <<>> BY DEF Init
<1>3. Reads BY <1>1, <1>2 DEF Reads
<1> QED BY <1>1, <1>3, ControlInit
        DEF Flows, Flow, AudioFlow, VideoFlow, Wholes, CopyFlow, Complete, VideoComplete,
            AudioComplete, EveryPacketCopied

\* A call is done only when its last item is: nothing passes behind it.
LEMMA CompleteFinish ==
  ASSUME LoopTypeOK, LoopTypeOK', FlushInv, Flows, Finish
  PROVE  Complete'
<1> USE Numbered
<1>1. UNCHANGED <<cfg, dec, adec, read, given, faults>> BY DEF Finish
<1>2. pc = "handle" /\ ~SetOutputs /\ it.ret = "eof" BY DEF Finish
<1>3. Ended(it) BY <1>2 DEF Flows, Flow, Handling
<1>4. read.eof /\ (cfg.adec => adec = <<>>) /\ ictx.blocked = NoPacket
  BY <1>3 DEF Ended, Flows, Reads
<1>5. upset' = upset /\ outcome' = "done"
  <2>1. EndCall("done", ictx) BY DEF Finish
  <2> QED BY <2>1 DEF EndCall, LoopTypeOK
<1>6. VideoComplete'
  <2> SUFFICES ASSUME Delay <= SentinelMax + 1, ~upset, cfg.vdec PROVE given.video = read.video
    BY <1>1, <1>5 DEF VideoComplete
  <2>1. PICK n \in Nat : Seen(n) BY <1>2 DEF Flows, VideoFlow
  <2>2. ictx.pkt_diff = 0 BY <1>2 DEF FlushInv, Balance
  <2>3. n = Len(read.video) BY <1>4, <2>1, <2>2 DEF Seen, Blocked
  <2>4. Passes(given.video, Passing("video"), read.video, Len(read.video)) BY <2>1, <2>3 DEF Seen
  <2> QED BY <2>4, PassingFinished DEF Flows
<1>7. AudioComplete'
  <2> SUFFICES ASSUME cfg.adec, read.video # <<>> \/ cfg.zero = "audio" PROVE given.audio = read.audio
    BY <1>1 DEF AudioComplete
  <2>1. PICK n \in Nat : Heard(n) BY <1>2 DEF Flows, AudioFlow, Unheard
  <2>2. n = Len(read.audio) BY <1>4, <2>1 DEF Heard, Follows
  <2>3. Passes(given.audio, Passing("audio"), read.audio, Len(read.audio)) BY <2>1, <2>2 DEF Heard
  <2> QED BY <2>3, PassingFinished DEF Flows
<1>8. EveryPacketCopied'
  <2> SUFFICES ASSUME ~cfg.hw, ~cfg.cuts PROVE EveryPacketCopied'
    BY <1>1 DEF EveryPacketCopied
  <2>1. PICK r \in Seq(Nat) : Copied(r) BY <1>2 DEF Flows, CopyFlow
  <2>2. given.copied = r BY <2>1, PassingFinished DEF Flows, Copied
  <2> DEFINE c == given.copied
  <2>3. Ledger(c) BY <2>1, <2>2 DEF Copied
  <2>4. \A s \in {c, read.video, read.audio} : DOMAIN s = 1..Len(s) /\ \A i \in 1..Len(s) : s[i] \in Nat
    OBVIOUS
  <2>5. \A x \in Nat : Has(read.video, x) \/ Has(read.audio, x) => read.first < x
    BY DEF Flows, Reads, Has
  <2>6. {c[i] : i \in DOMAIN c} = {x \in Nat : Has(c, x)} BY <2>4 DEF Has
  <2>7. {read.video[i] : i \in DOMAIN read.video} = {x \in Nat : Has(read.video, x)} BY <2>4 DEF Has
  <2>8. {read.audio[i] : i \in DOMAIN read.audio} = {x \in Nat : Has(read.audio, x)} BY <2>4 DEF Has
  <2>9. read.first \in Nat BY DEF LoopTypeOK, Reading
  <2>10. \A x \in Nat : x \notin 0..read.first <=> read.first < x BY <2>9
  <2>11. {x \in Nat : Has(c, x)} \ 0..read.first
           = {x \in Nat : Has(read.video, x)} \cup {x \in Nat : Has(read.audio, x)}
    BY <2>3, <2>5, <2>10 DEF Ledger
  <2>12. {c[i] : i \in DOMAIN c} \ 0..read.first
           = {read.video[i] : i \in DOMAIN read.video} \cup {read.audio[i] : i \in DOMAIN read.audio}
    BY <2>6, <2>7, <2>8, <2>11
  <2>13. InOrder(c) /\ (faults = 0 => Len(c) = Len(read.video) + Len(read.audio)) BY <2>3 DEF Ledger
  <2>14. /\ InOrder(given.copied)
         /\ {given.copied[i] : i \in DOMAIN given.copied} \ 0..read.first =
              {read.video[i] : i \in DOMAIN read.video} \cup {read.audio[i] : i \in DOMAIN read.audio}
         /\ faults = 0 => Len(given.copied) = Len(read.video) + Len(read.audio)
    BY <2>12, <2>13
  <2>15. UNCHANGED <<given, read, faults>> BY <1>1
  <2>16. CopiesAll(given, read, faults) BY <2>14, Zenon DEF CopiesAll
  <2>17. CopiesAll(given', read', faults') BY <2>15, <2>16
  <2> QED BY <2>17, EveryPacketCopiedNext
<1> QED BY <1>6, <1>7, <1>8 DEF Complete

LEMMA CompleteNext ==
  ASSUME LoopTypeOK, LoopTypeOK', FlushInv, Flows, Complete, [Next]_vars
  PROVE  Complete'
<1>1. CASE Finish BY <1>1, CompleteFinish
<1>2. CASE UNCHANGED vars
  <2>1. cfg' = cfg /\ outcome' = outcome /\ read' = read /\ given' = given /\ faults' = faults
        /\ upset' = upset
    BY <1>2 DEF vars
  <2>2. VideoComplete' /\ AudioComplete' BY <2>1 DEF Complete, VideoComplete, AudioComplete
  <2>3. outcome = "done" /\ ~cfg.hw /\ ~cfg.cuts => CopiesAll(given, read, faults)
    BY Zenon DEF Complete, EveryPacketCopied, CopiesAll
  <2>4. EveryPacketCopied' BY <2>1, <2>3, EveryPacketCopiedNext
  <2> QED BY <2>2, <2>4 DEF Complete
<1>3. CASE Next /\ ~Finish
  <2>1. outcome' # "done"
    BY <1>3 DEF Flows, Control, LoopTypeOK, Next, Iterate, BeginCall, SendVideo, ReceiveDecoded,
       DecoderFails, DecodeAudio, PassPacket, SendSentinel, FlushFails, ReceiveFlushed, FlushAudio,
       ReadQueue, Enqueue, QueueFails, Deliver, EndCall, Processing, AtEnd
  <2> QED BY <2>1 DEF Complete, VideoComplete, AudioComplete, EveryPacketCopied
<1> QED BY <1>1, <1>2, <1>3

LEMMA FlowsInvariant == Spec => [](Flows /\ Complete)
<1>1. Init => Flows /\ Complete BY CompleteInit
<1>2. LoopTypeOK /\ LoopTypeOK' /\ FlushInv /\ (Flows /\ Complete) /\ [Next]_vars => (Flows /\ Complete)'
  <2> SUFFICES ASSUME LoopTypeOK, LoopTypeOK', FlushInv, Flows, Complete, [Next]_vars
               PROVE  (Flows /\ Complete)'
    OBVIOUS
  <2>1. Control /\ Reads /\ Flow /\ AudioFlow /\ VideoFlow /\ Wholes /\ CopyFlow BY DEF Flows
  <2>2. Control' BY <2>1, ControlNext
  <2>3. Reads' /\ Flow' BY <2>1, ReadsNext, FlowNext
  <2>4. AudioFlow' BY <2>1, AudioFlowNext
  <2>5. VideoFlow' BY <2>1, VideoFlowNext
  <2>6. Wholes' BY <2>1, WholesNext
  <2>7. CopyFlow' BY <2>1, CopyFlowNext
  <2>8. Complete' BY CompleteNext
  <2> QED BY <2>2, <2>3, <2>4, <2>5, <2>6, <2>7, <2>8 DEF Flows
<1> QED BY <1>1, <1>2, LoopTypes, FlushInvariant, PTL DEF Spec

\* The encoders get every video frame of the segment, in order and once, for every
\* delay up to SENTINEL_MAX + 1 and whatever was refused, queued and flushed.  The
\* argument is an order: what is given, then what passes through the queue and the
\* iteration (Passing), then the pkt_diff frames the decoder holds between
\* sentinels, then the packet that is held back, together are what was read
\* (VideoFlow).  At the end the last three are empty: the item that says the end is
\* the last of the queue, and pkt_diff is 0 when it is made (FlushInv).
THEOREM VideoDelivered == Spec => []VideoComplete
<1>1. Flows /\ Complete => VideoComplete BY DEF Complete
<1> QED BY <1>1, FlowsInvariant, PTL

\* The same of the audio, of which the decoder holds back AudioDelay frames until
\* it is drained, in a segment with a video packet (AudioFlow).
THEOREM AudioDelivered == Spec => []AudioComplete
<1>1. Flows /\ Complete => AudioComplete BY DEF Complete
<1> QED BY <1>1, FlowsInvariant, PTL

\* Outputs that copy, without a clip, get every packet of video and audio of the
\* segment in the demuxer's order, and one twice only if a decoder refused it: without a hardware
\* decoder no packet waits with a sentinel (Wholes), and a packet that is refused
\* is the newest of all, so that it comes after what was copied before (Ledger).
THEOREM PacketsCopied == Spec => []EveryPacketCopied
<1>1. Flows /\ Complete => EveryPacketCopied BY DEF Complete
<1> QED BY <1>1, FlowsInvariant, PTL
=============================================================================
