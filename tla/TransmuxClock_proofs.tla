------------------------ MODULE TransmuxClock_proofs ------------------------
(* For all streams, timestamps and formats: mux implements the ordered       *)
(* muxer.  And for every number of streams, segments and packets: the clock  *)
(* of a transmuxed stream goes forward, skips nothing of segments that are   *)
(* in order, and gives mux nothing to move once the two agree.               *)
EXTENDS TransmuxClock, TLAPS

-----------------------------------------------------------------------------
(* The muxer of any output.                                                 *)

\* The last DTS the output context remembers is the one of the last packet
\* sent, and no known time lies below the unknown one.
Remembers ==
  \A k \in Kinds : octx.last[k] = sent[k].dts /\ octx.last[k] >= NoPts

\* Only the encoder's padding makes mux look for preroll.
NoPreroll == ~Padded => octx.drop = 0

MuxIInv == MuxTypeOK /\ Remembers /\ NoPreroll /\ NeverLatePts

-----------------------------------------------------------------------------
LEMMA PacketTimes ==
  ASSUME NEW p \in Packets
  PROVE  /\ p.pts \in Int /\ (p.pts = NoPts \/ NoPts + 1 < p.pts)
         /\ p.dts \in Int /\ (p.dts = NoPts \/ NoPts + 1 < p.dts)
         /\ NoPts \in Int /\ Strict \in BOOLEAN
         /\ p = [pts |-> p.pts, dts |-> p.dts]
BY MuxAssumption DEF Packets, TimesOrNone

\* A packet is repaired to the time nearest the last DTS between its two
\* times, and to its PTS if no DTS has been sent.
LEMMA RepairedTimes ==
  ASSUME NEW p \in Packets, NEW last \in Int, last >= NoPts,
         p.dts # NoPts, p.pts # NoPts, p.dts > p.pts
  PROVE  LET t == Repaired(p, last).dts
         IN /\ t \in Int
            /\ Repaired(p, last) = [pts |-> t, dts |-> t]
            /\ last = NoPts => t = p.pts
            /\ t = IF last + 1 <= p.pts THEN p.pts
                   ELSE IF last + 1 <= p.dts THEN last + 1 ELSE p.dts
<1>1. Repaired(p, last) = [pts |-> Median(p.pts, p.dts, last + 1),
                           dts |-> Median(p.pts, p.dts, last + 1)]
  BY DEF Repaired
<1>2. Median(p.pts, p.dts, last + 1) =
        IF last + 1 <= p.pts THEN p.pts ELSE IF last + 1 <= p.dts THEN last + 1 ELSE p.dts
  BY PacketTimes DEF Median, Smaller, Larger
<1>3. last = NoPts => Median(p.pts, p.dts, last + 1) = p.pts
  BY <1>2, PacketTimes
<1>4. Median(p.pts, p.dts, last + 1) \in Int
  BY <1>2, PacketTimes
<1> HIDE DEF Median
<1> QED BY <1>1, <1>2, <1>3, <1>4

\* What mux writes for a packet is what OrderedMux allows.
LEMMA MuxedPacket ==
  ASSUME NEW p \in Packets, NEW last \in Int, last >= NoPts
  PROVE  LET q == Muxed(p, last)
             due == Ordered!Due(p)
             floor == IF Strict THEN last + 1 ELSE last
         IN /\ q \in [pts : Int, dts : Int]
            /\ q.dts >= NoPts
            /\ p.dts = NoPts => q = p
            /\ p.dts # NoPts =>
                 /\ q.dts # NoPts
                 /\ last = NoPts => q.dts = due
                 /\ last # NoPts => /\ Larger(due, floor) <= q.dts
                                    /\ q.dts <= Larger(due, last + 1)
                 /\ q.pts = IF p.pts = NoPts THEN NoPts ELSE Larger(p.pts, q.dts)
<1> DEFINE r == Repaired(p, last)
           floor == IF Strict THEN last + 1 ELSE last
<1>1. Muxed(p, last) =
        IF r.dts # NoPts /\ last # NoPts /\ r.dts < floor
        THEN [pts |-> IF r.pts >= r.dts THEN Larger(r.pts, floor) ELSE r.pts, dts |-> floor]
        ELSE r
  BY DEF Muxed, Clamped
<1>2. Ordered!Due(p) = IF p.pts = NoPts \/ p.dts <= p.pts THEN p.dts ELSE p.pts
  BY DEF Ordered!Due
<1>3. CASE p.dts # NoPts /\ p.pts # NoPts /\ p.dts > p.pts
  <2> DEFINE t == r.dts
  <2>1. /\ t \in Int /\ r = [pts |-> t, dts |-> t]
        /\ last = NoPts => t = p.pts
        /\ t = IF last + 1 <= p.pts THEN p.pts
               ELSE IF last + 1 <= p.dts THEN last + 1 ELSE p.dts
    BY <1>3, RepairedTimes
  <2>2. r.pts = t
    BY <2>1
  <2> HIDE DEF r
  <2> QED BY <1>1, <1>2, <1>3, <2>1, <2>2, PacketTimes DEF Larger
<1>4. CASE ~(p.dts # NoPts /\ p.pts # NoPts /\ p.dts > p.pts)
  <2>1. r = p
    BY <1>4 DEF Repaired
  <2> HIDE DEF r
  <2> QED BY <1>1, <1>2, <1>4, <2>1, PacketTimes DEF Larger, Packets
<1> QED BY <1>3, <1>4

-----------------------------------------------------------------------------
\* One call of mux keeps the invariant, and writes or drops the packet as
\* OrderedMux does.
LEMMA MuxStep ==
  ASSUME MuxIInv, NEW s \in Streams, NEW p \in Packets, Mux(s, p)
  PROVE  /\ MuxIInv'
         /\ Ordered!Write(KindOf(s), p) \/ Ordered!Drop(KindOf(s), p)
<1> DEFINE k == KindOf(s)
           last == octx.last[k]
           q == Muxed(p, last)
           drop == IF k = "audio" THEN DropAfter(p) ELSE octx.drop
<1>1. k \in Kinds
  BY DEF KindOf, Kinds
<1>2. drop \in Drops /\ (~Padded => drop = 0)
  BY MuxAssumption DEF DropAfter, Packets, Drops, MuxIInv, MuxTypeOK, NoPreroll
<1>3. last \in Int /\ last >= NoPts /\ last = sent[k].dts
  BY <1>1 DEF MuxIInv, MuxTypeOK, Remembers
<1>4. \/ /\ octx' = [octx EXCEPT !.drop = drop]
         /\ UNCHANGED sent
         /\ k = "audio" /\ Padded
      \/ /\ octx' = [octx EXCEPT !.drop = drop, !.last[k] = q.dts]
         /\ sent' = [sent EXCEPT ![k] = q]
  <2>1. k = "audio" /\ Preroll(p) => Padded
    BY <1>2 DEF Preroll
  <2> QED BY <2>1 DEF Mux
<1>5. given' = [given EXCEPT ![k] = p]
  BY DEF Mux
<1>6. given \in [Kinds -> [pts : Int, dts : Int]] /\ p \in [pts : Int, dts : Int]
  BY PacketTimes DEF MuxIInv, MuxTypeOK
<1>7. given' \in [Kinds -> [pts : Int, dts : Int]]
  BY <1>1, <1>5, <1>6
<1>8. octx \in [last : [Kinds -> Int], drop : Drops] /\ sent \in [Kinds -> [pts : Int, dts : Int]]
  BY DEF MuxIInv, MuxTypeOK
<1>9. /\ q \in [pts : Int, dts : Int]
      /\ q.dts >= NoPts
      /\ p.dts = NoPts => q = p
      /\ p.dts # NoPts =>
           /\ last = NoPts => q.dts = Ordered!Due(p)
           /\ last # NoPts => /\ Larger(Ordered!Due(p), IF Strict THEN last + 1 ELSE last) <= q.dts
                              /\ q.dts <= Larger(Ordered!Due(p), last + 1)
           /\ q.pts = IF p.pts = NoPts THEN NoPts ELSE Larger(p.pts, q.dts)
  BY <1>3, MuxedPacket
<1> HIDE DEF drop, q, k
<1>10. CASE octx' = [octx EXCEPT !.drop = drop] /\ UNCHANGED sent /\ k = "audio" /\ Padded
  <2>1. /\ octx'.last = octx.last /\ octx' \in [last : [Kinds -> Int], drop : Drops]
        /\ octx'.drop = drop
    BY <1>2, <1>8, <1>10
  <2>2. MuxIInv'
    BY <1>2, <1>10, <1>7, <2>1 DEF MuxIInv, MuxTypeOK, Remembers, NoPreroll, NeverLatePts
  <2>3. Ordered!Drop(k, p)
    BY <1>10, <1>5 DEF Ordered!Drop
  <2> QED BY <2>2, <2>3 DEF k
<1>11. CASE /\ octx' = [octx EXCEPT !.drop = drop, !.last[k] = q.dts]
           /\ sent' = [sent EXCEPT ![k] = q]
  <2>1. /\ octx' \in [last : [Kinds -> Int], drop : Drops]
        /\ sent' \in [Kinds -> [pts : Int, dts : Int]]
        /\ octx'.drop = drop
        /\ \A i \in Kinds : /\ octx'.last[i] = IF i = k THEN q.dts ELSE octx.last[i]
                            /\ sent'[i] = IF i = k THEN q ELSE sent[i]
    BY <1>1, <1>2, <1>8, <1>9, <1>11
  <2>2. MuxTypeOK' /\ Remembers' /\ NoPreroll'
    BY <1>2, <1>9, <1>7, <2>1 DEF MuxIInv, MuxTypeOK, Remembers, NoPreroll
  <2>3. q.pts # NoPts /\ q.dts # NoPts => q.pts >= q.dts
    BY <1>9, PacketTimes DEF Larger
  <2>4. NeverLatePts'
    BY <2>1, <2>3 DEF MuxIInv, NeverLatePts
  <2>5. q \in Ordered!Written(k, p)
    <3>1. CASE p.dts = NoPts
      BY <1>9, <3>1 DEF Ordered!Written
    <3>2. CASE p.dts # NoPts
      <4>1. q.dts \in Ordered!Slots(k, p)
        BY <1>3, <1>9, <3>2, PacketTimes, MuxAssumption
           DEF Ordered!Slots, Ordered!Later, Ordered!Due, Larger
      <4>2. q.pts = IF p.pts = NoPts THEN NoPts ELSE Ordered!Later(p.pts, q.dts)
        BY <1>9, <3>2 DEF Ordered!Later, Larger
      <4>3. q = [dts |-> q.dts,
                 pts |-> IF p.pts = NoPts THEN NoPts ELSE Ordered!Later(p.pts, q.dts)]
        BY <1>9, <4>2
      <4> QED BY <3>2, <4>1, <4>3 DEF Ordered!Written
    <3> QED BY <3>1, <3>2
  <2>6. Ordered!Write(k, p)
    BY <1>11, <1>5, <2>5 DEF Ordered!Write
  <2> QED BY <2>2, <2>4, <2>6 DEF MuxIInv, k
<1> QED BY <1>4, <1>10, <1>11

LEMMA AddStreamsStep ==
  ASSUME MuxIInv, AddStreams
  PROVE  /\ MuxIInv'
         /\ Ordered!Reopen({KindOf(s) : s \in Streams})
<1> DEFINE added == {KindOf(s) : s \in Streams}
<1>1. /\ octx' = [last |-> [k \in Kinds |-> IF k \in added THEN NoPts ELSE octx.last[k]],
                  drop |-> IF Padded /\ "audio" \in added THEN NoPts ELSE octx.drop]
      /\ given' = [k \in Kinds |-> IF k \in added THEN Unsent ELSE given[k]]
      /\ sent' = [k \in Kinds |-> IF k \in added THEN Unsent ELSE sent[k]]
  BY DEF AddStreams
<1>2. NoPts \in Int /\ NoPts \in Drops
  BY MuxAssumption DEF Drops, TimesOrNone
<1> HIDE DEF added
<1>3. MuxTypeOK'
  BY <1>1, <1>2 DEF MuxIInv, MuxTypeOK, Unsent
<1>4. Remembers' /\ NoPreroll' /\ NeverLatePts'
  BY <1>1, <1>2 DEF MuxIInv, Remembers, NoPreroll, NeverLatePts, Unsent
<1>5. Ordered!Reopen(added)
  BY <1>1 DEF Ordered!Reopen, Ordered!Unsent, Unsent
<1> QED BY <1>3, <1>4, <1>5 DEF MuxIInv, added

\* The first file.
LEMMA MuxInitHolds ==
  ASSUME MuxInit
  PROVE  MuxIInv /\ Ordered!Init
<1>1. NoPts \in Int /\ NoPts \in Drops /\ 0 \in Drops
  BY MuxAssumption DEF Drops, TimesOrNone
<1>2. MuxIInv
  BY <1>1 DEF MuxInit, MuxIInv, MuxTypeOK, Remembers, NoPreroll, NeverLatePts, Unsent
<1>3. Ordered!Init
  BY DEF MuxInit, Ordered!Init, Ordered!Unsent, Unsent
<1> QED BY <1>2, <1>3

\* Every step keeps the invariant and is a step of OrderedMux, or changes
\* nothing.
LEMMA MuxNextSteps ==
  ASSUME MuxIInv, [MuxNext]_muxVars
  PROVE  MuxIInv' /\ [Ordered!Next]_(Ordered!orderedVars)
<1>1. CASE AddStreams
  <2>1. {KindOf(s) : s \in Streams} \in SUBSET Kinds
    BY DEF KindOf, Kinds
  <2> QED BY <1>1, <2>1, AddStreamsStep DEF Ordered!Next
<1>2. ASSUME NEW s \in Streams, WritePacket(s)
      PROVE  MuxIInv' /\ [Ordered!Next]_(Ordered!orderedVars)
  <2>1. PICK p \in Packets : Mux(s, p)
    BY <1>2 DEF WritePacket
  <2>2. KindOf(s) \in Kinds
    BY DEF KindOf, Kinds
  <2> QED BY <2>1, <2>2, MuxStep DEF Ordered!Next
<1>3. CASE UNCHANGED muxVars
  BY <1>3 DEF muxVars, Ordered!orderedVars, MuxIInv, MuxTypeOK, Remembers, NoPreroll, NeverLatePts
<1> QED BY <1>1, <1>2, <1>3 DEF MuxNext

\* A write of OrderedMux moves the DTS of its kind forward.
LEMMA OrderedStep ==
  ASSUME MuxIInv, [Ordered!Next]_(Ordered!orderedVars), NEW k \in Kinds,
         sent'[k] # sent[k], sent[k].dts # NoPts, sent'[k].dts # NoPts
  PROVE  IF Strict THEN sent'[k].dts > sent[k].dts ELSE sent'[k].dts >= sent[k].dts
<1>1. sent \in [Kinds -> [pts : Int, dts : Int]]
  BY DEF MuxIInv, MuxTypeOK
<1>2. ASSUME NEW ks \in SUBSET Kinds, Ordered!Reopen(ks) PROVE FALSE
  BY <1>1, <1>2 DEF Ordered!Reopen, Ordered!Unsent
<1>3. PICK i \in Kinds, p \in Packets : Ordered!Write(i, p)
  BY <1>2 DEF Ordered!Next, Ordered!Drop, Ordered!orderedVars
<1>4. PICK q \in Ordered!Written(i, p) : sent' = [sent EXCEPT ![i] = q]
  BY <1>3 DEF Ordered!Write
<1>5. i = k /\ sent'[k] = q
  BY <1>1, <1>4
<1>6. p.dts # NoPts
  BY <1>4, <1>5 DEF Ordered!Written
<1>7. q.dts \in Ordered!Slots(k, p)
  BY <1>4, <1>5, <1>6 DEF Ordered!Written
<1>8. Ordered!Due(p) \in Int /\ sent[k].dts \in Int /\ Strict \in BOOLEAN
  BY <1>1, PacketTimes DEF Ordered!Due
<1> QED BY <1>5, <1>7, <1>8 DEF Ordered!Slots, Ordered!Later

-----------------------------------------------------------------------------
(* The theorems.                                                            *)

\* MuxIInv is an inductive invariant of an output that is transcoded into.
THEOREM MuxInvariant == MuxSpec => []MuxIInv
<1>1. MuxInit => MuxIInv
  BY MuxInitHolds
<1>2. MuxIInv /\ [MuxNext]_muxVars => MuxIInv'
  BY MuxNextSteps
<1> QED BY <1>1, <1>2, PTL DEF MuxSpec

\* The muxer is given no packet that is presented before it is decoded.
THEOREM MuxNeverLate == MuxSpec => []NeverLatePts
<1>1. MuxIInv => NeverLatePts
  BY DEF MuxIInv
<1> QED BY <1>1, MuxInvariant, PTL

\* mux drops nothing but preroll, and moves a packet no further than it must.
THEOREM MuxImplementsOrderedMux == MuxSpec => OrderedSpec
<1>1. MuxInit => Ordered!Init
  BY MuxInitHolds
<1>2. MuxIInv /\ [MuxNext]_muxVars => [Ordered!Next]_(Ordered!orderedVars)
  BY MuxNextSteps
<1> QED BY <1>1, <1>2, MuxInvariant, PTL DEF MuxSpec, OrderedSpec, Ordered!Spec

\* The DTS of the packets of a kind increases.
THEOREM MuxKeepsDtsOrder == MuxSpec => DtsIncreases
<1>1. MuxIInv /\ [MuxNext]_muxVars =>
        [\A k \in Kinds :
           sent'[k] # sent[k] /\ sent[k].dts # NoPts /\ sent'[k].dts # NoPts =>
             IF Strict THEN sent'[k].dts > sent[k].dts ELSE sent'[k].dts >= sent[k].dts]_sent
  BY MuxNextSteps, OrderedStep
<1> QED BY <1>1, MuxInvariant, PTL DEF MuxSpec, DtsIncreases

-----------------------------------------------------------------------------
(* Arithmetic of the clock.                                                 *)

LEMMA Constants ==
  /\ NoPts \in Int /\ NoPts < -1 /\ 0 \in Drops /\ Strict \in BOOLEAN
  /\ Starts \subseteq Int /\ Durations \subseteq Nat /\ Delays \subseteq Nat
  /\ Clocked \subseteq Streams /\ Bases \subseteq [Streams -> [num : Nat \ {0}, den : Nat \ {0}]]
  /\ MaxPackets \in [Streams -> Nat] /\ MaxSegments \in Nat
BY MuxAssumption, ClockAssumption DEF Drops

LEMMA DivBounds ==
  ASSUME NEW x \in Nat, NEW y \in Nat \ {0}
  PROVE  /\ x \div y \in Nat
         /\ y * (x \div y) <= x /\ x < y * (x \div y) + y
OBVIOUS

LEMMA DivForward ==
  ASSUME NEW x \in Nat, NEW z \in Nat, NEW y \in Nat \ {0}
  PROVE  /\ x <= z => x \div y <= z \div y
         /\ x + y <= z => x \div y + 1 <= z \div y
<1> DEFINE q == x \div y
           r == z \div y
<1>1. q \in Nat /\ y * q <= x /\ x < y * q + y BY DivBounds
<1>2. r \in Nat /\ y * r <= z /\ z < y * r + y BY DivBounds
<1> HIDE DEF q, r
<1>3. ASSUME NEW i \in Nat, NEW j \in Nat, i < j PROVE y * i + y <= y * j
  <2>1. PICK n \in Nat : j = i + 1 + n BY <1>3
  <2>2. y * j = y * i + y + y * n BY <2>1
  <2>3. y * n >= 0 OBVIOUS
  <2> QED BY <2>2, <2>3
<1>4. x <= z => q <= r
  <2> SUFFICES ASSUME x <= z, r < q PROVE FALSE BY <1>1, <1>2
  <2>1. y * r + y <= y * q BY <1>1, <1>2, <1>3
  <2>2. y * r \in Int /\ y * q \in Int BY <1>1, <1>2
  <2> QED BY <1>1, <1>2, <2>1, <2>2
<1>5. x + y <= z => q + 1 <= r
  <2> SUFFICES ASSUME x + y <= z, r <= q PROVE FALSE BY <1>1, <1>2
  <2>1. y * r <= y * q
    <3>1. CASE r = q BY <3>1, <1>1
    <3>2. CASE r < q
      <4>1. y * r + y <= y * q BY <1>1, <1>2, <1>3, <3>2
      <4>2. y * r \in Int /\ y * q \in Int BY <1>1, <1>2
      <4> QED BY <4>1, <4>2
    <3> QED BY <1>1, <1>2, <3>1, <3>2
  <2>2. y * r \in Int /\ y * q \in Int BY <1>1, <1>2
  <2> QED BY <1>1, <1>2, <2>1, <2>2
<1> QED BY <1>4, <1>5 DEF q, r

\* Later times have no earlier tick, and a later one if they are a tick apart.
LEMMA TicksForward ==
  ASSUME NEW a \in Nat, NEW z \in Nat, NEW b \in [num : Nat \ {0}, den : Nat \ {0}], a <= z
  PROVE  /\ Ticks(a, b) \in Nat
         /\ Ticks(a, b) <= Ticks(z, b)
         /\ (z - a) * b.num >= b.den => Ticks(a, b) + 1 <= Ticks(z, b)
<1> DEFINE n == b.num
           d == b.den
           x == 2 * a * n + d
           y == 2 * z * n + d
           step == (z - a) * n
<1>1. n \in Nat \ {0} /\ d \in Nat \ {0} OBVIOUS
<1> HIDE DEF n, d
<1>2. a * n \in Nat /\ z * n \in Nat /\ step \in Nat BY <1>1
<1>3. z * n = a * n + step BY <1>1
<1>4. x = 2 * (a * n) + d /\ y = 2 * (z * n) + d BY <1>1
<1>5. x \in Nat /\ y \in Nat /\ x <= y /\ (step >= d => x + 2 * d <= y)
  <2> HIDE DEF x, y, step
  <2>1. ASSUME NEW u \in Nat, NEW v \in Nat, NEW w \in Nat, v = u + w,
               NEW x1, x1 = 2 * u + d, NEW y1, y1 = 2 * v + d
        PROVE  x1 \in Nat /\ y1 \in Nat /\ x1 <= y1 /\ (w >= d => x1 + 2 * d <= y1)
    BY <1>1, <2>1
  <2> QED BY <1>2, <1>3, <1>4, <2>1
<1>6. 2 * d \in Nat \ {0} BY <1>1
<1>7. Ticks(a, b) = x \div (2 * d) /\ Ticks(z, b) = y \div (2 * d) BY DEF Ticks, n, d
<1> HIDE DEF x, y
<1>8. x \div (2 * d) \in Nat BY <1>5, <1>6, DivBounds
<1>9. x \div (2 * d) <= y \div (2 * d) BY <1>5, <1>6, DivForward
<1>10. step >= d => x \div (2 * d) + 1 <= y \div (2 * d) BY <1>5, <1>6, DivForward
<1> QED BY <1>7, <1>8, <1>9, <1>10 DEF n, d

\* A converted time is that many ticks, or unknown; before zero it is not after.
LEMMA RescaledTime ==
  ASSUME NEW t \in Int, NEW b \in [num : Nat \ {0}, den : Nat \ {0}]
  PROVE  /\ Rescale(t, b) \in Int
         /\ Rescale(t, b) # NoPts /\ t > -1 => Rescale(t, b) = Ticks(t, b)
         /\ t > -1 => Rescale(t, b) <= Ticks(t, b)
         /\ t <= -1 => Rescale(t, b) <= 0
<1> DEFINE a == IF t < 0 THEN -t ELSE t
           n == Ticks(a, b)
<1>1. a \in Nat /\ (t > -1 => a = t) OBVIOUS
<1> HIDE DEF a
<1>2. n \in Nat BY <1>1, TicksForward
<1>3. Rescale(t, b) = IF n >= -NoPts THEN NoPts ELSE IF t < 0 THEN -n ELSE n
  BY DEF Rescale, a
<1>4. t > -1 => n = Ticks(t, b) BY <1>1
<1> HIDE DEF n
<1> QED BY <1>2, <1>3, <1>4, Constants

LEMMA RescaledType ==
  ASSUME NEW s \in Streams, base \in Bases, NEW p \in [pts : Int, dts : Int]
  PROVE  /\ base[s] \in [num : Nat \ {0}, den : Nat \ {0}]
         /\ Rescaled(s, p) \in [pts : Int, dts : Int]
         /\ Rescaled(s, p).dts = IF p.dts = NoPts THEN NoPts ELSE Rescale(p.dts, base[s])
<1>1. base[s] \in [num : Nat \ {0}, den : Nat \ {0}] BY Constants
<1>2. p.pts \in Int /\ p.dts \in Int OBVIOUS
<1>3. Rescale(p.pts, base[s]) \in Int /\ Rescale(p.dts, base[s]) \in Int
  BY <1>1, <1>2, RescaledTime
<1> QED BY <1>1, <1>3, Constants DEF Rescaled

\* A sum that fits is exact.
LEMMA WrappedFits ==
  ASSUME NEW t \in Int
  PROVE  /\ Wrapped(t) \in Int
         /\ NoPts < t /\ t < -NoPts => Wrapped(t) = t
<1> DEFINE m == -2 * NoPts
           x == t - NoPts
<1>1. m \in Nat \ {0} /\ x \in Int BY Constants
<1>2. Wrapped(t) = (x % m) + NoPts BY DEF Wrapped
<1>3. NoPts < t /\ t < -NoPts => 0 <= x /\ x < m BY Constants
<1>4. t = x + NoPts BY Constants
<1> HIDE DEF m, x
<1>5. x % m \in Int BY <1>1
<1>6. 0 <= x /\ x < m => x % m = x BY <1>1
<1> QED BY <1>2, <1>3, <1>4, <1>5, <1>6, Constants

-----------------------------------------------------------------------------
(* The clock of a transmuxed output.                                        *)

Times2 == [pts : Int, dts : Int]
Clocks == clock \in [Streams -> Clock]
Sources == source \in [Streams -> [dts : Int, left : Nat]]

\* Types; nothing sets drop_ts of a transmuxed output.
ClockTypes == ClockTypeOK /\ octx.drop = 0

\* The clock of a stream after the packet that comes next, copied or skipped,
\* and that packet.
Due(c, p) == [pts |-> Wrapped(p.pts + Diff(c, p.dts)), dts |-> Wrapped(p.dts + Diff(c, p.dts))]
Shifted(c, p) == [c EXCEPT !.dts_diff = Diff(c, p.dts), !.discontinuity = FALSE]
Moved(c, p, duration) ==
  [Shifted(c, p) EXCEPT !.last_dts = Due(c, p).dts,
                        !.last_duration = IF duration # 0 THEN duration ELSE @]

\* A clock that has seen a packet knows how long it was.
DurationKnown == \A s \in Streams : clock[s].last_dts > -1 => clock[s].last_duration > 0

\* The next packet of a stream in order is after the last, or sets the clock.
NextInOrder ==
  \A s \in inOrder :
    source[s].left > 0 =>
      clock[s].discontinuity \/ source[s].dts + clock[s].dts_diff > clock[s].last_dts

\* The tick of the muxer that the clock of a stream has reached.
Reached(c, b) == IF c.last_dts > -1 THEN Ticks(c.last_dts, b) ELSE 0

\* mux remembers what it sent last, and was given nothing after the clock.
Agree ==
  /\ \A k \in Kinds : given[k] # Unsent => octx.last[k] = sent[k].dts
  /\ \A s \in Clocked :
       given[KindOf(s)] # Unsent => given[KindOf(s)].dts <= Reached(clock[s], base[s])

-----------------------------------------------------------------------------
(* What one packet does.                                                    *)

LEMMA DiffType == ASSUME NEW c \in Clock, NEW dts \in Int PROVE Diff(c, dts) \in Int
<1>1. Wrapped(c.last_dts + c.last_duration - dts) \in Int BY WrappedFits DEF Clock
<1> QED BY <1>1 DEF Diff, Clock

LEMMA ClockOfPacket ==
  ASSUME NEW c \in Clock, NEW p \in Times2, NEW duration \in Nat
  PROVE  /\ Due(c, p) \in Times2
         /\ Shifted(c, p) \in Clock
         /\ Shifted(c, p).last_dts = c.last_dts
         /\ Shifted(c, p).last_duration = c.last_duration
         /\ Moved(c, p, duration) \in Clock
         /\ Moved(c, p, duration).last_dts = Due(c, p).dts
         /\ Moved(c, p, duration).last_duration =
              IF duration # 0 THEN duration ELSE c.last_duration
         /\ Moved(c, p, duration).dts_diff = Diff(c, p.dts)
         /\ ~Moved(c, p, duration).discontinuity
<1> DEFINE d == Diff(c, p.dts)
           due == Due(c, p)
<1>1. d \in Int /\ p.dts \in Int /\ p.pts \in Int BY DiffType DEF Times2
<1>2. Shifted(c, p) = [c EXCEPT !.dts_diff = d, !.discontinuity = FALSE] BY DEF Shifted
<1> DEFINE x == Shifted(c, p)
           long == IF duration # 0 THEN duration ELSE c.last_duration
<1>3. Moved(c, p, duration) =
        [x EXCEPT !.last_dts = due.dts,
                  !.last_duration = IF duration # 0 THEN duration ELSE @]
  BY DEF Moved
<1>4. due = [pts |-> Wrapped(p.pts + d), dts |-> Wrapped(p.dts + d)] BY DEF Due
<1> HIDE DEF d, due
<1>5. due \in Times2 /\ due.dts \in Int
  <2>1. p.pts + d \in Int /\ p.dts + d \in Int BY <1>1
  <2>2. Wrapped(p.pts + d) \in Int /\ Wrapped(p.dts + d) \in Int BY <2>1, WrappedFits
  <2> QED BY <1>4, <2>2 DEF Times2
<1>6. /\ x \in Clock /\ x.last_dts = c.last_dts /\ x.last_duration = c.last_duration
      /\ x.dts_diff = d /\ ~x.discontinuity
  BY <1>1, <1>2 DEF Clock
<1>7. long \in Nat BY DEF Clock
<1> HIDE DEF x, long
<1>8. Moved(c, p, duration) = [x EXCEPT !.last_dts = due.dts, !.last_duration = long]
  BY <1>3, <1>6 DEF Clock, long
<1>9. PICK a \in Int, b \in Nat, e \in Int, f \in BOOLEAN :
        x = [last_dts |-> a, last_duration |-> b, dts_diff |-> e, discontinuity |-> f]
  BY <1>6 DEF Clock
<1>10. Moved(c, p, duration) =
        [last_dts |-> due.dts, last_duration |-> long, dts_diff |-> d, discontinuity |-> FALSE]
  <2>1. x.dts_diff = e /\ x.discontinuity = f BY <1>9
  <2>2. e = d /\ f = FALSE BY <1>6, <2>1
  <2> QED BY <1>8, <1>9, <2>2
<1>11. /\ Moved(c, p, duration) \in Clock
       /\ Moved(c, p, duration).last_dts = due.dts
       /\ Moved(c, p, duration).last_duration = long
       /\ Moved(c, p, duration).dts_diff = d
       /\ ~Moved(c, p, duration).discontinuity
  BY <1>1, <1>5, <1>7, <1>10 DEF Clock
<1> QED BY <1>5, <1>6, <1>11 DEF d, x, long, due

\* What mux sends has times, and is what it was given if that is in order.
LEMMA MuxedTimes ==
  ASSUME NEW p \in Times2, NEW last \in Int
  PROVE  /\ Muxed(p, last) \in Times2
         /\ p.dts <= p.pts /\ (p.dts = NoPts \/ p.dts > last) => Muxed(p, last) = p
<1> DEFINE r == Repaired(p, last)
           t == Median(p.pts, p.dts, last + 1)
<1>1. t \in Int BY DEF Median, Smaller, Larger, Times2
<1> HIDE DEF t
<1>2. r = IF p.dts # NoPts /\ p.pts # NoPts /\ p.dts > p.pts THEN [pts |-> t, dts |-> t] ELSE p
  BY DEF Repaired, t
<1>3. r \in Times2 BY <1>1, <1>2 DEF Times2
<1>4. p.dts <= p.pts => r = p BY <1>2 DEF Times2
<1>5. Muxed(p, last) = Clamped(r, last) BY DEF Muxed
<1> HIDE DEF r
<1>6. Clamped(r, last) \in Times2 BY <1>3, Constants DEF Clamped, Larger, Times2
<1>7. r.dts = NoPts \/ r.dts > last => Clamped(r, last) = r
  BY <1>3, Constants DEF Clamped, Times2
<1> QED BY <1>4, <1>5, <1>6, <1>7

LEMMA MuxOfPacket ==
  ASSUME ClockTypes, NEW s \in Streams, NEW p \in Times2, Mux(s, p), NEW k, k = KindOf(s)
  PROVE  /\ k \in Kinds /\ octx.last[k] \in Int
         /\ given' = [given EXCEPT ![k] = p]
         /\ sent' = [sent EXCEPT ![k] = Muxed(p, octx.last[k])]
         /\ octx'.last = [octx.last EXCEPT ![k] = Muxed(p, octx.last[k]).dts]
         /\ octx'.drop = 0
         /\ octx' \in [last : [Kinds -> Int], drop : Drops]
<1> DEFINE last == octx.last[k]
           q == Muxed(p, last)
<1>1. k \in Kinds BY DEF KindOf, Kinds
<1>2. octx \in [last : [Kinds -> Int], drop : Drops] /\ octx.drop = 0
  BY DEF ClockTypes, ClockTypeOK, MuxTypeOK
<1>3. last \in Int BY <1>1, <1>2
<1>4. q \in Times2 BY <1>3, MuxedTimes
<1>5. q.dts \in Int BY <1>4 DEF Times2
<1>6. DropAfter(p) = 0 /\ ~Preroll(p) BY <1>2, Constants DEF DropAfter, Preroll
<1>7. /\ given' = [given EXCEPT ![k] = p] /\ sent' = [sent EXCEPT ![k] = q]
      /\ octx' = [octx EXCEPT !.drop = 0, !.last[k] = q.dts]
  BY <1>2, <1>6 DEF Mux
<1> HIDE DEF q
<1>8. /\ octx'.last = [octx.last EXCEPT ![k] = q.dts] /\ octx'.drop = 0
      /\ octx' \in [last : [Kinds -> Int], drop : Drops]
  BY <1>1, <1>2, <1>5, <1>7, Constants
<1> QED BY <1>1, <1>3, <1>7, <1>8 DEF q

\* A packet is skipped or copied, and the next of its stream is later.
LEMMA PacketSteps ==
  ASSUME ClockTypes, NEW s \in Streams, Packet(s)
  PROVE  \E duration \in Durations, delay \in Delays, unknown \in Unknown,
            p \in Times2, c \in Clock :
           /\ c = clock[s]
           /\ unknown = {} => p = [pts |-> source[s].dts + delay, dts |-> source[s].dts]
           /\ source[s].left > 0
           /\ source' \in [Streams -> [dts : Int, left : Nat]]
           /\ source'[s].dts = source[s].dts + Larger(duration, 1)
           /\ \A t \in Streams : t # s => source'[t] = source[t]
           /\ inOrder' = IF unknown = {} /\ Fits(c, p) THEN inOrder ELSE inOrder \ {s}
           /\ \/ /\ s \in Clocked /\ Stale(c, Due(c, p).dts)
                 /\ clock' = [clock EXCEPT ![s] = Shifted(c, p)]
                 /\ skipped' = skipped \cup {s}
                 /\ UNCHANGED <<octx, given, sent>>
              \/ /\ s \in Clocked /\ ~Stale(c, Due(c, p).dts)
                 /\ clock' = [clock EXCEPT ![s] = Moved(c, p, duration)]
                 /\ Copy(s, Due(c, p))
              \/ s \notin Clocked /\ clock' = clock /\ Copy(s, p)
           /\ UNCHANGED <<base, segments>>
<1> DEFINE c == clock[s]
           from == source[s].dts
           read(delay, unknown) == [pts |-> IF "pts" \in unknown THEN NoPts ELSE from + delay,
                                    dts |-> IF "dts" \in unknown THEN NoPts ELSE from]
<1>1. c \in Clock /\ source \in [Streams -> [dts : Int, left : Nat]]
  BY DEF ClockTypes, ClockTypeOK
<1>2. from \in Int /\ source[s].left > 0 BY <1>1 DEF Packet
<1>3. PICK duration \in Durations, delay \in Delays, unknown \in Unknown :
        /\ source' = [source EXCEPT ![s].dts = @ + Larger(duration, 1), ![s].left = @ - 1]
        /\ inOrder' = IF unknown = {} /\ Fits(c, read(delay, unknown))
                      THEN inOrder ELSE inOrder \ {s}
        /\ IF s \in Clocked THEN Clocking(s, read(delay, unknown), duration)
           ELSE Copy(s, read(delay, unknown)) /\ UNCHANGED clock
  BY DEF Packet
<1> DEFINE p == read(delay, unknown)
<1>4. p \in Times2 BY <1>2, <1>3, Constants DEF Times2
<1>5. unknown = {} => p = [pts |-> from + delay, dts |-> from] OBVIOUS
<1>6. Larger(duration, 1) \in Int BY <1>3, Constants DEF Larger
<1>7. /\ source' \in [Streams -> [dts : Int, left : Nat]]
      /\ source'[s].dts = from + Larger(duration, 1)
      /\ \A t \in Streams : t # s => source'[t] = source[t]
  BY <1>1, <1>2, <1>3, <1>6
<1>8. UNCHANGED <<base, segments>> BY DEF Packet
<1>9. c = clock[s] /\ from = source[s].dts OBVIOUS
<1>10. inOrder' = IF unknown = {} /\ Fits(c, p) THEN inOrder ELSE inOrder \ {s} BY <1>3
<1>11. IF s \in Clocked THEN Clocking(s, p, duration) ELSE Copy(s, p) /\ UNCHANGED clock
  BY <1>3
<1> HIDE DEF p, read
<1>12. Clocking(s, p, duration) =>
         IF Stale(c, Due(c, p).dts)
         THEN /\ clock' = [clock EXCEPT ![s] = Shifted(c, p)]
              /\ skipped' = skipped \cup {s}
              /\ UNCHANGED muxVars
         ELSE /\ clock' = [clock EXCEPT ![s] = Moved(c, p, duration)]
              /\ Copy(s, Due(c, p))
  BY DEF Clocking, Due, Shifted, Moved
<1> HIDE DEF c, from
<1>13. \/ /\ s \in Clocked /\ Stale(c, Due(c, p).dts)
          /\ clock' = [clock EXCEPT ![s] = Shifted(c, p)]
          /\ skipped' = skipped \cup {s}
          /\ UNCHANGED <<octx, given, sent>>
       \/ /\ s \in Clocked /\ ~Stale(c, Due(c, p).dts)
          /\ clock' = [clock EXCEPT ![s] = Moved(c, p, duration)]
          /\ Copy(s, Due(c, p))
       \/ s \notin Clocked /\ clock' = clock /\ Copy(s, p)
  <2>1. CASE s \in Clocked /\ Stale(c, Due(c, p).dts) BY <2>1, <1>11, <1>12 DEF muxVars
  <2>2. CASE s \in Clocked /\ ~Stale(c, Due(c, p).dts) BY <2>2, <1>11, <1>12
  <2>3. CASE s \notin Clocked BY <2>3, <1>11
  <2> QED BY <2>1, <2>2, <2>3
<1> QED BY <1>1, <1>2, <1>3, <1>4, <1>5, <1>7, <1>8, <1>9, <1>10, <1>13

\* What a copied packet does to mux, and to the packets of its kind.
LEMMA CopySteps ==
  ASSUME ClockTypes, NEW s \in Streams, NEW p \in Times2, Copy(s, p), NEW k, k = KindOf(s)
  PROVE  \/ /\ p.pts = NoPts /\ skipped' = skipped \cup {s}
            /\ UNCHANGED <<octx, given, sent>>
         \/ /\ p.pts # NoPts /\ UNCHANGED skipped
            /\ Rescaled(s, p) \in Times2
            /\ k \in Kinds /\ octx.last[k] \in Int
            /\ given' = [given EXCEPT ![k] = Rescaled(s, p)]
            /\ sent' = [sent EXCEPT ![k] = Muxed(Rescaled(s, p), octx.last[k])]
            /\ octx'.last = [octx.last EXCEPT ![k] = Muxed(Rescaled(s, p), octx.last[k]).dts]
            /\ octx'.drop = 0
            /\ octx' \in [last : [Kinds -> Int], drop : Drops]
            /\ Muxed(Rescaled(s, p), octx.last[k]) \in Times2
<1>1. CASE p.pts = NoPts BY <1>1 DEF Copy, muxVars
<1>2. CASE p.pts # NoPts
  <2> DEFINE q == Rescaled(s, p)
  <2>1. Mux(s, q) /\ UNCHANGED skipped BY <1>2 DEF Copy
  <2>2. base \in Bases BY DEF ClockTypes, ClockTypeOK
  <2>3. q \in Times2 BY <2>2, RescaledType DEF Times2
  <2> HIDE DEF q
  <2>4. /\ k \in Kinds /\ octx.last[k] \in Int
        /\ given' = [given EXCEPT ![k] = q]
        /\ sent' = [sent EXCEPT ![k] = Muxed(q, octx.last[k])]
        /\ octx'.last = [octx.last EXCEPT ![k] = Muxed(q, octx.last[k]).dts]
        /\ octx'.drop = 0
        /\ octx' \in [last : [Kinds -> Int], drop : Drops]
    BY <2>1, <2>3, MuxOfPacket
  <2>5. Muxed(q, octx.last[k]) \in Times2 BY <2>3, <2>4, MuxedTimes
  <2> QED BY <1>2, <2>1, <2>3, <2>4, <2>5 DEF q
<1> QED BY <1>1, <1>2

LEMMA CopyTypes ==
  ASSUME ClockTypes, NEW s \in Streams, NEW p \in Times2, Copy(s, p)
  PROVE  MuxTypeOK' /\ octx'.drop = 0 /\ skipped' \subseteq Streams
<1> DEFINE k == KindOf(s)
           r == Rescaled(s, p)
           q == Muxed(r, octx.last[k])
<1>1. /\ MuxTypeOK /\ octx.drop = 0 /\ skipped \subseteq Streams
      /\ given \in [Kinds -> Times2] /\ sent \in [Kinds -> Times2]
  BY DEF ClockTypes, ClockTypeOK, MuxTypeOK, Times2
<1>2. CASE /\ skipped' = skipped \cup {s}
           /\ UNCHANGED <<octx, given, sent>>
  BY <1>1, <1>2 DEF MuxTypeOK
<1>3. CASE /\ UNCHANGED skipped
           /\ r \in Times2 /\ q \in Times2 /\ k \in Kinds
           /\ given' = [given EXCEPT ![k] = r] /\ sent' = [sent EXCEPT ![k] = q]
           /\ octx'.drop = 0 /\ octx' \in [last : [Kinds -> Int], drop : Drops]
  <2> HIDE DEF k, r, q
  <2>1. given' \in [Kinds -> Times2] /\ sent' \in [Kinds -> Times2] BY <1>1, <1>3
  <2> QED BY <1>1, <1>3, <2>1 DEF MuxTypeOK, Times2
<1>4. \/ /\ p.pts = NoPts /\ skipped' = skipped \cup {s}
         /\ UNCHANGED <<octx, given, sent>>
      \/ /\ p.pts # NoPts /\ UNCHANGED skipped
         /\ r \in Times2
         /\ k \in Kinds /\ octx.last[k] \in Int
         /\ given' = [given EXCEPT ![k] = r]
         /\ sent' = [sent EXCEPT ![k] = q]
         /\ octx'.last = [octx.last EXCEPT ![k] = q.dts]
         /\ octx'.drop = 0
         /\ octx' \in [last : [Kinds -> Int], drop : Drops]
         /\ q \in Times2
  BY CopySteps
<1> HIDE DEF k, r, q
<1> QED BY <1>2, <1>3, <1>4

-----------------------------------------------------------------------------
(* Types.                                                                   *)

LEMMA TypesInit == ClockInit => ClockTypes
<1> SUFFICES ASSUME ClockInit PROVE ClockTypes OBVIOUS
<1>1. MuxTypeOK /\ octx.drop = 0 BY Constants DEF ClockInit, MuxTypeOK, Unsent
<1>2. Clocks /\ Sources /\ base \in Bases BY Constants DEF ClockInit, Clocks, Sources, Clock
<1> QED BY <1>1, <1>2, Constants DEF ClockInit, ClockTypes, ClockTypeOK, Clocks, Sources

LEMMA TypesKept == ClockTypes /\ [ClockNext]_clockVars => ClockTypes'
<1> SUFFICES ASSUME ClockTypes, [ClockNext]_clockVars PROVE ClockTypes' OBVIOUS
<1>1. CASE UNCHANGED clockVars
  BY <1>1 DEF clockVars, muxVars, ClockTypes, ClockTypeOK, MuxTypeOK, Clocks, Sources
<1>2. CASE Discontinuity
  <2>1. ASSUME NEW s \in Streams
        PROVE  [clock[s] EXCEPT !.discontinuity = s \in Clocked] \in Clock
    <3>1. \A b \in BOOLEAN : [clock[s] EXCEPT !.discontinuity = b] \in Clock
      BY DEF ClockTypes, ClockTypeOK, Clocks, Clock
    <3>2. (s \in Clocked) \in BOOLEAN OBVIOUS
    <3> QED BY <3>1, <3>2
  <2> QED BY <1>2, <2>1
         DEF Discontinuity, muxVars, ClockTypes, ClockTypeOK, MuxTypeOK, Clocks, Sources
<1>3. CASE Segment
  <2>1. source' \in [Streams -> [dts : Int, left : Nat]] /\ inOrder' \subseteq Clocked
    <3>1. PICK start \in [Streams -> Starts], length \in Lengths :
            /\ source' = [s \in Streams |-> [dts |-> start[s], left |-> length[s]]]
            /\ inOrder' = {s \in Clocked : \/ clock[s].discontinuity
                                           \/ start[s] + clock[s].dts_diff > clock[s].last_dts}
      BY <1>3 DEF Segment
    <3>2. \A s \in Streams : length[s] \in Nat BY Constants DEF Lengths
    <3> QED BY <3>1, <3>2, Constants
  <2>2. segments' \in 0..MaxSegments BY <1>3, Constants DEF Segment, ClockTypes, ClockTypeOK
  <2> QED BY <1>3, <2>1, <2>2
         DEF Segment, muxVars, ClockTypes, ClockTypeOK, MuxTypeOK, Clocks, Sources
<1>4. ASSUME NEW s \in Streams, Packet(s) PROVE ClockTypes'
  <2>1. PICK duration \in Durations, delay \in Delays, unknown \in Unknown,
             p \in Times2, c \in Clock :
          /\ c = clock[s]
          /\ source' \in [Streams -> [dts : Int, left : Nat]]
          /\ inOrder' = IF unknown = {} /\ Fits(c, p) THEN inOrder ELSE inOrder \ {s}
          /\ \/ /\ s \in Clocked /\ Stale(c, Due(c, p).dts)
                /\ clock' = [clock EXCEPT ![s] = Shifted(c, p)]
                /\ skipped' = skipped \cup {s}
                /\ UNCHANGED <<octx, given, sent>>
             \/ /\ s \in Clocked /\ ~Stale(c, Due(c, p).dts)
                /\ clock' = [clock EXCEPT ![s] = Moved(c, p, duration)]
                /\ Copy(s, Due(c, p))
             \/ s \notin Clocked /\ clock' = clock /\ Copy(s, p)
          /\ UNCHANGED <<base, segments>>
    BY <1>4, PacketSteps
  <2>2. duration \in Nat BY Constants
  <2>3. Shifted(c, p) \in Clock /\ Moved(c, p, duration) \in Clock /\ Due(c, p) \in Times2
    BY <2>2, ClockOfPacket
  <2>4. Clocks' BY <2>1, <2>3 DEF ClockTypes, ClockTypeOK, Clocks
  <2>5. Sources' /\ segments' \in 0..MaxSegments /\ inOrder' \subseteq Clocked /\ base' \in Bases
    BY <2>1 DEF ClockTypes, ClockTypeOK, Sources
  <2>6. MuxTypeOK' /\ octx'.drop = 0 /\ skipped' \subseteq Streams
    <3>1. CASE UNCHANGED <<octx, given, sent>> /\ skipped' = skipped \cup {s}
      BY <3>1 DEF ClockTypes, ClockTypeOK, MuxTypeOK
    <3>2. CASE Copy(s, Due(c, p)) BY <2>3, <3>2, CopyTypes
    <3>3. CASE Copy(s, p) BY <3>3, CopyTypes
    <3> QED BY <2>1, <3>1, <3>2, <3>3
  <2> QED BY <2>4, <2>5, <2>6 DEF ClockTypes, ClockTypeOK, Clocks, Sources
<1> QED BY <1>1, <1>2, <1>3, <1>4 DEF ClockNext
-----------------------------------------------------------------------------
(* The clock.                                                               *)

LEMMA ClocksInit == ClockInit => DurationKnown /\ NextInOrder
BY DEF ClockInit, DurationKnown, NextInOrder

\* What a packet does to the clocks.
LEMMA ClockSteps ==
  ASSUME ClockTypes, NEW s \in Streams, Packet(s)
  PROVE  \E duration \in Durations, p \in Times2, c \in Clock :
           /\ c = clock[s]
           /\ \A t \in Streams : t # s => clock'[t] = clock[t]
           /\ \/ clock'[s] = c
              \/ clock'[s] = Shifted(c, p)
              \/ ~Stale(c, Due(c, p).dts) /\ clock'[s] = Moved(c, p, duration)
<1>1. PICK duration \in Durations, delay \in Delays, unknown \in Unknown,
           p \in Times2, c \in Clock :
        /\ c = clock[s]
        /\ \/ /\ s \in Clocked /\ Stale(c, Due(c, p).dts)
              /\ clock' = [clock EXCEPT ![s] = Shifted(c, p)]
              /\ skipped' = skipped \cup {s}
              /\ UNCHANGED <<octx, given, sent>>
           \/ /\ s \in Clocked /\ ~Stale(c, Due(c, p).dts)
              /\ clock' = [clock EXCEPT ![s] = Moved(c, p, duration)]
              /\ Copy(s, Due(c, p))
           \/ s \notin Clocked /\ clock' = clock /\ Copy(s, p)
  BY PacketSteps
<1>2. clock \in [Streams -> Clock] BY DEF ClockTypes, ClockTypeOK
<1> QED BY <1>1, <1>2

\* The clock of a stream moves only when a packet of it is copied, and then
\* forward.
LEMMA ForwardStep ==
  ASSUME ClockTypes, [ClockNext]_clockVars, NEW s \in Streams, clock[s].last_dts > -1
  PROVE  clock'[s].last_dts >= clock[s].last_dts
<1> DEFINE a == clock[s].last_dts
<1>1. clock \in [Streams -> Clock] /\ a \in Int BY DEF ClockTypes, ClockTypeOK, Clock
<1>2. CASE UNCHANGED clock BY <1>1, <1>2
<1>3. CASE Discontinuity
  BY <1>1, <1>3 DEF Discontinuity, Clock
<1>4. ASSUME NEW t \in Streams, Packet(t) PROVE clock'[s].last_dts >= a
  <2>1. PICK duration \in Durations, p \in Times2, c \in Clock :
          /\ c = clock[t]
          /\ \A i \in Streams : i # t => clock'[i] = clock[i]
          /\ \/ clock'[t] = c
             \/ clock'[t] = Shifted(c, p)
             \/ ~Stale(c, Due(c, p).dts) /\ clock'[t] = Moved(c, p, duration)
    BY <1>4, ClockSteps
  <2>2. duration \in Nat BY Constants
  <2>3. /\ Shifted(c, p).last_dts = c.last_dts
        /\ Moved(c, p, duration).last_dts = Due(c, p).dts
        /\ Due(c, p) \in Times2
    BY <2>2, ClockOfPacket
  <2>4. ~Stale(c, Due(c, p).dts) /\ c.last_dts > -1 => Due(c, p).dts > c.last_dts
    BY <2>3 DEF Stale, Clock, Times2
  <2>5. CASE s # t BY <1>1, <2>1, <2>5
  <2>6. CASE s = t
    <3>1. c.last_dts = a BY <2>1, <2>6
    <3>2. Due(c, p).dts \in Int BY <2>3 DEF Times2
    <3> QED BY <1>1, <2>1, <2>3, <2>4, <2>6, <3>1, <3>2
  <2> QED BY <2>5, <2>6
<1>5. ClockNext \/ UNCHANGED clock BY DEF clockVars
<1> QED BY <1>2, <1>3, <1>4, <1>5 DEF ClockNext, Segment

\* A clock that has seen a packet has its duration, if packets have one.
LEMMA DurationsKept ==
  ASSUME 0 \notin Durations, ClockTypes, DurationKnown, [ClockNext]_clockVars
  PROVE  DurationKnown'
<1> SUFFICES ASSUME NEW s \in Streams, clock'[s].last_dts > -1
             PROVE  clock'[s].last_duration > 0
  BY DEF DurationKnown
<1>1. clock \in [Streams -> Clock] BY DEF ClockTypes, ClockTypeOK
<1>2. CASE UNCHANGED clock BY <1>2 DEF DurationKnown
<1>3. CASE Discontinuity
  <2>1. /\ clock'[s].last_dts = clock[s].last_dts
        /\ clock'[s].last_duration = clock[s].last_duration
    BY <1>1, <1>3 DEF Discontinuity, Clock
  <2> QED BY <2>1 DEF DurationKnown
<1>4. ASSUME NEW t \in Streams, Packet(t) PROVE clock'[s].last_duration > 0
  <2>1. PICK duration \in Durations, p \in Times2, c \in Clock :
          /\ c = clock[t]
          /\ \A i \in Streams : i # t => clock'[i] = clock[i]
          /\ \/ clock'[t] = c
             \/ clock'[t] = Shifted(c, p)
             \/ ~Stale(c, Due(c, p).dts) /\ clock'[t] = Moved(c, p, duration)
    BY <1>4, ClockSteps
  <2>2. duration > 0 /\ duration \in Nat BY Constants
  <2>3. /\ Shifted(c, p).last_dts = c.last_dts
        /\ Shifted(c, p).last_duration = c.last_duration
        /\ Moved(c, p, duration).last_duration = duration
    BY <2>2, ClockOfPacket
  <2>4. c.last_dts > -1 => c.last_duration > 0 BY <2>1 DEF DurationKnown
  <2>5. s # t => clock'[s] = clock[s] BY <2>1
  <2> QED BY <2>1, <2>2, <2>3, <2>4, <2>5 DEF DurationKnown
<1>5. ClockNext \/ UNCHANGED clock BY DEF clockVars
<1> QED BY <1>2, <1>3, <1>4, <1>5 DEF ClockNext, Segment

\* A packet whose times fit is copied with their exact sums.
LEMMA FitsExactly ==
  ASSUME NEW c \in Clock, NEW p \in Times2, Fits(c, p)
  PROVE  LET diff == IF c.discontinuity THEN c.last_dts + c.last_duration - p.dts
                     ELSE c.dts_diff
         IN  /\ diff \in Int /\ Diff(c, p.dts) = diff
             /\ Due(c, p) = [pts |-> p.pts + diff, dts |-> p.dts + diff]
             /\ Due(c, p).pts # NoPts
<1> DEFINE diff == IF c.discontinuity THEN c.last_dts + c.last_duration - p.dts
                   ELSE c.dts_diff
<1>1. p.pts \in Int /\ p.dts \in Int /\ diff \in Int BY DEF Times2, Clock
<1>2. \A t \in {diff, p.pts + diff, p.dts + diff} : NoPts < t /\ t < -NoPts
  BY DEF Fits
<1>3. Diff(c, p.dts) = IF c.discontinuity THEN Wrapped(diff) ELSE diff BY DEF Diff
<1> HIDE DEF diff
<1>4. Wrapped(diff) = diff BY <1>1, <1>2, WrappedFits
<1>5. Diff(c, p.dts) = diff BY <1>3, <1>4
<1>6. p.pts + diff \in Int /\ p.dts + diff \in Int BY <1>1
<1>7. Wrapped(p.pts + diff) = p.pts + diff /\ Wrapped(p.dts + diff) = p.dts + diff
  BY <1>2, <1>6, WrappedFits
<1>8. Due(c, p) = [pts |-> p.pts + diff, dts |-> p.dts + diff] BY <1>5, <1>7 DEF Due
<1>9. p.pts + diff # NoPts BY <1>2, <1>6, Constants
<1> QED BY <1>1, <1>5, <1>8, <1>9 DEF diff

\* The first packet of a stream in order is not stale, nor any after it.
LEMMA OrderKept ==
  ASSUME 0 \notin Durations, ClockTypes, DurationKnown, NextInOrder, InOrderKept,
         [ClockNext]_clockVars
  PROVE  NextInOrder' /\ InOrderKept'
<1>1. /\ clock \in [Streams -> Clock] /\ inOrder \subseteq Clocked /\ Clocked \subseteq Streams
      /\ source \in [Streams -> [dts : Int, left : Nat]]
  BY Constants DEF ClockTypes, ClockTypeOK
<1>2. CASE UNCHANGED clockVars BY <1>2 DEF clockVars, NextInOrder, InOrderKept
<1>3. CASE Discontinuity
  <2>1. \A s \in Clocked : clock'[s].discontinuity BY <1>1, <1>3 DEF Discontinuity, Clock
  <2> QED BY <1>1, <1>3, <2>1 DEF Discontinuity, NextInOrder, InOrderKept
<1>4. CASE Segment
  <2>1. PICK start \in [Streams -> Starts], length \in Lengths :
          /\ source' = [s \in Streams |-> [dts |-> start[s], left |-> length[s]]]
          /\ inOrder' = {s \in Clocked : \/ clock[s].discontinuity
                                         \/ start[s] + clock[s].dts_diff > clock[s].last_dts}
    BY <1>4 DEF Segment
  <2>2. clock' = clock /\ skipped' = {} BY <1>4 DEF Segment
  <2> QED BY <1>1, <2>1, <2>2 DEF NextInOrder, InOrderKept
<1>5. ASSUME NEW t \in Streams, Packet(t) PROVE NextInOrder' /\ InOrderKept'
  <2>1. PICK duration \in Durations, delay \in Delays, unknown \in Unknown,
             p \in Times2, c \in Clock :
          /\ c = clock[t]
          /\ unknown = {} => p = [pts |-> source[t].dts + delay, dts |-> source[t].dts]
          /\ source[t].left > 0
          /\ source' \in [Streams -> [dts : Int, left : Nat]]
          /\ source'[t].dts = source[t].dts + Larger(duration, 1)
          /\ \A s \in Streams : s # t => source'[s] = source[s]
          /\ inOrder' = IF unknown = {} /\ Fits(c, p) THEN inOrder ELSE inOrder \ {t}
          /\ \/ /\ t \in Clocked /\ Stale(c, Due(c, p).dts)
                /\ clock' = [clock EXCEPT ![t] = Shifted(c, p)]
                /\ skipped' = skipped \cup {t}
                /\ UNCHANGED <<octx, given, sent>>
             \/ /\ t \in Clocked /\ ~Stale(c, Due(c, p).dts)
                /\ clock' = [clock EXCEPT ![t] = Moved(c, p, duration)]
                /\ Copy(t, Due(c, p))
             \/ t \notin Clocked /\ clock' = clock /\ Copy(t, p)
          /\ UNCHANGED <<base, segments>>
    BY <1>5, PacketSteps
  <2> DEFINE from == source[t].dts
             diff == IF c.discontinuity THEN c.last_dts + c.last_duration - from
                     ELSE c.dts_diff
  <2>2. duration > 0 /\ duration \in Nat /\ from \in Int BY <1>1, Constants
  <2>3. /\ Moved(c, p, duration).last_dts = Due(c, p).dts
        /\ Moved(c, p, duration).dts_diff = Diff(c, p.dts)
    BY <2>2, ClockOfPacket
  <2>4. c.last_dts > -1 => c.last_duration > 0 BY <2>1 DEF DurationKnown
  <2>5. c.last_dts \in Int /\ c.last_duration \in Int /\ c.dts_diff \in Int BY <2>1 DEF Clock
  <2>6. inOrder' \subseteq inOrder BY <2>1
  <2>7. ASSUME t \in inOrder'
        PROVE  /\ diff \in Int /\ Diff(c, p.dts) = diff /\ Due(c, p).dts = from + diff
               /\ Due(c, p).pts # NoPts /\ t \in Clocked
    <3>1. unknown = {} /\ Fits(c, p) /\ t \in Clocked BY <1>1, <2>1, <2>7
    <3>2. p.dts = from BY <2>1, <3>1
    <3> HIDE DEF from
    <3> QED BY <3>1, <3>2, FitsExactly
  <2> HIDE DEF from
  <2>8. t \in inOrder' => ~Stale(c, Due(c, p).dts)
    <3> SUFFICES ASSUME t \in inOrder' PROVE ~Stale(c, Due(c, p).dts) OBVIOUS
    <3>1. CASE c.discontinuity
      BY <2>2, <2>4, <2>5, <2>7, <3>1 DEF Stale
    <3>2. CASE ~c.discontinuity
      BY <2>1, <2>2, <2>5, <2>6, <2>7, <3>2 DEF Stale, NextInOrder, from
    <3> QED BY <3>1, <3>2
  <2>9. InOrderKept'
    <3>1. t \in inOrder' => skipped' = skipped
      <4> SUFFICES ASSUME t \in inOrder' PROVE skipped' = skipped OBVIOUS
      <4>1. Copy(t, Due(c, p)) /\ Due(c, p).pts # NoPts BY <2>1, <2>7, <2>8
      <4> QED BY <4>1 DEF Copy
    <3>2. skipped' \subseteq skipped \cup {t} BY <2>1 DEF Copy
    <3> QED BY <2>6, <3>1, <3>2 DEF InOrderKept
  <2>10. ASSUME NEW s \in inOrder', source'[s].left > 0
        PROVE  clock'[s].discontinuity
                 \/ source'[s].dts + clock'[s].dts_diff > clock'[s].last_dts
    <3>1. s \in inOrder /\ s \in Streams BY <1>1, <2>6
    <3>2. CASE s # t
      <4>1. source'[s] = source[s] BY <2>1, <3>1, <3>2
      <4>2. clock'[s] = clock[s] BY <1>1, <2>1, <3>1, <3>2
      <4> QED BY <2>10, <3>1, <4>1, <4>2 DEF NextInOrder
    <3>3. CASE s = t
      <4>1. clock' = [clock EXCEPT ![t] = Moved(c, p, duration)]
        BY <2>1, <2>7, <2>8, <2>10, <3>3
      <4>2. clock'[s] = Moved(c, p, duration) BY <1>1, <3>3, <4>1
      <4>3. source'[s].dts = from + duration BY <2>1, <2>2, <3>3 DEF Larger, from
      <4>4. diff \in Int /\ Diff(c, p.dts) = diff /\ Due(c, p).dts = from + diff
        BY <2>7, <2>10, <3>3
      <4> HIDE DEF diff
      <4> QED BY <2>2, <2>3, <4>2, <4>3, <4>4
    <3> QED BY <3>2, <3>3
  <2>11. NextInOrder' BY <2>10 DEF NextInOrder
  <2> QED BY <2>9, <2>11
<1> QED BY <1>2, <1>3, <1>4, <1>5 DEF ClockNext
-----------------------------------------------------------------------------
(* The clock and mux.                                                       *)

LEMMA AgreeInit == ClockInit => Agree
<1> SUFFICES ASSUME ClockInit PROVE Agree OBVIOUS
<1>1. \A k \in Kinds : given[k] = Unsent BY DEF ClockInit
<1>2. \A s \in Streams : KindOf(s) \in Kinds BY DEF KindOf, Kinds
<1> QED BY <1>1, <1>2, Constants DEF Agree

\* The tick a clock has reached is known and does not go back, and goes
\* forward if the clock goes a tick forward.
LEMMA ReachedForward ==
  ASSUME NEW c \in Clock, NEW d \in Clock, NEW b \in [num : Nat \ {0}, den : Nat \ {0}],
         c.last_dts > -1 => d.last_dts >= c.last_dts
  PROVE  /\ Reached(c, b) \in Int /\ Reached(d, b) \in Int
         /\ Reached(c, b) <= Reached(d, b)
         /\ c.last_dts > -1 /\ (d.last_dts - c.last_dts) * b.num >= b.den =>
              Reached(c, b) + 1 <= Ticks(d.last_dts, b)
<1>1. c.last_dts \in Int /\ d.last_dts \in Int BY DEF Clock
<1>2. \A t \in Nat : Ticks(t, b) \in Nat BY TicksForward
<1>3. CASE c.last_dts > -1
  <2>1. c.last_dts \in Nat /\ d.last_dts \in Nat /\ c.last_dts <= d.last_dts BY <1>1, <1>3
  <2>2. /\ Ticks(c.last_dts, b) <= Ticks(d.last_dts, b)
        /\ (d.last_dts - c.last_dts) * b.num >= b.den =>
             Ticks(c.last_dts, b) + 1 <= Ticks(d.last_dts, b)
    BY <2>1, TicksForward
  <2> QED BY <1>2, <1>3, <2>1, <2>2 DEF Reached
<1>4. CASE ~(c.last_dts > -1)
  <2>1. d.last_dts > -1 => d.last_dts \in Nat BY <1>1
  <2> QED BY <1>2, <1>4, <2>1 DEF Reached
<1> QED BY <1>3, <1>4

\* The agreement of the kind of one stream after a packet of it.
LEMMA AgreePacket ==
  ASSUME \A s, t \in Streams : KindOf(s) = KindOf(t) => s = t,
         ClockTypes, Agree, NEW s \in Streams, Packet(s)
  PROVE  /\ Agree'
         /\ s \in Clocked =>
              LET k == KindOf(s)
              IN  clock[s].last_dts > -1 /\ given[k] # Unsent /\ sent[k] = given[k] =>
                    sent'[k] = given'[k] \/ LatePts(given'[k]) \/ LessThanATick(s)
         /\ \A k \in Kinds : k # KindOf(s) => given'[k] = given[k] /\ sent'[k] = sent[k]
<1> DEFINE k == KindOf(s)
           b == base[s]
<1>1. /\ clock \in [Streams -> Clock] /\ octx.last \in [Kinds -> Int]
      /\ given \in [Kinds -> Times2] /\ sent \in [Kinds -> Times2]
      /\ base \in Bases /\ Clocked \subseteq Streams
  BY Constants DEF ClockTypes, ClockTypeOK, MuxTypeOK, Times2
<1>2. k \in Kinds /\ \A t \in Streams : KindOf(t) \in Kinds /\ (t # s => KindOf(t) # k)
  BY DEF KindOf, Kinds
<1>3. b \in [num : Nat \ {0}, den : Nat \ {0}] BY <1>1, Constants
<1>4. PICK duration \in Durations, delay \in Delays, unknown \in Unknown,
           p \in Times2, c \in Clock :
        /\ c = clock[s]
        /\ \/ /\ s \in Clocked /\ Stale(c, Due(c, p).dts)
              /\ clock' = [clock EXCEPT ![s] = Shifted(c, p)]
              /\ skipped' = skipped \cup {s}
              /\ UNCHANGED <<octx, given, sent>>
           \/ /\ s \in Clocked /\ ~Stale(c, Due(c, p).dts)
              /\ clock' = [clock EXCEPT ![s] = Moved(c, p, duration)]
              /\ Copy(s, Due(c, p))
           \/ s \notin Clocked /\ clock' = clock /\ Copy(s, p)
        /\ UNCHANGED <<base, segments>>
  BY PacketSteps
<1>5. /\ Due(c, p) \in Times2 /\ Due(c, p).dts \in Int
      /\ Shifted(c, p) \in Clock /\ Shifted(c, p).last_dts = c.last_dts
      /\ Moved(c, p, duration) \in Clock /\ Moved(c, p, duration).last_dts = Due(c, p).dts
  <2>1. duration \in Nat BY Constants
  <2> QED BY <2>1, ClockOfPacket DEF Times2
<1>6. /\ clock' \in [Streams -> Clock] /\ base' = base
      /\ \A t \in Streams : t # s => clock'[t] = clock[t]
  BY <1>1, <1>4, <1>5
<1>7. clock[s].last_dts > -1 => clock'[s].last_dts >= clock[s].last_dts
  <2>1. ClockNext BY DEF ClockNext
  <2> QED BY <2>1, ForwardStep
<1>8. /\ Reached(clock[s], b) \in Int /\ Reached(clock'[s], b) \in Int
      /\ Reached(clock[s], b) <= Reached(clock'[s], b)
      /\ clock[s].last_dts > -1
           /\ (clock'[s].last_dts - clock[s].last_dts) * b.num >= b.den =>
           Reached(clock[s], b) + 1 <= Ticks(clock'[s].last_dts, b)
  BY <1>1, <1>3, <1>6, <1>7, ReachedForward
<1>9. CASE UNCHANGED <<octx, given, sent>>
  <2>1. s \in Clocked /\ given[k] # Unsent => given[k].dts <= Reached(clock'[s], b)
    <3> SUFFICES ASSUME s \in Clocked, given[k] # Unsent
                 PROVE  given[k].dts <= Reached(clock'[s], b) OBVIOUS
    <3>1. given[k].dts <= Reached(clock[s], b) BY DEF Agree
    <3>2. given[k].dts \in Int BY <1>1, <1>2 DEF Times2
    <3> HIDE DEF k, b
    <3> QED BY <1>8, <3>1, <3>2
  <2>2. \A t \in Clocked : given[KindOf(t)] # Unsent =>
                             given[KindOf(t)].dts <= Reached(clock'[t], base[t])
    BY <1>1, <1>6, <2>1 DEF Agree
  <2>3. Agree' BY <1>6, <1>9, <2>2 DEF Agree
  <2> QED BY <1>9, <2>3
<1>10. ASSUME NEW q \in Times2, q.pts # NoPts, Copy(s, q),
              s \in Clocked => clock'[s].last_dts = q.dts /\ ~Stale(c, q.dts)
       PROVE  /\ Agree'
              /\ s \in Clocked =>
                   (clock[s].last_dts > -1 /\ given[k] # Unsent /\ sent[k] = given[k] =>
                      sent'[k] = given'[k] \/ LatePts(given'[k]) \/ LessThanATick(s))
              /\ \A i \in Kinds : i # k => given'[i] = given[i] /\ sent'[i] = sent[i]
  <2> DEFINE r == Rescaled(s, q)
             last == octx.last[k]
             m == Muxed(r, last)
  <2>1. /\ r \in Times2 /\ last \in Int /\ m \in Times2
        /\ given' = [given EXCEPT ![k] = r]
        /\ sent' = [sent EXCEPT ![k] = m]
        /\ octx'.last = [octx.last EXCEPT ![k] = m.dts]
    BY <1>10, CopySteps
  <2>2. r.dts = IF q.dts = NoPts THEN NoPts ELSE Rescale(q.dts, b)
    BY <1>1, <1>10, RescaledType DEF Times2
  <2>3. q.dts \in Int /\ r.dts \in Int BY <1>10, <2>1 DEF Times2
  <2> HIDE DEF r, last, m, k, b
  <2>4. /\ given'[k] = r /\ sent'[k] = m /\ octx'.last[k] = m.dts
        /\ \A i \in Kinds : i # k => /\ given'[i] = given[i] /\ sent'[i] = sent[i]
                                     /\ octx'.last[i] = octx.last[i]
    BY <1>1, <1>2, <2>1
  <2>5. /\ q.dts > -1 => r.dts = NoPts \/ r.dts = Ticks(q.dts, b)
        /\ r.dts <= IF q.dts > -1 THEN Ticks(q.dts, b) ELSE 0
    <3>1. /\ Rescale(q.dts, b) # NoPts /\ q.dts > -1 => Rescale(q.dts, b) = Ticks(q.dts, b)
          /\ q.dts > -1 => Rescale(q.dts, b) <= Ticks(q.dts, b)
          /\ q.dts <= -1 => Rescale(q.dts, b) <= 0
      BY <1>3, <2>3, RescaledTime
    <3> QED BY <2>2, <2>3, <3>1, Constants
  <2>6. s \in Clocked => r.dts <= Reached(clock'[s], b)
    BY <1>10, <2>5 DEF Reached
  <2>7. \A t \in Clocked :
          given'[KindOf(t)] # Unsent => given'[KindOf(t)].dts <= Reached(clock'[t], base[t])
    <3> TAKE t \in Clocked
    <3>1. CASE t = s BY <2>4, <2>6, <3>1 DEF k, b
    <3>2. CASE t # s
      <4>1. KindOf(t) \in Kinds /\ KindOf(t) # k /\ clock'[t] = clock[t]
        BY <1>1, <1>2, <1>6, <3>2
      <4> QED BY <2>4, <4>1 DEF Agree
    <3> QED BY <3>1, <3>2
  <2>8. \A i \in Kinds : given'[i] # Unsent => octx'.last[i] = sent'[i].dts
    BY <2>4 DEF Agree
  <2>9. Agree' BY <1>6, <2>7, <2>8 DEF Agree
  <2>10. ASSUME s \in Clocked, clock[s].last_dts > -1, given[k] # Unsent, sent[k] = given[k],
                ~LatePts(r), ~LessThanATick(s)
         PROVE  m = r
    <3>1. clock'[s].last_dts = q.dts /\ q.dts > clock[s].last_dts /\ q.dts > -1
      <4>1. c = clock[s] /\ c.last_dts \in Int BY <1>4 DEF Clock
      <4> QED BY <1>10, <2>3, <2>10, <4>1 DEF Stale
    <3>2. clock[s].last_dts \in Int BY <1>4 DEF Clock
    <3> DEFINE step == clock'[s].last_dts - clock[s].last_dts
    <3>3. 0 < step /\ step \in Int BY <2>3, <3>1, <3>2
    <3>4. ~(step * b.num < b.den) BY <2>10, <3>3 DEF LessThanATick, b
    <3>5. step * b.num \in Int /\ b.den \in Int
      <4>1. b.num \in Int /\ b.den \in Int BY <1>3
      <4> HIDE DEF step
      <4> QED BY <3>3, <4>1
    <3>6. step * b.num >= b.den BY <3>4, <3>5
    <3>7. Reached(clock[s], b) + 1 <= Ticks(q.dts, b) BY <1>8, <2>10, <3>1, <3>6
    <3>8. last <= Reached(clock[s], b)
      <4>1. last = sent[k].dts BY <1>2, <2>10 DEF Agree, last
      <4>2. given[k].dts <= Reached(clock[s], b) BY <2>10 DEF Agree, k, b
      <4> QED BY <2>10, <4>1, <4>2
    <3>9. r.dts = NoPts \/ r.dts > last
      <4>1. Ticks(q.dts, b) \in Nat
        <5>1. q.dts \in Nat BY <2>3, <3>1
        <5> QED BY <1>3, <5>1, TicksForward
      <4> QED BY <1>8, <2>1, <2>3, <2>5, <3>1, <3>7, <3>8, <4>1
    <3>10. r.dts <= r.pts BY <2>1, <2>10 DEF LatePts, Times2
    <3> QED BY <2>1, <3>9, <3>10, MuxedTimes DEF m
  <2> QED BY <2>4, <2>9, <2>10
<1>11. ASSUME NEW q \in Times2, Copy(s, q), q.pts = NoPts PROVE UNCHANGED <<octx, given, sent>>
  BY <1>11 DEF Copy, muxVars
<1>12. CASE /\ s \in Clocked /\ ~Stale(c, Due(c, p).dts)
            /\ clock' = [clock EXCEPT ![s] = Moved(c, p, duration)]
            /\ Copy(s, Due(c, p))
  <2>1. clock'[s].last_dts = Due(c, p).dts BY <1>1, <1>5, <1>12
  <2>2. CASE Due(c, p).pts = NoPts BY <1>5, <1>9, <1>11, <1>12, <2>2
  <2>3. CASE Due(c, p).pts # NoPts BY <1>5, <1>10, <1>12, <2>1, <2>3
  <2> QED BY <2>2, <2>3
<1>13. CASE s \notin Clocked /\ clock' = clock /\ Copy(s, p)
  <2>1. CASE p.pts = NoPts BY <1>9, <1>11, <1>13, <2>1
  <2>2. CASE p.pts # NoPts BY <1>10, <1>13, <2>2
  <2> QED BY <2>1, <2>2
<1> QED BY <1>4, <1>9, <1>12, <1>13

\* With one stream of each kind, clock and mux keep in step, and once mux has
\* sent a packet as it was, it moves one only for less than a tick.
LEMMA AgreeStep ==
  ASSUME \A s, t \in Streams : KindOf(s) = KindOf(t) => s = t,
         ClockTypes, Agree, [ClockNext]_clockVars
  PROVE  /\ Agree'
         /\ \A s \in Clocked :
              LET k == KindOf(s)
              IN  clock[s].last_dts > -1 /\ given[k] # Unsent /\ sent[k] = given[k] =>
                    sent'[k] = given'[k] \/ LatePts(given'[k]) \/ LessThanATick(s)
<1>1. clock \in [Streams -> Clock] /\ Clocked \subseteq Streams
  BY Constants DEF ClockTypes, ClockTypeOK
<1>2. CASE UNCHANGED clockVars BY <1>2 DEF clockVars, muxVars, Agree, Reached
<1>3. CASE Discontinuity
  <2>1. \A s \in Streams : clock'[s].last_dts = clock[s].last_dts
    BY <1>1, <1>3 DEF Discontinuity, Clock
  <2> QED BY <1>1, <1>3, <2>1 DEF Discontinuity, muxVars, Agree, Reached
<1>4. CASE Segment BY <1>4 DEF Segment, muxVars, Agree, Reached
<1>5. ASSUME NEW s \in Streams, Packet(s)
      PROVE  /\ Agree'
             /\ \A t \in Clocked :
                  LET k == KindOf(t)
                  IN  clock[t].last_dts > -1 /\ given[k] # Unsent /\ sent[k] = given[k] =>
                        sent'[k] = given'[k] \/ LatePts(given'[k]) \/ LessThanATick(t)
  <2>1. Agree' BY <1>5, AgreePacket
  <2>2. ASSUME NEW t \in Clocked, t # s, sent[KindOf(t)] = given[KindOf(t)]
        PROVE  sent'[KindOf(t)] = given'[KindOf(t)]
    <3>1. KindOf(t) # KindOf(s) /\ KindOf(t) \in Kinds BY <1>1, <2>2 DEF KindOf, Kinds
    <3> QED BY <1>5, <2>2, <3>1, AgreePacket
  <2> QED BY <1>5, <2>1, <2>2, AgreePacket
<1> QED BY <1>2, <1>3, <1>4, <1>5 DEF ClockNext

-----------------------------------------------------------------------------
(* The theorems.                                                            *)

\* The variables keep their types.
THEOREM ClockTypesHold == ClockSpec => []ClockTypes
BY TypesInit, TypesKept, PTL DEF ClockSpec

\* The clock of a stream never goes back (transcoder.c:455-481).
THEOREM ClocksGoForward == ClockSpec => ClockForward
<1>1. ClockTypes /\ [ClockNext]_clockVars =>
        [\A s \in Streams :
           clock[s].last_dts > -1 => clock'[s].last_dts >= clock[s].last_dts]_clock
  BY ForwardStep
<1> QED BY <1>1, ClockTypesHold, PTL DEF ClockSpec, ClockForward

\* Nothing is lost of a segment that follows the one before, or was announced,
\* up to a packet whose times are unknown or do not fit, if packets have
\* durations (transcoder.c:455-481, 515).
THEOREM NothingSkippedInOrder ==
  ASSUME 0 \notin Durations PROVE ClockSpec => []InOrderKept
<1> DEFINE I == DurationKnown /\ NextInOrder /\ InOrderKept
<1>1. ClockInit => I BY ClocksInit DEF ClockInit, InOrderKept
<1>2. ClockTypes /\ I /\ [ClockNext]_clockVars => I' BY DurationsKept, OrderKept
<1>3. I => InOrderKept OBVIOUS
<1> HIDE DEF I
<1> QED BY <1>1, <1>2, <1>3, ClockTypesHold, PTL DEF ClockSpec

\* With one stream of each kind, and whatever time bases the muxer chooses, mux
\* moves a copied packet that is not late only if it is less than a tick after
\* the one before, once it has sent one as it was copied (encoder.c:469-541
\* with transcoder.c:455-481).
THEOREM CopiedTimesStay ==
  ASSUME \A s, t \in Streams : KindOf(s) = KindOf(t) => s = t
  PROVE  ClockSpec => StaysAsCopied
<1>1. ClockTypes /\ Agree /\ [ClockNext]_clockVars => Agree' BY AgreeStep
<1>2. ClockTypes /\ Agree /\ [ClockNext]_clockVars =>
        [\A s \in Clocked :
           LET k == KindOf(s)
           IN  clock[s].last_dts > -1 /\ given[k] # Unsent /\ sent[k] = given[k] =>
                 sent'[k] = given'[k] \/ LatePts(given'[k]) \/ LessThanATick(s)]_clockVars
  BY AgreeStep
<1> QED BY <1>1, <1>2, AgreeInit, ClockTypesHold, PTL DEF ClockSpec, StaysAsCopied
=============================================================================
