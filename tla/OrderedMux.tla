----------------------------- MODULE OrderedMux -----------------------------
(* What mux promises of the packets of one output: those of a kind that know *)
(* their DTS are written in DTS order, none is presented before it is        *)
(* decoded, and a packet is delayed no more than that takes.                 *)
EXTENDS Integers

CONSTANTS Kinds,   \* kinds of packets, each ordered by itself
          Packets, \* the packets an output is given
          Droppable, \* kinds of which packets may be left out
          NoPts,   \* a time that is not known
          Strict   \* must the DTS increase, or may it also stay?

\* The last packet of each kind that was given to the output, and the last one
\* written to the file that is open.
VARIABLES given, sent

orderedVars == <<given, sent>>

Later(a, b) == IF a >= b THEN a ELSE b

\* When a packet is due: at its DTS, or at its PTS where that is earlier.
Due(p) == IF p.pts = NoPts \/ p.dts <= p.pts THEN p.dts ELSE p.pts

\* The times a packet that knows its DTS may be written at.
Slots(k, p) ==
  LET last == sent[k].dts
  IN  IF last = NoPts THEN {Due(p)}
      ELSE Later(Due(p), IF Strict THEN last + 1 ELSE last) .. Later(Due(p), last + 1)

Written(k, p) ==
  IF p.dts = NoPts THEN {p}
  ELSE {[dts |-> t, pts |-> IF p.pts = NoPts THEN NoPts ELSE Later(p.pts, t)] : t \in Slots(k, p)}

Write(k, p) ==
  /\ given' = [given EXCEPT ![k] = p]
  /\ \E q \in Written(k, p) : sent' = [sent EXCEPT ![k] = q]

Drop(k, p) ==
  /\ k \in Droppable
  /\ given' = [given EXCEPT ![k] = p]
  /\ UNCHANGED sent

Unsent == [pts |-> NoPts, dts |-> NoPts]

\* A new file, which gets new streams of the kinds ks.
Reopen(ks) ==
  /\ given' = [k \in Kinds |-> IF k \in ks THEN Unsent ELSE given[k]]
  /\ sent' = [k \in Kinds |-> IF k \in ks THEN Unsent ELSE sent[k]]

Init ==
  /\ given = [k \in Kinds |-> Unsent]
  /\ sent = [k \in Kinds |-> Unsent]

Next ==
  \/ \E k \in Kinds, p \in Packets : Write(k, p) \/ Drop(k, p)
  \/ \E ks \in SUBSET Kinds : Reopen(ks)

Spec == Init /\ [][Next]_orderedVars
=============================================================================
