------------------------------ MODULE Broadcast ------------------------------
(* What a stream promises those who listen to it: each packet goes to all    *)
(* who are in, before there is another one, and to each in order, without a  *)
(* gap from where it joined to where it left or its connection broke.  Who   *)
(* leaves while a packet is on its way still gets that one.                  *)
EXTENDS Integers

CONSTANT Listeners

VARIABLES
  sent,    \* packets so far
  phase,   \* per listener: out, in, leaving or gone
  joined,  \* per listener: packets sent before it joined
  got,     \* per listener: the packets it has
  broken   \* those who cannot be written to any more

broadcastVars == <<sent, phase, joined, got, broken>>

\* It has all packets it should have, up to n.
HasUpTo(p, n) == joined[p] <= n /\ got[p] = joined[p] + 1 .. n

Send ==
  /\ \A p \in Listeners : /\ phase[p] # "leaving"
                          /\ phase[p] = "in" => p \in broken \/ HasUpTo(p, sent)
  /\ sent' = sent + 1
  /\ UNCHANGED <<phase, joined, got, broken>>

\* The last packet, by one that has those before.
Receive(p) ==
  /\ phase[p] \in {"in", "leaving"} /\ p \notin broken
  /\ HasUpTo(p, sent - 1)
  /\ got' = [got EXCEPT ![p] = @ \cup {sent}]
  /\ phase' = [phase EXCEPT ![p] = IF @ = "leaving" THEN "gone" ELSE @]
  /\ UNCHANGED <<sent, joined, broken>>

Join(p) ==
  /\ phase[p] = "out"
  /\ phase' = [phase EXCEPT ![p] = "in"]
  /\ joined' = [joined EXCEPT ![p] = sent]
  /\ UNCHANGED <<sent, got, broken>>

Leave(p) ==
  /\ phase[p] = "in"
  /\ \E next \in {"leaving", "gone"} :
       /\ p \in broken \/ HasUpTo(p, IF next = "gone" THEN sent ELSE sent - 1)
       /\ phase' = [phase EXCEPT ![p] = next]
  /\ UNCHANGED <<sent, joined, got, broken>>

Break(p) ==
  /\ p \notin broken
  /\ broken' = broken \cup {p}
  /\ UNCHANGED <<sent, phase, joined, got>>

\* A packet on its way to one that leaves is lost with its connection.
GiveUp(p) ==
  /\ phase[p] = "leaving" /\ p \in broken
  /\ phase' = [phase EXCEPT ![p] = "gone"]
  /\ UNCHANGED <<sent, joined, got, broken>>

Init ==
  /\ sent = 0
  /\ phase = [p \in Listeners |-> "out"]
  /\ joined = [p \in Listeners |-> 0]
  /\ got = [p \in Listeners |-> {}]
  /\ broken = {}

Next ==
  \/ Send
  \/ \E p \in Listeners : Receive(p) \/ Join(p) \/ Leave(p) \/ Break(p) \/ GiveUp(p)

Spec == Init /\ [][Next]_broadcastVars
=============================================================================
