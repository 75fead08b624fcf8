-------------------------- MODULE MCTransmuxClock --------------------------
(* Values for checking TransmuxClock.                                        *)
EXTENDS TransmuxClock, TLC

CONSTANTS a1, v1

MCUnknown == -100
MCStarts == {-1, 2}

\* Two ticks of the input are three of the output, or three are two.
MCFiner == [num |-> 3, den |-> 2]
MCCoarser == [num |-> 2, den |-> 3]
MCBases == {(a1 :> MCFiner) @@ (v1 :> MCCoarser), (a1 :> MCCoarser) @@ (v1 :> MCFiner)}
MCNotKnown == {{}, {"pts"}, {"dts"}}

\* The audio is shorter.
MCMaxPackets == (a1 :> 1) @@ (v1 :> 2)
=============================================================================
