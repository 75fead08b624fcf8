---------------------------- MODULE MCRtmpStream ----------------------------
(* RtmpStream on one or two players for TLC. *)
EXTENDS RtmpStream

CONSTANTS p1, p2

MCTwo == {p1, p2}
MCFirst == {p1}
MCNobody == {}
=============================================================================
