---------------------------- MODULE MCDecodeLoop ----------------------------
(* Sessions whose packets and frames the loop treats differently: a software *)
(* decoder with audio encoded or copied, no video decoder, a hardware        *)
(* decoder whose outputs stay open or also copy.                             *)
EXTENDS DecodeLoop

Session(hw, kept, vdec, ad, zero) ==
  [hw |-> hw, kept |-> kept, vdec |-> vdec, adec |-> ad, zero |-> zero, cuts |-> FALSE]

\* Video encoded, audio copied into a clip.
MCClip == [Session(FALSE, FALSE, TRUE, FALSE, "video") EXCEPT !.cuts = TRUE]

MCDecoding ==
  {Session(FALSE, FALSE, TRUE, TRUE, "video"), Session(FALSE, FALSE, TRUE, TRUE, "audio"),
   Session(FALSE, FALSE, FALSE, TRUE, "video"), Session(TRUE, FALSE, TRUE, TRUE, "video"),
   Session(TRUE, TRUE, TRUE, TRUE, "video"), Session(TRUE, TRUE, TRUE, FALSE, "video"),
   MCClip}

MCSoftware == {Session(FALSE, FALSE, TRUE, TRUE, "video")}
=============================================================================
