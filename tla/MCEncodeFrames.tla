--------------------------- MODULE MCEncodeFrames ---------------------------
(* Outputs that process_out treats differently: with and without a frame     *)
(* rate, GOP, clip, audio, and with hardware encoders.  Three input times    *)
(* make a tick of the frame rate: there a clip from 1 begins at tick 0, one  *)
(* from 2 at tick 1, and without a frame rate both begin at their own time.  *)
EXTENDS EncodeFrames

Output(hw, video, audio, fps, gop, from, to) ==
  [hw |-> hw, video |-> video, audio |-> audio, fps |-> fps,
   gop |-> gop, from |-> from, to |-> to]

MCEncoding ==
  {Output(hw, TRUE, FALSE, fps, 5, 0, 0) : hw \in BOOLEAN, fps \in BOOLEAN}
    \cup {Output(FALSE, TRUE, FALSE, fps, 0, 2, 6) : fps \in BOOLEAN}
    \cup {Output(TRUE, TRUE, TRUE, fps, 0, 1, 0) : fps \in BOOLEAN}
    \cup {Output(FALSE, TRUE, TRUE, FALSE, 0, 0, 3),
          Output(FALSE, FALSE, TRUE, FALSE, 0, 0, 0)}

MCAudioVideo == {Output(FALSE, TRUE, TRUE, TRUE, 0, 0, 0)}
MCAudioClip == {Output(FALSE, TRUE, TRUE, TRUE, 0, 6, 0)}
MCAudioEarly == {Output(FALSE, TRUE, TRUE, TRUE, 0, 1, 0)}
MCVideo == {Output(FALSE, TRUE, FALSE, TRUE, 0, 0, 0)}
MCVideoClip == {Output(FALSE, TRUE, FALSE, FALSE, 0, 2, 0)}

MCGaps == {-1, 1, 2, 3, 14}
MCNoPts == -1000
=============================================================================
