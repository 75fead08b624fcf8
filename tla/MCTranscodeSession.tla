------------------------ MODULE MCTranscodeSession ------------------------
EXTENDS TranscodeSession

\* Two renditions; the modes of output i are the i-th of each pair.
Rend(hw, tm, ts, video, audio) ==
  [hw |-> hw, transmux |-> tm, mpegts |-> ts, probed |-> TRUE, nb |-> 2,
   fps |-> FALSE, video |-> video, audio |-> audio]

EncodeBoth == <<"encode", "encode">>
CopyBoth == <<"copy", "copy">>

\* Software and CUDA sessions, with a rendition copied or dropped.
MCTranscoding ==
  {Rend(hw, FALSE, ts, v, a) :
     hw \in BOOLEAN, ts \in BOOLEAN,
     v \in {EncodeBoth, <<"encode", "copy">>, <<"encode", "drop">>},
     a \in {EncodeBoth, <<"encode", "drop">>}}

MCTransmuxing == {Rend(FALSE, TRUE, ts, CopyBoth, CopyBoth) : ts \in BOOLEAN}

MCAll ==
  MCTranscoding \cup MCTransmuxing
    \cup {[c EXCEPT !.probed = FALSE] : c \in MCTransmuxing}
    \cup {[c EXCEPT !.fps = TRUE] : c \in {Rend(TRUE, FALSE, TRUE, EncodeBoth, EncodeBoth)}}

MCCuda == {Rend(TRUE, FALSE, TRUE, EncodeBoth, EncodeBoth)}
MCMp4 == {Rend(FALSE, FALSE, FALSE, EncodeBoth, EncodeBoth)}
===========================================================================
