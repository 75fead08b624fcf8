-------------------------- MODULE MCHlsSegmenter ---------------------------
(* The module under which SegmentStream.cfg and SegmentFullList.cfg check    *)
(* HlsSegmenter: the length of segment 1 is too short to be parsed.          *)
EXTENDS HlsSegmenter

MCLength == [n \in 0..4 |-> IF n = 1 THEN "unparsed" ELSE IF n = 3 THEN "zero" ELSE "some"]
=============================================================================
