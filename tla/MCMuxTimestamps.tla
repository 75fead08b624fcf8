-------------------------- MODULE MCMuxTimestamps --------------------------
(* Values for checking MuxTimestamps: timestamps that are negative, zero,    *)
(* adjacent and apart, and one that stands for INT64_MIN.                    *)
EXTENDS MuxTimestamps

MCTimes == {-1, 0, 1, 3}
MCUnknown == -100
=============================================================================
