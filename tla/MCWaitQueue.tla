---------------------------- MODULE MCWaitQueue ----------------------------
(* The clients of the queue are interchangeable.                             *)
EXTENDS WaitQueue

Interchangeable == Permutations(Clients)
=============================================================================
