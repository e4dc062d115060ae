---------------------------- MODULE MCMachine ----------------------------
(* Machine with two commands at a time over a host of two process numbers. *)
EXTENDS Machine, TLC

\* Commands and process numbers are interchangeable in the safety runs.
Interchangeable == Permutations(Clients) \cup Permutations(Pids)
=============================================================================
