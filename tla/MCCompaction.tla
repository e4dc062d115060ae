---------------------------- MODULE MCCompaction ----------------------------
(* Two compactions of one builder disk, and two commands at a time. *)
EXTENDS Compaction, TLC

Interchangeable == Permutations(Compactors) \cup Permutations(Compactions)
=============================================================================
