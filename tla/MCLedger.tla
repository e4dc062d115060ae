------------------------------ MODULE MCLedger ------------------------------
(* Ledger for TLC: one check of the catalogue, in a virtual machine.          *)
EXTENDS Ledger, TLC

MCRequired == [k \in Checks |-> "vm"]

Interchangeable == Permutations(Recorders) \cup Permutations(Payloads)
=============================================================================
