------------------------------ MODULE MCSigning -----------------------------
(* Signing for TLC: images of two layers, one of them common, and a bundle of two files. *)
EXTENDS Signing

CONSTANTS os, own

MCLayers == {os, own}
=============================================================================
