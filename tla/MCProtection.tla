---------------------------- MODULE MCProtection ----------------------------
(* Protection for TLC: two virtual nodes and a USB disk of two nodes. *)
EXTENDS Protection

CONSTANTS other, target, usb, part

MCBoard == {other, target}
MCUsb == {usb, part}
=============================================================================
