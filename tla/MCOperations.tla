---------------------------- MODULE MCOperations ----------------------------
(* Operations for TLC: a fresh parent, a fresh installed guest, and pairs with a     *)
(* GRUB that saves no environment, with two retries, and with a shared directory.    *)
EXTENDS Operations

Guest(kind, grub, retries, isolated) ==
    [kind |-> kind, grub |-> grub, retries |-> retries, isolated |-> isolated]

MCStarts == {Guest("parent", "repaired", 1, TRUE), Guest("installed", "repaired", 1, TRUE),
             Guest("pair", "broken", 1, TRUE), Guest("pair", "repaired", 2, TRUE),
             Guest("pair", "repaired", 1, FALSE)}
=============================================================================
