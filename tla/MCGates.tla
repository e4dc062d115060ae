------------------------------- MODULE MCGates -------------------------------
(* Gates for TLC: a check that needs a virtual machine and the version one documents a *)
(* root may hold; a file as large as the rules still read, with a private key in it,   *)
(* and a rule that may find nothing.                                                   *)
EXTENDS Gates, TLC

CONSTANTS vmCheck, d1

MCRequired == [k \in Checks |-> "vm"]

\* No document, one that cannot be read, and an imported pass that would satisfy
\* the check if it were not imported.
ImportedPass == [readable |-> TRUE, verdict |-> "PASS", environment |-> "live-vm",
                 candidate |-> d1, intact |-> TRUE, count |-> 1]
MCLegacies == {<<>>, vmCheck :> ImportedPass,
               vmCheck :> [ImportedPass EXCEPT !.readable = FALSE]}

MCRows == {[CleanRow EXCEPT !.size = Limit, !.payload = "key"]}
MCDefects == {{}, {"key"}}
=============================================================================
