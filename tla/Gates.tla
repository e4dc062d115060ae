-------------------------------- MODULE Gates --------------------------------
(* The two gates of the repository: readiness, over the evidence recorded for a          *)
(* candidate, and the Git hooks, over what is committed and pushed.  They share no state, *)
(* so a behaviour is of one of them.                                                      *)
EXTENDS Evidence, Hooks

VARIABLE gate       \* which of the two acts

\* The one that does not act starts in one of its initial states.
GatesInit ==
    /\ gate \in {"readiness", "hooks"}
    /\ GateInit /\ HooksInit
    /\ gate = "hooks" => mark = 3 /\ legacy = CHOOSE l \in Legacies : TRUE
    /\ gate = "readiness" => broken = (CHOOSE d \in Defects : TRUE) /\ hooks["pre-push"] = "none"

GatesNext ==
    /\ UNCHANGED gate
    /\ \/ gate = "readiness" /\ GateNext /\ UNCHANGED hookVars
       \/ gate = "hooks" /\ HooksNext /\ UNCHANGED allVars

GatesSpec == GatesInit /\ [][GatesNext]_<<gate, allVars, hookVars>>
=============================================================================
