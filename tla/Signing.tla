------------------------------ MODULE Signing -------------------------------
(* What is signed, and what verifies it: the offline installer, the fixtures of the     *)
(* builder, and the bundles of the host.  They share no state, only what a signature    *)
(* stands for, so a behaviour is of one of them.                                         *)
EXTENDS Installer, Fixtures, Trust

VARIABLE place      \* which of the three acts

vars == <<place, installerVars, fixtureVars, trustVars>>

Init ==
    /\ place \in {"installer", "builder", "host"}
    /\ InstallerInit /\ FixturesInit /\ TrustInit
    /\ place # "builder" => stored = "none"
    /\ place # "host" => checks = Checks /\ bundle = Whole

Next ==
    /\ UNCHANGED place
    /\ \/ place = "installer" /\ InstallerNext /\ UNCHANGED <<fixtureVars, trustVars>>
       \/ place = "builder" /\ FixturesNext /\ UNCHANGED <<installerVars, trustVars>>
       \/ place = "host" /\ TrustNext /\ UNCHANGED <<installerVars, fixtureVars>>

Spec == Init /\ [][Next]_vars
=============================================================================
