------------------------------- MODULE Trust --------------------------------
(* The host's verification of a signed artifact bundle, and the exercise that tries it  *)
(* with negatives before its passes are trusted.  The verifier under exercise may lack  *)
(* any of its checks; a bundle kept on the host may decay at any time.                  *)
EXTENDS Naturals

CONSTANT Artifacts      \* how many files the inventory names, in its order

ASSUME TrustAssumption == Artifacts \in Nat \ {0}

VARIABLES
    bundle,     \* the bundle that is kept
    checks,     \* the checks the verifier makes
    exercise    \* how far the exercise is, what it accepted, its verdict

trustVars == <<bundle, checks, exercise>>

Inventory == 1..Artifacts
Checks == {"anchor", "signature", "unsigned", "checksum", "binding"}

\* A bundle with the anchor it is judged by.
Whole == [anchor |-> "held", manifest |-> "signed", extra |-> FALSE, bound |-> TRUE,
          files |-> [i \in Inventory |-> "kept"]]
Bundles == [anchor : {"held", "bundled", "stranger"}, manifest : {"signed", "changed"},
            extra : BOOLEAN, bound : BOOLEAN, files : [Inventory -> {"kept", "changed", "gone"}]]

\* The verification in its order; the first file of the inventory that is wrong decides.
Faults(b) == {i \in Inventory : b.files[i] # "kept"}

First(S) == CHOOSE i \in S : \A j \in S : i <= j

Refusal(b, made) ==
    IF "anchor" \in made /\ b.anchor = "bundled" THEN "anchor"
    ELSE IF "signature" \in made /\ (b.manifest # "signed" \/ b.anchor = "stranger")
    THEN "signature"
    ELSE IF "unsigned" \in made /\ b.extra THEN "unsigned"
    ELSE IF "checksum" \in made /\ Faults(b) # {}
    THEN IF b.files[First(Faults(b))] = "gone" THEN "missing" ELSE "checksum"
    ELSE IF "binding" \in made /\ ~b.bound THEN "binding" ELSE "none"

-----------------------------------------------------------------------------
(* The negatives, in the order of their names, each made in a scratch directory from   *)
(* the bundle as it is then: the headers are copied, the files are not.                 *)

Negatives == <<"bundled_key", "changed_manifest", "changed_payload", "untrusted_key">>
Expects == [bundled_key |-> "anchor", changed_manifest |-> "signature",
            changed_payload |-> "checksum", untrusted_key |-> "signature"]
Needed == {"anchor", "signature", "checksum"}

Headers(b) == [b EXCEPT !.extra = FALSE, !.files = [i \in Inventory |-> "gone"]]

Prepared(n) ==
    CASE n = "bundled_key" -> [Headers(bundle) EXCEPT !.anchor = "bundled"]
      [] n = "changed_manifest" -> [Headers(bundle) EXCEPT !.manifest = "changed"]
      [] n = "changed_payload" -> [Headers(bundle) EXCEPT !.files[1] = "changed"]
      [] n = "untrusted_key" -> [bundle EXCEPT !.anchor = "stranger"]

TrustInit ==
    /\ bundle \in {Whole, [Whole EXCEPT !.bound = FALSE], [Whole EXCEPT !.extra = TRUE]}
    /\ checks \in SUBSET Checks
    /\ exercise = [step |-> 0, accepted |-> Whole, status |-> "none"]

\* A file of the bundle changes or is lost, or one that is not signed appears.
Decay ==
    /\ \/ bundle' = [bundle EXCEPT !.manifest = "changed"]
       \/ bundle' = [bundle EXCEPT !.extra = TRUE]
       \/ \E i \in Inventory, c \in {"changed", "gone"} :
              bundle' = [bundle EXCEPT !.files[i] = c]
    /\ UNCHANGED <<checks, exercise>>

\* The original has to be accepted first.
Accept ==
    /\ exercise.step = 0 /\ exercise.status = "none"
    /\ exercise' = IF Refusal(bundle, checks) = "none"
                   THEN [exercise EXCEPT !.step = 1, !.accepted = bundle]
                   ELSE [exercise EXCEPT !.status = "refused"]
    /\ UNCHANGED <<bundle, checks>>

\* Mutant: what was refused was refused, for whatever reason.
ObserveAnyRefusal ==
    /\ exercise.step \in 1..4 /\ exercise.status = "none"
    /\ LET n == Negatives[exercise.step]
       IN  exercise' = IF Refusal(Prepared(n), checks) # "none"
                       THEN [exercise EXCEPT !.step = @ + 1]
                       ELSE [exercise EXCEPT !.status = "refused"]
    /\ UNCHANGED <<bundle, checks>>

\* One negative: refused, and for the reason it is there for.
Observe ==
    /\ exercise.step \in 1..4 /\ exercise.status = "none"
    /\ LET n == Negatives[exercise.step]
       IN  exercise' = IF Refusal(Prepared(n), checks) = Expects[n]
                       THEN [exercise EXCEPT !.step = @ + 1]
                       ELSE [exercise EXCEPT !.status = "refused"]
    /\ UNCHANGED <<bundle, checks>>

Report ==
    /\ exercise.step = 5 /\ exercise.status = "none"
    /\ exercise' = [exercise EXCEPT !.status = "PASS"]
    /\ UNCHANGED <<bundle, checks>>

TrustNext == Decay \/ Accept \/ Observe \/ Report

-----------------------------------------------------------------------------
(* Properties. *)

\* An exercise that passes was of a verifier that makes each of the checks a negative is
\* there for, and what such a verifier accepted is signed by the anchor's key and holds
\* the inventory's bytes.  No negative is there for unsigned files or for the binding.
ExerciseProvesVerifier ==
    exercise.status = "PASS" =>
        /\ Needed \subseteq checks
        /\ exercise.accepted.manifest = "signed" /\ Faults(exercise.accepted) = {}
=============================================================================
