------------------------------ MODULE Fixtures ------------------------------
(* The signed update fixture of the builder: images A and B over the stored payload,    *)
(* each copied and signed into a directory, the cases made from B by hard links, and    *)
(* the later sharing of B's extents with a second signing of it.  The payload is stored *)
(* under the digest it ought to have; an import that is refused leaves what it copied.  *)
EXTENDS Integers

CONSTANTS
    Layers,     \* the blobs of an image
    Base        \* the one A and B have in common

ASSUME FixturesAssumption == Base \in Layers /\ {"manifest", "signature"} \cap Layers = {}

VARIABLES
    stored,     \* the image under the payload's digest tag
    images,     \* the parent each version was built from
    paths,      \* the inode of each file of each image directory, or no file
    data,       \* the content of each inode
    step,       \* how far the fixture's unit is
    policy,     \* the builder's own policy, against the start of the unit
    report,     \* the fixture's results and the content they name for each file
    dedupe,     \* the unit that shares extents: its step, the blobs left, its verdict
    trial       \* the trial of skopeo's own verifiers: what they answered, its verdict

fixtureVars == <<stored, images, paths, data, step, policy, report, dedupe, trial>>

Dirs == {"a", "b", "unsigned", "untrusted", "wrong_key", "wrong_signed"}
Kinds == Layers \cup {"manifest", "signature"}
NoFile == <<"none", "none">>
Bundle == Dirs \ {"wrong_signed"}

\* The trial's questions in their order: each case to the copy, then to the proxy.
Positive == {"roundtrip", "preflight"}
Trials == <<"roundtrip", "preflight", "wrong_key", "wrong_identity", "unsigned",
            "tampered_signature", "tampered_manifest", "unexpected_source">>
Questions == 1..16
CaseOf(q) == Trials[(q + 1) \div 2]
NoTrial == [step |-> "idle", answers |-> [q \in Questions |-> "none"], status |-> "none"]

FixturesInit ==
    /\ stored \in {"none", "frozen", "other"}
    /\ images = [a |-> "none", b |-> "none"]
    /\ paths = [p \in Dirs \X Kinds |-> NoFile]
    /\ data = [i \in Dirs \X Kinds |-> NoFile]
    /\ step = "idle" /\ policy = "same"
    /\ report = [status |-> "none", files |-> data]
    /\ dedupe = [step |-> "idle", todo |-> {}, status |-> "none"]
    /\ trial = NoTrial

Content(p) == IF paths[p] = NoFile THEN NoFile ELSE data[paths[p]]
Held == [p \in Dirs \X Kinds |-> Content(p)]

\* The file system.  A path that is made anew has its own inode; a copy over a path that
\* is there writes the inode it has, and so every other path of that inode.
Fresh(d, k) == [paths EXCEPT ![<<d, k>>] = IF @ = NoFile THEN <<d, k>> ELSE @]

\* An image directory as the engine's copy leaves it: each file named for what it is.
ImageFile(image, signer, k) ==
    IF k = "signature" THEN <<signer, image>>
    ELSE IF k = Base THEN <<k, "common">> ELSE <<k, image>>

CopyImage(d, image, signer) ==
    /\ paths' = [p \in DOMAIN paths |-> IF p[1] = d THEN p ELSE paths[p]]
    /\ data' = [i \in DOMAIN data |->
                   IF i[1] = d THEN ImageFile(image, signer, i[2]) ELSE data[i]]

\* Every file of b, under another directory, by a hard link.
LinkTree(ds) ==
    paths' = [p \in DOMAIN paths |-> IF p[1] \in ds THEN paths[<<"b", p[2]>>] ELSE paths[p]]

Remove(d, k) == paths' = [paths EXCEPT ![<<d, k>>] = NoFile]

CopyFile(from, d, k) ==
    LET made == Fresh(d, k)
    IN  paths' = made /\ data' = [data EXCEPT ![made[<<d, k>>]] = Content(<<from, k>>)]

-----------------------------------------------------------------------------
(* The stored payload, and what uses it. *)

\* The copy comes first and the digest is checked after: a refused import has written.
Import(archive) ==
    /\ step \in {"idle", "done", "refused"}
    /\ stored' = archive
    /\ UNCHANGED <<images, paths, data, step, policy, report, dedupe, trial>>

\* The builder runs one unit at a time.  Mutant: a tag that names a digest is taken to hold it.
StartByName ==
    /\ step = "idle" /\ trial.step # "asking" /\ policy' = "same"
    /\ step' = IF stored # "none" THEN "a" ELSE "refused"
    /\ UNCHANGED <<stored, images, paths, data, report, dedupe, trial>>

Start ==
    /\ step = "idle" /\ trial.step # "asking" /\ policy' = "same"
    /\ step' = IF stored = "frozen" THEN "a" ELSE "refused"
    /\ UNCHANGED <<stored, images, paths, data, report, dedupe, trial>>

BuildA ==
    /\ step = "a" /\ step' = "b"
    /\ images' = [images EXCEPT !.a = stored]
    /\ CopyImage("a", "a", "trusted")
    /\ UNCHANGED <<stored, policy, report, dedupe, trial>>

BuildB ==
    /\ step = "b" /\ step' = "share"
    /\ images' = [images EXCEPT !.b = images.a]
    /\ CopyImage("b", "b", "trusted")
    /\ UNCHANGED <<stored, policy, report, dedupe, trial>>

\* Mutant: everything of the same name is shared, the manifest and the signature too.
ShareByName ==
    /\ step = "share" /\ step' = "derive"
    /\ paths' = [p \in DOMAIN paths |-> IF p[1] = "b" THEN paths[<<"a", p[2]>>] ELSE paths[p]]
    /\ UNCHANGED <<stored, images, data, policy, report, dedupe, trial>>

\* A blob of b that a has with the same content becomes a link to a's.
Share ==
    /\ step = "share" /\ step' = "derive"
    /\ paths' = [p \in DOMAIN paths |->
                    IF p[1] = "b" /\ p[2] \in Layers /\ Content(p) = Content(<<"a", p[2]>>)
                    THEN paths[<<"a", p[2]>>] ELSE paths[p]]
    /\ UNCHANGED <<stored, images, data, policy, report, dedupe, trial>>

Derive ==
    /\ step = "derive" /\ step' = "unsign"
    /\ LinkTree({"unsigned", "untrusted"})
    /\ UNCHANGED <<stored, images, data, policy, report, dedupe, trial>>

Unsign ==
    /\ step = "unsign" /\ step' = "sign"
    /\ Remove("unsigned", "signature")
    /\ UNCHANGED <<stored, images, data, policy, report, dedupe, trial>>

SignWrong ==
    /\ step = "sign" /\ step' = "link"
    /\ CopyImage("wrong_signed", "b", "wrong")
    /\ UNCHANGED <<stored, images, policy, report, dedupe, trial>>

LinkWrong ==
    /\ step = "link" /\ step' = "strip"
    /\ LinkTree({"wrong_key"})
    /\ UNCHANGED <<stored, images, data, policy, report, dedupe, trial>>

\* Mutant: the signature is copied over the link.
StripNothing ==
    /\ step = "strip" /\ step' = "swap"
    /\ UNCHANGED <<stored, images, paths, data, policy, report, dedupe, trial>>

Strip ==
    /\ step = "strip" /\ step' = "swap"
    /\ Remove("wrong_key", "signature")
    /\ UNCHANGED <<stored, images, data, policy, report, dedupe, trial>>

Swap ==
    /\ step = "swap" /\ step' = "finish"
    /\ CopyFile("wrong_signed", "wrong_key", "signature")
    /\ UNCHANGED <<stored, images, policy, report, dedupe, trial>>

\* Someone else's change of the builder's policy.
ChangePolicy ==
    /\ policy' = "changed"
    /\ UNCHANGED <<stored, images, paths, data, step, report, dedupe, trial>>

Finish ==
    /\ step = "finish"
    /\ IF policy = "same"
       THEN step' = "done" /\ report' = [status |-> "PASS", files |-> Held]
       ELSE step' = "refused" /\ UNCHANGED report
    /\ UNCHANGED <<stored, images, paths, data, policy, dedupe, trial>>

\* The engine fails, or the unit is killed.
Fail ==
    /\ step \notin {"idle", "done", "refused"} /\ step' = "refused"
    /\ UNCHANGED <<stored, images, paths, data, policy, report, dedupe, trial>>

-----------------------------------------------------------------------------
(* The sharing of extents: the kernel is asked to share one blob after another of B    *)
(* with the second signing of it, and is not believed.                                  *)

Named(d, k) == Content(<<d, k>>) = ImageFile("b", "trusted", k)

Block == [step |-> "ended", todo |-> {}, status |-> "BLOCKED"]

StartDedupe ==
    /\ step \in {"done", "refused"} /\ dedupe.step = "idle"
    /\ dedupe' = IF report.status = "PASS" /\ Named("b", "manifest")
                 THEN [step |-> "sharing", todo |-> Layers, status |-> "none"]
                 ELSE Block
    /\ UNCHANGED <<stored, images, paths, data, step, policy, report, trial>>

\* The kernel leaves the contents alone, or it does not.
Kernel(k) ==
    \/ UNCHANGED data
    \/ \E d \in {"b", "wrong_signed"} : data' = [data EXCEPT ![paths[<<d, k>>]] = <<k, "damaged">>]

\* Mutant: what the kernel did is not read again.
ShareTrusting(k) ==
    /\ dedupe.step = "sharing" /\ k \in dedupe.todo
    /\ UNCHANGED <<stored, images, paths, step, policy, report, trial>>
    /\ IF Named("b", k) /\ Named("wrong_signed", k)
       THEN Kernel(k) /\ dedupe' = [dedupe EXCEPT !.todo = @ \ {k}]
       ELSE UNCHANGED data /\ dedupe' = Block

\* A blob has to be what it is named before and after.
ShareExtents(k) ==
    /\ dedupe.step = "sharing" /\ k \in dedupe.todo
    /\ UNCHANGED <<stored, images, paths, step, policy, report, trial>>
    /\ IF Named("b", k) /\ Named("wrong_signed", k)
       THEN /\ Kernel(k)
            /\ dedupe' = IF Named("b", k)' /\ Named("wrong_signed", k)'
                         THEN [dedupe EXCEPT !.todo = @ \ {k}] ELSE Block
       ELSE UNCHANGED data /\ dedupe' = Block

\* The report is written whatever happened; only a finished sharing makes it a PASS.
EndDedupe ==
    /\ dedupe.step = "sharing"
    /\ dedupe' = IF dedupe.todo = {} THEN [dedupe EXCEPT !.step = "ended", !.status = "PASS"]
                 ELSE Block
    /\ UNCHANGED <<stored, images, paths, data, step, policy, report, trial>>

\* Another run of the unit, in a directory of its own.
NextDedupe ==
    /\ dedupe.step = "ended" /\ dedupe' = [step |-> "idle", todo |-> {}, status |-> "none"]
    /\ UNCHANGED <<stored, images, paths, data, step, policy, report, trial>>

-----------------------------------------------------------------------------
(* The trial of the engine's verifiers on a small signed image: they may answer as      *)
(* they like, and the trial ends at the first answer that is not the one to expect.     *)

Fit(q) == IF CaseOf(q) \in Positive THEN "accepted" ELSE "refused"

Turn(q) == \A p \in Questions : trial.answers[p] = "none" <=> p >= q

StartTrial ==
    /\ trial.step = "idle" /\ step \in {"idle", "done", "refused"} /\ policy' = "same"
    /\ trial' = [trial EXCEPT !.step = "asking"]
    /\ UNCHANGED <<stored, images, paths, data, step, report, dedupe>>

AskVerifier(q) ==
    /\ trial.step = "asking" /\ Turn(q)
    /\ \E answer \in {"accepted", "refused", "otherwise"} :
           trial' = [trial EXCEPT !.answers[q] = answer,
                                  !.step = IF answer = Fit(q) THEN @ ELSE "ended"]
    /\ UNCHANGED <<stored, images, paths, data, step, policy, report, dedupe>>

EndTrial ==
    /\ trial.step = "asking" /\ \A q \in Questions : trial.answers[q] # "none"
    /\ trial' = [trial EXCEPT !.step = "ended",
                              !.status = IF policy = "same" THEN "PASS" ELSE "none"]
    /\ UNCHANGED <<stored, images, paths, data, step, policy, report, dedupe>>

FixturesNext ==
    \/ \E archive \in {"frozen", "other"} : Import(archive)
    \/ Start \/ BuildA \/ BuildB \/ Share \/ Derive \/ Unsign \/ SignWrong
    \/ LinkWrong \/ Strip \/ Swap \/ ChangePolicy \/ Finish \/ Fail
    \/ StartDedupe \/ EndDedupe \/ NextDedupe
    \/ \E k \in Layers : ShareExtents(k)
    \/ StartTrial \/ EndTrial \/ \E q \in Questions : AskVerifier(q)

-----------------------------------------------------------------------------
(* Properties. *)

Faulty == [unsigned |-> NoFile, untrusted |-> <<"trusted", "b">>,
           wrong_key |-> <<"wrong", "b">>]

\* A fixture that passed was built, A and B, from the image its parent's digest names, and
\* each case made from B is B in every file but its signature, which is the case's fault
\* alone: no step has reached B, or another case, through a link.
CasesDifferByOneFault ==
    report.status = "PASS" =>
        /\ images = [a |-> "frozen", b |-> "frozen"]
        /\ \A v \in {"a", "b"}, k \in Kinds :
               report.files[<<v, k>>] = ImageFile(v, "trusted", k)
        /\ \A c \in DOMAIN Faulty :
               /\ \A k \in Kinds \ {"signature"} :
                      report.files[<<c, k>>] = report.files[<<"b", k>>]
               /\ report.files[<<c, "signature">>] = Faulty[c]

\* A sharing that passed left every file of the bundle as the fixture reported it, and the
\* blobs of the second signing as their names say, whatever the kernel did.
DedupeKeepsContents ==
    dedupe.status = "PASS" =>
        /\ \A d \in Bundle, k \in Kinds : Content(<<d, k>>) = report.files[<<d, k>>]
        /\ \A k \in Layers : Named("wrong_signed", k)

\* A trial that passed heard what it expects of the copy and of the proxy in every case,
\* and the builder's policy has not changed since it began.
TrialIsEarned ==
    [][trial'.status = "PASS" /\ trial.status # "PASS" =>
           policy = "same" /\ \A q \in Questions : trial.answers[q] = Fit(q)]_fixtureVars
-----------------------------------------------------------------------------
(* Why the fixture's properties hold: where its files are and what they contain after  *)
(* each step, and what a sharing has confirmed so far.                                  *)

AfterA      == {"b", "share", "derive", "unsign", "sign", "link", "strip", "swap", "finish",
                "done"}
AfterB      == AfterA \ {"b"}
AfterDerive == AfterB \ {"share", "derive"}
AfterSign   == AfterDerive \ {"unsign", "sign"}
AfterLink   == AfterSign \ {"link"}

FileContents == (Kinds \cup {"none", "trusted", "wrong"})
                    \X {"none", "common", "damaged", "a", "b"}

FixtureTypes ==
    /\ stored \in {"none", "frozen", "other"}
    /\ images \in [{"a", "b"} -> {"none", "frozen", "other"}]
    /\ paths \in [Dirs \X Kinds -> (Dirs \X Kinds) \cup {NoFile}]
    /\ data \in [Dirs \X Kinds -> FileContents]
    /\ step \in AfterA \cup {"idle", "a", "refused"}
    /\ report \in [status : {"none", "PASS"}, files : [Dirs \X Kinds -> FileContents]]
    /\ dedupe \in [step : {"idle", "sharing", "ended"}, todo : SUBSET Layers,
                   status : {"none", "PASS", "BLOCKED"}]

ParentInv ==
    /\ step \in {"a", "b"} => stored = "frozen"
    /\ step \in AfterA => images.a = "frozen"
    /\ step \in AfterB => images.b = "frozen"

\* The inode of b's blob, its own or the one it shares with a's same blob.
OwnOrShared(k) ==
    \/ paths[<<"b", k>>] = <<"b", k>>
    \/ /\ k \in Layers /\ step # "share" /\ paths[<<"b", k>>] = <<"a", k>>
       /\ ImageFile("a", "trusted", k) = ImageFile("b", "trusted", k)

SignatureOf(c) ==
    CASE c = "unsigned"  -> IF step = "unsign" THEN paths[<<"b", "signature">>] ELSE NoFile
      [] c = "wrong_key" -> CASE step = "strip" -> paths[<<"b", "signature">>]
                              [] step = "swap"  -> NoFile
                              [] OTHER          -> <<"wrong_key", "signature">>
      [] OTHER           -> paths[<<"b", "signature">>]

CaseFile(c, k) == IF k = "signature" THEN SignatureOf(c) ELSE paths[<<"b", k>>]

TreeInv ==
    \A k \in Kinds :
        /\ step \in AfterA => paths[<<"a", k>>] = <<"a", k>>
        /\ step \in AfterB => OwnOrShared(k)
        /\ step \in AfterDerive => \A c \in {"unsigned", "untrusted"} :
                                       paths[<<c, k>>] = CaseFile(c, k)
        /\ step \in AfterSign => paths[<<"wrong_signed", k>>] = <<"wrong_signed", k>>
        /\ step \in AfterLink => paths[<<"wrong_key", k>>] = CaseFile("wrong_key", k)

\* Only a blob may be damaged, and only after the fixture is done.
Exposed(k) == step = "done" /\ k \in Layers

DataInv ==
    /\ \A k \in Kinds :
        /\ step \in AfterA /\ (~Exposed(k) \/ paths[<<"b", k>>] # <<"a", k>>) =>
               data[<<"a", k>>] = ImageFile("a", "trusted", k)
        /\ step \in AfterB /\ ~Exposed(k) =>
               data[<<"b", k>>] = ImageFile("b", "trusted", k)
        /\ step \in AfterSign /\ ~Exposed(k) =>
               data[<<"wrong_signed", k>>] = ImageFile("b", "wrong", k)
    /\ step \in {"finish", "done"} => data[<<"wrong_key", "signature">>] = <<"wrong", "b">>

\* What a file of the bundle contains when the fixture is made.
FileExpected(d, k) ==
    IF k = "signature" /\ d \in DOMAIN Faulty THEN Faulty[d]
    ELSE ImageFile(IF d = "a" THEN "a" ELSE "b", "trusted", k)

ReportInv ==
    report.status = "PASS" =>
        /\ step = "done"
        /\ \A d \in Bundle, k \in Kinds : report.files[<<d, k>>] = FileExpected(d, k)

DedupeInv ==
    /\ dedupe.step = "sharing" \/ dedupe.status = "PASS" =>
          /\ report.status = "PASS"
          /\ \A k \in Layers \ dedupe.todo : Named("b", k) /\ Named("wrong_signed", k)
    /\ dedupe.status = "PASS" => dedupe.todo = {} /\ dedupe.step = "ended"

FixtureInv ==
    FixtureTypes /\ ParentInv /\ TreeInv /\ DataInv /\ ReportInv /\ DedupeInv
=============================================================================
