------------------------------- MODULE Runs -------------------------------
(* The recipes as they run: one after the other, against the builder or a test *)
(* machine, stage by stage in the order Recipes gives them.  A run keeps what   *)
(* its stages made, the verdicts they reached and the record or entry they      *)
(* wrote; a later run finds the machine and the build an earlier one left.      *)
EXTENDS Recipes

CONSTANT
    \* Bound: the runs begun.
    MaxRuns

ASSUME RunsAssumption == MaxRuns \in Nat

VARIABLES
    recipe,     \* the name of the recipe, "none" before the first run
    at,         \* the position of the next stage
    outcome,    \* "none", "running", or how the last run ended
    given,      \* what the operator asked: kind, parent and access
    made,       \* what the run's stages left, in the guest and on the host
    verdict,    \* the verdict of each judged fact, "none" until it is reached
    build,      \* the guest's build: its exit, was its output brought home, its report
    record,     \* the build's record, "none" until it is written
    entry,      \* the verdict recorded as evidence, "none" until it is minted
    machine,    \* the machine the run finds
    earlier,    \* the last build before this run, a build the operator can name as parent
    runs        \* the runs begun

vars == <<recipe, at, outcome, given, made, verdict, build, record, entry, machine, earlier,
          runs>>

Verdicts == {"PASS", "FAIL", "BLOCKED"}
Outcomes == {"succeeded", "refused", "failed", "raised", "killed"}
Items    == GuestItems \cup {"bundle", "manifest", "sources", "target", "credentials",
                             "build log", "exported", "record", "verification", "request",
                             "report", "kept"}

NoVerdict == [f \in JudgedFacts |-> "none"]
NoBuild   == [ran |-> "none", home |-> FALSE, verified |-> FALSE]
NoEarlier == [kind |-> "none", record |-> "none", ran |-> "none", home |-> FALSE,
              documents |-> "absent", payload |-> FALSE]

\* Any guest may answer at the builder's port; only one with the marker, in a
\* virtual machine, is the isolated builder.
Builders == [role : {"builder"}, isolated : BOOLEAN, medium : {"disk"}, session : {"none"},
             requested : {FALSE}]

\* The live medium logs its user in by itself.
TestMachines ==
    {m \in [role : {"test"}, isolated : {FALSE}, medium : {"disk", "live", "installer"},
            session : {"none", "other"}, requested : {FALSE}] :
        m.medium = "live" \/ m.session = "none"}

Witness(m) ==
    IF m.role = "builder" THEN "build"
    ELSE CASE m.medium = "disk"      -> "vm"
           [] m.medium = "live"      -> "live_vm"
           [] m.medium = "installer" -> "installer_vm"

\* A machine booted from a medium is still a virtual machine.
Satisfies(witness, required) ==
    \/ required \in {"none", witness}
    \/ required = "vm" /\ witness \in {"live_vm", "installer_vm"}

RootKinds == {"image", "fingerprint-rpms"}

order   == Orders[recipe]
Running == outcome = "running" /\ at <= Len(order)
stage   == order[at]

\* The stage's commands find what they work on.
Works == stage.needs \subseteq made /\ stage.bars \cap made = {}

\* What is made only on some runs: the target goes to the guest when there is one.
Left(items) ==
    {i \in items : /\ i = "target document" => "target" \in made
                   /\ i \in {"credentials", "blueprint"} => given.access
                   /\ i = "payload" => given.kind = "image"}

Everything(s) == Left(Range(s.makes))

Advance == at' = at + 1 /\ UNCHANGED outcome
Ends(how) == outcome' = how /\ UNCHANGED at

Init ==
    /\ recipe = "none" /\ at = 1 /\ outcome = "none" /\ made = {} /\ runs = 0
    /\ given = [kind |-> "none", parent |-> FALSE, access |-> FALSE]
    /\ verdict = NoVerdict /\ build = NoBuild /\ record = "none" /\ entry = "none"
    /\ earlier = NoEarlier
    /\ machine \in Builders \cup TestMachines

(***************************************************************************)
(* A run begins.                                                            *)
(***************************************************************************)

\* The machine the next run finds: the one that runs, or a fresh one.  A session
\* an earlier run opened is somebody else's to the next.
NextMachines ==
    {[machine EXCEPT !.session = IF @ = "none" THEN "none" ELSE "other"]}
        \cup Builders \cup TestMachines

\* The last build, as a later run can name it: a build that was retrieved left its
\* documents at home, which a damaged export makes disagree; its payload stays in
\* the builder that made it.
LastBuild(m) ==
    IF record = "none" /\ build.ran = "none" THEN {[earlier EXCEPT !.payload = @ /\ m = machine]}
    ELSE [kind : {given.kind}, record : {record}, ran : {build.ran}, home : {build.home},
          documents : IF build.home THEN {"agree", "differ"} ELSE {"absent"},
          payload : {"payload" \in made /\ m = machine}]

\* What the command line accepts: a parent for what is derived from one and only
\* then, the disposable account for a disk or an installer, and always for a
\* recovery disk.
Asked(r, k) ==
    [kind   : {k},
     parent : {(TargetFreeze \in r.stages) \/ (BuildFreeze \in r.stages /\ k \notin RootKinds)},
     access : IF r = BuildDiskArtifact THEN BOOLEAN ELSE {FixtureDisk \in r.stages}]

\* Every stage's preflight is asked before the first is applied.
Refused(r, g, reviewed, m) ==
    \/ g.kind = "image" /\ ~reviewed
    \/ g.access /\ g.kind # "qcow2"
    \/ ~Satisfies(Witness(m), r.requires)

Begin ==
    /\ outcome # "running" /\ runs < MaxRuns
    /\ \E name \in DOMAIN Recipes, m \in NextMachines :
          LET r == Recipes[name] IN
          /\ r.role \in {"none", m.role}
          /\ \E k \in r.kinds, reviewed \in BOOLEAN : \E g \in Asked(r, k) :
                /\ recipe' = name /\ machine' = m
                /\ given' = g
                /\ outcome' = IF Refused(r, g, reviewed, m) THEN "refused" ELSE "running"
          /\ earlier' \in LastBuild(m)
    /\ at' = 1 /\ made' = {} /\ runs' = runs + 1
    /\ verdict' = NoVerdict /\ build' = NoBuild /\ record' = "none" /\ entry' = "none"

(***************************************************************************)
(* A stage that does its work, stops short of it, or finds it impossible.    *)
(***************************************************************************)

Is(rule) == Running /\ stage.rule = rule

ThisRun == <<recipe, given, earlier, runs>>

Plain ==
    /\ Is("plain") /\ Works
    /\ made' = made \cup Everything(stage)
    /\ Advance
    /\ UNCHANGED <<ThisRun, verdict, build, record, entry, machine>>

\* What a stage that stops may have done to the machine: typed the password.
Touched ==
    {machine}
        \cup (IF stage.rule = "login" /\ machine.session = "none"
             THEN {[machine EXCEPT !.session = "own"]} ELSE {})

OutcomeOf(how) ==
    CASE how = "refuse" -> "refused" [] how = "fail" -> "failed"
      [] how = "raise" -> "raised"   [] how = "kill" -> "killed"

\* A refusal or a failure of a port on the way, or the end of the process: a
\* prefix of what the stage makes is left.
Stops ==
    /\ Running /\ Works
    /\ \E how \in stage.stops \cup {"kill"} : Ends(OutcomeOf(how))
    /\ \E n \in 0..Len(stage.makes) :
          made' = made \cup Left(Range(SubSeq(stage.makes, 1, n)) \ {"record"})
    /\ machine' \in Touched
    /\ UNCHANGED <<ThisRun, verdict, build, record, entry>>

\* A directory that is missing or there already: the command fails.
Unmet ==
    /\ Running /\ ~Works /\ stage.rule \notin {"build", "retrieve"}
    /\ Ends(IF "fail" \in stage.stops THEN "failed" ELSE "raised")
    /\ UNCHANGED <<ThisRun, made, verdict, build, record, entry, machine>>

(***************************************************************************)
(* Builds.                                                                  *)
(***************************************************************************)

\* Mutant of Guard: what the guest answers is not looked at.
GuardTakesAny ==
    /\ Is("guard") /\ Advance
    /\ UNCHANGED <<ThisRun, made, verdict, build, record, entry, machine>>

\* Is the guest at the builder's port the isolated builder?
Guard ==
    /\ Is("guard")
    /\ IF machine.isolated THEN Advance ELSE Ends("refused")
    /\ UNCHANGED <<ThisRun, made, verdict, build, record, entry, machine>>

\* Mutant of Completed: the documents are enough, whatever the record says.
DocumentsAgree(b) == b.documents = "agree"

\* Is the build a completed image: its record, its documents and its manifest?
Completed(b) == b.record = "PASS" /\ b.kind = "image" /\ b.documents = "agree"

Freeze ==
    /\ Is("freeze")
    /\ \/ ~given.parent /\ Advance /\ UNCHANGED made
       \/ given.parent /\ Completed(earlier) /\ Advance /\ made' = made \cup {"target"}
       \/ given.parent /\ ~Completed(earlier) /\ Ends("refused") /\ UNCHANGED made
    /\ UNCHANGED <<ThisRun, verdict, build, record, entry, machine>>

\* The exit code is kept, never judged; a derived build imports the parent's
\* payload from the builder.
RunBuild ==
    /\ Is("build")
    /\ \/ /\ Works /\ (given.parent => earlier.payload)
          /\ build' = [build EXCEPT !.ran = "ok"]
          /\ made' = made \cup Everything(stage)
       \/ /\ build' = [build EXCEPT !.ran = "failed"]
          /\ \E n \in 1..Len(stage.makes) :
                made' = made \cup Left(Range(SubSeq(stage.makes, 1, n)))
    /\ Advance
    /\ UNCHANGED <<ThisRun, verdict, record, entry, machine>>

Retrieve ==
    /\ Is("retrieve")
    /\ \E home \in {FALSE, Works} :
          /\ build' = [build EXCEPT !.home = home]
          /\ made' = made \cup (IF home THEN {"exported"} ELSE {})
    /\ Advance
    /\ UNCHANGED <<ThisRun, verdict, record, entry, machine>>

\* Mutant of Passed: the guest's exit code alone.
ExitedZero(b) == b.ran = "ok"

\* Did the guest's build succeed, and did its output come home?
Passed(b) == b.ran = "ok" /\ b.home

\* The record is written first; what reports on packages is judged before it, and
\* its verification is written after it.
WriteRecord ==
    /\ Running /\ stage.rule \in {"record", "record report"}
    /\ \E verified \in BOOLEAN, whole \in BOOLEAN :
          LET accepted == stage.rule = "record report" => verified
              pass     == Passed(build) /\ accepted
          IN  /\ build' = [build EXCEPT !.verified = verified /\ Passed(build)]
              /\ record' = IF pass THEN "PASS" ELSE "FAIL"
              /\ made' = made \cup (IF whole THEN Everything(stage) ELSE {"record"})
              /\ IF ~whole THEN Ends("raised") ELSE IF pass THEN Advance ELSE Ends("failed")
    /\ UNCHANGED <<ThisRun, verdict, entry, machine>>

(***************************************************************************)
(* Verdicts.                                                                *)
(***************************************************************************)

TheFact == FactOf(stage)

\* A window is presented only in a session.
Possible(f) ==
    CASE f \in {"GTK3", "ADWAITA"}   -> {"BLOCKED"} \cup IF machine.session = "none" THEN {}
                                                        ELSE {"PASS"}
      [] f \in {"SURFACE", "SHELL"}  -> {"PASS", "FAIL"}
      [] OTHER                       -> Verdicts

Asks(v, m) ==
    /\ verdict' = [verdict EXCEPT ![TheFact] = v]
    /\ machine' = m
    /\ made' = made \cup Everything(stage)
    /\ Advance

\* What the agent's report states is the verdict.
Judge ==
    /\ Is("judge") /\ Works
    /\ \E v \in Possible(TheFact) : Asks(v, machine)
    /\ UNCHANGED <<ThisRun, build, record, entry>>

\* An earlier verdict that is not a pass blocks the stage, which asks nothing.
Gated ==
    /\ Is("gated")
    /\ IF \E f \in stage.reads \cap JudgedFacts : verdict[f] # "PASS"
       THEN /\ verdict' = [verdict EXCEPT ![TheFact] = "BLOCKED"]
            /\ Advance
            /\ UNCHANGED <<made, machine>>
       ELSE Works /\ \E v \in Possible(TheFact) : Asks(v, machine)
    /\ UNCHANGED <<ThisRun, build, record, entry>>

\* Mutant of SessionOpen: the seat is not looked at before the password is typed.
SeatAssumedFree(m) == FALSE

SessionOpen(m) == m.session # "none"

\* A password typed at the greeter opens a session or does not; a pass is a session
\* on Wayland seen afterwards.
Login ==
    /\ Is("login") /\ Works
    /\ \/ /\ SessionOpen(machine)
          /\ Ends("refused")
          /\ made' = made \cup {"agent reply"}
          /\ UNCHANGED <<verdict, machine>>
       \/ /\ ~SessionOpen(machine)
          /\ \/ Asks("FAIL", machine)
             \/ \E v \in {"PASS", "FAIL"} :
                   Asks(v, [machine EXCEPT !.session = IF @ = "none" THEN "own" ELSE @])
    /\ UNCHANGED <<ThisRun, build, record, entry>>

\* A fault's request, written in the machine's directory before the fault is attempted.
Request ==
    /\ Is("request")
    /\ IF machine.requested \/ machine.medium # "installer"
       THEN Ends("refused") /\ UNCHANGED machine
       ELSE Advance /\ machine' = [machine EXCEPT !.requested = TRUE]
    /\ UNCHANGED <<ThisRun, made, verdict, build, record, entry>>

\* An operation keeps its report however it ends.
OperateStage ==
    /\ Is("operate") /\ Works
    /\ Advance \/ Ends("refused") \/ Ends("failed")
    /\ made' = made \cup {"agent reply", "report"}
    /\ UNCHANGED <<ThisRun, verdict, build, record, entry, machine>>

\* Mutant of Fold: what is blocked claims nothing, so it weighs nothing.
FoldSkipsBlocked(vs) ==
    IF "FAIL" \in vs THEN "FAIL" ELSE IF "PASS" \in vs THEN "PASS" ELSE "BLOCKED"

\* The verdict that claims least.
Fold(vs) ==
    IF "FAIL" \in vs THEN "FAIL" ELSE IF "BLOCKED" \in vs THEN "BLOCKED" ELSE "PASS"

Reports(s) == s.reads \cap JudgedFacts

\* The recorder insists on the environment the check names, where the preflight
\* took any that satisfies it.
MintEntry ==
    /\ Is("mint")
    /\ IF Witness(machine) = Recipes[recipe].requires
       THEN /\ entry' = Fold({verdict[f] : f \in Reports(stage)})
            /\ Advance
       ELSE Ends("refused") /\ UNCHANGED entry
    /\ UNCHANGED <<ThisRun, made, verdict, build, record, machine>>

Finish ==
    /\ outcome = "running" /\ at > Len(order)
    /\ Ends("succeeded")
    /\ UNCHANGED <<ThisRun, made, verdict, build, record, entry, machine>>

Next ==
    \/ Begin \/ Plain \/ Stops \/ Unmet \/ Guard \/ Freeze \/ RunBuild \/ Retrieve
    \/ WriteRecord \/ Judge \/ Gated \/ Login \/ Request \/ OperateStage \/ MintEntry
    \/ Finish

Spec == Init /\ [][Next]_vars

(***************************************************************************)
(* Properties.                                                              *)
(***************************************************************************)

\* In whatever order the facts put its stages, a run leaves nothing in a guest that
\* answers at the builder's port unless the guest was found to be the isolated
\* builder: the checks are stages like any other, and only the facts they write keep
\* them ahead of the stages that work there (check_builder_stage, builder_guard_stage).
OnlyIsolatedBuilder ==
    recipe # "none" /\ made \cap GuestItems # {} /\ Recipes[recipe].role = "builder"
        => machine.isolated

\* A record that says PASS stands for a guest build that exited with zero, whose
\* output came home and, for packages, whose report was verified against it, also
\* when the run stopped before the verification was written beside the record.
RecordIsEarned ==
    record = "PASS" =>
        /\ build.ran = "ok"
        /\ build.home /\ "exported" \in made
        /\ recipe \in PackageRecipes => build.verified

\* What a derived build or a verification takes as its target is an image whose build
\* ran to the end in the guest and came home, whatever became of that run afterwards.
DerivedFromCompleteImage ==
    given.parent /\ "target" \in made =>
        earlier.ran = "ok" /\ earlier.home /\ earlier.kind = "image"

\* The password check passes on the session this run's own password opened, never on
\* one it found; the theme check passes on windows of a session that was open.
PassOnOwnLogin ==
    entry = "PASS" =>
        /\ recipe = "verify_desktop_render" => machine.session = "own"
        /\ recipe = "verify_desktop_theme" => machine.session # "none"

\* Evidence that says PASS was recorded from a pass of every report, each of this run,
\* in the environment the check requires.
FoldedFromAll ==
    entry # "none" =>
        /\ Witness(machine) = Recipes[recipe].requires
        /\ \A f \in JudgedFacts : entry = "PASS" => verdict[f] \in {"none", "PASS"}
        /\ \A f \in JudgedFacts : verdict[f] = "FAIL" => entry = "FAIL"

\* What a stage's commands work on is there when the stage comes: the order the facts
\* give is an order in which the stages can work.
NeedsMet == Running => Works \/ stage.rule \in {"build", "retrieve"}

(***************************************************************************)
(* The inductive invariant behind the properties.                           *)
(***************************************************************************)

Named == recipe \in DOMAIN Recipes

Kinds == {"none"} \cup UNION {Recipes[name].kinds : name \in DOMAIN Recipes}

\* What a run and what the next one finds have their types.
RunTypes ==
    /\ Named \/ (recipe = "none" /\ outcome = "none")
    /\ at \in Nat \ {0}
    /\ given \in [kind : Kinds, parent : BOOLEAN, access : BOOLEAN]
    /\ verdict \in [JudgedFacts -> Verdicts \cup {"none"}]
    /\ build \in [ran : {"none", "ok", "failed"}, home : BOOLEAN, verified : BOOLEAN]
    /\ record \in {"none", "PASS", "FAIL"} /\ entry \in Verdicts \cup {"none"}
    /\ machine \in [role : {"builder", "test"}, isolated : BOOLEAN,
                    medium : {"disk", "live", "installer"}, session : {"none", "other", "own"},
                    requested : BOOLEAN]
    /\ earlier \in [kind : Kinds, record : {"none", "PASS", "FAIL"},
                    ran : {"none", "ok", "failed"}, home : BOOLEAN,
                    documents : {"absent", "agree", "differ"}, payload : BOOLEAN]

\* The stages behind a run.
Behind == {j \in 1..(at - 1) : j \in DOMAIN order}

\* A check that is behind a run found the isolated builder.
GuardInv ==
    /\ \A j \in Behind : order[j].rule = "guard" => machine.isolated
    /\ OnlyIsolatedBuilder

\* Once the record is written the build is behind the run, or the run is over: what the
\* record was written from stays.
RecordInv ==
    /\ build.home => "exported" \in made
    /\ record # "none" => outcome # "running" \/ \E j \in Behind : order[j].rule \in RecordRules
    /\ RecordIsEarned

\* A build a run can name as its parent was recorded as PASS only when it was earned;
\* one is named only by recipes that freeze it.
TargetInv ==
    /\ given.parent => Named /\ Recipes[recipe].stages \cap {TargetFreeze, BuildFreeze} # {}
    /\ earlier.record = "PASS" => earlier.ran = "ok" /\ earlier.home
    /\ DerivedFromCompleteImage

\* The verdicts are those of the stages of the run, each reached when it is behind; what
\* they say of the session is still so.
VerdictInv ==
    /\ \A f \in JudgedFacts : verdict[f] # "none" =>
          Named /\ \E j \in At(order, VerdictRules) : FactOf(order[j]) = f
    /\ \A j \in Behind : order[j].rule \in VerdictRules => verdict[FactOf(order[j])] # "none"
    /\ verdict["LOGIN"] = "PASS" => machine.session = "own"
    /\ verdict["GTK3"] = "PASS" => machine.session # "none"

\* An entry is the last a run makes.
EntryInv ==
    /\ entry # "none" => Named /\ at > Len(order)
    /\ FoldedFromAll
    /\ PassOnOwnLogin

RunInv == RunTypes /\ GuardInv /\ RecordInv /\ TargetInv /\ VerdictInv /\ EntryInv
=============================================================================
