------------------------- MODULE VerificationProofs -------------------------
(* Proofs about what verifies: the runs of the recipes, for any number of runs, and  *)
(* the operations on a guest, for any number of changes, boots and upsets.           *)
EXTENDS Runs, Operations, WellFoundedInduction, TLAPS

(***************************************************************************)
(* Steps.                                                                   *)
(***************************************************************************)

\* The order of a registered recipe, as its runs walk through it.
LEMMA OrderFacts ==
    ASSUME Named
    PROVE  /\ Len(order) \in Nat /\ DOMAIN order = 1..Len(order)
           /\ \A i \in DOMAIN order : order[i].makes \in Seq(STRING)
           /\ Recipes[recipe].role = "builder" => GuardedFirst(order)
           /\ RecordedLast(order) /\ MintedLast(order) /\ VerdictsNamed(order)
           /\ OneTarget(Recipes[recipe], order)
           /\ recipe \in PackageRecipes => At(order, {"record"}) = {}
           /\ recipe = "verify_desktop_render" => MintedAfter(order, "LOGIN")
           /\ recipe = "verify_desktop_theme" => MintedAfter(order, "GTK3")
  <1>1. order = Orders[recipe]
      BY DEF order
  <1>2. order \in Seq(Recipes[recipe].stages)
      BY <1>1, OrdersAssumption DEF Named
  <1>3. Len(order) \in Nat /\ DOMAIN order = 1..Len(order)
      BY <1>2
  <1> QED
      BY <1>1, <1>3, OrdersAssumption DEF Named

\* A prefix of what a stage makes is made of what it makes.
LEMMA PrefixMade ==
    ASSUME NEW makes \in Seq(STRING), NEW n \in 0..Len(makes)
    PROVE  Range(SubSeq(makes, 1, n)) \subseteq Range(makes)
  BY DEF Range

LEMMA LeftIsLess == ASSUME NEW items PROVE Left(items) \subseteq items
  BY DEF Left

\* A stage that is under way is a stage of the recipe.
LEMMA UnderWay ==
    ASSUME RunTypes, Running
    PROVE  Named /\ at \in DOMAIN order /\ stage = order[at] /\ outcome = "running"
  <1>1. Named /\ outcome = "running" /\ at \in Nat \ {0} /\ at <= Len(order)
      BY DEF RunTypes, Running
  <1> QED
      BY <1>1, OrderFacts DEF stage

\* A step of a run, without its beginning and its end.
Steps == \/ Plain \/ Stops \/ Unmet \/ Guard \/ Freeze \/ RunBuild \/ Retrieve
         \/ WriteRecord \/ Judge \/ Gated \/ Login \/ Request \/ OperateStage \/ MintEntry


\* A run goes through the order one stage at a time and keeps what it was asked.
LEMMA OneByOne ==
    ASSUME RunTypes, Steps
    PROVE  /\ Named /\ at \in DOMAIN order /\ stage = order[at]
           /\ UNCHANGED ThisRun /\ order' = order
           /\ at' = at \/ at' = at + 1
  <1>1. Running
      BY DEF Steps, Plain, Stops, Unmet, Guard, Freeze, RunBuild, Retrieve, WriteRecord,
         Judge, Gated, Login, Request, OperateStage, MintEntry, Is
  <1>2. UNCHANGED ThisRun
      BY DEF Steps, Plain, Stops, Unmet, Guard, Freeze, RunBuild, Retrieve, WriteRecord,
         Judge, Gated, Login, Request, OperateStage, MintEntry
  <1>3. at' = at \/ at' = at + 1
      BY DEF Steps, Plain, Stops, Unmet, Guard, Freeze, RunBuild, Retrieve, WriteRecord,
         Judge, Gated, Login, Request, OperateStage, MintEntry, Advance, Ends, Asks
  <1>4. order' = order
      BY <1>2 DEF ThisRun, order
  <1> QED
      BY <1>1, <1>2, <1>3, <1>4, UnderWay

\* Only the check itself gets past a check, and only where it found the builder.
LEMMA PastGuard ==
    ASSUME RunTypes, Steps, stage.rule = "guard", at' = at + 1
    PROVE  machine.isolated
  <1>1. at' # at
      BY DEF RunTypes
  <1> QED
      BY <1>1 DEF Steps, Plain, Stops, Unmet, Guard, Freeze, RunBuild, Retrieve, WriteRecord,
         Judge, Gated, Login, Request, OperateStage, MintEntry, Advance, Ends, Is

\* What a run does to its machine: it opens a session where there is none, and leaves
\* one request.
LEMMA MachineStays ==
    ASSUME RunTypes, Steps
    PROVE  \/ machine' = machine
           \/ machine' = [machine EXCEPT !.requested = TRUE]
           \/ machine.session = "none" /\ machine' = [machine EXCEPT !.session = "own"]
  <1>1. CASE Login
      <2>1. CASE SessionOpen(machine)
          BY <1>1, <2>1 DEF Login
      <2>2. CASE ~SessionOpen(machine)
          BY <1>1, <2>2 DEF Login, SessionOpen, Asks
      <2> QED
          BY <2>1, <2>2
  <1>2. CASE Stops
      BY <1>2 DEF Stops, Touched
  <1>3. CASE Judge \/ Gated
      BY <1>3 DEF Judge, Gated, Asks
  <1>4. CASE Request
      BY <1>4 DEF Request
  <1> QED
      BY <1>1, <1>2, <1>3, <1>4 DEF Steps, Plain, Unmet, Guard, Freeze, RunBuild, Retrieve,
         WriteRecord, OperateStage, MintEntry

LEMMA MachineTyped ==
    ASSUME RunTypes, Steps
    PROVE  /\ machine' \in [role : {"builder", "test"}, isolated : BOOLEAN,
                            medium : {"disk", "live", "installer"},
                            session : {"none", "other", "own"}, requested : BOOLEAN]
           /\ machine'.isolated = machine.isolated /\ Witness(machine') = Witness(machine)
           /\ \/ machine'.session = machine.session
              \/ machine.session = "none" /\ machine'.session = "own"
  <1>1. CASE machine' = machine
      BY <1>1 DEF RunTypes
  <1>2. CASE machine' = [machine EXCEPT !.requested = TRUE]
      BY <1>2 DEF RunTypes, Witness
  <1>3. CASE machine.session = "none" /\ machine' = [machine EXCEPT !.session = "own"]
      BY <1>3 DEF RunTypes, Witness
  <1> QED
      BY <1>1, <1>2, <1>3, MachineStays

\* What a step of a run may leave.
LEMMA MadeFrom ==
    ASSUME RunTypes, Steps, NEW i \in made' \ made
    PROVE  \/ i \in Range(stage.makes)
           \/ i \in {"exported", "record", "report"}
           \/ i = "agent reply" /\ stage.rule \in {"login", "operate"}
           \/ i = "target" /\ Completed(earlier)
  <1> stage.makes \in Seq(STRING)
      BY OneByOne, OrderFacts
  <1>1. Everything(stage) \subseteq Range(stage.makes)
      BY LeftIsLess DEF Everything
  <1>2. \A n \in 0..Len(stage.makes) :
           /\ Left(Range(SubSeq(stage.makes, 1, n))) \subseteq Range(stage.makes)
           /\ Left(Range(SubSeq(stage.makes, 1, n)) \ {"record"}) \subseteq Range(stage.makes)
      BY PrefixMade, LeftIsLess
  <1>3. CASE Plain
      BY <1>1, <1>3 DEF Plain
  <1>4. CASE Stops
      BY <1>2, <1>4 DEF Stops
  <1>5. CASE RunBuild
      <2>1. \A n \in 1..Len(stage.makes) : n \in 0..Len(stage.makes)
          OBVIOUS
      <2> QED
          BY <1>1, <1>2, <1>5, <2>1 DEF RunBuild
  <1>6. CASE Freeze
      BY <1>6 DEF Freeze
  <1>7. CASE Retrieve
      BY <1>7 DEF Retrieve
  <1>8. CASE WriteRecord
      BY <1>1, <1>8 DEF WriteRecord
  <1>9. CASE Judge \/ Gated
      BY <1>1, <1>9 DEF Judge, Gated, Asks
  <1>10. CASE Login
      BY <1>1, <1>10 DEF Login, Asks, Is
  <1>11. CASE OperateStage
      BY <1>11 DEF OperateStage, Is
  <1> QED
      BY <1>3, <1>4, <1>5, <1>6, <1>7, <1>8, <1>9, <1>10, <1>11
      DEF Steps, Unmet, Guard, Request, MintEntry

(***************************************************************************)
(* The types.                                                               *)
(***************************************************************************)

LEMMA InitRuns == Init => RunInv
  <1> SUFFICES ASSUME Init PROVE RunInv
      OBVIOUS
  <1>1. RunTypes
      <2>1. machine \in Builders \cup TestMachines
          BY DEF Init
      <2>2. machine \in [role : {"builder", "test"}, isolated : BOOLEAN,
                         medium : {"disk", "live", "installer"},
                         session : {"none", "other", "own"}, requested : BOOLEAN]
          BY <2>1 DEF Builders, TestMachines
      <2> QED
          BY <2>2 DEF Init, RunTypes, NoVerdict, NoBuild, NoEarlier, Kinds
  <1>2. Behind = {}
      BY DEF Init, Behind
  <1>3. GuardInv /\ TargetInv
      BY <1>2 DEF Init, GuardInv, OnlyIsolatedBuilder, TargetInv, DerivedFromCompleteImage,
         NoEarlier
  <1>4. RecordInv
      BY DEF Init, RecordInv, RecordIsEarned, NoBuild
  <1>5. VerdictInv
      BY <1>2 DEF Init, VerdictInv, NoVerdict, JudgedFacts
  <1>6. EntryInv
      BY DEF Init, EntryInv, FoldedFromAll, PassOnOwnLogin
  <1> QED
      BY <1>1, <1>3, <1>4, <1>5, <1>6 DEF RunInv

\* What a run that begins finds and was asked.
LEMMA Beginning ==
    ASSUME RunTypes, Begin
    PROVE  /\ Named' /\ at' = 1 /\ made' = {} /\ verdict' = NoVerdict /\ build' = NoBuild
           /\ record' = "none" /\ entry' = "none" /\ Behind' = {}
           /\ given' \in [kind : Kinds, parent : BOOLEAN, access : BOOLEAN]
           /\ given'.parent =>
                 Recipes[recipe'].stages \cap {TargetFreeze, BuildFreeze} # {}
           /\ machine' \in [role : {"builder", "test"}, isolated : BOOLEAN,
                            medium : {"disk", "live", "installer"},
                            session : {"none", "other", "own"}, requested : BOOLEAN]
           /\ \E m \in NextMachines : earlier' \in LastBuild(m)
  <1> PICK name \in DOMAIN Recipes, m \in NextMachines :
        /\ recipe' = name /\ machine' = m
        /\ \E k \in Recipes[name].kinds : given' \in Asked(Recipes[name], k)
        /\ earlier' \in LastBuild(m)
      BY DEF Begin
  <1>1. /\ at' = 1 /\ made' = {} /\ verdict' = NoVerdict /\ build' = NoBuild
        /\ record' = "none" /\ entry' = "none"
      BY DEF Begin
  <1>2. Named'
      BY DEF Named
  <1>3. Behind' = {}
      BY <1>1 DEF Behind
  <1>4. /\ given' \in [kind : Kinds, parent : BOOLEAN, access : BOOLEAN]
        /\ given'.parent => Recipes[name].stages \cap {TargetFreeze, BuildFreeze} # {}
      <2> PICK k \in Recipes[name].kinds : given' \in Asked(Recipes[name], k)
          OBVIOUS
      <2>1. k \in Kinds
          BY DEF Kinds
      <2> DEFINE parent == (TargetFreeze \in Recipes[name].stages)
                              \/ (BuildFreeze \in Recipes[name].stages /\ k \notin RootKinds)
                 access == IF Recipes[name] = BuildDiskArtifact THEN BOOLEAN
                           ELSE {FixtureDisk \in Recipes[name].stages}
      <2>2. given' \in [kind : {k}, parent : {parent}, access : access]
          BY DEF Asked
      <2>3. parent \in BOOLEAN /\ access \subseteq BOOLEAN
          OBVIOUS
      <2>4. parent => Recipes[name].stages \cap {TargetFreeze, BuildFreeze} # {}
          OBVIOUS
      <2> HIDE DEF parent, access
      <2> QED
          BY <2>1, <2>2, <2>3, <2>4
  <1>5. m \in [role : {"builder", "test"}, isolated : BOOLEAN,
               medium : {"disk", "live", "installer"},
               session : {"none", "other", "own"}, requested : BOOLEAN]
      BY DEF NextMachines, Builders, TestMachines, RunTypes
  <1> QED
      BY <1>1, <1>2, <1>3, <1>4, <1>5

LEMMA LastBuildTyped ==
    ASSUME RunTypes, NEW m, NEW b \in LastBuild(m)
    PROVE  /\ b \in [kind : Kinds, record : {"none", "PASS", "FAIL"},
                     ran : {"none", "ok", "failed"}, home : BOOLEAN,
                     documents : {"absent", "agree", "differ"}, payload : BOOLEAN]
           /\ \/ b.record = earlier.record /\ b.ran = earlier.ran /\ b.home = earlier.home
              \/ b.record = record /\ b.ran = build.ran /\ b.home = build.home
  <1>1. CASE record = "none" /\ build.ran = "none"
      <2>1. b = [earlier EXCEPT !.payload = @ /\ m = machine]
          BY <1>1 DEF LastBuild
      <2> QED
          BY <2>1 DEF RunTypes
  <1>2. CASE ~(record = "none" /\ build.ran = "none")
      <2>1. b \in [kind : {given.kind}, record : {record}, ran : {build.ran},
                   home : {build.home},
                   documents : IF build.home THEN {"agree", "differ"} ELSE {"absent"},
                   payload : {"payload" \in made /\ m = machine}]
          BY <1>2 DEF LastBuild
      <2> QED
          BY <2>1 DEF RunTypes
  <1> QED
      BY <1>1, <1>2

LEMMA PossibleVerdicts == ASSUME NEW f PROVE Possible(f) \subseteq Verdicts
  BY DEF Possible, Verdicts

\* What a step of a run may do to the verdicts: the stage under way reaches its own.
LEMMA VerdictFrom ==
    ASSUME RunTypes, Steps
    PROVE  \/ UNCHANGED verdict
              /\ (at' = at + 1 => stage.rule \notin VerdictRules)
           \/ /\ stage.rule \in VerdictRules /\ at' = at + 1
              /\ \E v \in Verdicts : verdict' = [verdict EXCEPT ![FactOf(stage)] = v]
  <1>1. at' = at + 1 => at' # at
      BY DEF RunTypes
  <1>2. CASE Judge
      BY <1>2, PossibleVerdicts DEF Judge, Asks, Advance, Is, VerdictRules, TheFact
  <1>3. CASE Gated
      <2>1. stage.rule \in VerdictRules /\ at' = at + 1
          BY <1>3 DEF Gated, Asks, Advance, Is, VerdictRules
      <2>2. \E v \in Verdicts : verdict' = [verdict EXCEPT ![FactOf(stage)] = v]
          <3>1. CASE \E f \in stage.reads \cap JudgedFacts : verdict[f] # "PASS"
              BY <1>3, <3>1 DEF Gated, Verdicts, TheFact
          <3>2. CASE ~\E f \in stage.reads \cap JudgedFacts : verdict[f] # "PASS"
              BY <1>3, <3>2, PossibleVerdicts DEF Gated, Asks, TheFact
          <3> QED
              BY <3>1, <3>2
      <2> QED
          BY <2>1, <2>2
  <1>4. CASE Login
      <2>1. CASE SessionOpen(machine)
          BY <1>1, <1>4, <2>1 DEF Login, Ends
      <2>2. CASE ~SessionOpen(machine)
          BY <1>4, <2>2 DEF Login, Asks, Advance, Is, VerdictRules, Verdicts, TheFact
      <2> QED
          BY <2>1, <2>2
  <1>5. CASE ~(Judge \/ Gated \/ Login)
      <2>1. UNCHANGED verdict
          BY <1>5 DEF Steps, Plain, Stops, Unmet, Guard, Freeze, RunBuild, Retrieve,
             WriteRecord, Request, OperateStage, MintEntry
      <2>2. at' = at + 1 => stage.rule \notin VerdictRules
          BY <1>1, <1>5 DEF Steps, Plain, Stops, Unmet, Guard, Freeze, RunBuild, Retrieve,
             WriteRecord, Request, OperateStage, MintEntry, Is, Ends, VerdictRules
      <2> QED
          BY <2>1, <2>2
  <1> QED
      BY <1>2, <1>3, <1>4, <1>5

\* The actions that reach a verdict.
LEMMA VerdictSteps ==
    ASSUME RunTypes, Steps, stage.rule \in VerdictRules, at' = at + 1
    PROVE  /\ stage.rule = "login" => Login /\ ~SessionOpen(machine)
           /\ stage.rule # "login" => Judge \/ Gated
  <1>1. at' # at
      BY DEF RunTypes
  <1>2. Judge \/ Gated \/ Login
      BY <1>1 DEF Steps, Plain, Stops, Unmet, Guard, Freeze, RunBuild, Retrieve, WriteRecord,
         Request, OperateStage, MintEntry, Is, Ends, VerdictRules, RecordRules
  <1>3. Login => ~SessionOpen(machine)
      BY <1>1 DEF Login, Ends
  <1>4. /\ Judge => stage.rule = "judge"
        /\ Gated => stage.rule = "gated"
        /\ Login => stage.rule = "login"
      BY DEF Judge, Gated, Login, Is
  <1> QED
      BY <1>2, <1>3, <1>4

\* What a step of a run may do to the build and its record.
LEMMA BuildFrom ==
    ASSUME RunTypes, Steps
    PROVE  \/ UNCHANGED <<build, record>>
           \/ /\ stage.rule = "build" /\ UNCHANGED record /\ made \subseteq made'
              /\ \E ran \in {"ok", "failed"} : build' = [build EXCEPT !.ran = ran]
           \/ /\ stage.rule = "retrieve" /\ UNCHANGED record /\ made \subseteq made'
              /\ \E home \in BOOLEAN :
                    /\ build' = [build EXCEPT !.home = home]
                    /\ home => "exported" \in made'
           \/ /\ stage.rule \in RecordRules /\ made \subseteq made'
              /\ outcome' # "running" \/ at' = at + 1
              /\ \E verified \in BOOLEAN :
                    /\ build' = [build EXCEPT !.verified = verified /\ Passed(build)]
                    /\ record' \in {"PASS", "FAIL"}
                    /\ record' = "PASS" =>
                          Passed(build) /\ (stage.rule = "record report" => verified)
  <1>1. CASE RunBuild
      BY <1>1 DEF RunBuild, Is
  <1>2. CASE Retrieve
      <2>1. Works \in BOOLEAN
          BY DEF Works
      <2> PICK home \in {FALSE, Works} :
            /\ build' = [build EXCEPT !.home = home]
            /\ made' = made \cup (IF home THEN {"exported"} ELSE {})
          BY <1>2 DEF Retrieve
      <2>2. home \in BOOLEAN /\ (home => "exported" \in made') /\ made \subseteq made'
          BY <2>1
      <2> QED
          BY <1>2, <2>2 DEF Retrieve, Is
  <1>3. CASE WriteRecord
      BY <1>3 DEF WriteRecord, RecordRules, Ends, Advance
  <1> QED
      BY <1>1, <1>2, <1>3 DEF Steps, Plain, Stops, Unmet, Guard, Freeze, Judge, Gated, Login,
         Request, OperateStage, MintEntry

\* What a step of a run may do to the entry.
LEMMA EntryFrom ==
    ASSUME RunTypes, Steps
    PROVE  \/ UNCHANGED entry
           \/ /\ stage.rule = "mint" /\ at' = at + 1 /\ UNCHANGED <<machine, verdict>>
              /\ Witness(machine) = Recipes[recipe].requires
              /\ entry' = Fold({verdict[f] : f \in Reports(stage)})
  BY DEF Steps, Plain, Stops, Unmet, Guard, Freeze, RunBuild, Retrieve, WriteRecord,
     Judge, Gated, Login, Request, OperateStage, MintEntry, Is, Advance

LEMMA TypesKept == RunTypes /\ [Next]_vars => RunTypes'
  <1> SUFFICES ASSUME RunTypes, [Next]_vars PROVE RunTypes'
      OBVIOUS
  <1>1. CASE Begin
      <2>1. earlier' \in [kind : Kinds, record : {"none", "PASS", "FAIL"},
                          ran : {"none", "ok", "failed"}, home : BOOLEAN,
                          documents : {"absent", "agree", "differ"}, payload : BOOLEAN]
          BY <1>1, Beginning, LastBuildTyped
      <2>2. /\ verdict' \in [JudgedFacts -> Verdicts \cup {"none"}]
            /\ build' \in [ran : {"none", "ok", "failed"}, home : BOOLEAN, verified : BOOLEAN]
            /\ record' = "none" /\ entry' = "none" /\ at' = 1
          <3>1. /\ verdict' = NoVerdict /\ build' = NoBuild
                /\ record' = "none" /\ entry' = "none" /\ at' = 1
              BY <1>1, Beginning
          <3>2. NoVerdict \in [JudgedFacts -> Verdicts \cup {"none"}]
              BY DEF NoVerdict
          <3>3. NoBuild \in [ran : {"none", "ok", "failed"}, home : BOOLEAN, verified : BOOLEAN]
              BY DEF NoBuild
          <3> QED
              BY <3>1, <3>2, <3>3
      <2>3. /\ given' \in [kind : Kinds, parent : BOOLEAN, access : BOOLEAN] /\ Named'
            /\ machine' \in [role : {"builder", "test"}, isolated : BOOLEAN,
                             medium : {"disk", "live", "installer"},
                             session : {"none", "other", "own"}, requested : BOOLEAN]
          BY <1>1, Beginning
      <2> QED
          BY <2>1, <2>2, <2>3 DEF RunTypes
  <1>2. CASE Steps
      <2>1. Named' /\ at' \in Nat \ {0} /\ UNCHANGED <<given, earlier>>
          BY <1>2, OneByOne DEF RunTypes, Named, ThisRun
      <2>2. verdict' \in [JudgedFacts -> Verdicts \cup {"none"}]
          BY <1>2, VerdictFrom DEF RunTypes
      <2>3. /\ build' \in [ran : {"none", "ok", "failed"}, home : BOOLEAN, verified : BOOLEAN]
            /\ record' \in {"none", "PASS", "FAIL"}
          <3>1. /\ build \in [ran : {"none", "ok", "failed"}, home : BOOLEAN, verified : BOOLEAN]
                /\ record \in {"none", "PASS", "FAIL"}
              BY DEF RunTypes
          <3>2. CASE UNCHANGED <<build, record>>
              BY <3>1, <3>2
          <3>3. CASE /\ UNCHANGED record
                     /\ \E ran \in {"ok", "failed"} : build' = [build EXCEPT !.ran = ran]
              BY <3>1, <3>3
          <3>4. CASE /\ UNCHANGED record
                     /\ \E home \in BOOLEAN : build' = [build EXCEPT !.home = home]
              BY <3>1, <3>4
          <3>5. CASE /\ record' \in {"PASS", "FAIL"}
                     /\ \E verified \in BOOLEAN :
                           build' = [build EXCEPT !.verified = verified /\ Passed(build)]
              <4>1. \A v \in BOOLEAN : (v /\ Passed(build)) \in BOOLEAN
                  BY DEF Passed
              <4> QED
                  BY <3>1, <3>5, <4>1
          <3> QED
              BY <1>2, <3>2, <3>3, <3>4, <3>5, BuildFrom
      <2>4. entry' \in Verdicts \cup {"none"}
          BY <1>2, EntryFrom DEF RunTypes, Fold, Verdicts
      <2> QED
          BY <1>2, <2>1, <2>2, <2>3, <2>4, MachineTyped DEF RunTypes
  <1>3. CASE Finish \/ UNCHANGED vars
      BY <1>3 DEF Finish, Ends, ThisRun, vars, RunTypes, Named
  <1> QED
      BY <1>1, <1>2, <1>3 DEF Next, Steps

(***************************************************************************)
(* The invariant, part by part.                                             *)
(***************************************************************************)

\* What is behind a run when it has gone on: what was, and the stage it did.
LEMMA BehindNext ==
    ASSUME RunTypes, Steps
    PROVE  /\ at' = at => Behind' = Behind
           /\ at' = at + 1 => Behind' = Behind \cup {at}
  <1>1. order' = order /\ at \in DOMAIN order /\ at \in Nat \ {0}
      BY OneByOne DEF RunTypes
  <1> QED
      BY <1>1 DEF Behind

\* The end of a run, or no step, changes nothing a run left.
LEMMA Quiet ==
    ASSUME RunInv, Finish \/ UNCHANGED vars
    PROVE  GuardInv' /\ RecordInv' /\ TargetInv' /\ VerdictInv' /\ EntryInv'
  <1>1. /\ UNCHANGED <<recipe, at, given, made, verdict, build, record, entry, machine, earlier>>
        /\ outcome' = outcome \/ outcome' # "running"
      BY DEF Finish, Ends, ThisRun, vars
  <1>2. UNCHANGED <<order, Behind, Named>>
      BY <1>1 DEF order, Behind, Named
  <1>3. GuardInv' /\ TargetInv'
      BY <1>1, <1>2 DEF RunInv, GuardInv, OnlyIsolatedBuilder, TargetInv,
         DerivedFromCompleteImage
  <1>4. RecordInv'
      BY <1>1, <1>2 DEF RunInv, RecordInv, RecordIsEarned
  <1>5. VerdictInv'
      BY <1>1, <1>2 DEF RunInv, VerdictInv
  <1>6. EntryInv'
      BY <1>1, <1>2 DEF RunInv, EntryInv, FoldedFromAll, PassOnOwnLogin
  <1> QED
      BY <1>3, <1>4, <1>5, <1>6

\* A run that begins has nothing behind it.
LEMMA BeginKeeps ==
    ASSUME RunInv, Begin
    PROVE  GuardInv' /\ RecordInv' /\ TargetInv' /\ VerdictInv' /\ EntryInv'
  <1>1. /\ Named' /\ made' = {} /\ verdict' = NoVerdict /\ build' = NoBuild
        /\ record' = "none" /\ entry' = "none" /\ Behind' = {}
        /\ given'.parent => Recipes[recipe'].stages \cap {TargetFreeze, BuildFreeze} # {}
      BY Beginning DEF RunInv
  <1>2. earlier'.record = "PASS" => earlier'.ran = "ok" /\ earlier'.home
      <2> PICK m \in NextMachines : earlier' \in LastBuild(m)
          BY Beginning DEF RunInv
      <2>1. \/ /\ earlier'.record = earlier.record /\ earlier'.ran = earlier.ran
               /\ earlier'.home = earlier.home
            \/ /\ earlier'.record = record /\ earlier'.ran = build.ran
               /\ earlier'.home = build.home
          BY LastBuildTyped DEF RunInv
      <2> QED
          BY <2>1 DEF RunInv, TargetInv, RecordInv, RecordIsEarned
  <1>3. GuardInv'
      BY <1>1 DEF GuardInv, OnlyIsolatedBuilder
  <1>4. TargetInv'
      BY <1>1, <1>2 DEF TargetInv, DerivedFromCompleteImage
  <1>5. RecordInv'
      BY <1>1 DEF RecordInv, RecordIsEarned, NoBuild
  <1>6. VerdictInv'
      BY <1>1 DEF VerdictInv, NoVerdict, JudgedFacts
  <1>7. EntryInv'
      BY <1>1 DEF EntryInv, FoldedFromAll, PassOnOwnLogin
  <1> QED
      BY <1>3, <1>4, <1>5, <1>6, <1>7

\* What reaches the builder's guest comes after its check.
LEMMA GuardKept == ASSUME RunInv, Steps PROVE GuardInv'
  <1> USE DEF RunInv
  <1>1. /\ order' = order /\ recipe' = recipe /\ Named /\ at \in DOMAIN order
        /\ stage = order[at] /\ (at' = at \/ at' = at + 1)
      BY OneByOne DEF ThisRun
  <1>2. machine'.isolated = machine.isolated
      BY MachineTyped
  <1>3. \A j \in Behind' : order'[j].rule = "guard" => machine'.isolated
      <2> SUFFICES ASSUME NEW j \in Behind', order[j].rule = "guard" PROVE machine.isolated
          BY <1>1, <1>2
      <2>1. CASE j \in Behind
          BY <2>1 DEF GuardInv
      <2>2. CASE j = at /\ at' = at + 1
          BY <1>1, <2>2, PastGuard
      <2> QED
          BY <1>1, <2>1, <2>2, BehindNext
  <1>4. OnlyIsolatedBuilder'
      <2> SUFFICES ASSUME made' \cap GuestItems # {}, Recipes[recipe].role = "builder"
                   PROVE  machine.isolated
          BY <1>1, <1>2 DEF OnlyIsolatedBuilder
      <2> PICK i \in GuestItems : i \in made'
          OBVIOUS
      <2>1. CASE i \in made
          <3>1. recipe # "none" \/ made = {}
              BY <1>1 DEF Named, Recipes
          <3> QED
              BY <2>1, <3>1 DEF GuardInv, OnlyIsolatedBuilder
      <2>2. CASE i \notin made
          <3>1. \/ i \in Range(stage.makes)
                \/ stage.rule \in {"login", "operate"}
              BY <2>2, MadeFrom DEF GuestItems
          <3>2. GuardedFirst(order) /\ DOMAIN order = 1..Len(order) /\ Len(order) \in Nat
              BY <1>1, OrderFacts
          <3> PICK j \in At(order, {"guard"}) : j < at
              BY <1>1, <3>1, <3>2 DEF GuardedFirst
          <3>3. j \in Behind /\ order[j].rule = "guard"
              BY <1>1, <3>2 DEF At, Behind
          <3> QED
              BY <3>3 DEF GuardInv
      <2> QED
          BY <2>1, <2>2
  <1> QED
      BY <1>3, <1>4 DEF GuardInv

\* The record is the last word on the build.
LEMMA RecordKept == ASSUME RunInv, Steps PROVE RecordInv'
  <1> USE DEF RunInv
  <1>1. /\ order' = order /\ recipe' = recipe /\ Named /\ at \in DOMAIN order
        /\ stage = order[at] /\ (at' = at \/ at' = at + 1) /\ at \in Nat \ {0}
      BY OneByOne DEF ThisRun, RunTypes
  <1>2. Behind \subseteq Behind' /\ (at' = at + 1 => at \in Behind')
      BY <1>1, BehindNext
  <1>3. outcome' = outcome \/ outcome' # "running" \/ at' = at
      BY DEF Steps, Plain, Stops, Unmet, Guard, Freeze, RunBuild, Retrieve, WriteRecord,
         Judge, Gated, Login, Request, OperateStage, MintEntry, Advance, Ends, Asks
  <1>4. outcome = "running" /\ made \subseteq made'
      <2>1. outcome = "running"
          BY UnderWay DEF Steps, Plain, Stops, Unmet, Guard, Freeze, RunBuild, Retrieve,
             WriteRecord, Judge, Gated, Login, Request, OperateStage, MintEntry, Is, Running
      <2>2. made \subseteq made'
          BY DEF Steps, Plain, Stops, Unmet, Guard, Freeze, RunBuild, Retrieve,
             WriteRecord, Judge, Gated, Login, Request, OperateStage, MintEntry, Asks
      <2> QED
          BY <2>1, <2>2
  <1>5. CASE UNCHANGED <<build, record>>
      <2>1. record # "none" => \E j \in Behind' : order[j].rule \in RecordRules
          BY <1>2, <1>4, <1>5 DEF RecordInv
      <2> QED
          BY <1>1, <1>4, <1>5, <2>1 DEF RecordInv, RecordIsEarned
  <1>6. ASSUME record # "none", stage.rule \in RecordRules \cup {"build", "retrieve"}
        PROVE  FALSE
      <2> PICK j \in Behind : order[j].rule \in RecordRules
          BY <1>4, <1>6 DEF RecordInv
      <2>1. RecordedLast(order)
          BY <1>1, OrderFacts
      <2>2. j \in At(order, RecordRules) /\ at \in At(order, RecordRules \cup {"build", "retrieve"})
          BY <1>1, <1>6 DEF At, Behind
      <2>3. at <= j
          BY <2>1, <2>2 DEF RecordedLast
      <2> QED
          BY <1>1, <2>3 DEF Behind
  <1>7. CASE stage.rule = "build" /\ UNCHANGED record
             /\ \E ran \in {"ok", "failed"} : build' = [build EXCEPT !.ran = ran]
      <2>1. record = "none" /\ record' = "none"
          BY <1>6, <1>7
      <2>2. build'.home = build.home
          BY <1>7 DEF RunTypes
      <2> QED
          BY <1>4, <2>1, <2>2 DEF RecordInv, RecordIsEarned
  <1>8. CASE /\ stage.rule = "retrieve" /\ UNCHANGED record
             /\ \E home \in BOOLEAN :
                   /\ build' = [build EXCEPT !.home = home]
                   /\ home => "exported" \in made'
      <2>1. record = "none" /\ record' = "none"
          BY <1>6, <1>8
      <2>2. build'.home => "exported" \in made'
          BY <1>8 DEF RunTypes
      <2> QED
          BY <2>1, <2>2 DEF RecordInv, RecordIsEarned
  <1>9. CASE /\ stage.rule \in RecordRules
             /\ outcome' # "running" \/ at' = at + 1
             /\ \E verified \in BOOLEAN :
                   /\ build' = [build EXCEPT !.verified = verified /\ Passed(build)]
                   /\ record' \in {"PASS", "FAIL"}
                   /\ record' = "PASS" =>
                         Passed(build) /\ (stage.rule = "record report" => verified)
      <2> PICK verified \in BOOLEAN :
            /\ build' = [build EXCEPT !.verified = verified /\ Passed(build)]
            /\ record' = "PASS" =>
                  Passed(build) /\ (stage.rule = "record report" => verified)
          BY <1>9
      <2>1. /\ build'.ran = build.ran /\ build'.home = build.home
            /\ build'.verified = (verified /\ Passed(build))
          BY DEF RunTypes
      <2>2. recipe \in PackageRecipes => stage.rule = "record report"
          <3>1. recipe \in PackageRecipes => At(order, {"record"}) = {}
              BY <1>1, OrderFacts
          <3> QED
              BY <1>1, <1>9, <3>1 DEF At, RecordRules
      <2>3. RecordIsEarned'
          BY <1>1, <1>4, <2>1, <2>2 DEF RecordInv, RecordIsEarned, Passed
      <2>4. outcome' # "running" \/ \E j \in Behind' : order'[j].rule \in RecordRules
          BY <1>1, <1>2, <1>9
      <2> QED
          BY <1>4, <2>1, <2>3, <2>4 DEF RecordInv
  <1> QED
      BY <1>5, <1>7, <1>8, <1>9, BuildFrom

\* A target is frozen from a build whose PASS was earned.
LEMMA TargetKept == ASSUME RunInv, Steps PROVE TargetInv'
  <1> USE DEF RunInv
  <1>1. /\ UNCHANGED <<recipe, given, earlier>> /\ Named /\ Named' /\ at \in DOMAIN order
        /\ stage = order[at]
      BY OneByOne DEF ThisRun, Named
  <1>2. ASSUME given.parent, "target" \in made', "target" \notin made
        PROVE  Completed(earlier)
      <2>1. OneTarget(Recipes[recipe], order)
          BY <1>1, OrderFacts
      <2>2. "target" \notin Range(stage.makes)
          BY <1>1, <1>2, <2>1 DEF TargetInv, OneTarget
      <2> QED
          BY <1>2, <2>2, MadeFrom
  <1>3. DerivedFromCompleteImage'
      BY <1>1, <1>2 DEF TargetInv, DerivedFromCompleteImage, Completed
  <1> QED
      BY <1>1, <1>3 DEF TargetInv

\* Each verdict is of a stage of the run, reached when that stage was.
LEMMA VerdictKept == ASSUME RunInv, Steps PROVE VerdictInv'
  <1> USE DEF RunInv
  <1>1. /\ order' = order /\ recipe' = recipe /\ Named /\ Named' /\ at \in DOMAIN order
        /\ stage = order[at] /\ (at' = at \/ at' = at + 1) /\ at \in Nat \ {0}
      BY OneByOne DEF ThisRun, RunTypes, Named
  <1>2. VerdictsNamed(order)
      BY <1>1, OrderFacts
  <1>3. machine.session = "own" => machine'.session = "own"
      BY MachineTyped
  <1>4. machine.session # "none" => machine'.session # "none"
      BY MachineTyped
  <1>5. CASE UNCHANGED verdict /\ (at' = at + 1 => stage.rule \notin VerdictRules)
      <2>1. \A j \in Behind' : order[j].rule \in VerdictRules => j \in Behind
          BY <1>1, <1>5, BehindNext
      <2> QED
          BY <1>1, <1>3, <1>4, <1>5, <2>1 DEF VerdictInv
  <1>6. CASE /\ stage.rule \in VerdictRules /\ at' = at + 1
             /\ \E v \in Verdicts : verdict' = [verdict EXCEPT ![FactOf(stage)] = v]
      <2> DEFINE fact == FactOf(stage)
      <2> PICK v \in Verdicts : verdict' = [verdict EXCEPT ![fact] = v]
          BY <1>6
      <2>1. at \in At(order, VerdictRules)
          BY <1>1, <1>6 DEF At
      <2>2. fact \in JudgedFacts /\ (fact = "LOGIN" <=> stage.rule = "login")
          BY <1>1, <1>2, <2>1 DEF VerdictsNamed
      <2>3. FactOf(order[at]) = fact
          BY <1>1
      <2> HIDE DEF fact
      <2>4. /\ verdict'[fact] = v /\ v # "none"
            /\ \A f \in JudgedFacts \ {fact} : verdict'[f] = verdict[f]
          BY <2>2 DEF RunTypes, Verdicts
      <2>5. \A f \in JudgedFacts : verdict'[f] # "none" =>
               \E j \in At(order, VerdictRules) : FactOf(order[j]) = f
          BY <2>1, <2>3, <2>4 DEF VerdictInv
      <2>6. \A j \in Behind' : order[j].rule \in VerdictRules =>
               verdict'[FactOf(order[j])] # "none"
          <3> SUFFICES ASSUME NEW j \in Behind', order[j].rule \in VerdictRules
                       PROVE  verdict'[FactOf(order[j])] # "none"
              OBVIOUS
          <3>1. CASE j = at
              BY <2>3, <2>4, <3>1
          <3>2. CASE j \in Behind
              <4>1. FactOf(order[j]) \in JudgedFacts
                  BY <1>2, <3>2 DEF VerdictsNamed, At, Behind
              <4> QED
                  BY <2>4, <3>2, <4>1 DEF VerdictInv
          <3> QED
              BY <1>6, <3>1, <3>2, BehindNext
      <2>7. verdict'["LOGIN"] = "PASS" => machine'.session = "own"
          <3>1. CASE fact = "LOGIN"
              <4>1. Login /\ ~SessionOpen(machine)
                  BY <1>6, <2>2, <3>1, VerdictSteps
              <4>3. \/ verdict' = [verdict EXCEPT ![fact] = "FAIL"]
                    \/ machine' = [machine EXCEPT !.session = IF @ = "none" THEN "own" ELSE @]
                  BY <4>1 DEF Login, Asks, TheFact, fact
              <4>4. CASE verdict' = [verdict EXCEPT ![fact] = "FAIL"]
                  BY <2>2, <3>1, <4>4 DEF RunTypes
              <4>5. CASE machine' = [machine EXCEPT !.session = IF @ = "none" THEN "own" ELSE @]
                  BY <4>1, <4>5 DEF RunTypes, SessionOpen
              <4> QED
                  BY <4>3, <4>4, <4>5
          <3>2. CASE fact # "LOGIN"
              BY <1>3, <2>4, <3>2 DEF VerdictInv, JudgedFacts
          <3> QED
              BY <3>1, <3>2
      <2>8. verdict'["GTK3"] = "PASS" => machine'.session # "none"
          <3>1. CASE fact = "GTK3"
              <4>1. Judge \/ Gated
                  BY <1>6, <2>2, <3>1, VerdictSteps
              <4>2. \/ verdict' = [verdict EXCEPT ![fact] = "BLOCKED"]
                    \/ /\ machine' = machine
                       /\ \E w \in Possible(fact) : verdict' = [verdict EXCEPT ![fact] = w]
                  BY <4>1 DEF Judge, Gated, Asks, TheFact, fact
              <4>3. CASE verdict' = [verdict EXCEPT ![fact] = "BLOCKED"]
                  BY <2>2, <3>1, <4>3 DEF RunTypes
              <4>4. ASSUME machine' = machine, NEW w \in Possible(fact),
                           verdict' = [verdict EXCEPT ![fact] = w]
                    PROVE  verdict'["GTK3"] = "PASS" => machine'.session # "none"
                  <5>1. verdict'["GTK3"] = w
                      BY <2>2, <3>1, <4>4 DEF RunTypes
                  <5>2. w = "PASS" => machine.session # "none"
                      BY <3>1, <4>4 DEF Possible
                  <5> QED
                      BY <4>4, <5>1, <5>2
              <4> QED
                  BY <4>2, <4>3, <4>4
          <3>2. CASE fact # "GTK3"
              BY <1>4, <2>4, <3>2 DEF VerdictInv, JudgedFacts
          <3> QED
              BY <3>1, <3>2
      <2> QED
          BY <1>1, <2>5, <2>6, <2>7, <2>8 DEF VerdictInv
  <1> QED
      BY <1>5, <1>6, VerdictFrom

\* An entry is minted last, and from every verdict of the run.
LEMMA EntryKept == ASSUME RunInv, Steps PROVE EntryInv'
  <1> USE DEF RunInv
  <1>1. /\ order' = order /\ recipe' = recipe /\ Named /\ Named' /\ at \in DOMAIN order
        /\ stage = order[at] /\ at \in Nat \ {0}
      BY OneByOne DEF ThisRun, RunTypes, Named
  <1>2. DOMAIN order = 1..Len(order) /\ Len(order) \in Nat
      BY <1>1, OrderFacts
  <1>3. entry = "none"
      BY <1>1, <1>2 DEF EntryInv
  <1>4. CASE UNCHANGED entry
      BY <1>3, <1>4 DEF EntryInv, FoldedFromAll, PassOnOwnLogin
  <1>5. CASE /\ stage.rule = "mint" /\ at' = at + 1 /\ UNCHANGED <<machine, verdict>>
             /\ Witness(machine) = Recipes[recipe].requires
             /\ entry' = Fold({verdict[f] : f \in Reports(stage)})
      <2>1. at \in At(order, {"mint"})
          BY <1>1, <1>5 DEF At
      <2>2. at = Len(order) /\ \A j \in At(order, VerdictRules) : FactOf(order[j]) \in stage.reads
          BY <1>1, <2>1, OrderFacts DEF MintedLast
      <2>3. \A f \in JudgedFacts : verdict[f] # "none" => f \in Reports(stage)
          BY <2>2 DEF VerdictInv, Reports
      <2>4. \A f \in Reports(stage) : f \in JudgedFacts /\ verdict[f] \in Verdicts \cup {"none"}
          BY DEF Reports, RunTypes
      <2>5. \A f \in JudgedFacts : entry' = "PASS" => verdict[f] \in {"none", "PASS"}
          BY <1>5, <2>3, <2>4 DEF Fold, Verdicts
      <2>6. \A f \in JudgedFacts : verdict[f] = "FAIL" => entry' = "FAIL"
          BY <1>5, <2>3 DEF Fold
      <2>7. FoldedFromAll'
          BY <1>1, <1>5, <2>5, <2>6 DEF FoldedFromAll
      <2>8. ASSUME NEW f \in JudgedFacts, MintedAfter(order, f), entry' = "PASS"
            PROVE  verdict[f] = "PASS"
          <3> PICK j \in At(order, VerdictRules) : j < at /\ FactOf(order[j]) = f
              BY <2>1, <2>8 DEF MintedAfter
          <3>1. j \in Behind /\ order[j].rule \in VerdictRules
              BY <1>1, <1>2 DEF At, Behind
          <3>2. verdict[f] # "none"
              BY <3>1 DEF VerdictInv
          <3> QED
              BY <2>5, <2>8, <3>2
      <2>9. PassOnOwnLogin'
          <3> SUFFICES ASSUME entry' = "PASS"
                       PROVE  /\ recipe = "verify_desktop_render" => machine.session = "own"
                              /\ recipe = "verify_desktop_theme" => machine.session # "none"
              BY <1>1, <1>5 DEF PassOnOwnLogin
          <3>1. "LOGIN" \in JudgedFacts /\ "GTK3" \in JudgedFacts
              BY DEF JudgedFacts
          <3>2. recipe = "verify_desktop_render" => verdict["LOGIN"] = "PASS"
              BY <1>1, <2>8, <3>1, OrderFacts
          <3>3. recipe = "verify_desktop_theme" => verdict["GTK3"] = "PASS"
              BY <1>1, <2>8, <3>1, OrderFacts
          <3> QED
              BY <3>2, <3>3 DEF VerdictInv
      <2>10. at' > Len(order')
          BY <1>1, <1>2, <1>5, <2>2
      <2> QED
          BY <1>1, <2>7, <2>9, <2>10 DEF EntryInv
  <1> QED
      BY <1>4, <1>5, EntryFrom

(***************************************************************************)
(* The theorems about runs.                                                 *)
(***************************************************************************)

LEMMA RunStep == RunInv /\ [Next]_vars => RunInv'
  <1> SUFFICES ASSUME RunInv, [Next]_vars PROVE RunInv'
      OBVIOUS
  <1>1. RunTypes'
      BY TypesKept DEF RunInv
  <1>2. CASE Begin
      BY <1>1, <1>2, BeginKeeps DEF RunInv
  <1>3. CASE Steps
      BY <1>1, <1>3, GuardKept, RecordKept, TargetKept, VerdictKept, EntryKept DEF RunInv
  <1>4. CASE Finish \/ UNCHANGED vars
      BY <1>1, <1>4, Quiet DEF RunInv
  <1> QED
      BY <1>2, <1>3, <1>4 DEF Next, Steps

\* RunInv holds in every reachable state, for any number of runs: what a run has behind
\* it, what it left and what it concluded from that agree.
THEOREM RunsInductive == Spec => []RunInv
  <1> QED
      BY InitRuns, RunStep, PTL DEF Spec

\* No run leaves anything in a guest at the builder's port before it found the isolated
\* builder there (check_builder_stage, builder_guard_stage).
THEOREM OnlyBuildersTouched == Spec => []OnlyIsolatedBuilder
  <1>1. RunInv => OnlyIsolatedBuilder
      BY DEF RunInv, GuardInv
  <1> QED
      BY <1>1, RunsInductive, PTL

\* A record says PASS only of a build that succeeded, came home and, for packages, was
\* verified, however its run ended (record_result).
THEOREM RecordsAreEarned == Spec => []RecordIsEarned
  <1>1. RunInv => RecordIsEarned
      BY DEF RunInv, RecordInv
  <1> QED
      BY <1>1, RunsInductive, PTL

\* A frozen target is of a complete image build, whatever runs came between
\* (build_freeze_stage, target_freeze_stage).
THEOREM TargetsAreComplete == Spec => []DerivedFromCompleteImage
  <1>1. RunInv => DerivedFromCompleteImage
      BY DEF RunInv, TargetInv
  <1> QED
      BY <1>1, RunsInductive, PTL

\* An entry folds every verdict of its run, in the environment its check requires
\* (mint_stage).
THEOREM EntriesFoldAll == Spec => []FoldedFromAll
  <1>1. RunInv => FoldedFromAll
      BY DEF RunInv, EntryInv
  <1> QED
      BY <1>1, RunsInductive, PTL

\* A password check passes on the session its own run opened (login).
THEOREM PassesAreOwn == Spec => []PassOnOwnLogin
  <1>1. RunInv => PassOnOwnLogin
      BY DEF RunInv, EntryInv
  <1> QED
      BY <1>1, RunsInductive, PTL

(***************************************************************************)
(* The operations on a guest: the way back of one with a fault in its        *)
(* initramfs, and the policy that comes with a verified fixture only.        *)
(***************************************************************************)

\* A guest starts typed, without a fault, and without the fixture's policy unless it was
\* installed with it.
LEMMA InitOperations == OperationsInit => OperationsInv
  <1> SUFFICES ASSUME OperationsInit PROVE OperationsInv
      OBVIOUS
  <1> PICK start \in Starts :
        LET image == IF start.kind = "parent" THEN "parent" ELSE "a"
            pair  == start.kind = "pair"
        IN  /\ dep = [first |-> image, second |-> IF pair THEN "b" ELSE "none",
                      booted |-> image, staged |-> "none"]
            /\ etc = [i \in Images |-> Config(IF image = "parent" THEN "bootstrap" ELSE "fixture",
                                              start.retries)]
            /\ disk = [fixture |-> IF pair THEN "whole" ELSE "none", sentinel |-> pair,
                       grub |-> start.grub, isolated |-> start.isolated]
      BY DEF OperationsInit
  <1>1. start \in Guests
      BY OperationsAssumption
  <1>2. start.retries \in 1..2 /\ start.grub \in {"broken", "repaired"} /\ start.isolated \in BOOLEAN
      BY <1>1 DEF Guests
  <1>3. fault = "none" /\ phase = "up"
      BY DEF OperationsInit
  <1>4. GuestTypes
      BY <1>2 DEF GuestTypes, Slots, Images, Config
  <1>5. WayInv
      BY <1>3 DEF WayInv
  <1>6. PolicyInv
      BY DEF PolicyInv, Config
  <1> QED
      BY <1>4, <1>5, <1>6 DEF OperationsInv

\* Turning the order of the entries keeps both entries, and a fault where it is.
LEMMA TurnedKeeps ==
    ASSUME OperationsInv, Turned, UNCHANGED <<etc, disk>>
    PROVE  /\ GuestTypes' /\ PolicyInv'
           /\ fault' = fault /\ dep'.booted = dep.booted
  <1>1. fault' = fault
      BY DEF OperationsInv, WayInv, Turned
  <1>2. dep' = [first |-> dep.second, second |-> dep.first, booted |-> dep.booted,
                staged |-> "none"]
      BY DEF Turned, OperationsInv, GuestTypes
  <1>3. GuestTypes'
      BY <1>2 DEF OperationsInv, GuestTypes, Slots, Images
  <1>4. PolicyInv'
      BY <1>2 DEF OperationsInv, PolicyInv
  <1> QED
      BY <1>1, <1>2, <1>3, <1>4

\* A finalised deployment inherits the booted one's configuration, and takes its place
\* before it.
LEMMA FinalisedKeeps ==
    ASSUME NEW e, OperationsInv, dep.staged # "none", Finalised(e), UNCHANGED disk
    PROVE  /\ GuestTypes' /\ PolicyInv'
           /\ fault' = "none" /\ dep'.booted = dep.booted
  <1>1. dep' = [first |-> dep.staged, second |-> dep.booted, booted |-> dep.booted,
                staged |-> "none"]
      BY DEF Finalised, OperationsInv, GuestTypes
  <1>2. dep.staged \in Images \ {"parent"} /\ dep.booted \in Images
      BY DEF OperationsInv, GuestTypes, Slots
  <1>3. etc' = [etc EXCEPT ![dep.staged] = etc[dep.booted]]
      BY DEF Finalised, config
  <1>4. GuestTypes'
      <2>1. etc[dep.booted] \in [policy : {"bootstrap", "fixture"},
                                 armed : {"none", "half", "whole"}, retries : 1..2]
          BY <1>2 DEF OperationsInv, GuestTypes
      <2> QED
          BY <1>1, <1>2, <1>3, <2>1 DEF OperationsInv, GuestTypes, Slots
  <1>5. PolicyInv'
      <2> SUFFICES ASSUME "parent" \in {dep'.first, dep'.second}, disk.fixture # "whole"
                   PROVE  \A i \in Images : etc'[i].policy = "bootstrap"
          BY <1>1 DEF PolicyInv
      <2>1. dep.booted = "parent"
          BY <1>1, <1>2
      <2>2. \A i \in Images : etc[i].policy = "bootstrap"
          BY <2>1 DEF OperationsInv, PolicyInv
      <2> QED
          BY <1>2, <1>3, <2>2 DEF OperationsInv, GuestTypes
  <1> QED
      BY <1>1, <1>4, <1>5 DEF Finalised

\* An orderly shutdown keeps the invariant, whatever it does to GRUB's environment.
LEMMA ShutDownKeeps ==
    ASSUME NEW e, OperationsInv, ShutDown(e), UNCHANGED disk
    PROVE  OperationsInv'
  <1>1. phase' = "down"
      BY DEF ShutDown
  <1>2. CASE dep.staged # "none"
      <2>1. GuestTypes' /\ PolicyInv' /\ fault' = "none"
          BY <1>2, FinalisedKeeps DEF ShutDown
      <2> QED
          BY <1>1, <2>1 DEF OperationsInv, WayInv
  <1>3. CASE dep.staged = "none"
      <2>1. UNCHANGED <<dep, etc, fault>>
          BY <1>3 DEF ShutDown
      <2> QED
          BY <1>1, <2>1 DEF OperationsInv, GuestTypes, WayInv, PolicyInv
  <1> QED
      BY <1>2, <1>3

\* Steps that change neither entries nor configurations nor what is shared, and lead
\* to no stuck boot.
LEMMA ElseKeeps ==
    ASSUME OperationsInv, UNCHANGED <<dep, etc, disk, fault>>,
           phase' = phase \/ phase' # "stuck"
    PROVE  OperationsInv'
  BY DEF OperationsInv, GuestTypes, WayInv, PolicyInv

\* GRUB boots one of the two entries, and is stuck only at one that names the fault.
LEMMA PowerOnKeeps == OperationsInv /\ PowerOn => OperationsInv'
  <1> SUFFICES ASSUME OperationsInv, PowerOn PROVE OperationsInv'
      OBVIOUS
  <1> PICK image \in {dep.first, dep.second} \ {"none"} :
        /\ dep' = [dep EXCEPT !.booted = image]
        /\ phase' = IF fault = image THEN "stuck" ELSE "starting"
      BY DEF PowerOn
  <1>1. UNCHANGED <<etc, disk, fault>>
      BY DEF PowerOn
  <1>2. image \in Images
      BY DEF OperationsInv, GuestTypes, Slots
  <1>3. dep' = [first |-> dep.first, second |-> dep.second, booted |-> image,
                staged |-> dep.staged]
      BY DEF OperationsInv, GuestTypes
  <1>4. GuestTypes'
      BY <1>1, <1>2, <1>3 DEF OperationsInv, GuestTypes
  <1>5. WayInv'
      BY <1>1, <1>2, <1>3 DEF OperationsInv, WayInv, Images
  <1>6. PolicyInv'
      BY <1>1, <1>3 DEF OperationsInv, PolicyInv
  <1> QED
      BY <1>4, <1>5, <1>6 DEF OperationsInv

\* A provision puts the policy in force last, over a whole fixture.
LEMMA ProvisionKeeps == OperationsInv /\ Provision => OperationsInv'
  <1> SUFFICES ASSUME OperationsInv, Provision PROVE OperationsInv'
      OBVIOUS
  <1> PICK n \in DOMAIN ProvisionSteps :
        /\ disk' = [disk EXCEPT !.fixture = ProvisionSteps[n][1]]
        /\ etc' = IF ProvisionSteps[n][2]
                  THEN [etc EXCEPT ![dep.booted].policy = "fixture"] ELSE etc
      BY DEF Provision
  <1>1. UNCHANGED <<dep, fault, phase>> /\ disk.fixture = "none"
      BY DEF Provision
  <1>2. n \in 1..3
      BY DEF ProvisionSteps
  <1>3. /\ ProvisionSteps[n][1] \in {"partial", "whole"}
        /\ ProvisionSteps[n][2] \in BOOLEAN
        /\ ProvisionSteps[n][2] => ProvisionSteps[n][1] = "whole"
      <2>1. CASE n = 1
          BY <2>1 DEF ProvisionSteps
      <2>2. CASE n = 2
          BY <2>2 DEF ProvisionSteps
      <2>3. CASE n = 3
          BY <2>3 DEF ProvisionSteps
      <2> QED
          BY <1>2, <2>1, <2>2, <2>3
  <1>4. /\ disk'.fixture = ProvisionSteps[n][1] /\ disk'.isolated = disk.isolated
        /\ disk' \in [fixture : {"none", "partial", "whole"}, sentinel : BOOLEAN,
                      grub : {"broken", "repaired"}, isolated : BOOLEAN]
      BY <1>3 DEF OperationsInv, GuestTypes
  <1>5. GuestTypes'
      BY <1>1, <1>3, <1>4 DEF OperationsInv, GuestTypes
  <1>6. WayInv'
      BY <1>1, <1>4 DEF OperationsInv, WayInv
  <1>7. PolicyInv'
      <2>1. CASE ProvisionSteps[n][2]
          BY <2>1, <1>1, <1>3, <1>4 DEF OperationsInv, PolicyInv
      <2>2. CASE ~ProvisionSteps[n][2]
          BY <2>2, <1>1 DEF OperationsInv, PolicyInv
      <2> QED
          BY <2>1, <2>2
  <1> QED
      BY <1>5, <1>6, <1>7 DEF OperationsInv

\* The units that write one thing in A: its drop-ins, its configuration, GRUB's file.
LEMMA UnitsKeep == OperationsInv /\ (RepairGrub \/ ArmGdm \/ RetryConfig) => OperationsInv'
  <1> SUFFICES ASSUME OperationsInv, RepairGrub \/ ArmGdm \/ RetryConfig PROVE OperationsInv'
      OBVIOUS
  <1>1. CASE RepairGrub
      <2>1. disk' = [disk EXCEPT !.grub = "repaired"] /\ UNCHANGED <<dep, etc, fault, phase>>
          BY <1>1 DEF RepairGrub
      <2> QED
          BY <2>1 DEF OperationsInv, GuestTypes, WayInv, PolicyInv
  <1>2. CASE ArmGdm
      <2> PICK armed \in {"half", "whole"} : etc' = [etc EXCEPT !["a"].armed = armed]
          BY <1>2 DEF ArmGdm
      <2>1. UNCHANGED <<dep, disk, fault, phase>>
          BY <1>2 DEF ArmGdm
      <2>2. GuestTypes'
          BY <2>1 DEF OperationsInv, GuestTypes
      <2>3. \A i \in Images : etc'[i].policy = etc[i].policy
          BY DEF OperationsInv, GuestTypes
      <2> QED
          BY <2>1, <2>2, <2>3 DEF OperationsInv, WayInv, PolicyInv
  <1>3. CASE RetryConfig
      <2>1. etc' = [etc EXCEPT !["a"].retries = 1] /\ UNCHANGED <<dep, disk, fault, phase>>
          BY <1>3 DEF RetryConfig, OneRetry
      <2>2. GuestTypes'
          <3>1. etc' \in [Images -> [policy : {"bootstrap", "fixture"},
                                     armed : {"none", "half", "whole"}, retries : 1..2]]
              <4>1. 1 \in 1..2
                  OBVIOUS
              <4> QED
                  BY <2>1, <4>1 DEF OperationsInv, GuestTypes, Images
          <3> QED
              BY <2>1, <3>1 DEF OperationsInv, GuestTypes
      <2>3. \A i \in Images : etc'[i].policy = etc[i].policy
          BY <2>1 DEF OperationsInv, GuestTypes
      <2> QED
          BY <2>1, <2>2, <2>3 DEF OperationsInv, WayInv, PolicyInv
  <1> QED
      BY <1>1, <1>2, <1>3

LEMMA OperationsStep == OperationsInv /\ [OperationsNext]_operationsVars => OperationsInv'
  <1> SUFFICES ASSUME OperationsInv, [OperationsNext]_operationsVars PROVE OperationsInv'
      OBVIOUS
  <1>1. CASE PowerOn
      BY <1>1, PowerOnKeeps
  <1>2. CASE Watch
      BY <1>2, ElseKeeps DEF Watch
  <1>3. CASE HealthCheck
      <2>1. phase' # "stuck" /\ UNCHANGED <<etc, disk>>
          BY <1>3 DEF HealthCheck
      <2>2. UNCHANGED <<dep, fault>> \/ Turned
          BY <1>3 DEF HealthCheck
      <2>3. CASE Turned
          <3>1. GuestTypes' /\ PolicyInv' /\ fault' = fault
              BY <2>1, <2>3, TurnedKeeps
          <3> QED
              BY <2>1, <3>1 DEF OperationsInv, WayInv
      <2> QED
          BY <2>1, <2>2, <2>3, ElseKeeps
  <1>4. CASE Retry
      BY <1>4, ShutDownKeeps DEF Retry
  <1>5. CASE FallBack
      <2>1. phase' = "down" /\ Turned /\ UNCHANGED <<etc, disk>>
          BY <1>5 DEF FallBack
      <2>2. GuestTypes' /\ PolicyInv' /\ fault' = fault
          BY <2>1, TurnedKeeps
      <2> QED
          BY <2>1, <2>2 DEF OperationsInv, WayInv
  <1>6. CASE PowerCut
      <2>1. /\ dep' = [dep EXCEPT !.staged = "none"] /\ phase' = "down"
            /\ UNCHANGED <<etc, disk, fault>>
          BY <1>6 DEF PowerCut
      <2> QED
          BY <2>1 DEF OperationsInv, GuestTypes, WayInv, PolicyInv, Slots
  <1>7. CASE Reboot
      BY <1>7, ShutDownKeeps DEF Reboot
  <1>8. CASE Finalise
      <2>1. GuestTypes' /\ PolicyInv' /\ fault' = "none" /\ phase = "up" /\ phase' = phase
          BY <1>8, FinalisedKeeps DEF Finalise
      <2> QED
          BY <2>1 DEF OperationsInv, WayInv
  <1>9. CASE BeginCommand \/ GivesUp
      BY <1>9, ElseKeeps DEF BeginCommand, GivesUp, World
  <1>10. CASE Provision
      BY <1>10, ProvisionKeeps
  <1>11. CASE Switch
      <2>1. UNCHANGED <<etc, disk, fault, phase>>
          BY <1>11 DEF Switch
      <2>2. dep' = dep \/ dep' = [dep EXCEPT !.staged = Source]
          BY <1>11 DEF Switch
      <2>3. Source \in {"a", "b"}
          BY DEF Source
      <2>4. CASE dep' = [dep EXCEPT !.staged = Source]
          BY <2>1, <2>3, <2>4 DEF OperationsInv, GuestTypes, WayInv, PolicyInv, Slots, Images
      <2> QED
          BY <2>1, <2>2, <2>4, ElseKeeps
  <1>12. CASE Rollback
      <2>1. Turned /\ UNCHANGED <<etc, disk, phase>>
          BY <1>12 DEF Rollback
      <2>2. GuestTypes' /\ PolicyInv' /\ fault' = fault /\ dep'.booted = dep.booted
          BY <2>1, TurnedKeeps
      <2> QED
          BY <2>1, <2>2 DEF OperationsInv, WayInv
  <1>13. CASE Confirm
      <2>1. /\ disk' = [disk EXCEPT !.sentinel = @ \/ cmd.action \in {"provision", "provision-a"}]
            /\ UNCHANGED <<dep, etc, fault, phase>>
          BY <1>13 DEF Confirm
      <2>2. /\ disk'.fixture = disk.fixture /\ disk'.isolated = disk.isolated
            /\ disk' \in [fixture : {"none", "partial", "whole"}, sentinel : BOOLEAN,
                          grub : {"broken", "repaired"}, isolated : BOOLEAN]
          BY <2>1 DEF OperationsInv, GuestTypes
      <2> QED
          BY <2>1, <2>2 DEF OperationsInv, GuestTypes, WayInv, PolicyInv
  <1>14. CASE RepairGrub \/ ArmGdm \/ RetryConfig
      BY <1>14, UnitsKeep
  <1>15. CASE RebootGuest
      BY <1>15, ShutDownKeeps DEF RebootGuest
  <1>16. CASE Inject
      <2>1. fault' = "b" /\ disk.isolated /\ UNCHANGED <<dep, etc, disk, phase>>
          BY <1>16 DEF Inject, Isolated
      <2> QED
          BY <2>1 DEF OperationsInv, GuestTypes, WayInv, PolicyInv
  <1>17. CASE UNCHANGED operationsVars
      BY <1>17, ElseKeeps DEF operationsVars
  <1> QED
      BY <1>1, <1>2, <1>3, <1>4, <1>5, <1>6, <1>7, <1>8, <1>9, <1>10, <1>11, <1>12, <1>13,
         <1>14, <1>15, <1>16, <1>17 DEF OperationsNext

\* OperationsInv holds in every reachable state: what is kept from boot to boot has its
\* type, the fault stays on B's entry, and the parent's policy waits for the fixture.
THEOREM OperationsInductive == OperationsSpec => []OperationsInv
  <1>1. OperationsInit => OperationsInv
      BY InitOperations
  <1>2. OperationsInv /\ [OperationsNext]_operationsVars => OperationsInv'
      BY OperationsStep
  <1> QED
      BY <1>1, <1>2, PTL DEF OperationsSpec

\* A boot is stuck at B's entry only, for any number of rollbacks, rescues, updates and
\* losses of power after the fault was laid (require_isolated).
THEOREM WayBackHolds == OperationsSpec => []WayBackBoots
  <1>1. OperationsInv => WayBackBoots
      BY DEF OperationsInv, WayInv, WayBackBoots
  <1> QED
      BY <1>1, OperationsInductive, PTL

\* As long as the parent has an entry, a guest updates by the fixture's policy only
\* after every file of the fixture was verified (update_provision_unit).
THEOREM PolicyHolds == OperationsSpec => []PolicyOnlyVerified
  <1>1. OperationsInv => PolicyOnlyVerified
      BY DEF OperationsInv, GuestTypes, PolicyInv, PolicyOnlyVerified, config
  <1> QED
      BY <1>1, OperationsInductive, PTL

(***************************************************************************)
(* The boots of a guest: what a fallback judged from its journal stands for.  *)
(***************************************************************************)

LEMMA FreshBoot ==
    ASSUME NEW image \in Images, NEW c, NEW e \in Environments
    PROVE  /\ Boot(image, c, e) \in BootRecords
           /\ Boot(image, c, e).image = image
           /\ Boot(image, c, e).watched = (c.armed = "whole")
           /\ Boot(image, c, e).broken = (c.armed # "none" /\ image = "b")
           /\ Boot(image, c, e).went = 0 /\ Boot(image, c, e).kept = 0
  BY DEF Boot, BootRecords, Environments

LEMMA BootChanged ==
    ASSUME NEW boot \in BootRecords, NEW w \in 0..3, NEW k \in 0..3
    PROVE  LET next == [boot EXCEPT !.went = w, !.kept = k] IN
           /\ next \in BootRecords /\ next.went = w /\ next.kept = k
           /\ next.image = boot.image /\ next.watched = boot.watched
           /\ next.broken = boot.broken
  BY DEF BootRecords

LEMMA Replaced ==
    ASSUME NEW S, NEW s \in Seq(S), NEW n \in 1..Len(s), NEW x \in S
    PROVE  /\ [s EXCEPT ![n] = x] \in Seq(S) /\ Len([s EXCEPT ![n] = x]) = Len(s)
           /\ \A i \in 1..Len(s) : [s EXCEPT ![n] = x][i] = IF i = n THEN x ELSE s[i]
  OBVIOUS

\* A guest starts with one boot that was judged, and nothing armed.
LEMMA InitHistories == OperationsInit => HistoriesInv
  <1> SUFFICES ASSUME OperationsInit PROVE HistoriesInv
      OBVIOUS
  <1>1. OperationsInv
      BY InitOperations
  <1>2. /\ env = Settled /\ phase = "up" /\ spent = [changes |-> 0, upsets |-> 0]
        /\ \A i \in Images : etc[i].armed = "none"
      BY DEF OperationsInit, Config
  <1>3. PICK boot \in BootRecords : /\ boots = <<boot>> /\ boot.went = 2 /\ boot.kept = 2
                                    /\ ~boot.watched /\ ~boot.broken
      <2> PICK start \in Starts :
            LET image == IF start.kind = "parent" THEN "parent" ELSE "a"
            IN  boots = <<[Boot(image, etc[image], Settled)
                           EXCEPT !.went = 2, !.kept = 2]>>
          BY DEF OperationsInit
      <2> DEFINE image == IF start.kind = "parent" THEN "parent" ELSE "a"
                 fresh == Boot(image, etc[image], Settled)
      <2>1. image \in Images /\ etc[image].armed = "none"
          BY <1>2 DEF Images
      <2>2. boots = <<[fresh EXCEPT !.went = 2, !.kept = 2]>>
          OBVIOUS
      <2>3. Settled \in Environments
          BY DEF Settled, Environments, Absent, Slots
      <2> HIDE DEF image
      <2>4. fresh \in BootRecords /\ ~fresh.watched /\ ~fresh.broken
          BY <2>1, <2>3, FreshBoot
      <2> DEFINE judged == [fresh EXCEPT !.went = 2, !.kept = 2]
      <2> HIDE DEF fresh
      <2>5. 2 \in 0..3
          OBVIOUS
      <2>6. /\ judged \in BootRecords /\ judged.went = 2 /\ judged.kept = 2
            /\ ~judged.watched /\ ~judged.broken
          BY <2>4, <2>5 DEF BootRecords
      <2>7. boots = <<judged>>
          BY <2>2
      <2> HIDE DEF judged
      <2> QED
          BY <2>6, <2>7
  <1>4. now = 1 /\ boots[1] = boot
      BY <1>3 DEF now
  <1>5. BootTypes
      BY <1>2, <1>3, <1>4 DEF BootTypes, Settled, Environments, Absent, Slots
  <1>6. ArmedInv
      BY <1>2 DEF ArmedInv, Images
  <1>7. HistoryInv
      BY <1>3, <1>4 DEF HistoryInv
  <1> QED
      BY <1>1, <1>5, <1>6, <1>7 DEF HistoriesInv

\* The last boot, changed in how far it went and in what is kept of it.
LEMMA LastChanged ==
    ASSUME BootTypes, NEW w \in 0..3, NEW k \in 0..3,
           boots' = [boots EXCEPT ![now].went = w, ![now].kept = k]
    PROVE  /\ boots' \in Seq(BootRecords) /\ now' = now
           /\ \A i \in 1..now : i # now => boots'[i] = boots[i]
           /\ boots'[now] = [boots[now] EXCEPT !.went = w, !.kept = k]
  <1>1. now \in 1..Len(boots) /\ Len(boots) \in Nat
      BY DEF BootTypes, now
  <1> DEFINE boot == [boots[now] EXCEPT !.went = w, !.kept = k]
  <1>2. boots' = [boots EXCEPT ![now] = boot]
      BY <1>1 DEF BootTypes
  <1>3. boots[now] \in BootRecords
      BY <1>1 DEF BootTypes
  <1>4. boot \in BootRecords
      BY <1>3, BootChanged
  <1> HIDE DEF boot
  <1>5. boots \in Seq(BootRecords) /\ now = Len(boots)
      BY DEF BootTypes, now
  <1>6. /\ boots' \in Seq(BootRecords) /\ Len(boots') = Len(boots)
        /\ \A i \in 1..Len(boots) : boots'[i] = IF i = now THEN boot ELSE boots[i]
      BY <1>1, <1>2, <1>4, <1>5, Replaced
  <1> QED
      BY <1>1, <1>5, <1>6 DEF now, boot

LEMMA Appended ==
    ASSUME NEW S, NEW s \in Seq(S), NEW x \in S
    PROVE  /\ Append(s, x) \in Seq(S) /\ Len(Append(s, x)) = Len(s) + 1
           /\ Len(s) \in Nat /\ Append(s, x)[Len(s) + 1] = x
           /\ \A i \in 1..Len(s) : Append(s, x)[i] = s[i]
  OBVIOUS

\* Steps without a boot: the history stays as long as B, once armed, is armed as before.
LEMMA HistoryStays ==
    ASSUME HistoriesInv, UNCHANGED boots, spent'.upsets = spent.upsets,
           etc["b"].armed # "none" => etc'["b"].armed = etc["b"].armed,
           phase \in {"starting", "stuck"} => phase' = phase
    PROVE  HistoryInv'
  <1>1. now' = now /\ boots' = boots /\ spent'.upsets = spent.upsets
      BY DEF now
  <1>2. \A i \in 1..now : boots[i].broken => etc'["b"].armed = etc["b"].armed
      BY DEF HistoriesInv, HistoryInv
  <1> QED
      BY <1>1, <1>2 DEF HistoriesInv, HistoryInv

\* Entries that were there before, and configurations that are as they were.
LEMMA ArmedStays ==
    ASSUME HistoriesInv, \A i \in Images : etc'[i].armed = etc[i].armed,
           {dep'.first, dep'.second} \subseteq {dep.first, dep.second}
    PROVE  ArmedInv'
  BY DEF HistoriesInv, ArmedInv, Images

\* A deployment inherits what the booted one is armed with.
LEMMA ArmedFinalised ==
    ASSUME NEW e, HistoriesInv, dep.staged # "none", Finalised(e)
    PROVE  ArmedInv' /\ (etc["b"].armed # "none" => etc'["b"].armed = etc["b"].armed)
  <1>1. dep' = [first |-> dep.staged, second |-> dep.booted, booted |-> dep.booted,
                staged |-> "none"]
      BY DEF Finalised, HistoriesInv, OperationsInv, GuestTypes
  <1>2. dep.staged \in {"a", "b"} /\ dep.booted \in Images
      BY DEF HistoriesInv, OperationsInv, GuestTypes, Slots, Images
  <1>3. dep.booted \in {dep.first, dep.second}
      BY DEF HistoriesInv, OperationsInv, PolicyInv
  <1>4. \A i \in Images : etc'[i] = IF i = dep.staged THEN etc[dep.booted] ELSE etc[i]
      BY DEF Finalised, HistoriesInv, OperationsInv, GuestTypes, config
  <1>5. /\ etc["parent"].armed = "none"
        /\ etc["b"].armed # "none" =>
              etc["a"].armed = etc["b"].armed /\ "parent" \notin {dep.first, dep.second}
      BY DEF HistoriesInv, ArmedInv
  <1>6. CASE dep.booted = "parent"
      BY <1>1, <1>2, <1>3, <1>4, <1>5, <1>6 DEF ArmedInv, Images
  <1>7. CASE dep.booted \in {"a", "b"}
      BY <1>1, <1>2, <1>4, <1>5, <1>7 DEF ArmedInv, Images
  <1> QED
      BY <1>2, <1>6, <1>7 DEF Images

\* Steps without a boot.
LEMMA WithoutBoot ==
    ASSUME HistoriesInv, UNCHANGED <<boots, env>>, spent' \in [changes : Nat, upsets : Nat],
           spent'.upsets = spent.upsets, phase' = phase,
           \A i \in Images : etc'[i].armed = etc[i].armed,
           {dep'.first, dep'.second} \subseteq {dep.first, dep.second}
    PROVE  BootTypes' /\ ArmedInv' /\ HistoryInv'
  <1>1. BootTypes'
      BY DEF HistoriesInv, BootTypes, now
  <1>2. HistoryInv'
      BY HistoryStays DEF Images
  <1> QED
      BY <1>1, <1>2, ArmedStays

LEMMA ShutDownHistory ==
    ASSUME NEW e \in Environments, HistoriesInv, ShutDown(e), UNCHANGED boots,
           spent' \in [changes : Nat, upsets : Nat], spent'.upsets = spent.upsets,
           phase \notin {"starting", "stuck"}
    PROVE  BootTypes' /\ ArmedInv' /\ HistoryInv'
  <1>1. phase' = "down"
      BY DEF ShutDown
  <1>2. CASE dep.staged # "none"
      <2>1. Finalised(e)
          BY <1>2 DEF ShutDown
      <2>2. env' = [e EXCEPT !.next = dep.staged]
          BY <2>1 DEF Finalised
      <2>3. dep.staged \in Slots
          BY DEF HistoriesInv, OperationsInv, GuestTypes
      <2>4. env' \in Environments
          BY <2>2, <2>3 DEF Environments
      <2>5. BootTypes'
          BY <1>1, <2>4 DEF HistoriesInv, BootTypes, now
      <2>6. ArmedInv' /\ (etc["b"].armed # "none" => etc'["b"].armed = etc["b"].armed)
          BY <1>2, <2>1, ArmedFinalised
      <2> QED
          BY <2>5, <2>6, HistoryStays
  <1>3. CASE dep.staged = "none"
      <2>1. env' = e /\ UNCHANGED <<dep, etc>>
          BY <1>3 DEF ShutDown
      <2>2. BootTypes'
          BY <1>1, <2>1 DEF HistoriesInv, BootTypes, now
      <2> QED
          BY <2>1, <2>2, ArmedStays, HistoryStays
  <1> QED
      BY <1>2, <1>3

\* A power-on adds a boot of what the booted image is armed with.
LEMMA PowerOnHistory ==
    ASSUME HistoriesInv, PowerOn
    PROVE  BootTypes' /\ ArmedInv' /\ HistoryInv'
  <1>1. PICK image \in {dep.first, dep.second} \ {"none"},
             saves \in (IF disk.grub = "repaired" THEN {TRUE} ELSE BOOLEAN),
             picked \in BOOLEAN, counts \in BOOLEAN :
          LET saved == [env EXCEPT !.success = FALSE,
                                   !.counter = IF counts /\ @ > 0 THEN @ - 1 ELSE @]
          IN  /\ counts => env.counter # Absent
              /\ env' = IF saves THEN saved ELSE env
              /\ dep' = [dep EXCEPT !.booted = image]
              /\ boots' = Append(boots, Boot(image, etc[image], env'))
              /\ phase' = IF fault = image THEN "stuck" ELSE "starting"
              /\ spent' = IF picked THEN spent ELSE [spent EXCEPT !.upsets = @ + 1]
      BY DEF PowerOn
  <1>2. image \in Images
      BY DEF HistoriesInv, OperationsInv, GuestTypes, Slots
  <1>3. env' \in Environments
      <2>1. env \in Environments
          BY DEF HistoriesInv, BootTypes
      <2>2. \A n \in 0..Absent : n > 0 => n - 1 \in 0..Absent
          BY DEF Absent
      <2> QED
          BY <1>1, <2>1, <2>2 DEF Environments
  <1> DEFINE boot == Boot(image, etc[image], env')
  <1>4. /\ boot \in BootRecords /\ boot.image = image /\ boot.went = 0 /\ boot.kept = 0
        /\ boot.watched = (etc[image].armed = "whole")
        /\ boot.broken = (etc[image].armed # "none" /\ image = "b")
      BY <1>2, <1>3, FreshBoot
  <1>5. boots' = Append(boots, boot)
      BY <1>1
  <1> HIDE DEF boot
  <1>6. boots \in Seq(BootRecords) /\ now = Len(boots) /\ now >= 1
      BY DEF HistoriesInv, BootTypes, now
  <1>7. /\ boots' \in Seq(BootRecords) /\ now' = now + 1 /\ now \in Nat /\ boots'[now + 1] = boot
        /\ \A i \in 1..now : boots'[i] = boots[i]
      BY <1>4, <1>5, <1>6, Appended DEF now
  <1>8. /\ spent' \in [changes : Nat, upsets : Nat]
        /\ spent'.upsets = 0 => spent.upsets = 0
      BY <1>1 DEF HistoriesInv, BootTypes
  <1>9. phase' \in {"starting", "stuck"} /\ phase = "down"
      BY <1>1 DEF PowerOn
  <1>10. BootTypes'
      BY <1>3, <1>6, <1>7, <1>8, <1>9 DEF BootTypes
  <1>11. dep'.first = dep.first /\ dep'.second = dep.second /\ etc' = etc
      BY <1>1 DEF HistoriesInv, OperationsInv, GuestTypes, PowerOn
  <1>12. ArmedInv'
      BY <1>11 DEF HistoriesInv, ArmedInv
  <1>13. HistoryInv'
      <2>1. etc["b"].armed \in {"none", "half", "whole"}
          BY DEF HistoriesInv, OperationsInv, GuestTypes, Images
      <2>2. ASSUME NEW i \in 1..now'
            PROVE  /\ boots'[i].kept <= boots'[i].went
                   /\ boots'[i].broken => boots'[i].image = "b"
                   /\ boots'[i].image = "b" /\ boots'[i].watched => boots'[i].broken
                   /\ boots'[i].broken =>
                         etc["b"].armed = IF boots'[i].watched THEN "whole" ELSE "half"
          <3>1. CASE i \in 1..now
              BY <1>7, <3>1 DEF HistoriesInv, HistoryInv
          <3>2. CASE i = now + 1
              <4>1. boots'[i] = boot
                  BY <1>7, <3>2
              <4>2. /\ boot.broken => image = "b" /\ etc["b"].armed # "none"
                    /\ image = "b" /\ boot.watched => boot.broken
                    /\ boot.watched <=> etc[image].armed = "whole"
                  BY <1>4
              <4>3. boot.broken => etc["b"].armed = IF boot.watched THEN "whole" ELSE "half"
                  BY <2>1, <4>2
              <4>4. boot.kept <= boot.went
                  BY <1>4
              <4> QED
                  BY <1>4, <4>1, <4>2, <4>3, <4>4
          <3> QED
              BY <1>7, <2>2, <3>1, <3>2
      <2>3. ASSUME spent'.upsets = 0, NEW i \in 1..now'
            PROVE  /\ boots'[i].kept = boots'[i].went
                   /\ boots'[i].went = 0 => i = now' /\ phase' \in {"starting", "stuck"}
          <3>1. CASE i \in 1..now
              BY <1>7, <1>8, <1>9, <2>3, <3>1 DEF HistoriesInv, HistoryInv
          <3>2. CASE i = now + 1
              BY <1>4, <1>7, <1>9, <3>2
          <3> QED
              BY <1>7, <2>3, <3>1, <3>2
      <2>4. ASSUME NEW i \in 1..now', boots'[i].broken, NEW j \in i..now'
            PROVE  /\ boots'[j].image # "parent"
                   /\ boots'[j].image = "b" => boots'[j].broken
          <3>1. CASE j \in 1..now
              <4> i \in 1..now /\ j \in i..now
                  BY <1>7, <2>4, <3>1
              <4> QED
                  BY <1>7, <2>4, <3>1 DEF HistoriesInv, HistoryInv
          <3>2. CASE j = now + 1
              <4>1. etc["b"].armed # "none"
                  BY <2>2, <2>4
              <4>2. image # "parent"
                  BY <1>1, <4>1 DEF HistoriesInv, ArmedInv
              <4> QED
                  BY <1>4, <1>7, <3>2, <4>1, <4>2
          <3> QED
              BY <1>7, <2>4, <3>1, <3>2
      <2> QED
          BY <1>11, <2>2, <2>3, <2>4 DEF HistoryInv
  <1> QED
      BY <1>10, <1>12, <1>13

\* Steps that only tell how far the last boot went, or what its journal keeps of it.
LEMMA LastBootHistory ==
    ASSUME HistoriesInv, NEW w \in 0..3, NEW k \in 0..3, k <= w,
           boots' = [boots EXCEPT ![now].went = w, ![now].kept = k],
           spent' \in [changes : Nat, upsets : Nat],
           spent'.upsets = 0 => spent.upsets = 0 /\ k = w /\ w # 0,
           phase' \in {"starting", "stuck", "watched", "rejected", "up", "down"},
           env' \in Environments, etc' = etc,
           {dep'.first, dep'.second} \subseteq {dep.first, dep.second}
    PROVE  BootTypes' /\ ArmedInv' /\ HistoryInv'
  <1>1. now \in 1..now /\ boots[now] \in BootRecords /\ boots \in Seq(BootRecords)
      BY DEF HistoriesInv, BootTypes, now
  <1>2. /\ boots' \in Seq(BootRecords) /\ now' = now
        /\ \A i \in 1..now : i # now => boots'[i] = boots[i]
        /\ boots'[now] = [boots[now] EXCEPT !.went = w, !.kept = k]
      BY LastChanged DEF HistoriesInv
  <1> DEFINE boot == boots[now]
             next == boots'[now]
  <1>3. /\ next.went = w /\ next.kept = k /\ next.image = boot.image
        /\ next.watched = boot.watched /\ next.broken = boot.broken
      BY <1>1, <1>2 DEF BootRecords
  <1> HIDE DEF boot, next
  <1>4. BootTypes'
      BY <1>1, <1>2 DEF HistoriesInv, BootTypes
  <1>5. ArmedInv'
      BY DEF HistoriesInv, ArmedInv
  <1>6. ASSUME NEW i \in 1..now
        PROVE  /\ boots'[i].kept <= boots'[i].went
               /\ boots'[i].broken => boots'[i].image = "b"
               /\ boots'[i].image = "b" /\ boots'[i].watched => boots'[i].broken
               /\ boots'[i].broken =>
                     etc["b"].armed = IF boots'[i].watched THEN "whole" ELSE "half"
      <2>1. CASE i # now
          BY <1>2, <2>1 DEF HistoriesInv, HistoryInv
      <2>2. CASE i = now
          BY <1>1, <1>3, <2>2 DEF HistoriesInv, HistoryInv, boot, next
      <2> QED
          BY <2>1, <2>2
  <1>7. ASSUME spent'.upsets = 0, NEW i \in 1..now
        PROVE  boots'[i].kept = boots'[i].went /\ boots'[i].went # 0
      <2>1. CASE i # now
          BY <1>2, <1>7, <2>1 DEF HistoriesInv, HistoryInv
      <2>2. CASE i = now
          BY <1>3, <1>7, <2>2 DEF next
      <2> QED
          BY <2>1, <2>2
  <1>8. \A i \in 1..now : /\ boots'[i].broken = boots[i].broken
                          /\ boots'[i].image = boots[i].image
      BY <1>2, <1>3 DEF boot, next
  <1>9. ASSUME NEW i \in 1..now, boots'[i].broken, NEW j \in i..now
        PROVE  /\ boots'[j].image # "parent"
               /\ boots'[j].image = "b" => boots'[j].broken
      <2>1. j \in 1..now
          BY <1>1, <1>9
      <2> QED
          BY <1>8, <1>9, <2>1 DEF HistoriesInv, HistoryInv
  <1>10. HistoryInv'
      BY <1>2, <1>6, <1>7, <1>9 DEF HistoryInv
  <1> QED
      BY <1>4, <1>5, <1>10

\* An arming writes what B does not have yet.
LEMMA ArmGdmHistory ==
    ASSUME HistoriesInv, ArmGdm
    PROVE  BootTypes' /\ ArmedInv' /\ HistoryInv'
  <1>1. /\ dep.booted = "a" /\ etc["a"].armed = "none"
        /\ UNCHANGED <<dep, env, phase, boots>>
        /\ spent' = [spent EXCEPT !.changes = @ + 1]
      BY DEF ArmGdm, HealthyPair, config, Spends
  <1>2. etc["b"].armed = "none"
      BY <1>1 DEF HistoriesInv, ArmedInv
  <1>3. \A i \in Images : i # "a" => etc'[i] = etc[i]
      BY DEF ArmGdm, HistoriesInv, OperationsInv, GuestTypes
  <1>4. etc'["b"].armed = "none" /\ etc'["parent"].armed = "none"
      BY <1>2, <1>3 DEF Images, HistoriesInv, ArmedInv
  <1>5. spent' \in [changes : Nat, upsets : Nat] /\ spent'.upsets = spent.upsets
      BY <1>1 DEF HistoriesInv, BootTypes
  <1>6. BootTypes'
      BY <1>1, <1>5 DEF HistoriesInv, BootTypes, now
  <1>7. ArmedInv'
      BY <1>4 DEF ArmedInv
  <1>8. HistoryInv'
      BY <1>1, <1>2, <1>5, HistoryStays
  <1> QED
      BY <1>6, <1>7, <1>8

\* The steps of GRUB, greenboot, bootc and power.
LEMMA BootHistory ==
    ASSUME HistoriesInv,
           PowerOn \/ Watch \/ HealthCheck \/ Retry \/ FallBack \/ PowerCut \/ Reboot \/ Finalise
    PROVE  BootTypes' /\ ArmedInv' /\ HistoryInv'
  <1>1. /\ spent \in [changes : Nat, upsets : Nat] /\ env \in Environments
        /\ boots \in Seq(BootRecords) /\ now \in 1..now
        /\ boots[now] \in BootRecords /\ boots[now].kept <= boots[now].went
      BY DEF HistoriesInv, BootTypes, HistoryInv, now
  <1>2. CASE Watch
      <2>1. 1 \in 0..3
          OBVIOUS
      <2>2. /\ boots' = [boots EXCEPT ![now].went = 1, ![now].kept = 1]
            /\ UNCHANGED <<dep, etc, env, spent>> /\ phase' = "watched"
          BY <1>2 DEF Watch
      <2> QED
          BY <1>1, <2>1, <2>2, LastBootHistory
  <1>3. CASE HealthCheck
      <2>1. 2 \in 0..3
          OBVIOUS
      <2>2. /\ boots' = [boots EXCEPT ![now].went = 2, ![now].kept = 2]
            /\ UNCHANGED <<etc, spent>> /\ phase' \in {"rejected", "up"}
            /\ env' = env \/ env' = Settled
            /\ UNCHANGED dep \/ Turned
          BY <1>3 DEF HealthCheck
      <2>3. Settled \in Environments
          BY DEF Settled, Environments, Absent, Slots
      <2>4. {dep'.first, dep'.second} \subseteq {dep.first, dep.second}
          BY <2>2 DEF Turned, HistoriesInv, OperationsInv, GuestTypes
      <2> QED
          BY <1>1, <2>1, <2>2, <2>3, <2>4, LastBootHistory
  <1>4. CASE Retry
      <2> DEFINE e == [env EXCEPT !.counter = IF @ = Absent THEN config.retries ELSE @]
      <2>1. config.retries \in 0..Absent
          BY DEF HistoriesInv, OperationsInv, GuestTypes, config, Absent
      <2>2. e \in Environments
          BY <1>1, <2>1 DEF Environments
      <2>3. ShutDown(e) /\ UNCHANGED <<boots, spent>> /\ phase = "rejected"
          BY <1>4 DEF Retry
      <2> HIDE DEF e
      <2> QED
          BY <1>1, <2>2, <2>3, ShutDownHistory
  <1>5. CASE FallBack
      <2>1. 3 \in 0..3
          OBVIOUS
      <2>2. /\ boots' = [boots EXCEPT ![now].went = 3, ![now].kept = 3]
            /\ UNCHANGED <<etc, spent>> /\ phase' = "down"
            /\ env' = [env EXCEPT !.counter = Absent] /\ Turned
          BY <1>5 DEF FallBack
      <2>3. env' \in Environments
          BY <1>1, <2>2 DEF Environments, Absent
      <2>4. {dep'.first, dep'.second} \subseteq {dep.first, dep.second}
          BY <2>2 DEF Turned, HistoriesInv, OperationsInv, GuestTypes
      <2> QED
          BY <1>1, <2>1, <2>2, <2>3, <2>4, LastBootHistory
  <1>6. CASE PowerCut
      <2> PICK k \in 0..boots[now].kept : boots' = [boots EXCEPT ![now].kept = k]
          BY <1>6 DEF PowerCut
      <2> DEFINE w == boots[now].went
      <2>1. w \in 0..3 /\ k \in 0..3 /\ k <= w
          BY <1>1 DEF BootRecords
      <2>2. boots' = [boots EXCEPT ![now].went = w, ![now].kept = k]
          <3>1. now = Len(boots) /\ now \in DOMAIN boots
              BY <1>1 DEF now
          <3>2. [boots[now] EXCEPT !.went = boots[now].went, !.kept = k]
                    = [boots[now] EXCEPT !.kept = k]
              BY <1>1 DEF BootRecords
          <3> QED
              BY <1>1, <3>1, <3>2
      <2>3. spent' \in [changes : Nat, upsets : Nat] /\ spent'.upsets # 0
          BY <1>1, <1>6 DEF PowerCut
      <2>4. /\ UNCHANGED <<etc, env>> /\ phase' = "down"
            /\ {dep'.first, dep'.second} \subseteq {dep.first, dep.second}
          BY <1>6 DEF PowerCut, HistoriesInv, OperationsInv, GuestTypes
      <2> HIDE DEF w
      <2> QED
          BY <1>1, <2>1, <2>2, <2>3, <2>4, LastBootHistory
  <1>7. CASE Reboot
      <2>1. ShutDown(env) /\ UNCHANGED <<boots, spent>> /\ phase = "up"
          BY <1>7 DEF Reboot
      <2> QED
          BY <1>1, <2>1, ShutDownHistory
  <1>8. CASE Finalise
      <2>1. /\ Finalised(env) /\ dep.staged # "none" /\ UNCHANGED <<phase, boots, spent>>
            /\ phase = "up"
          BY <1>8 DEF Finalise
      <2>2. env' \in Environments
          BY <1>1, <2>1 DEF Finalised, Environments, HistoriesInv, OperationsInv, GuestTypes
      <2>3. BootTypes'
          BY <2>1, <2>2 DEF HistoriesInv, BootTypes, now
      <2> QED
          BY <2>1, <2>3, ArmedFinalised, HistoryStays
  <1> QED
      BY <1>2, <1>3, <1>4, <1>5, <1>6, <1>7, <1>8, PowerOnHistory

\* The commands and the units.
LEMMA CommandHistory ==
    ASSUME HistoriesInv,
           \/ BeginCommand \/ GivesUp \/ Provision \/ Switch \/ Rollback \/ Confirm
           \/ RepairGrub \/ ArmGdm \/ RetryConfig \/ RebootGuest \/ Inject
    PROVE  BootTypes' /\ ArmedInv' /\ HistoryInv'
  <1>1. spent \in [changes : Nat, upsets : Nat] /\ env \in Environments
      BY DEF HistoriesInv, BootTypes
  <1>2. Spends => /\ spent' \in [changes : Nat, upsets : Nat]
                  /\ spent'.upsets = spent.upsets
      BY <1>1 DEF Spends
  <1>3. /\ etc \in [Images -> [policy : {"bootstrap", "fixture"},
                              armed : {"none", "half", "whole"}, retries : 1..2]]
        /\ dep \in [first : Slots, second : Slots, booted : Images, staged : Slots \ {"parent"}]
      BY DEF HistoriesInv, OperationsInv, GuestTypes
  <1>4. CASE BeginCommand \/ GivesUp
      <2>1. UNCHANGED <<dep, etc, env, phase, boots, spent>>
          BY <1>4 DEF BeginCommand, GivesUp, World
      <2> QED
          BY <1>1, <2>1, WithoutBoot
  <1>5. CASE Provision
      <2>1. UNCHANGED <<dep, env, phase, boots>> /\ Spends
          BY <1>5 DEF Provision
      <2>2. etc' = etc \/ etc' = [etc EXCEPT ![dep.booted].policy = "fixture"]
          BY <1>5 DEF Provision
      <2>3. \A i \in Images : etc'[i].armed = etc[i].armed
          BY <1>3, <2>2
      <2> QED
          BY <1>2, <2>1, <2>3, WithoutBoot
  <1>6. CASE Switch
      <2>1. UNCHANGED <<etc, env, phase, boots>> /\ (Spends \/ UNCHANGED spent)
          BY <1>6 DEF Switch
      <2>2. dep' = dep \/ dep' = [dep EXCEPT !.staged = Source]
          BY <1>6 DEF Switch
      <2>3. dep'.first = dep.first /\ dep'.second = dep.second
          BY <1>3, <2>2
      <2> QED
          BY <1>1, <1>2, <2>1, <2>3, WithoutBoot
  <1>7. CASE Rollback
      <2>1. UNCHANGED <<etc, env, phase, boots>> /\ Spends /\ Turned
          BY <1>7 DEF Rollback
      <2>2. {dep'.first, dep'.second} \subseteq {dep.first, dep.second}
          BY <1>3, <2>1 DEF Turned
      <2> QED
          BY <1>2, <2>1, <2>2, WithoutBoot
  <1>8. CASE Confirm
      <2>1. UNCHANGED <<dep, etc, env, phase, boots, spent>>
          BY <1>8 DEF Confirm
      <2> QED
          BY <1>1, <2>1, WithoutBoot
  <1>9. CASE RepairGrub \/ Inject
      <2>1. UNCHANGED <<dep, etc, env, phase, boots>> /\ Spends
          BY <1>9 DEF RepairGrub, Inject
      <2> QED
          BY <1>2, <2>1, WithoutBoot
  <1>10. CASE RetryConfig
      <2>1. /\ UNCHANGED <<dep, env, phase, boots>> /\ Spends
            /\ etc' = [etc EXCEPT !["a"].retries = OneRetry]
          BY <1>10 DEF RetryConfig
      <2>2. \A i \in Images : etc'[i].armed = etc[i].armed
          BY <1>3, <2>1
      <2> QED
          BY <1>2, <2>1, <2>2, WithoutBoot
  <1>11. CASE RebootGuest
      <2>1. ShutDown(env) /\ UNCHANGED <<boots, spent>> /\ phase \in {"watched", "up"}
          BY <1>11 DEF RebootGuest, Changes, Reachable
      <2> QED
          BY <1>1, <2>1, ShutDownHistory
  <1> QED
      BY <1>4, <1>5, <1>6, <1>7, <1>8, <1>9, <1>10, <1>11, ArmGdmHistory

\* HistoriesInv holds in every reachable state: what the boots were, what the journal
\* kept of them and what the deployments are armed with agree.
THEOREM HistoriesInductive == OperationsSpec => []HistoriesInv
  <1>1. OperationsInit => HistoriesInv
      BY InitHistories
  <1>2. HistoriesInv /\ [OperationsNext]_operationsVars => HistoriesInv'
      <2> SUFFICES ASSUME HistoriesInv, [OperationsNext]_operationsVars PROVE HistoriesInv'
          OBVIOUS
      <2>1. OperationsInv'
          BY OperationsStep DEF HistoriesInv
      <2>2. CASE PowerOn \/ Watch \/ HealthCheck \/ Retry \/ FallBack \/ PowerCut \/ Reboot
                 \/ Finalise
          BY <2>1, <2>2, BootHistory DEF HistoriesInv
      <2>3. CASE \/ BeginCommand \/ GivesUp \/ Provision \/ Switch \/ Rollback \/ Confirm
                 \/ RepairGrub \/ ArmGdm \/ RetryConfig \/ RebootGuest \/ Inject
          BY <2>1, <2>3, CommandHistory DEF HistoriesInv
      <2>4. CASE UNCHANGED operationsVars
          <3>1. BootTypes' /\ ArmedInv' /\ HistoryInv'
              BY <2>4 DEF operationsVars, HistoriesInv, BootTypes, ArmedInv, HistoryInv, now
          <3> QED
              BY <2>1, <3>1 DEF HistoriesInv
      <2> QED
          BY <2>2, <2>3, <2>4 DEF OperationsNext
  <1> QED
      BY <1>1, <1>2, PTL DEF OperationsSpec

LEMMA Smallest ==
    ASSUME NEW S, S \subseteq Nat, S # {}
    PROVE  \E i \in S : \A j \in S : i <= j
  <1> DEFINE Less == {p \in Nat \X Nat : p[1] < p[2]}
  <1>1. IsWellFoundedOn(Less, Nat)
      BY NatLessThanWellFounded DEF OpToRel
  <1>2. PICK i \in S : \A j \in S : ~(<<j, i>> \in Less)
      BY <1>1, WFMin
  <1>3. ASSUME NEW j \in S PROVE i <= j
      <2>1. i \in Nat /\ j \in Nat
          OBVIOUS
      <2>2. j < i => <<j, i>> \in Less
          BY <2>1
      <2> HIDE DEF Less
      <2> QED
          BY <1>2, <2>1, <2>2
  <1> QED
      BY <1>3

\* A set of boots has an earliest and a latest one.
LEMMA Extremes ==
    ASSUME NEW n \in Nat, NEW S, S \subseteq 1..n, S # {}
    PROVE  /\ Earliest(S) \in S /\ \A j \in S : Earliest(S) <= j
           /\ Latest(S) \in S /\ \A j \in S : j <= Latest(S)
  <1>1. \E i \in S : \A j \in S : i <= j
      <2> S \subseteq Nat
          OBVIOUS
      <2> QED
          BY Smallest
  <1>2. \E i \in S : \A j \in S : j <= i
      <2> DEFINE T == {m \in Nat : n - m \in S}
      <2>1. T \subseteq Nat /\ T # {}
          <3> PICK i \in S : TRUE
              OBVIOUS
          <3>1. n - i \in Nat /\ n - (n - i) = i
              OBVIOUS
          <3> QED
              BY <3>1
      <2> HIDE DEF T
      <2>2. PICK m \in T : \A k \in T : m <= k
          BY <2>1, Smallest
      <2>3. m \in Nat /\ n - m \in S
          BY DEF T
      <2>4. ASSUME NEW j \in S PROVE j <= n - m
          <3>1. n - j \in Nat /\ n - (n - j) = j /\ j \in Nat
              OBVIOUS
          <3>2. n - j \in T
              BY <3>1 DEF T
          <3> QED
              BY <2>2, <2>3, <3>1, <3>2
      <2> QED
          BY <2>3, <2>4
  <1> QED
      BY <1>1, <1>2 DEF Earliest, Latest

\* What a complete collection shows is what happened.
LEMMA CompleteIsReal ==
    ASSUME HistoriesInv, Reachable, Collected # "BLOCKED"
    PROVE  FallbackIsReal
  <1> DEFINE bad   == {i \in 1..now : boots[i].image = "b" /\ boots[i].broken}
             shown == Shown("b")
             goods == {i \in Shown("a") : \E j \in shown : j < i}
             last  == Latest(shown)
             good  == Earliest(goods)
  <1>1. /\ shown # {} /\ goods # {} /\ \A i \in shown : i < good
        /\ boots[good].kept >= 2 /\ BootPassed(boots[good])
        /\ boots[last].kept = 3
      BY DEF Collected, Complete, RollbackSeen
  <1>2. now \in Nat /\ \A i \in 1..now : boots[i] \in BootRecords
      BY DEF HistoriesInv, BootTypes, now
  <1>3. shown \subseteq 1..now /\ goods \subseteq 1..now
      BY DEF Shown
  <1>4. last \in shown /\ \A i \in shown : i <= last
      BY <1>1, <1>2, <1>3, Extremes
  <1>5. good \in goods
      BY <1>1, <1>2, <1>3, Extremes
  <1>6. good \in 1..now /\ boots[good].image = "a"
      BY <1>5 DEF Shown
  <1>7. /\ last \in 1..now /\ boots[last].image = "b" /\ boots[last].watched
        /\ \A i \in shown : boots[i].broken /\ i \in 1..now
      BY <1>4 DEF Shown, HistoriesInv, HistoryInv
  <1> HIDE DEF last, good
  <1>8. boots[last].broken /\ etc["b"].armed = "whole"
      BY <1>4, <1>7 DEF HistoriesInv, HistoryInv
  <1>9. boots[last].went = 3
      <2>1. boots[last].kept = 3 /\ boots[last].kept <= boots[last].went
          BY <1>1, <1>7 DEF HistoriesInv, HistoryInv
      <2>2. boots[last].went \in 0..3
          BY <1>2, <1>7 DEF BootRecords
      <2> QED
          BY <2>1, <2>2
  <1>10. \A i \in 1..now : boots[i].broken => boots[i].watched /\ boots[i].image = "b"
      BY <1>8 DEF HistoriesInv, HistoryInv
  <1>11. last < good
      BY <1>1, <1>4
  <1>12. ASSUME NEW i \in (last + 1)..good
         PROVE  boots[i].image = "a" \/ boots[i].kept = 0
      <2>1. i \in 1..now /\ i \in last..now /\ i > last
          BY <1>2, <1>6, <1>7
      <2>2. /\ boots[i].image # "parent"
            /\ boots[i].image = "b" => boots[i].broken
          BY <1>7, <1>8, <2>1 DEF HistoriesInv, HistoryInv
      <2>3. boots[i].image \in {"parent", "a", "b"} /\ boots[i].kept \in 0..3
          BY <1>2, <2>1 DEF BootRecords, Images
      <2>4. CASE boots[i].image = "b" /\ boots[i].kept # 0
          <3>1. boots[i].watched /\ boots[i].kept >= 1
              BY <1>10, <2>1, <2>2, <2>3, <2>4
          <3>2. i \in shown
              BY <2>1, <2>4, <3>1 DEF Shown
          <3>3. i <= last
              BY <1>4, <3>2
          <3> QED
              BY <1>7, <2>1, <3>3
      <2> QED
          BY <2>2, <2>3, <2>4
  <1>13. ASSUME Collected = "PASS", spent.upsets = 0 PROVE Cardinality(bad) = 2
      <2>1. Cardinality(shown) = 2
          BY <1>13 DEF Collected
      <2>2. \A i \in bad : i \in shown
          <3> SUFFICES ASSUME NEW i \in bad PROVE i \in shown
              OBVIOUS
          <3>1. i \in 1..now /\ boots[i].kept = boots[i].went /\ boots[i].went # 0
              BY <1>13 DEF HistoriesInv, HistoryInv, Reachable
          <3>2. boots[i].kept \in 0..3
              BY <1>2, <3>1 DEF BootRecords
          <3> QED
              BY <1>10, <3>1, <3>2 DEF Shown
      <2>3. \A i \in shown : i \in bad
          BY <1>7, <1>10
      <2>4. bad = shown
          BY <2>2, <2>3
      <2> QED
          BY <2>1, <2>4
  <1>14. last \in bad
      BY <1>7, <1>8
  <1> QED
      BY <1>6, <1>9, <1>11, <1>12, <1>13, <1>14, <1>1 DEF FallbackIsReal

\* A fallback that a collection says took place did take place, whatever was lost of the
\* journal, picked at the menu or rolled back by an operator, in every number of boots.
THEOREM FallbacksAreReal == OperationsSpec => []FallbackIsReal
  <1>1. HistoriesInv => FallbackIsReal
      BY CompleteIsReal DEF FallbackIsReal
  <1> QED
      BY <1>1, HistoriesInductive, PTL
=============================================================================
