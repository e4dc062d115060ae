---------------------------- MODULE SigningProofs ----------------------------
(* Proofs about Signing, part by part: the installer's check and fault, the trial of   *)
(* the builder's verifiers, the exercise of the host's, and the builder's fixtures.     *)
EXTENDS Signing, TLAPS

(***************************************************************************)
(* The installer.                                                           *)
(***************************************************************************)

UnitTypes ==
    [step : UnitSteps, case : FaultCases \cup {"none"}, refused : BOOLEAN]
KeptTypes ==
    [case : FaultCases \cup {"none"}, pass : BOOLEAN, seen : [Files -> Contents]]
HostTypes ==
    [step : {"idle", "asked", "running", "answered"}, request : FaultCases \cup {"none"},
     kept : KeptTypes, result : {"none", "PASS", "FAIL"}]
CheckTypes ==
    [at : 0..8, by : {"operator", "unit", "nobody"},
     read : [Files -> Contents \cup {"unread"}], begun : [Files -> Contents]]

InstallerTypes ==
    /\ live \in [Files -> Contents]
    /\ check \in CheckTypes
    /\ unit \in UnitTypes
    /\ host \in HostTypes

\* The files of a live system that are not as shipped.
Damaged(f) == {x \in Files : f[x] # "shipped"}

\* What the unit has done to the live system at each of its steps, and what the report
\* that was kept says of it.
FaultInv ==
    /\ boot = "off" => unit.step = "idle"
    /\ Waiting => host.request \in FaultCases
    /\ unit.step # "idle" => unit.case \in FaultCases
    /\ ~backup => live = Shipped
    /\ unit.step \notin {"idle", "looked", "guarded"} => backup
    /\ unit.step \in {"made", "backed"} => live = Shipped
    /\ unit.step \in {"backed", "key", "checksum"} => kept = TargetOf[unit.case]
    /\ unit.step = "key" => unit.case = "wrong_key" /\ Damaged(live) = {"key"}
    /\ unit.step = "checksum" =>
           unit.case = "wrong_key" /\ Damaged(live) = {"key", "checksum"}
    /\ unit.step \in {"applied", "running", "ran"} => Damaged(live) = Targets[unit.case]
    /\ host.kept.pass =>
           host.kept.case \in FaultCases /\ Damaged(host.kept.seen) = Targets[host.kept.case]
    /\ OriginalKept

\* What a check under way has read is what it takes to have come so far; and a file that
\* was damaged when it was read, or when the check began, is damaged still.
CheckInv ==
    /\ boot = "off" => check.at = 0
    /\ check.at # 0 =>
           \A f \in Files :
               /\ check.begun[f] # "shipped" => live[f] # "shipped" /\ check.read[f] # "shipped"
               /\ check.read[f] \in {"changed", "gone"} => live[f] # "shipped"
    /\ check.at >= 3 =>
           check.read["reference"] = "shipped" /\ check.read["key"] = check.read["checksum"]
    /\ check.at \in {4, 5} =>
           check.read["policy"] = check.read["key"] /\ check.read["policy"] \in Contents
    /\ check.at >= 6 =>
           \A f \in {"key", "checksum", "policy", "manifest", "signature"} :
               check.read[f] = "shipped"
    /\ check.at >= 7 => check.read["blob"] = "shipped"

LEMMA InstallerTypesInit == Init => InstallerTypes
BY DEF Init, InstallerInit, InstallerTypes, Shipped, Unread, Files, Contents, NoUnit, NoHost,
   NoReport, NoCheck, UnitTypes, UnitSteps, HostTypes, KeptTypes, CheckTypes

LEMMA NoCheckTyped == NoCheck \in CheckTypes /\ NoCheck.at = 0
BY DEF NoCheck, CheckTypes, Unread, Shipped, Files, Contents

\* The looks, one by one, and how the check goes on from each of them.
LEMMA LooksAre ==
    /\ DOMAIN Looks = 1..7
    /\ Looks[1] = {"reference", "checksum"} /\ Looks[2] = {"key"} /\ Looks[3] = {"policy"}
    /\ Looks[4] = {"manifest"} /\ Looks[5] = {"policy", "manifest", "signature"}
    /\ Looks[6] = {"blob"} /\ Looks[7] = {"manifest"}
BY DEF Looks

LEMMA LookFields ==
    ASSUME InstallerTypes, NEW i \in 1..7, LookAt(i)
    PROVE  /\ check.at = i /\ UNCHANGED <<boot, live, backup, kept, anaconda, host>>
           /\ check' \in CheckTypes /\ unit' \in UnitTypes
           /\ check'.at # 0 =>
                 /\ check'.at = i + 1 /\ check'.begun = check.begun
                 /\ Wrong(i, check'.read) = "none"
                 /\ \A f \in Files :
                        check'.read[f] = IF f \in Looks[i] THEN live[f] ELSE check.read[f]
           /\ \/ unit' = unit
              \/ /\ unit.step = "running" /\ unit'.step = "ran"
                 /\ unit'.case = unit.case
<1>. DEFINE read == [f \in Files |-> IF f \in Looks[i] THEN live[f] ELSE check.read[f]]
<1>1. /\ check.at = i /\ UNCHANGED <<boot, live, backup, kept, anaconda, host>>
      /\ \E answer \in Answers(i, read) :
             IF answer = "none"
             THEN /\ check' = [check EXCEPT !.at = i + 1, !.read = read]
                  /\ UNCHANGED <<record, unit>>
             ELSE EndCheck(answer)
  BY DEF LookAt, fault
<1>2. /\ read \in [Files -> Contents \cup {"unread"}]
      /\ \A f \in Files : read[f] = IF f \in Looks[i] THEN live[f] ELSE check.read[f]
  BY DEF InstallerTypes, CheckTypes
<1>3. check \in CheckTypes /\ unit \in UnitTypes
  BY DEF InstallerTypes
<1>. HIDE DEF read
<1>4. PICK answer \in Answers(i, read) :
             IF answer = "none"
             THEN /\ check' = [check EXCEPT !.at = i + 1, !.read = read]
                  /\ UNCHANGED <<record, unit>>
             ELSE EndCheck(answer)
  BY <1>1
<1>5. CASE answer = "none"
  <2>1. Wrong(i, read) = "none"
    <3>1. answer \in {Wrong(i, read), "signature"}
      BY <1>4 DEF Answers
    <3>. QED  BY <1>5, <3>1
  <2>2. check' = [check EXCEPT !.at = i + 1, !.read = read] /\ unit' = unit
    BY <1>4, <1>5
  <2>3. i + 1 \in 0..8
    OBVIOUS
  <2>4. /\ check' \in CheckTypes /\ check'.at = i + 1 /\ check'.read = read
        /\ check'.begun = check.begun
    BY <1>2, <1>3, <2>2, <2>3 DEF CheckTypes
  <2>. QED  BY <1>1, <1>2, <1>3, <2>1, <2>2, <2>4
<1>6. CASE answer # "none"
  <2>1. check' = NoCheck
    BY <1>4, <1>6 DEF EndCheck
  <2>2. \/ unit' = unit
        \/ /\ unit.step = "running"
           /\ unit' = [unit EXCEPT !.step = "ran", !.refused = answer # "PASS"]
    BY <1>4, <1>6 DEF EndCheck
  <2>3. (answer # "PASS") \in BOOLEAN
    OBVIOUS
  <2>4. /\ unit' \in UnitTypes
        /\ \/ unit' = unit
           \/ unit.step = "running" /\ unit'.step = "ran" /\ unit'.case = unit.case
    BY <1>3, <2>2, <2>3 DEF UnitTypes, UnitSteps
  <2>. QED  BY <1>1, <2>1, <2>4, NoCheckTyped
<1>. QED  BY <1>5, <1>6

LEMMA PassFields ==
    ASSUME InstallerTypes, PassCheck
    PROVE  /\ check.at = 8 /\ check' = NoCheck
           /\ UNCHANGED <<boot, live, backup, kept, host>>
           /\ unit' \in UnitTypes
           /\ \/ unit' = unit
              \/ /\ unit.step = "running" /\ unit'.step = "ran"
                 /\ unit'.case = unit.case
BY DEF InstallerTypes, PassCheck, EndCheck, UnitTypes, UnitSteps, fault

\* A check that begins has read nothing yet.
LEMMA BeginFields ==
    ASSUME InstallerTypes, NEW who \in {"operator", "unit"}, BeginCheck(who)
    PROVE  /\ check' \in CheckTypes /\ check'.at = 1 /\ check'.begun = live
           /\ \A f \in Files : check'.read[f] = "unread"
BY DEF InstallerTypes, BeginCheck, CheckTypes, Unread

\* What a report makes of the host, and of the unit.
LEMMA ReplyFields ==
    ASSUME InstallerTypes, NEW pass \in BOOLEAN, Reply(pass)
    PROVE  /\ unit' = NoUnit /\ unit' \in UnitTypes /\ host' \in HostTypes
           /\ host'.request = host.request /\ host'.result = host.result
           /\ \/ host'.kept = host.kept
              \/ host'.kept = [case |-> unit.case, pass |-> pass, seen |-> live]
           /\ host'.step \in {"asked", "running"} => Waiting
<1>1. [case |-> unit.case, pass |-> pass, seen |-> live] \in KeptTypes
  BY DEF InstallerTypes, UnitTypes, KeptTypes
<1>2. NoUnit \in UnitTypes
  BY DEF NoUnit, UnitTypes, UnitSteps
<1>3. \A k \in KeptTypes :
          /\ [host EXCEPT !.step = "answered", !.kept = k] \in HostTypes
          /\ [host EXCEPT !.step = "answered", !.kept = k].kept = k
          /\ [host EXCEPT !.step = "answered", !.kept = k].step = "answered"
          /\ [host EXCEPT !.step = "answered", !.kept = k].request = host.request
          /\ [host EXCEPT !.step = "answered", !.kept = k].result = host.result
  BY DEF InstallerTypes, HostTypes
<1>. QED  BY <1>1, <1>2, <1>3 DEF Reply, Waiting, InstallerTypes

\* Each step of the installer keeps the types.
LEMMA InstallerTypesNext == InstallerTypes /\ [Next]_vars => InstallerTypes'
<1>. SUFFICES ASSUME InstallerTypes, [Next]_vars PROVE InstallerTypes'
  OBVIOUS
<1>t. /\ live \in [Files -> Contents] /\ check \in CheckTypes
      /\ unit \in UnitTypes /\ host \in HostTypes
  BY DEF InstallerTypes
<1>. SUFFICES /\ live' \in [Files -> Contents] /\ check' \in CheckTypes
              /\ unit' \in UnitTypes /\ host' \in HostTypes
  BY DEF InstallerTypes
<1>1. CASE UNCHANGED <<live, check, unit, host>>
  BY <1>t, <1>1
<1>2. ASSUME NEW case \in FaultCases, Ask(case) PROVE InstallerTypes'
  BY <1>t, <1>2 DEF Ask, HostTypes, InstallerTypes
<1>3. CASE PowerOff
  <2>1. host' \in HostTypes /\ unit' \in UnitTypes
    BY <1>t, <1>3 DEF PowerOff, HostTypes, NoUnit, UnitTypes, UnitSteps
  <2>. QED  BY <1>t, <1>3, <2>1, NoCheckTyped DEF PowerOff
<1>4. CASE PowerOn("normal") \/ PowerOn("diagnostic")
  BY <1>t, <1>4 DEF PowerOn, Shipped, Files, Contents
<1>5. CASE Guard
  <2>1. host' \in HostTypes /\ UNCHANGED <<live, check>>
    BY <1>t, <1>5 DEF Guard, HostTypes
  <2>2. CASE UNCHANGED unit
    BY <1>t, <2>1, <2>2
  <2>3. CASE unit' = [step |-> "looked", case |-> host.request, refused |-> FALSE]
    <3>1. host.request \in FaultCases \cup {"none"}
      BY <1>t DEF HostTypes
    <3>. QED  BY <1>t, <2>1, <2>3, <3>1 DEF UnitTypes, UnitSteps
  <2>. QED  BY <1>5, <2>2, <2>3 DEF Guard
<1>6. CASE GuardProcesses
  <2>1. CASE NoneRuns
    BY <1>t, <1>6, <2>1 DEF GuardProcesses, UnitTypes, UnitSteps
  <2>2. CASE ~NoneRuns
    BY <1>t, <1>6, <2>2, ReplyFields DEF GuardProcesses
  <2>. QED  BY <2>1, <2>2
<1>7. CASE MakeFault \/ KeepOriginal
  BY <1>t, <1>7 DEF MakeFault, KeepOriginal, UnitTypes, UnitSteps
<1>8. CASE Damage
  <2>1. \E file \in Files, content \in Contents, next \in UnitSteps :
           Write(file, content, next)
    BY <1>8 DEF Damage, Files, Contents, UnitSteps
  <2>2. UNCHANGED <<host, check>>
    BY <1>8 DEF Damage
  <2>. QED  BY <1>t, <2>1, <2>2 DEF Write, UnitTypes
<1>9. CASE RunEntryPoint
  BY <1>t, <1>9, BeginFields DEF RunEntryPoint, UnitTypes, UnitSteps
<1>10. CASE StartInstaller
  BY <1>t, <1>10, BeginFields DEF StartInstaller
<1>11. ASSUME NEW i \in DOMAIN Looks, LookAt(i) PROVE InstallerTypes'
  BY <1>t, <1>11, LookFields, LooksAre DEF InstallerTypes
<1>12. CASE PassCheck
  BY <1>t, <1>12, PassFields, NoCheckTyped
<1>13. CASE Overdue
  <2>1. check' \in CheckTypes
    BY <1>t, <1>13 DEF Overdue, CheckTypes
  <2>2. Reply(FALSE) /\ live' = live
    BY <1>13 DEF Overdue
  <2>. QED  BY <1>t, <2>1, <2>2, ReplyFields
<1>14. CASE Judge
  <2>. DEFINE told == unit.refused /\ record = Expected[unit.case] /\ anaconda # "logging"
  <2>1. told \in BOOLEAN
    BY <1>t DEF UnitTypes
  <2>2. Reply(told) /\ UNCHANGED <<live, check>>
    BY <1>14 DEF Judge
  <2>. HIDE DEF told
  <2>3. unit' \in UnitTypes /\ host' \in HostTypes
    BY <2>1, <2>2, ReplyFields
  <2>. QED  BY <1>t, <2>2, <2>3
<1>15. CASE Lost
  <2>1. unit' \in UnitTypes
    <3>1. unit' = unit \/ unit' = NoUnit
      BY <1>15 DEF Lost
    <3>2. NoUnit \in UnitTypes
      BY DEF NoUnit, UnitTypes, UnitSteps
    <3>. QED  BY <1>t, <3>1, <3>2, Zenon
  <2>2. host' \in HostTypes /\ UNCHANGED <<live, check>>
    BY <1>t, <1>15 DEF Lost, HostTypes
  <2>. QED  BY <1>t, <2>1, <2>2
<1>16. CASE Collect
  BY <1>t, <1>16 DEF Collect, HostTypes
<1>17. CASE \/ AnacondaLogs \/ AnacondaWrites \/ ReplaceIso
            \/ \E archive \in {"frozen", "other"} : StartSigning(archive)
            \/ \E file \in KeyFiles : MakeKey(file)
            \/ Sign \/ SigningDies
  BY <1>1, <1>17 DEF AnacondaLogs, AnacondaWrites, ReplaceIso, StartSigning, MakeKey,
     Sign, SigningDies, machineVars
<1>. QED
  BY <1>1, <1>2, <1>3, <1>4, <1>5, <1>6, <1>7, <1>8, <1>9, <1>10, <1>11, <1>12, <1>13,
     <1>14, <1>15, <1>16, <1>17
  DEF Next, InstallerNext, vars, installerVars, InstallerTypes

LEMMA FaultInit == Init => FaultInv
BY DEF Init, InstallerInit, FaultInv, Waiting, NoUnit, NoHost, NoReport,
   OriginalKept, Shipped

\* What a case damages is what is reported of it: the unit that has made all of a case's
\* writes has damaged the case's targets and no other file.
LEMMA FaultNext == InstallerTypes /\ FaultInv /\ [Next]_vars => FaultInv'
<1>. SUFFICES ASSUME InstallerTypes, FaultInv, [Next]_vars PROVE FaultInv'
  OBVIOUS
<1>. USE DEF FaultInv, Waiting
<1>t. /\ live \in [Files -> Contents] /\ unit \in UnitTypes /\ host \in HostTypes
      /\ host.kept \in KeptTypes
  BY DEF InstallerTypes, HostTypes
<1>o. Shipped = [x \in Files |-> "shipped"]
  BY DEF Shipped
<1>k. UNCHANGED <<live, kept>> => OriginalKept'
  BY DEF OriginalKept
<1>1. CASE UNCHANGED <<boot, live, backup, kept, unit, host>>
  BY <1>1, <1>k
<1>2. ASSUME NEW case \in FaultCases, Ask(case) PROVE FaultInv'
  BY <1>t, <1>2, <1>k DEF Ask, HostTypes, fault
<1>3. CASE PowerOff
  <2>1. /\ host'.kept = host.kept /\ ~Waiting' /\ UNCHANGED <<live, backup, kept>>
        /\ unit' = NoUnit
    BY <1>t, <1>3 DEF PowerOff, HostTypes, fault
  <2>. QED  BY <1>k, <2>1 DEF NoUnit
<1>4. CASE PowerOn("normal") \/ PowerOn("diagnostic")
  <2>1. /\ live' = Shipped /\ unit' = unit /\ host' = host /\ boot = "off" /\ boot' # "off"
    BY <1>4 DEF PowerOn
  <2>2. OriginalKept'
    BY <2>1 DEF OriginalKept, Shipped
  <2>. QED  BY <2>1, <2>2
<1>5. CASE Guard
  <2>1. /\ host'.kept = host.kept /\ host'.request = host.request
        /\ UNCHANGED <<boot, live, backup, kept>>
    BY <1>t, <1>5 DEF Guard, HostTypes, fault
  <2>2. CASE UNCHANGED unit
    BY <1>t, <1>5, <1>k, <2>1, <2>2 DEF Guard, HostTypes
  <2>3. CASE unit' = [step |-> "looked", case |-> host.request, refused |-> FALSE]
    <3>1. host.request \in FaultCases /\ boot # "off"
      BY <1>5 DEF Guard
    <3>. QED  BY <1>k, <2>1, <2>3, <3>1
  <2>. QED  BY <1>5, <2>2, <2>3 DEF Guard
<1>6. CASE MakeFault \/ KeepOriginal
  <2>1. CASE MakeFault
    BY <1>t, <2>1, <1>k DEF MakeFault, UnitTypes
  <2>2. CASE KeepOriginal
    <3>1. live = Shipped /\ live' = live /\ unit.step = "made"
      BY <2>2 DEF KeepOriginal
    <3>2. OriginalKept'
      BY <3>1 DEF OriginalKept, Shipped
    <3>. QED  BY <1>t, <2>2, <3>1, <3>2 DEF KeepOriginal, UnitTypes
  <2>. QED  BY <1>6, <2>1, <2>2
<1>7. CASE Damage
  <2>1. /\ UNCHANGED <<boot, backup, kept, host>> /\ backup /\ boot # "off"
        /\ unit'.case = unit.case /\ kept = TargetOf[unit.case]
    BY <1>t, <1>7 DEF Damage, Write, UnitTypes, fault
  <2>2. ASSUME NEW x \in Files, NEW c \in {"changed", "gone"}, NEW n, Write(x, c, n)
        PROVE  Damaged(live') = Damaged(live) \cup {x} /\ unit'.step = n
    BY <1>t, <2>2 DEF Damaged, Write, UnitTypes
  <2>k. ASSUME Damaged(live') \subseteq kept \cup IF "key" \in kept THEN {"checksum", "policy"}
                                                ELSE {}
        PROVE  OriginalKept'
    BY <2>1, <2>k DEF OriginalKept, Damaged
  <2>3. {"signature", "manifest", "blob", "reference", "key", "checksum", "policy"} = Files
    BY DEF Files
  <2>4. CASE unit.step = "backed"
    <3>1. Damaged(live) = {} /\ unit.case \in FaultCases
      BY <2>4 DEF Damaged, Shipped
    <3>2. CASE unit.case = "wrong_key" /\ Write("key", "changed", "key")
      <4>1. Damaged(live') = {"key"} /\ unit'.step = "key"
        BY <2>2, <2>3, <3>1, <3>2
      <4>2. OriginalKept'
        BY <2>1, <2>k, <3>2, <4>1 DEF TargetOf
      <4>3. unit'.case = "wrong_key" /\ kept' = TargetOf[unit'.case] /\ backup' = backup
        BY <2>1, <3>2
      <4>. QED  BY <2>1, <3>1, <4>1, <4>2, <4>3
    <3>3. ASSUME NEW x \in Files, NEW c \in {"changed", "gone"}, Write(x, c, "applied"),
                 Targets[unit.case] = {x}, x \in TargetOf[unit.case]
          PROVE  FaultInv'
      <4>1. Damaged(live') = {x} /\ unit'.step = "applied"
        BY <2>2, <3>1, <3>3
      <4>2. OriginalKept'
        BY <2>1, <2>k, <3>3, <4>1
      <4>. QED  BY <2>1, <3>1, <3>3, <4>1, <4>2
    <3>4. CASE unit.case = "missing_signature" /\ Write("signature", "gone", "applied")
      BY <2>3, <3>3, <3>4 DEF Targets, TargetOf
    <3>5. CASE unit.case = "altered_signature" /\ Write("signature", "changed", "applied")
      BY <2>3, <3>3, <3>5 DEF Targets, TargetOf
    <3>6. CASE unit.case = "changed_manifest" /\ Write("manifest", "changed", "applied")
      BY <2>3, <3>3, <3>6 DEF Targets, TargetOf
    <3>7. CASE unit.case = "corrupt_blob" /\ Write("blob", "changed", "applied")
      BY <2>3, <3>3, <3>7 DEF Targets, TargetOf
    <3>8. CASE unit.case = "unexpected_source" /\ Write("reference", "changed", "applied")
      BY <2>3, <3>3, <3>8 DEF Targets, TargetOf
    <3>. QED  BY <1>7, <2>4, <3>2, <3>4, <3>5, <3>6, <3>7, <3>8 DEF Damage
  <2>5. CASE unit.step = "key"
    <3>1. Write("checksum", "changed", "checksum")
      BY <1>7, <2>5 DEF Damage
    <3>2. Damaged(live') = {"key", "checksum"} /\ unit'.step = "checksum"
      BY <2>2, <2>3, <2>5, <3>1
    <3>3. OriginalKept'
      BY <2>1, <2>5, <2>k, <3>2 DEF TargetOf
    <3>. QED  BY <2>1, <2>5, <3>2, <3>3
  <2>6. CASE unit.step = "checksum"
    <3>1. Write("policy", "changed", "applied")
      BY <1>7, <2>6 DEF Damage
    <3>2. Damaged(live') = Targets["wrong_key"] /\ unit'.step = "applied"
      BY <2>2, <2>3, <2>6, <3>1 DEF Targets
    <3>3. OriginalKept'
      BY <2>1, <2>6, <2>k, <3>2 DEF Targets, TargetOf
    <3>. QED  BY <2>1, <2>6, <3>2, <3>3
  <2>. QED  BY <1>7, <2>4, <2>5, <2>6 DEF Damage
<1>8. CASE RunEntryPoint
  BY <1>t, <1>8, <1>k DEF RunEntryPoint, UnitTypes, fault
<1>a. ASSUME UNCHANGED <<boot, live, backup, kept, host>>, unit.step = "running",
             unit'.step = "ran", unit'.case = unit.case
      PROVE  FaultInv'
  BY <1>a, <1>k
<1>b. ASSUME NEW i \in DOMAIN Looks, LookAt(i) PROVE FaultInv'
  BY <1>1, <1>a, <1>b, LookFields, LooksAre
<1>c. CASE PassCheck
  BY <1>1, <1>a, <1>c, PassFields
<1>d. ASSUME NEW pass \in BOOLEAN, Reply(pass), UNCHANGED <<boot, live, backup, kept>>,
             pass => unit.step = "ran"
      PROVE  FaultInv'
  <2>. DEFINE new == [case |-> unit.case, pass |-> pass, seen |-> live]
  <2>1. /\ unit' = NoUnit /\ host'.request = host.request
        /\ host'.kept = host.kept \/ host'.kept = new
        /\ host'.step \in {"asked", "running"} => Waiting
    BY <1>d, ReplyFields
  <2>2. pass => unit.case \in FaultCases /\ Damaged(live) = Targets[unit.case]
    BY <1>d
  <2>3. host'.kept.pass =>
            host'.kept.case \in FaultCases /\ Damaged(host'.kept.seen) = Targets[host'.kept.case]
    BY <2>1, <2>2
  <2>. QED  BY <1>d, <1>k, <2>1, <2>3 DEF NoUnit
<1>e. CASE GuardProcesses
  <2>1. UNCHANGED <<boot, live, backup, kept>> /\ unit.step = "looked"
    BY <1>e DEF GuardProcesses, fault
  <2>2. CASE Reply(FALSE)
    BY <1>d, <2>1, <2>2
  <2>3. CASE unit' = [unit EXCEPT !.step = "guarded"] /\ UNCHANGED host
    BY <1>t, <1>k, <2>1, <2>3 DEF UnitTypes
  <2>. QED  BY <1>e, <2>2, <2>3 DEF GuardProcesses
<1>f. CASE Overdue
  BY <1>d, <1>f DEF Overdue, fault
<1>9. CASE Judge
  <2>. DEFINE told == unit.refused /\ record = Expected[unit.case] /\ anaconda # "logging"
  <2>1. Reply(told) /\ unit.step = "ran" /\ UNCHANGED <<boot, live, backup, kept>>
    BY <1>9 DEF Judge, fault
  <2>2. told \in BOOLEAN
    BY <1>t DEF UnitTypes
  <2>. HIDE DEF told
  <2>. QED  BY <1>d, <2>1, <2>2
<1>10. CASE Lost
  <2>1. /\ host'.kept = host.kept /\ ~Waiting' /\ UNCHANGED <<boot, live, backup, kept>>
        /\ unit' = unit \/ unit' = NoUnit
    BY <1>t, <1>10 DEF Lost, HostTypes, fault
  <2>2. CASE unit' = unit
    BY <1>k, <2>1, <2>2
  <2>3. CASE unit' = NoUnit
    BY <1>k, <2>1, <2>3 DEF NoUnit
  <2>. QED  BY <2>1, <2>2, <2>3
<1>11. CASE Collect
  BY <1>t, <1>k, <1>11 DEF Collect, HostTypes, fault
<1>12. CASE \/ StartInstaller \/ AnacondaLogs \/ AnacondaWrites \/ ReplaceIso
            \/ \E archive \in {"frozen", "other"} : StartSigning(archive)
            \/ \E file \in KeyFiles : MakeKey(file)
            \/ Sign \/ SigningDies
  BY <1>1, <1>12 DEF StartInstaller, AnacondaLogs, AnacondaWrites, ReplaceIso, StartSigning,
     MakeKey, Sign, SigningDies, machineVars, fault
<1>. QED
  BY <1>1, <1>2, <1>3, <1>4, <1>5, <1>6, <1>7, <1>8, <1>9, <1>10, <1>11, <1>12,
     <1>b, <1>c, <1>e, <1>f
  DEF Next, InstallerNext, vars, installerVars

\* Only the collection writes a result, and it has looked at the disks and at the ISO.
LEMMA EarnedResult ==
    ASSUME InstallerTypes, FaultInv, [Next]_vars
    PROVE  [host'.result = "PASS" /\ host.result # "PASS" =>
                /\ disks = "clean" /\ iso = "same"
                /\ host.kept.case = host.request
                /\ \A f \in Files :
                       host.kept.seen[f] # "shipped" <=> f \in Targets[host.request]
           ]_installerVars
<1>. SUFFICES ASSUME host'.result = "PASS", host.result # "PASS"
              PROVE  /\ disks = "clean" /\ iso = "same"
                     /\ host.kept.case = host.request
                     /\ \A f \in Files :
                            host.kept.seen[f] # "shipped" <=> f \in Targets[host.request]
  OBVIOUS
<1>1. host \in HostTypes
  BY DEF InstallerTypes
<1>2. CASE Collect
  <2>1. disks = "clean" /\ iso = "same" /\ host.kept.case = host.request /\ host.kept.pass
    BY <1>1, <1>2 DEF Collect, HostTypes
  <2>2. Damaged(host.kept.seen) = Targets[host.request]
    BY <2>1 DEF FaultInv
  <2>3. Targets[host.request] \subseteq Files
    BY <2>2 DEF Damaged
  <2>. QED  BY <2>1, <2>2, <2>3 DEF Damaged
<1>3. CASE Judge \/ Overdue \/ GuardProcesses
  BY <1>1, <1>3 DEF Judge, Overdue, GuardProcesses, Reply, HostTypes
<1>4. CASE PowerOff
  BY <1>1, <1>4 DEF PowerOff, HostTypes
<1>5. CASE Lost
  BY <1>1, <1>5 DEF Lost, HostTypes
<1>6. CASE Guard
  BY <1>1, <1>6 DEF Guard, HostTypes
<1>7. ASSUME NEW case \in FaultCases, Ask(case) PROVE FALSE
  BY <1>1, <1>7 DEF Ask, HostTypes
<1>8. CASE host' = host
  BY <1>8
<1>. QED
  BY <1>2, <1>3, <1>4, <1>5, <1>6, <1>7, <1>8
  DEF Next, InstallerNext, vars, installerVars, PowerOn, MakeFault, KeepOriginal, Damage,
      RunEntryPoint, LookAt, PassCheck, StartInstaller, AnacondaLogs, AnacondaWrites, ReplaceIso, StartSigning,
      MakeKey, Sign, SigningDies, machineVars

\* A result that passes was earned (installer_payload_unit.py, installerfault.py): from clean
\* disks and the ISO that was asked for, by a guest with the case's damage and no other,
\* however the calls were lost and the machine went off.
THEOREM RejectionsAreEarned == Spec => RejectionIsEarned
<1>1. Init => InstallerTypes /\ FaultInv
  BY InstallerTypesInit, FaultInit
<1>2. InstallerTypes /\ FaultInv /\ [Next]_vars => InstallerTypes' /\ FaultInv'
  BY InstallerTypesNext, FaultNext
<1>3. InstallerTypes /\ FaultInv /\ [Next]_vars =>
          [host'.result = "PASS" /\ host.result # "PASS" =>
               /\ disks = "clean" /\ iso = "same"
               /\ host.kept.case = host.request
               /\ \A f \in Files :
                      host.kept.seen[f] # "shipped" <=> f \in Targets[host.request]
          ]_installerVars
  BY EarnedResult
<1>. QED  BY <1>1, <1>2, <1>3, PTL DEF Spec, RejectionIsEarned

LEMMA CheckInit == Init => CheckInv
BY DEF Init, InstallerInit, CheckInv, NoCheck

\* Damage is never undone during a boot.
LEMMA DamageStays ==
    ASSUME InstallerTypes, [Next]_vars, boot # "off"
    PROVE  \A f \in Files : live[f] # "shipped" => live'[f] # "shipped"
<1>1. CASE UNCHANGED live
  BY <1>1
<1>2. CASE Damage
  <2>1. \E x \in Files, c \in {"changed", "gone"}, n \in UnitSteps : Write(x, c, n)
    BY <1>2 DEF Damage, Files, UnitSteps
  <2>. QED  BY <2>1 DEF Write, InstallerTypes
<1>. QED
  BY <1>1, <1>2 DEF Next, InstallerNext, vars, installerVars, Ask, PowerOff, PowerOn, Guard,
     GuardProcesses, MakeFault, KeepOriginal, LookAt, PassCheck, RunEntryPoint, Overdue, Judge,
     Lost, Collect, StartInstaller, AnacondaLogs, AnacondaWrites, ReplaceIso, StartSigning,
     MakeKey, Sign, SigningDies, machineVars

\* A look that finds nothing wrong has what the next ones rely on.
LEMMA LookKeeps ==
    ASSUME InstallerTypes, CheckInv, NEW i \in 1..7, LookAt(i), boot # "off"
    PROVE  CheckInv'
<1>1. /\ check.at = i /\ UNCHANGED <<boot, live>> /\ check' \in CheckTypes
      /\ check'.at # 0 =>
            /\ check'.at = i + 1 /\ check'.begun = check.begun
            /\ Wrong(i, check'.read) = "none"
            /\ \A f \in Files :
                   check'.read[f] = IF f \in Looks[i] THEN live[f] ELSE check.read[f]
  BY LookFields
<1>2. CASE check'.at = 0
  BY <1>1, <1>2 DEF CheckInv
<1>3. CASE check'.at # 0
  <2>1. /\ check'.at = i + 1 /\ check'.begun = check.begun /\ Wrong(i, check'.read) = "none"
        /\ \A f \in Files : check'.read[f] = IF f \in Looks[i] THEN live[f] ELSE check.read[f]
        /\ check.at # 0 /\ live \in [Files -> Contents]
    BY <1>1, <1>3 DEF InstallerTypes
  <2>2. ASSUME NEW f \in Files
        PROVE  /\ check'.begun[f] # "shipped" =>
                     live'[f] # "shipped" /\ check'.read[f] # "shipped"
               /\ check'.read[f] \in {"changed", "gone"} => live'[f] # "shipped"
    BY <1>1, <2>1 DEF CheckInv
  <2>f. /\ "reference" \in Files /\ "checksum" \in Files /\ "key" \in Files
        /\ "policy" \in Files /\ "manifest" \in Files /\ "signature" \in Files
        /\ "blob" \in Files
    BY DEF Files
  <2>3. CASE i = 1
    BY <1>1, <2>1, <2>2, <2>3 DEF CheckInv
  <2>4. CASE i = 2
    <3>1. check'.read["reference"] = "shipped" /\ check'.read["key"] = check'.read["checksum"]
      BY <2>1, <2>4 DEF Wrong
    <3>. QED  BY <1>1, <2>1, <2>2, <2>4, <3>1 DEF CheckInv
  <2>5. CASE i = 3
    <3>1. /\ check'.read["policy"] = check'.read["key"] /\ check'.read["policy"] = live["policy"]
          /\ check'.read["reference"] = check.read["reference"]
          /\ check'.read["key"] = check.read["key"]
          /\ check'.read["checksum"] = check.read["checksum"]
      BY <2>1, <2>5, <2>f, LooksAre DEF Wrong
    <3>2. check'.read["policy"] \in Contents /\ check'.at = 4
      BY <2>1, <2>5, <2>f, <3>1
    <3>3. /\ check.read["reference"] = "shipped"
          /\ check.read["key"] = check.read["checksum"]
      BY <1>1, <2>5 DEF CheckInv
    <3>4. check'.read["reference"] = "shipped" /\ check'.read["key"] = check'.read["checksum"]
      BY <3>1, <3>3
    <3>5. boot' # "off"
      BY <1>1
    <3>6. ~(check'.at >= 6) /\ ~(check'.at >= 7)
      BY <3>2
    <3>7. check'.read["policy"] = check'.read["key"]
      BY <3>1
    <3>. QED  BY <2>2, <3>2, <3>4, <3>5, <3>6, <3>7, Zenon DEF CheckInv, Contents
  <2>6. CASE i = 4
    <3>1. \A f \in {"reference", "key", "checksum", "policy"} :
              check'.read[f] = check.read[f]
      BY <2>1, <2>6, <2>f, LooksAre
    <3>. QED  BY <1>1, <2>1, <2>2, <2>6, <3>1 DEF CheckInv
  <2>7. CASE i = 5
    <3>1. \A f \in {"policy", "manifest", "signature"} :
              check'.read[f] = "shipped" /\ check'.read[f] = live[f]
      BY <2>1, <2>7, <2>f, LooksAre DEF Wrong
    <3>2. \A f \in {"reference", "key", "checksum"} : check'.read[f] = check.read[f]
      BY <2>1, <2>7, <2>f, LooksAre
    <3>3. check.read["policy"] = check.read["key"] /\ check.read["policy"] \in Contents
      BY <1>1, <2>7 DEF CheckInv
    <3>4. check.read["policy"] = "shipped"
      BY <2>1, <2>f, <3>1, <3>3 DEF CheckInv, Contents
    <3>5. /\ check.read["reference"] = "shipped"
          /\ check.read["key"] = check.read["checksum"]
      BY <1>1, <2>7 DEF CheckInv
    <3>. QED  BY <1>1, <2>1, <2>2, <2>7, <3>1, <3>2, <3>3, <3>4, <3>5 DEF CheckInv
  <2>8. CASE i = 6
    <3>1. check'.read["blob"] = "shipped"
      BY <2>1, <2>8 DEF Wrong
    <3>2. \A f \in {"reference", "key", "checksum", "policy", "manifest", "signature"} :
              check'.read[f] = check.read[f]
      BY <2>1, <2>8, <2>f, LooksAre
    <3>. QED  BY <1>1, <2>1, <2>2, <2>8, <3>1, <3>2 DEF CheckInv
  <2>9. CASE i = 7
    <3>1. check'.read["manifest"] = "shipped"
      BY <2>1, <2>9 DEF Wrong
    <3>2. \A f \in {"reference", "key", "checksum", "policy", "signature", "blob"} :
              check'.read[f] = check.read[f]
      BY <2>1, <2>9, <2>f, LooksAre
    <3>. QED  BY <1>1, <2>1, <2>2, <2>9, <3>1, <3>2 DEF CheckInv
  <2>. QED  BY <2>3, <2>4, <2>5, <2>6, <2>7, <2>8, <2>9
<1>. QED  BY <1>2, <1>3

LEMMA CheckNext == InstallerTypes /\ FaultInv /\ CheckInv /\ [Next]_vars => CheckInv'
<1>. SUFFICES ASSUME InstallerTypes, FaultInv, CheckInv, [Next]_vars PROVE CheckInv'
  OBVIOUS
<1>t. live \in [Files -> Contents] /\ check \in CheckTypes
  BY DEF InstallerTypes
<1>1. ASSUME check'.at = 0 PROVE CheckInv'
  BY <1>1 DEF CheckInv
<1>2. ASSUME check'.at = check.at, check'.read = check.read, check'.begun = check.begun,
             boot' = boot
      PROVE  CheckInv'
  <2>1. CASE boot = "off"
    BY <1>1, <1>2, <2>1 DEF CheckInv
  <2>2. CASE boot # "off"
    BY <1>2, <2>2, DamageStays DEF CheckInv
  <2>. QED  BY <2>1, <2>2
<1>3. CASE PowerOff \/ PassCheck
  BY <1>1, <1>3, NoCheckTyped DEF PowerOff, PassCheck, EndCheck
<1>4. CASE PowerOn("normal") \/ PowerOn("diagnostic")
  BY <1>1, <1>4 DEF PowerOn, CheckInv
<1>5. ASSUME NEW who \in {"operator", "unit"}, BeginCheck(who), boot # "off",
             UNCHANGED <<boot, live>>
      PROVE  CheckInv'
  <2>1. /\ check'.at = 1 /\ check'.begun = live
        /\ \A f \in Files : check'.read[f] = "unread"
    BY <1>5, BeginFields
  <2>. QED  BY <1>5, <2>1 DEF CheckInv
<1>6. CASE StartInstaller
  BY <1>5, <1>6 DEF StartInstaller
<1>7. CASE RunEntryPoint
  BY <1>5, <1>7 DEF RunEntryPoint, FaultInv
<1>8. ASSUME NEW i \in DOMAIN Looks, LookAt(i) PROVE CheckInv'
  <2>1. check.at = i /\ i \in 1..7
    BY <1>8, LooksAre DEF LookAt
  <2>2. boot # "off"
    BY <2>1 DEF CheckInv
  <2>. QED  BY <1>8, <2>1, <2>2, LookKeeps
<1>9. CASE Overdue
  <2>1. boot' = boot /\ check' = IF check.by = "unit" THEN [check EXCEPT !.by = "nobody"]
                                 ELSE check
    BY <1>9 DEF Overdue
  <2>. QED  BY <1>t, <1>2, <2>1 DEF CheckTypes
<1>10. CASE UNCHANGED <<boot, check>>
  BY <1>2, <1>10
<1>. QED
  BY <1>3, <1>4, <1>6, <1>7, <1>8, <1>9, <1>10
  DEF Next, InstallerNext, vars, installerVars, Ask, Guard, GuardProcesses, MakeFault,
     KeepOriginal, Damage, Judge, Lost, Collect, AnacondaLogs, AnacondaWrites, ReplaceIso,
     StartSigning, MakeKey, Sign, SigningDies, machineVars

\* Only a check that has made its last look starts Anaconda.
LEMMA VerifiedStart ==
    ASSUME InstallerTypes, CheckInv, [Next]_vars
    PROVE  [anaconda = "never" /\ anaconda' = "starting" =>
                check.begun = Shipped /\ check.read = Shipped]_installerVars
<1>. SUFFICES ASSUME anaconda = "never", anaconda' = "starting"
              PROVE  check.begun = Shipped /\ check.read = Shipped
  OBVIOUS
<1>1. PassCheck
  BY DEF Next, InstallerNext, vars, installerVars, Ask, PowerOff, PowerOn, Guard, GuardProcesses,
     MakeFault, KeepOriginal, Damage, LookAt, RunEntryPoint, Overdue, Judge, Lost, Collect,
     StartInstaller, AnacondaLogs, AnacondaWrites, ReplaceIso, StartSigning, MakeKey, Sign,
     SigningDies, machineVars
<1>2. check.at = 8 /\ check \in CheckTypes
  BY <1>1 DEF PassCheck, InstallerTypes
<1>3. \A f \in Files : check.read[f] = "shipped"
  BY <1>2 DEF CheckInv, Files
<1>4. \A f \in Files : check.begun[f] = "shipped"
  BY <1>2, <1>3 DEF CheckInv
<1>. QED  BY <1>2, <1>3, <1>4 DEF Shipped, CheckTypes

\* The installer's code begins only after a check that began on a live system whole as
\* shipped, and found each file of it so at its last look (installer-preflight.py,
\* guard-installer-entrypoint.py), at whatever point of a fault's writes it began.
THEOREM VerifiedStarts == Spec => OnlyVerifiedStarts
<1>1. Init => InstallerTypes /\ FaultInv /\ CheckInv
  BY InstallerTypesInit, FaultInit, CheckInit
<1>2. InstallerTypes /\ FaultInv /\ CheckInv /\ [Next]_vars =>
          InstallerTypes' /\ FaultInv' /\ CheckInv'
  BY InstallerTypesNext, FaultNext, CheckNext
<1>3. InstallerTypes /\ CheckInv /\ [Next]_vars =>
          [anaconda = "never" /\ anaconda' = "starting" =>
               check.begun = Shipped /\ check.read = Shipped]_installerVars
  BY VerifiedStart
<1>. QED  BY <1>1, <1>2, <1>3, PTL DEF Spec, OnlyVerifiedStarts

\* No file of the live system is damaged before its original is kept
\* (installer_payload_unit.py), but for the two that are made of the key that is kept.
THEOREM OriginalsAreKept == Spec => []OriginalKept
<1>1. Init => InstallerTypes /\ FaultInv
  BY InstallerTypesInit, FaultInit
<1>2. InstallerTypes /\ FaultInv /\ [Next]_vars => InstallerTypes' /\ FaultInv'
  BY InstallerTypesNext, FaultNext
<1>3. FaultInv => OriginalKept
  BY DEF FaultInv
<1>. QED  BY <1>1, <1>2, <1>3, PTL DEF Spec

(***************************************************************************)
(* The exercise of the host's verifier.                                     *)
(***************************************************************************)

\* Each negative passed is a check the verifier makes, and what was accepted was refused
\* by none of its checks.
ExerciseInv ==
    /\ exercise \in [step : 0..5, accepted : Bundles, status : {"none", "refused", "PASS"}]
    /\ bundle \in Bundles
    /\ exercise.step > 0 => Refusal(exercise.accepted, checks) = "none"
    /\ exercise.step > 1 => "anchor" \in checks
    /\ exercise.step > 2 => "signature" \in checks
    /\ exercise.step > 3 => "checksum" \in checks
    /\ exercise.status = "PASS" => exercise.step = 5

LEMMA WholeIsBundle == Whole \in Bundles
BY DEF Whole, Bundles

LEMMA ExerciseInit == Init => ExerciseInv
<1>. SUFFICES ASSUME Init PROVE ExerciseInv
  OBVIOUS
<1>1. bundle \in Bundles
  <2>1. \A b \in Bundles : /\ [b EXCEPT !.bound = FALSE] \in Bundles
                           /\ [b EXCEPT !.extra = TRUE] \in Bundles
    BY DEF Bundles
  <2>2. bundle \in {Whole, [Whole EXCEPT !.bound = FALSE], [Whole EXCEPT !.extra = TRUE]}
    BY DEF Init, TrustInit
  <2>. QED  BY <2>1, <2>2, WholeIsBundle
<1>2. exercise = [step |-> 0, accepted |-> Whole, status |-> "none"]
  BY DEF Init, TrustInit
<1>3. exercise \in [step : 0..5, accepted : Bundles, status : {"none", "refused", "PASS"}]
  BY <1>2, WholeIsBundle
<1>. QED  BY <1>1, <1>2, <1>3 DEF ExerciseInv

\* A reason names a check that is made.
LEMMA ReasonIsMade ==
    ASSUME NEW b
    PROVE  /\ Refusal(b, checks) = "anchor" => "anchor" \in checks
           /\ Refusal(b, checks) = "signature" => "signature" \in checks
           /\ Refusal(b, checks) = "checksum" => "checksum" \in checks
BY DEF Refusal

LEMMA ExerciseNext == ExerciseInv /\ [Next]_vars => ExerciseInv'
<1>. SUFFICES ASSUME ExerciseInv, [Next]_vars PROVE ExerciseInv'
  OBVIOUS
<1>. USE DEF ExerciseInv
<1>1. CASE UNCHANGED trustVars
  BY <1>1 DEF trustVars
<1>2. CASE Decay
  <2>1. bundle' \in Bundles
    <3>1. ASSUME NEW i \in Inventory, NEW c \in {"changed", "gone"},
                 bundle' = [bundle EXCEPT !.files[i] = c]
          PROVE  bundle' \in Bundles
      <4>1. [bundle.files EXCEPT ![i] = c] \in [Inventory -> {"kept", "changed", "gone"}]
        BY <3>1 DEF Bundles
      <4>2. bundle' = [bundle EXCEPT !.files = [bundle.files EXCEPT ![i] = c]]
        BY <3>1 DEF Bundles
      <4>. QED  BY <4>1, <4>2 DEF Bundles
    <3>2. CASE bundle' = [bundle EXCEPT !.manifest = "changed"]
      BY <3>2 DEF Bundles
    <3>3. CASE bundle' = [bundle EXCEPT !.extra = TRUE]
      BY <3>3 DEF Bundles
    <3>. QED  BY <1>2, <3>1, <3>2, <3>3 DEF Decay
  <2>. QED  BY <1>2, <2>1 DEF Decay
<1>3. CASE Accept
  <2>1. UNCHANGED <<bundle, checks>> /\ exercise.step = 0 /\ exercise.status = "none"
    BY <1>3 DEF Accept
  <2>2. CASE /\ Refusal(bundle, checks) = "none"
             /\ exercise' = [exercise EXCEPT !.step = 1, !.accepted = bundle]
    <3>1. /\ exercise'.step = 1 /\ exercise'.accepted = bundle /\ exercise'.status = "none"
          /\ exercise' \in [step : 0..5, accepted : Bundles, status : {"none", "refused", "PASS"}]
      <4>1. 1 \in 0..5
        OBVIOUS
      <4>. QED  BY <2>1, <2>2, <4>1
    <3>2. Refusal(exercise'.accepted, checks') = "none"
      BY <2>1, <2>2, <3>1
    <3>. QED  BY <2>1, <3>1, <3>2
  <2>3. CASE exercise' = [exercise EXCEPT !.status = "refused"]
    BY <2>1, <2>3
  <2>. QED  BY <1>3, <2>2, <2>3 DEF Accept
<1>4. CASE Observe
  <2>1. exercise.step \in 1..4 /\ UNCHANGED <<bundle, checks>> /\ exercise.status = "none"
    BY <1>4 DEF Observe
  <2>2. CASE exercise' = [exercise EXCEPT !.status = "refused"]
    BY <2>1, <2>2
  <2>3. CASE /\ exercise' = [exercise EXCEPT !.step = @ + 1]
             /\ Refusal(Prepared(Negatives[exercise.step]), checks)
                    = Expects[Negatives[exercise.step]]
    <3>1. exercise.step = 1 => "anchor" \in checks
      BY <2>3, ReasonIsMade DEF Negatives, Expects
    <3>2. exercise.step = 2 => "signature" \in checks
      BY <2>3, ReasonIsMade DEF Negatives, Expects
    <3>3. exercise.step = 3 => "checksum" \in checks
      BY <2>3, ReasonIsMade DEF Negatives, Expects
    <3>4. /\ exercise'.step = exercise.step + 1 /\ exercise'.accepted = exercise.accepted
          /\ exercise'.status = "none"
          /\ exercise' \in [step : 0..5, accepted : Bundles, status : {"none", "refused", "PASS"}]
      BY <2>1, <2>3
    <3>5. Refusal(exercise'.accepted, checks') = Refusal(exercise.accepted, checks)
      BY <2>1, <3>4
    <3>. QED  BY <2>1, <3>1, <3>2, <3>3, <3>4, <3>5
  <2>. QED  BY <1>4, <2>2, <2>3 DEF Observe
<1>5. CASE Report
  BY <1>5 DEF Report
<1>. QED  BY <1>1, <1>2, <1>3, <1>4, <1>5 DEF Next, TrustNext, vars

\* An exercise that passes proves the verifier has the checks its negatives are there for,
\* and what was accepted is signed and holds the inventory's bytes (exercising.py,
\* verifying.py), for every verifier and whatever became of the bundle meanwhile.
THEOREM ExercisesProveVerifiers == Spec => []ExerciseProvesVerifier
<1>1. Init => ExerciseInv
  BY ExerciseInit
<1>2. ExerciseInv /\ [Next]_vars => ExerciseInv'
  BY ExerciseNext
<1>3. ExerciseInv => ExerciseProvesVerifier
  <2>. SUFFICES ASSUME ExerciseInv, exercise.status = "PASS"
                PROVE  /\ Needed \subseteq checks
                       /\ exercise.accepted.manifest = "signed"
                       /\ Faults(exercise.accepted) = {}
    BY DEF ExerciseProvesVerifier
  <2>1. Needed \subseteq checks
    BY DEF ExerciseInv, Needed
  <2>2. Refusal(exercise.accepted, checks) = "none"
    BY DEF ExerciseInv
  <2>. QED  BY <2>1, <2>2 DEF Refusal, Needed
<1>. QED  BY <1>1, <1>2, <1>3, PTL DEF Spec

(***************************************************************************)
(* The trial of the builder's verifiers.                                    *)
(***************************************************************************)

\* A trial that goes on has heard only what it expects.
TrialInv ==
    /\ trial \in [step : {"idle", "asking", "ended"}, status : {"none", "PASS"},
                  answers : [Questions -> {"none", "accepted", "refused", "otherwise"}]]
    /\ trial.step = "idle" => \A q \in Questions : trial.answers[q] = "none"
    /\ trial.step = "asking" => \A q \in Questions : trial.answers[q] \in {"none", Fit(q)}

LEMMA TrialInit == Init => TrialInv
BY DEF Init, FixturesInit, NoTrial, TrialInv

\* The steps of the fixtures that leave the trial alone.
LEMMA OtherSteps ==
    ASSUME FixturesNext
    PROVE  \/ trial' = trial \/ StartTrial \/ EndTrial \/ \E q \in Questions : AskVerifier(q)
BY DEF FixturesNext, Import, Start, BuildA, BuildB, Share, Derive, Unsign, SignWrong, LinkWrong,
   Strip, Swap, ChangePolicy, Finish, Fail, StartDedupe, EndDedupe, NextDedupe, ShareExtents

LEMMA TrialNext == TrialInv /\ [Next]_vars => TrialInv'
<1>. SUFFICES ASSUME TrialInv, [Next]_vars PROVE TrialInv'
  OBVIOUS
<1>. USE DEF TrialInv
<1>1. CASE trial' = trial
  BY <1>1
<1>2. CASE StartTrial
  BY <1>2 DEF StartTrial
<1>3. CASE EndTrial
  BY <1>3 DEF EndTrial
<1>4. ASSUME NEW q \in Questions, AskVerifier(q) PROVE TrialInv'
  <2>1. PICK answer \in {"accepted", "refused", "otherwise"} :
            trial' = [trial EXCEPT !.answers = [trial.answers EXCEPT ![q] = answer],
                                   !.step = IF answer = Fit(q) THEN trial.step ELSE "ended"]
    BY <1>4 DEF AskVerifier
  <2>2. trial.step = "asking"
    BY <1>4 DEF AskVerifier
  <2>3. [trial.answers EXCEPT ![q] = answer]
            \in [Questions -> {"none", "accepted", "refused", "otherwise"}]
    OBVIOUS
  <2>4. answer = Fit(q) => \A p \in Questions : trial'.answers[p] \in {"none", Fit(p)}
    BY <2>1, <2>2
  <2>. QED  BY <2>1, <2>2, <2>3, <2>4
<1>. QED
  BY <1>1, <1>2, <1>3, <1>4, OtherSteps DEF Next, vars, fixtureVars

\* A trial passes only as it ends, with every answer given and the policy looked at.
LEMMA TrialPasses ==
    ASSUME TrialInv, [Next]_vars
    PROVE  [trial'.status = "PASS" /\ trial.status # "PASS" =>
               policy = "same" /\ \A q \in Questions : trial.answers[q] = Fit(q)]_fixtureVars
<1>. SUFFICES ASSUME trial'.status = "PASS", trial.status # "PASS"
              PROVE  policy = "same" /\ \A q \in Questions : trial.answers[q] = Fit(q)
  OBVIOUS
<1>1. CASE EndTrial
  BY <1>1 DEF EndTrial, TrialInv
<1>2. CASE StartTrial
  BY <1>2 DEF StartTrial, TrialInv
<1>3. ASSUME NEW q \in Questions, AskVerifier(q) PROVE FALSE
  <2>1. trial'.status = trial.status
    BY <1>3 DEF AskVerifier, TrialInv
  <2>. QED  BY <2>1
<1>. QED  BY <1>1, <1>2, <1>3, OtherSteps DEF Next, vars, fixtureVars

\* A trial that passes heard what it expects of the copy and of the proxy in every case, and
\* the builder's policy is as the trial found it (installer_trust_unit.py).
THEOREM TrialsAreEarned == Spec => TrialIsEarned
<1>1. Init => TrialInv
  BY TrialInit
<1>2. TrialInv /\ [Next]_vars => TrialInv'
  BY TrialNext
<1>3. TrialInv /\ [Next]_vars =>
          [trial'.status = "PASS" /\ trial.status # "PASS" =>
              policy = "same" /\ \A q \in Questions : trial.answers[q] = Fit(q)]_fixtureVars
  BY TrialPasses
<1>. QED  BY <1>1, <1>2, <1>3, PTL DEF Spec, TrialIsEarned

(***************************************************************************)
(* The builder's fixtures.                                                  *)
(***************************************************************************)

BuildSteps == {"a", "b", "share", "derive", "unsign", "sign", "link", "strip", "swap", "finish"}

\* What the proofs need to know about the names of files and directories.
LEMMA FileNames ==
    /\ Base \in Layers /\ "signature" \notin Layers /\ "manifest" \notin Layers
    /\ "signature" \in Kinds /\ Layers \subseteq Kinds
    /\ NoFile \notin Dirs \X Kinds /\ NoFile \in FileContents
    /\ \A image \in {"a", "b"}, signed \in {"trusted", "wrong"}, k \in Kinds :
           /\ ImageFile(image, signed, k) \in FileContents
           /\ ImageFile(image, signed, k) # NoFile
           /\ k # "signature" => ImageFile(image, signed, k) = ImageFile(image, "trusted", k)
BY FixturesAssumption DEF Kinds, NoFile, Dirs, FileContents, ImageFile

LEMMA FixtureStarts == Init => FixtureInv
<1>. SUFFICES ASSUME Init PROVE FixtureInv
  OBVIOUS
<1>1. FixtureTypes
  BY FileNames DEF Init, FixturesInit, FixtureTypes
<1>. QED
  BY <1>1 DEF Init, FixturesInit, FixtureInv, ParentInv, TreeInv, DataInv, ReportInv, DedupeInv,
     AfterA, AfterB, AfterDerive, AfterSign, AfterLink, FixtureTypes

\* While the fixture is being made nothing is reported and nothing shared.
LEMMA NothingYet ==
    ASSUME FixtureInv, step \in BuildSteps
    PROVE  report.status # "PASS" /\ dedupe.step # "sharing" /\ dedupe.status # "PASS"
BY DEF FixtureInv, ReportInv, DedupeInv, BuildSteps

LEMMA Unreported ==
    ASSUME FixtureInv, step \in BuildSteps, UNCHANGED <<report, dedupe>>
    PROVE  ReportInv' /\ DedupeInv'
BY NothingYet DEF ReportInv, DedupeInv

\* Steps that touch no file.
LEMMA FilesAlone ==
    ASSUME FixtureInv, UNCHANGED <<images, paths, data, report, dedupe>>,
           stored' \in {"none", "frozen", "other"},
           \/ step' = step /\ (stored' = stored \/ step \notin BuildSteps)
           \/ step' = "refused" /\ step # "done"
           \/ step = "idle" /\ step' = "a" /\ stored' = "frozen"
    PROVE  FixtureInv'
<1>1. CASE step' = step /\ (stored' = stored \/ step \notin BuildSteps)
  <2>1. FixtureTypes' /\ ParentInv'
    BY <1>1 DEF FixtureInv, FixtureTypes, ParentInv, BuildSteps
  <2>2. TreeInv'
    BY <1>1 DEF FixtureInv, TreeInv, OwnOrShared, CaseFile, SignatureOf
  <2>3. DataInv'
    BY <1>1 DEF FixtureInv, DataInv, Exposed
  <2>4. ReportInv' /\ DedupeInv'
    BY <1>1 DEF FixtureInv, ReportInv, DedupeInv, Named, Content
  <2>. QED  BY <2>1, <2>2, <2>3, <2>4 DEF FixtureInv
<1>2. CASE step' \in {"refused", "a"} /\ step # "done" /\ (step' = "a" => stored' = "frozen")
  <2>1. step' \notin AfterA
    BY <1>2 DEF AfterA
  <2>2. FixtureTypes' /\ ParentInv'
    BY <1>2, <2>1 DEF FixtureInv, FixtureTypes, ParentInv, AfterB
  <2>3. TreeInv' /\ DataInv'
    BY <1>2, <2>1 DEF TreeInv, DataInv, AfterA, AfterB, AfterDerive, AfterSign, AfterLink
  <2>4. report.status # "PASS"
    BY <1>2 DEF FixtureInv, ReportInv
  <2>5. ReportInv' /\ DedupeInv'
    BY <2>4 DEF FixtureInv, ReportInv, DedupeInv
  <2>. QED  BY <2>2, <2>3, <2>5 DEF FixtureInv
<1>. QED  BY <1>1, <1>2


\* What the helpers of the file system do, path by path and inode by inode.
LEMMA CopiedImage ==
    ASSUME FixtureTypes, NEW d \in Dirs, NEW image \in {"a", "b"},
           NEW signed \in {"trusted", "wrong"}, CopyImage(d, image, signed)
    PROVE  /\ paths' \in [Dirs \X Kinds -> (Dirs \X Kinds) \cup {NoFile}]
           /\ data' \in [Dirs \X Kinds -> FileContents]
           /\ \A k \in Kinds : /\ paths'[<<d, k>>] = <<d, k>>
                               /\ data'[<<d, k>>] = ImageFile(image, signed, k)
           /\ \A e \in Dirs \ {d}, k \in Kinds : /\ paths'[<<e, k>>] = paths[<<e, k>>]
                                                 /\ data'[<<e, k>>] = data[<<e, k>>]
<1>1. /\ DOMAIN paths = Dirs \X Kinds /\ DOMAIN data = Dirs \X Kinds
      /\ paths' = [p \in Dirs \X Kinds |-> IF p[1] = d THEN p ELSE paths[p]]
      /\ data' = [i \in Dirs \X Kinds |->
                     IF i[1] = d THEN ImageFile(image, signed, i[2]) ELSE data[i]]
  BY DEF CopyImage, FixtureTypes
<1>2. \A i \in Dirs \X Kinds : ImageFile(image, signed, i[2]) \in FileContents
  BY FileNames
<1>3. \A i \in Dirs \X Kinds : paths[i] \in (Dirs \X Kinds) \cup {NoFile} /\ data[i] \in FileContents
  BY DEF FixtureTypes
<1>4. paths' \in [Dirs \X Kinds -> (Dirs \X Kinds) \cup {NoFile}]
  BY <1>1, <1>3
<1>5. data' \in [Dirs \X Kinds -> FileContents]
  BY <1>1, <1>2, <1>3
<1>6. \A e \in Dirs, k \in Kinds : <<e, k>> \in Dirs \X Kinds /\ <<e, k>>[1] = e /\ <<e, k>>[2] = k
  OBVIOUS
<1>. QED  BY <1>1, <1>4, <1>5, <1>6

LEMMA LinkedTree ==
    ASSUME FixtureTypes, NEW ds \in SUBSET Dirs, LinkTree(ds)
    PROVE  /\ paths' \in [Dirs \X Kinds -> (Dirs \X Kinds) \cup {NoFile}]
           /\ \A e \in Dirs, k \in Kinds :
                  paths'[<<e, k>>] = IF e \in ds THEN paths[<<"b", k>>] ELSE paths[<<e, k>>]
<1>1. paths' = [p \in Dirs \X Kinds |-> IF p[1] \in ds THEN paths[<<"b", p[2]>>] ELSE paths[p]]
  BY DEF LinkTree, FixtureTypes
<1>2. \A p \in Dirs \X Kinds : <<"b", p[2]>> \in Dirs \X Kinds
  BY DEF Dirs
<1>3. paths' \in [Dirs \X Kinds -> (Dirs \X Kinds) \cup {NoFile}]
  BY <1>1, <1>2 DEF FixtureTypes
<1>4. \A e \in Dirs, k \in Kinds : <<e, k>> \in Dirs \X Kinds /\ <<e, k>>[1] = e /\ <<e, k>>[2] = k
  OBVIOUS
<1>. QED  BY <1>1, <1>3, <1>4

LEMMA RemovedFile ==
    ASSUME FixtureTypes, NEW d \in Dirs, Remove(d, "signature")
    PROVE  /\ paths' \in [Dirs \X Kinds -> (Dirs \X Kinds) \cup {NoFile}]
           /\ \A e \in Dirs, k \in Kinds :
                  paths'[<<e, k>>] = IF e = d /\ k = "signature" THEN NoFile ELSE paths[<<e, k>>]
<1>1. <<d, "signature">> \in Dirs \X Kinds
  BY FileNames
<1>2. \A e \in Dirs, k \in Kinds : <<e, k>> = <<d, "signature">> <=> e = d /\ k = "signature"
  OBVIOUS
<1>. QED  BY <1>1, <1>2 DEF Remove, FixtureTypes

\* The two versions, the sharing of their blobs, and the cases.
LEMMA BuildAKeeps == ASSUME FixtureInv, BuildA PROVE FixtureInv'
<1>. USE DEF FixtureInv
<1>1. step = "a" /\ step' = "b" /\ stored' = stored /\ stored = "frozen" /\ FixtureTypes
  BY DEF BuildA, ParentInv
<1>2. /\ paths' \in [Dirs \X Kinds -> (Dirs \X Kinds) \cup {NoFile}]
      /\ data' \in [Dirs \X Kinds -> FileContents]
      /\ \A k \in Kinds : /\ paths'[<<"a", k>>] = <<"a", k>>
                          /\ data'[<<"a", k>>] = ImageFile("a", "trusted", k)
  BY <1>1, CopiedImage DEF BuildA, Dirs
<1>3. FixtureTypes' /\ ParentInv'
  BY <1>1, <1>2 DEF BuildA, FixtureTypes, ParentInv, AfterA, AfterB
<1>4. TreeInv' /\ DataInv'
  BY <1>1, <1>2 DEF TreeInv, DataInv, AfterB, AfterDerive, AfterSign, AfterLink
<1>5. ReportInv' /\ DedupeInv'
  BY <1>1, Unreported DEF BuildA, BuildSteps
<1>. QED  BY <1>3, <1>4, <1>5

LEMMA BuildBKeeps == ASSUME FixtureInv, BuildB PROVE FixtureInv'
<1>. USE DEF FixtureInv
<1>1. /\ step = "b" /\ step' = "share" /\ stored' = stored /\ FixtureTypes
      /\ images.a = "frozen" /\ images' = [images EXCEPT !.b = images.a]
      /\ UNCHANGED <<report, dedupe>>
  BY DEF BuildB, ParentInv, AfterA
<1>2. /\ paths' \in [Dirs \X Kinds -> (Dirs \X Kinds) \cup {NoFile}]
      /\ data' \in [Dirs \X Kinds -> FileContents]
      /\ \A k \in Kinds : /\ paths'[<<"b", k>>] = <<"b", k>>
                          /\ data'[<<"b", k>>] = ImageFile("b", "trusted", k)
                          /\ paths'[<<"a", k>>] = paths[<<"a", k>>]
                          /\ data'[<<"a", k>>] = data[<<"a", k>>]
  <2>1. "a" \in Dirs \ {"b"} /\ "b" \in Dirs
    BY DEF Dirs
  <2>2. CopyImage("b", "b", "trusted")
    BY DEF BuildB
  <2>. QED  BY <1>1, <2>1, <2>2, CopiedImage
<1>3. \A k \in Kinds : /\ paths[<<"a", k>>] = <<"a", k>>
                       /\ data[<<"a", k>>] = ImageFile("a", "trusted", k)
  BY <1>1 DEF TreeInv, DataInv, AfterA, Exposed
<1>4. FixtureTypes' /\ ParentInv'
  BY <1>1, <1>2 DEF FixtureTypes, ParentInv, AfterA
<1>5. TreeInv'
  BY <1>1, <1>2, <1>3 DEF TreeInv, OwnOrShared, AfterDerive, AfterB, AfterSign, AfterLink
<1>6. DataInv'
  BY <1>1, <1>2, <1>3 DEF DataInv, AfterSign, AfterDerive, AfterB
<1>7. ReportInv' /\ DedupeInv'
  BY <1>1, Unreported DEF BuildSteps
<1>. QED  BY <1>4, <1>5, <1>6, <1>7

LEMMA ShareKeeps == ASSUME FixtureInv, Share PROVE FixtureInv'
<1>. USE DEF FixtureInv
<1>1. /\ step = "share" /\ step' = "derive" /\ FixtureTypes
      /\ UNCHANGED <<stored, images, data, report, dedupe>>
  BY DEF Share
<1>2. \A k \in Kinds : /\ paths[<<"a", k>>] = <<"a", k>> /\ paths[<<"b", k>>] = <<"b", k>>
                       /\ data[<<"a", k>>] = ImageFile("a", "trusted", k)
                       /\ data[<<"b", k>>] = ImageFile("b", "trusted", k)
  BY <1>1 DEF TreeInv, DataInv, AfterA, AfterB, Exposed, OwnOrShared
<1>3. paths' = [p \in Dirs \X Kinds |->
                   IF p[1] = "b" /\ p[2] \in Layers /\ Content(p) = Content(<<"a", p[2]>>)
                   THEN paths[<<"a", p[2]>>] ELSE paths[p]]
  BY <1>1 DEF Share, FixtureTypes
<1>4. paths' \in [Dirs \X Kinds -> (Dirs \X Kinds) \cup {NoFile}]
  <2>1. \A p \in Dirs \X Kinds : <<"a", p[2]>> \in Dirs \X Kinds
    BY DEF Dirs
  <2>. QED  BY <1>3, <2>1 DEF FixtureTypes
<1>5. ASSUME NEW k \in Kinds
      PROVE  /\ paths'[<<"a", k>>] = <<"a", k>>
             /\ \/ paths'[<<"b", k>>] = <<"b", k>>
                \/ /\ k \in Layers /\ paths'[<<"b", k>>] = <<"a", k>>
                   /\ ImageFile("a", "trusted", k) = ImageFile("b", "trusted", k)
  <2>1. <<"a", k>> \in Dirs \X Kinds /\ <<"b", k>> \in Dirs \X Kinds
    BY DEF Dirs
  <2>2. /\ Content(<<"a", k>>) = ImageFile("a", "trusted", k)
        /\ Content(<<"b", k>>) = ImageFile("b", "trusted", k)
    BY <1>2, <2>1, FileNames DEF Content
  <2>3. paths'[<<"a", k>>] = paths[<<"a", k>>]
    BY <1>3, <2>1
  <2>4. paths'[<<"b", k>>] =
            IF k \in Layers /\ Content(<<"b", k>>) = Content(<<"a", k>>)
            THEN paths[<<"a", k>>] ELSE paths[<<"b", k>>]
    BY <1>3, <2>1
  <2>. QED  BY <1>2, <2>2, <2>3, <2>4
<1>6. FixtureTypes' /\ ParentInv'
  BY <1>1, <1>4 DEF FixtureTypes, ParentInv, AfterA, AfterB
<1>7. TreeInv'
  BY <1>1, <1>5 DEF TreeInv, OwnOrShared, AfterDerive, AfterSign, AfterLink
<1>8. DataInv'
  BY <1>1, <1>2 DEF DataInv, AfterSign, AfterDerive
<1>9. ReportInv' /\ DedupeInv'
  BY <1>1, Unreported DEF BuildSteps
<1>. QED  BY <1>6, <1>7, <1>8, <1>9

\* The cases made from B.
LEMMA DeriveKeeps == ASSUME FixtureInv, Derive PROVE FixtureInv'
<1>. USE DEF FixtureInv
<1>1. /\ step = "derive" /\ step' = "unsign" /\ FixtureTypes
      /\ UNCHANGED <<stored, images, data, report, dedupe>>
  BY DEF Derive
<1>2. \A k \in Kinds : /\ paths[<<"a", k>>] = <<"a", k>> /\ OwnOrShared(k)
                       /\ data[<<"a", k>>] = ImageFile("a", "trusted", k)
                       /\ data[<<"b", k>>] = ImageFile("b", "trusted", k)
  BY <1>1 DEF TreeInv, DataInv, AfterA, AfterB, Exposed
<1>3. /\ paths' \in [Dirs \X Kinds -> (Dirs \X Kinds) \cup {NoFile}]
      /\ \A k \in Kinds : /\ paths'[<<"a", k>>] = paths[<<"a", k>>]
                          /\ paths'[<<"b", k>>] = paths[<<"b", k>>]
                          /\ paths'[<<"unsigned", k>>] = paths[<<"b", k>>]
                          /\ paths'[<<"untrusted", k>>] = paths[<<"b", k>>]
  <2>1. LinkTree({"unsigned", "untrusted"}) /\ {"unsigned", "untrusted"} \in SUBSET Dirs
    BY DEF Derive, Dirs
  <2>2. /\ "a" \in Dirs /\ "b" \in Dirs /\ "unsigned" \in Dirs /\ "untrusted" \in Dirs
    BY DEF Dirs
  <2>. QED  BY <1>1, <2>1, <2>2, LinkedTree
<1>4. FixtureTypes' /\ ParentInv'
  BY <1>1, <1>3 DEF FixtureTypes, ParentInv, AfterA, AfterB
<1>5. TreeInv'
  BY <1>1, <1>2, <1>3 DEF TreeInv, OwnOrShared, CaseFile, SignatureOf, AfterSign, AfterLink
<1>6. DataInv'
  BY <1>1, <1>2 DEF DataInv, AfterSign
<1>7. ReportInv' /\ DedupeInv'
  BY <1>1, Unreported DEF BuildSteps
<1>. QED  BY <1>4, <1>5, <1>6, <1>7

\* What holds of the paths and inodes from the derived cases on.
LEMMA Derived ==
    ASSUME FixtureInv, step \in AfterDerive, step # "done", NEW k \in Kinds
    PROVE  /\ paths[<<"a", k>>] = <<"a", k>>
           /\ paths[<<"unsigned", k>>] = CaseFile("unsigned", k)
           /\ paths[<<"untrusted", k>>] = paths[<<"b", k>>]
           /\ OwnOrShared(k)
           /\ data[<<"a", k>>] = ImageFile("a", "trusted", k)
           /\ data[<<"b", k>>] = ImageFile("b", "trusted", k)
           /\ step \in AfterSign => /\ paths[<<"wrong_signed", k>>] = <<"wrong_signed", k>>
                                    /\ data[<<"wrong_signed", k>>] = ImageFile("b", "wrong", k)
           /\ step \in AfterLink => paths[<<"wrong_key", k>>] = CaseFile("wrong_key", k)
<1>1. TreeInv /\ DataInv /\ ~Exposed(k) /\ step \in AfterA /\ step \in AfterB
  BY DEF FixtureInv, Exposed, AfterDerive, AfterB
<1>2. /\ paths[<<"a", k>>] = <<"a", k>> /\ OwnOrShared(k)
      /\ paths[<<"unsigned", k>>] = CaseFile("unsigned", k)
      /\ paths[<<"untrusted", k>>] = CaseFile("untrusted", k)
      /\ step \in AfterSign => paths[<<"wrong_signed", k>>] = <<"wrong_signed", k>>
      /\ step \in AfterLink => paths[<<"wrong_key", k>>] = CaseFile("wrong_key", k)
  BY <1>1 DEF TreeInv
<1>3. /\ data[<<"a", k>>] = ImageFile("a", "trusted", k)
      /\ data[<<"b", k>>] = ImageFile("b", "trusted", k)
      /\ step \in AfterSign => data[<<"wrong_signed", k>>] = ImageFile("b", "wrong", k)
  BY <1>1 DEF DataInv
<1>4. CaseFile("untrusted", k) = paths[<<"b", k>>]
  BY DEF CaseFile, SignatureOf
<1>. QED  BY <1>2, <1>3, <1>4

LEMMA UnsignKeeps == ASSUME FixtureInv, Unsign PROVE FixtureInv'
<1>. USE DEF FixtureInv
<1>1. /\ step = "unsign" /\ step' = "sign" /\ FixtureTypes /\ step \in AfterDerive
      /\ UNCHANGED <<stored, images, data, report, dedupe>>
  BY DEF Unsign, AfterDerive, AfterB, AfterA
<1>2. /\ paths' \in [Dirs \X Kinds -> (Dirs \X Kinds) \cup {NoFile}]
      /\ \A k \in Kinds : /\ paths'[<<"a", k>>] = paths[<<"a", k>>]
                          /\ paths'[<<"b", k>>] = paths[<<"b", k>>]
                          /\ paths'[<<"untrusted", k>>] = paths[<<"untrusted", k>>]
                          /\ paths'[<<"unsigned", k>>] =
                                 IF k = "signature" THEN NoFile ELSE paths[<<"unsigned", k>>]
  <2>1. /\ Remove("unsigned", "signature")
        /\ "a" \in Dirs /\ "b" \in Dirs /\ "unsigned" \in Dirs /\ "untrusted" \in Dirs
    BY DEF Unsign, Dirs
  <2>2. /\ paths' \in [Dirs \X Kinds -> (Dirs \X Kinds) \cup {NoFile}]
        /\ \A e \in Dirs, k \in Kinds :
               paths'[<<e, k>>] = IF e = "unsigned" /\ k = "signature" THEN NoFile
                                  ELSE paths[<<e, k>>]
    BY <1>1, <2>1, RemovedFile
  <2>. QED  BY <2>1, <2>2
<1>3. FixtureTypes' /\ ParentInv'
  BY <1>1, <1>2 DEF FixtureTypes, ParentInv, AfterA, AfterB
<1>4. TreeInv'
  <2>1. ASSUME NEW k \in Kinds
        PROVE  /\ paths'[<<"a", k>>] = <<"a", k>> /\ OwnOrShared(k)'
               /\ paths'[<<"unsigned", k>>] = CaseFile("unsigned", k)'
               /\ paths'[<<"untrusted", k>>] = CaseFile("untrusted", k)'
    BY <1>1, <1>2, Derived DEF OwnOrShared, CaseFile, SignatureOf
  <2>. QED  BY <1>1, <2>1 DEF TreeInv, AfterSign, AfterLink
<1>5. DataInv'
  <2>1. \A k \in Kinds : /\ data'[<<"a", k>>] = ImageFile("a", "trusted", k)
                         /\ data'[<<"b", k>>] = ImageFile("b", "trusted", k)
    BY <1>1, Derived
  <2>. QED  BY <1>1, <2>1 DEF DataInv, AfterSign
<1>6. ReportInv' /\ DedupeInv'
  BY <1>1, Unreported DEF BuildSteps
<1>. QED  BY <1>3, <1>4, <1>5, <1>6

LEMMA SignWrongKeeps == ASSUME FixtureInv, SignWrong PROVE FixtureInv'
<1>. USE DEF FixtureInv
<1>1. /\ step = "sign" /\ step' = "link" /\ FixtureTypes /\ step \in AfterDerive
      /\ UNCHANGED <<stored, images, report, dedupe>>
  BY DEF SignWrong, AfterDerive, AfterB, AfterA
<1>2. /\ paths' \in [Dirs \X Kinds -> (Dirs \X Kinds) \cup {NoFile}]
      /\ data' \in [Dirs \X Kinds -> FileContents]
      /\ \A k \in Kinds : /\ paths'[<<"wrong_signed", k>>] = <<"wrong_signed", k>>
                          /\ data'[<<"wrong_signed", k>>] = ImageFile("b", "wrong", k)
      /\ \A e \in {"a", "b", "unsigned", "untrusted"}, k \in Kinds :
             paths'[<<e, k>>] = paths[<<e, k>>] /\ data'[<<e, k>>] = data[<<e, k>>]
  <2>1. CopyImage("wrong_signed", "b", "wrong") /\ "wrong_signed" \in Dirs
    BY DEF SignWrong, Dirs
  <2>2. {"a", "b", "unsigned", "untrusted"} \subseteq Dirs \ {"wrong_signed"}
    BY DEF Dirs
  <2>. QED  BY <1>1, <2>1, <2>2, CopiedImage
<1>3. FixtureTypes' /\ ParentInv'
  BY <1>1, <1>2 DEF FixtureTypes, ParentInv, AfterA, AfterB
<1>4. TreeInv'
  <2>1. ASSUME NEW k \in Kinds
        PROVE  /\ paths'[<<"a", k>>] = <<"a", k>> /\ OwnOrShared(k)'
               /\ paths'[<<"unsigned", k>>] = CaseFile("unsigned", k)'
               /\ paths'[<<"untrusted", k>>] = CaseFile("untrusted", k)'
    <3>1. paths'[<<"a", k>>] = <<"a", k>> /\ OwnOrShared(k)'
      BY <1>1, <1>2, Derived DEF OwnOrShared
    <3>2. paths'[<<"b", "signature">>] = paths[<<"b", "signature">>]
      BY <1>2, FileNames
    <3>3. CaseFile("unsigned", k)' = CaseFile("unsigned", k)
      BY <1>1, <1>2, <3>2 DEF CaseFile, SignatureOf
    <3>4. CaseFile("untrusted", k)' = paths[<<"b", k>>]
      BY <1>2, <3>2 DEF CaseFile, SignatureOf
    <3>5. /\ paths'[<<"unsigned", k>>] = paths[<<"unsigned", k>>]
          /\ paths'[<<"untrusted", k>>] = paths[<<"untrusted", k>>]
          /\ paths'[<<"wrong_signed", k>>] = <<"wrong_signed", k>>
      BY <1>1, <1>2, Derived
    <3>. QED  BY <1>1, <3>1, <3>3, <3>4, <3>5, Derived
  <2>. QED  BY <1>1, <1>2, <2>1 DEF TreeInv, AfterLink
<1>5. DataInv'
  <2>1. \A k \in Kinds : /\ data'[<<"a", k>>] = ImageFile("a", "trusted", k)
                         /\ data'[<<"b", k>>] = ImageFile("b", "trusted", k)
    BY <1>1, <1>2, Derived
  <2>. QED  BY <1>1, <1>2, <2>1 DEF DataInv
<1>6. ReportInv' /\ DedupeInv'
  BY <1>1, Unreported DEF BuildSteps
<1>. QED  BY <1>3, <1>4, <1>5, <1>6

LEMMA LinkWrongKeeps == ASSUME FixtureInv, LinkWrong PROVE FixtureInv'
<1>. USE DEF FixtureInv
<1>1. /\ step = "link" /\ step' = "strip" /\ FixtureTypes
      /\ step \in AfterDerive /\ step \in AfterSign
      /\ UNCHANGED <<stored, images, data, report, dedupe>>
  BY DEF LinkWrong, AfterSign, AfterDerive, AfterB, AfterA
<1>2. /\ paths' \in [Dirs \X Kinds -> (Dirs \X Kinds) \cup {NoFile}]
      /\ \A k \in Kinds : paths'[<<"wrong_key", k>>] = paths[<<"b", k>>]
      /\ \A e \in {"a", "b", "unsigned", "untrusted", "wrong_signed"}, k \in Kinds :
             paths'[<<e, k>>] = paths[<<e, k>>]
  <2>1. LinkTree({"wrong_key"}) /\ {"wrong_key"} \in SUBSET Dirs /\ "wrong_key" \in Dirs
    BY DEF LinkWrong, Dirs
  <2>2. /\ {"a", "b", "unsigned", "untrusted", "wrong_signed"} \subseteq Dirs
        /\ "wrong_key" \notin {"a", "b", "unsigned", "untrusted", "wrong_signed"}
    BY DEF Dirs
  <2>3. /\ paths' \in [Dirs \X Kinds -> (Dirs \X Kinds) \cup {NoFile}]
        /\ \A e \in Dirs, k \in Kinds : paths'[<<e, k>>] =
               IF e \in {"wrong_key"} THEN paths[<<"b", k>>] ELSE paths[<<e, k>>]
    BY <1>1, <2>1, LinkedTree
  <2>. QED  BY <2>1, <2>2, <2>3
<1>3. FixtureTypes' /\ ParentInv'
  BY <1>1, <1>2 DEF FixtureTypes, ParentInv, AfterA, AfterB
<1>4. TreeInv'
  <2>1. ASSUME NEW k \in Kinds
        PROVE  /\ paths'[<<"a", k>>] = <<"a", k>> /\ OwnOrShared(k)'
               /\ paths'[<<"unsigned", k>>] = CaseFile("unsigned", k)'
               /\ paths'[<<"untrusted", k>>] = CaseFile("untrusted", k)'
               /\ paths'[<<"wrong_signed", k>>] = <<"wrong_signed", k>>
               /\ paths'[<<"wrong_key", k>>] = CaseFile("wrong_key", k)'
    <3>1. /\ paths[<<"a", k>>] = <<"a", k>> /\ OwnOrShared(k)
          /\ paths[<<"unsigned", k>>] = CaseFile("unsigned", k)
          /\ paths[<<"untrusted", k>>] = paths[<<"b", k>>]
          /\ paths[<<"wrong_signed", k>>] = <<"wrong_signed", k>>
      BY <1>1, Derived
    <3>2. /\ paths'[<<"a", k>>] = <<"a", k>> /\ paths'[<<"b", k>>] = paths[<<"b", k>>]
          /\ paths'[<<"wrong_signed", k>>] = <<"wrong_signed", k>>
      BY <1>2, <3>1
    <3>3. OwnOrShared(k)'
      BY <1>1, <3>1, <3>2 DEF OwnOrShared
    <3>4. paths'[<<"unsigned", k>>] = CaseFile("unsigned", k)'
      BY <1>1, <1>2, <3>1, <3>2 DEF CaseFile, SignatureOf
    <3>5. paths'[<<"untrusted", k>>] = CaseFile("untrusted", k)'
      BY <1>2, <3>1, <3>2 DEF CaseFile, SignatureOf
    <3>6. paths'[<<"wrong_key", k>>] = CaseFile("wrong_key", k)'
      BY <1>1, <1>2, <3>1, <3>2 DEF CaseFile, SignatureOf
    <3>. QED  BY <3>2, <3>3, <3>4, <3>5, <3>6
  <2>. QED  BY <2>1 DEF TreeInv
<1>5. DataInv'
  <2>1. \A k \in Kinds : /\ data'[<<"a", k>>] = ImageFile("a", "trusted", k)
                         /\ data'[<<"b", k>>] = ImageFile("b", "trusted", k)
                         /\ data'[<<"wrong_signed", k>>] = ImageFile("b", "wrong", k)
    BY <1>1, Derived
  <2>. QED  BY <1>1, <2>1 DEF DataInv
<1>6. ReportInv' /\ DedupeInv'
  BY <1>1, Unreported DEF BuildSteps
<1>. QED  BY <1>3, <1>4, <1>5, <1>6

LEMMA StripKeeps == ASSUME FixtureInv, Strip PROVE FixtureInv'
<1>. USE DEF FixtureInv
<1>1. /\ step = "strip" /\ step' = "swap" /\ FixtureTypes
      /\ step \in AfterDerive /\ step \in AfterSign /\ step \in AfterLink
      /\ UNCHANGED <<stored, images, data, report, dedupe>>
  BY DEF Strip, AfterLink, AfterSign, AfterDerive, AfterB, AfterA
<1>2. /\ paths' \in [Dirs \X Kinds -> (Dirs \X Kinds) \cup {NoFile}]
      /\ \A k \in Kinds : paths'[<<"wrong_key", k>>] =
                              IF k = "signature" THEN NoFile ELSE paths[<<"wrong_key", k>>]
      /\ \A e \in {"a", "b", "unsigned", "untrusted", "wrong_signed"}, k \in Kinds :
             paths'[<<e, k>>] = paths[<<e, k>>]
  <2>1. Remove("wrong_key", "signature") /\ "wrong_key" \in Dirs
    BY DEF Strip, Dirs
  <2>2. /\ {"a", "b", "unsigned", "untrusted", "wrong_signed"} \subseteq Dirs
        /\ "wrong_key" \notin {"a", "b", "unsigned", "untrusted", "wrong_signed"}
    BY DEF Dirs
  <2>. QED  BY <1>1, <2>1, <2>2, RemovedFile
<1>3. FixtureTypes' /\ ParentInv'
  BY <1>1, <1>2 DEF FixtureTypes, ParentInv, AfterA, AfterB
<1>4. TreeInv'
  <2>1. ASSUME NEW k \in Kinds
        PROVE  /\ paths'[<<"a", k>>] = <<"a", k>> /\ OwnOrShared(k)'
               /\ paths'[<<"unsigned", k>>] = CaseFile("unsigned", k)'
               /\ paths'[<<"untrusted", k>>] = CaseFile("untrusted", k)'
               /\ paths'[<<"wrong_signed", k>>] = <<"wrong_signed", k>>
               /\ paths'[<<"wrong_key", k>>] = CaseFile("wrong_key", k)'
    <3>1. /\ paths[<<"a", k>>] = <<"a", k>> /\ OwnOrShared(k)
          /\ paths[<<"unsigned", k>>] = CaseFile("unsigned", k)
          /\ paths[<<"untrusted", k>>] = paths[<<"b", k>>]
          /\ paths[<<"wrong_signed", k>>] = <<"wrong_signed", k>>
          /\ paths[<<"wrong_key", k>>] = CaseFile("wrong_key", k)
      BY <1>1, Derived
    <3>2. /\ paths'[<<"a", k>>] = <<"a", k>> /\ paths'[<<"b", k>>] = paths[<<"b", k>>]
          /\ paths'[<<"wrong_signed", k>>] = <<"wrong_signed", k>>
      BY <1>2, <3>1
    <3>3. OwnOrShared(k)'
      BY <1>1, <3>1, <3>2 DEF OwnOrShared
    <3>4. paths'[<<"unsigned", k>>] = CaseFile("unsigned", k)'
      BY <1>1, <1>2, <3>1, <3>2 DEF CaseFile, SignatureOf
    <3>5. paths'[<<"untrusted", k>>] = CaseFile("untrusted", k)'
      BY <1>2, <3>1, <3>2 DEF CaseFile, SignatureOf
    <3>6. paths'[<<"wrong_key", k>>] = CaseFile("wrong_key", k)'
      BY <1>1, <1>2, <3>1, <3>2 DEF CaseFile, SignatureOf
    <3>. QED  BY <3>2, <3>3, <3>4, <3>5, <3>6
  <2>. QED  BY <2>1 DEF TreeInv
<1>5. DataInv'
  <2>1. \A k \in Kinds : /\ data'[<<"a", k>>] = ImageFile("a", "trusted", k)
                         /\ data'[<<"b", k>>] = ImageFile("b", "trusted", k)
                         /\ data'[<<"wrong_signed", k>>] = ImageFile("b", "wrong", k)
    BY <1>1, Derived
  <2>. QED  BY <1>1, <2>1 DEF DataInv
<1>6. ReportInv' /\ DedupeInv'
  BY <1>1, Unreported DEF BuildSteps
<1>. QED  BY <1>3, <1>4, <1>5, <1>6

LEMMA SwapKeeps == ASSUME FixtureInv, Swap PROVE FixtureInv'
<1>. USE DEF FixtureInv
<1>1. /\ step = "swap" /\ step' = "finish" /\ FixtureTypes
      /\ step \in AfterDerive /\ step \in AfterSign /\ step \in AfterLink
      /\ UNCHANGED <<stored, images, report, dedupe>>
  BY DEF Swap, AfterLink, AfterSign, AfterDerive, AfterB, AfterA
<1>d. /\ <<"wrong_key", "signature">> \in Dirs \X Kinds
      /\ <<"wrong_signed", "signature">> \in Dirs \X Kinds
      /\ "signature" \in Kinds
  BY FileNames DEF Dirs
<1>2. /\ paths[<<"wrong_key", "signature">>] = NoFile
      /\ paths[<<"wrong_signed", "signature">>] = <<"wrong_signed", "signature">>
      /\ data[<<"wrong_signed", "signature">>] = <<"wrong", "b">>
  BY <1>1, <1>d, Derived DEF CaseFile, SignatureOf, ImageFile
<1>3. Content(<<"wrong_signed", "signature">>) = <<"wrong", "b">>
  BY <1>2, <1>d, FileNames DEF Content
<1>4. paths' = [paths EXCEPT ![<<"wrong_key", "signature">>] = <<"wrong_key", "signature">>]
  BY <1>2, <1>1, <1>d DEF Swap, CopyFile, Fresh, FixtureTypes
<1>5. data' = [data EXCEPT ![<<"wrong_key", "signature">>] = <<"wrong", "b">>]
  <2>1. data' = [data EXCEPT ![paths'[<<"wrong_key", "signature">>]] =
                     Content(<<"wrong_signed", "signature">>)]
    BY DEF Swap, CopyFile
  <2>2. paths'[<<"wrong_key", "signature">>] = <<"wrong_key", "signature">>
    BY <1>1, <1>4, <1>d DEF FixtureTypes
  <2>. QED  BY <1>3, <2>1, <2>2
<1>6. <<"wrong", "b">> \in FileContents
  BY DEF FileContents
<1>7. /\ paths' \in [Dirs \X Kinds -> (Dirs \X Kinds) \cup {NoFile}]
      /\ data' \in [Dirs \X Kinds -> FileContents]
      /\ paths'[<<"wrong_key", "signature">>] = <<"wrong_key", "signature">>
      /\ data'[<<"wrong_key", "signature">>] = <<"wrong", "b">>
  BY <1>1, <1>4, <1>5, <1>6, <1>d DEF FixtureTypes
<1>8. ASSUME NEW e \in Dirs, NEW k \in Kinds, e # "wrong_key" \/ k # "signature"
      PROVE  paths'[<<e, k>>] = paths[<<e, k>>] /\ data'[<<e, k>>] = data[<<e, k>>]
  BY <1>1, <1>4, <1>5, <1>8 DEF FixtureTypes
<1>9. FixtureTypes' /\ ParentInv'
  BY <1>1, <1>7 DEF FixtureTypes, ParentInv, AfterA, AfterB
<1>10. \A e \in {"a", "b", "unsigned", "untrusted", "wrong_signed"}, k \in Kinds :
             paths'[<<e, k>>] = paths[<<e, k>>] /\ data'[<<e, k>>] = data[<<e, k>>]
  BY <1>8 DEF Dirs
<1>11. TreeInv'
  <2>1. ASSUME NEW k \in Kinds
        PROVE  /\ paths'[<<"a", k>>] = <<"a", k>> /\ OwnOrShared(k)'
               /\ paths'[<<"unsigned", k>>] = CaseFile("unsigned", k)'
               /\ paths'[<<"untrusted", k>>] = CaseFile("untrusted", k)'
               /\ paths'[<<"wrong_signed", k>>] = <<"wrong_signed", k>>
    <3>1. paths'[<<"a", k>>] = <<"a", k>> /\ OwnOrShared(k)'
      BY <1>1, <1>10, Derived DEF OwnOrShared
    <3>2. paths'[<<"b", "signature">>] = paths[<<"b", "signature">>]
      BY <1>10, FileNames
    <3>3. CaseFile("unsigned", k)' = CaseFile("unsigned", k)
      BY <1>1, <1>10, <3>2 DEF CaseFile, SignatureOf
    <3>4. CaseFile("untrusted", k)' = paths[<<"b", k>>]
      BY <1>10, <3>2 DEF CaseFile, SignatureOf
    <3>5. /\ paths'[<<"unsigned", k>>] = paths[<<"unsigned", k>>]
          /\ paths'[<<"untrusted", k>>] = paths[<<"untrusted", k>>]
          /\ paths'[<<"wrong_signed", k>>] = <<"wrong_signed", k>>
      BY <1>1, <1>10, Derived
    <3>. QED  BY <1>1, <3>1, <3>3, <3>4, <3>5, Derived
  <2>2. ASSUME NEW k \in Kinds PROVE paths'[<<"wrong_key", k>>] = CaseFile("wrong_key", k)'
    <3>1. CASE k = "signature"
      BY <1>1, <1>7, <3>1 DEF CaseFile, SignatureOf
    <3>2. CASE k # "signature"
      <4>1. paths'[<<"wrong_key", k>>] = paths[<<"wrong_key", k>>]
        BY <1>8, <3>2 DEF Dirs
      <4>. QED  BY <1>1, <1>10, <3>2, <4>1, Derived DEF CaseFile
    <3>. QED  BY <3>1, <3>2
  <2>. QED  BY <2>1, <2>2 DEF TreeInv
<1>12. DataInv'
  <2>1. \A k \in Kinds : /\ data'[<<"a", k>>] = ImageFile("a", "trusted", k)
                         /\ data'[<<"b", k>>] = ImageFile("b", "trusted", k)
                         /\ data'[<<"wrong_signed", k>>] = ImageFile("b", "wrong", k)
    BY <1>1, <1>10, Derived
  <2>. QED  BY <1>1, <1>7, <2>1 DEF DataInv
<1>13. ReportInv' /\ DedupeInv'
  BY <1>1, Unreported DEF BuildSteps
<1>. QED  BY <1>9, <1>11, <1>12, <1>13

\* What each file of the bundle contains when the fixture is finished.
LEMMA FinishedFiles ==
    ASSUME FixtureInv, step = "finish", NEW d \in Bundle, NEW k \in Kinds
    PROVE  Content(<<d, k>>) = FileExpected(d, k)
<1>1. step \in AfterDerive /\ step \in AfterSign /\ step \in AfterLink /\ step # "done"
  BY DEF AfterLink, AfterSign, AfterDerive, AfterB, AfterA
<1>2. data[<<"wrong_key", "signature">>] = <<"wrong", "b">>
  BY DEF FixtureInv, DataInv
<1>3. /\ paths[<<"a", k>>] = <<"a", k>>
      /\ data[<<"a", k>>] = ImageFile("a", "trusted", k)
      /\ data[<<"b", k>>] = ImageFile("b", "trusted", k)
      /\ OwnOrShared(k)
      /\ paths[<<"untrusted", k>>] = paths[<<"b", k>>]
      /\ paths[<<"unsigned", k>>] = CaseFile("unsigned", k)
      /\ paths[<<"wrong_key", k>>] = CaseFile("wrong_key", k)
  BY <1>1, Derived
<1>4. <<"a", k>> # NoFile /\ <<"b", k>> # NoFile /\ <<"wrong_key", k>> # NoFile
  BY DEF NoFile
<1>5. Content(<<"a", k>>) = ImageFile("a", "trusted", k)
  BY <1>3, <1>4 DEF Content
<1>6. Content(<<"b", k>>) = ImageFile("b", "trusted", k)
  BY <1>3, <1>4 DEF Content, OwnOrShared
<1>7. CASE k # "signature"
  <2>1. /\ CaseFile("unsigned", k) = paths[<<"b", k>>]
        /\ CaseFile("wrong_key", k) = paths[<<"b", k>>]
    BY <1>7 DEF CaseFile
  <2>2. d # "a" => Content(<<d, k>>) = Content(<<"b", k>>)
    BY <1>3, <2>1 DEF Bundle, Dirs, Content
  <2>. QED  BY <1>5, <1>6, <1>7, <2>2 DEF FileExpected
<1>8. CASE k = "signature"
  <2>1. CaseFile("unsigned", k) = NoFile /\ CaseFile("wrong_key", k) = <<"wrong_key", k>>
    BY <1>8 DEF CaseFile, SignatureOf
  <2>2. Content(<<"unsigned", k>>) = NoFile /\ Content(<<"wrong_key", k>>) = <<"wrong", "b">>
    BY <1>2, <1>3, <1>4, <1>8, <2>1 DEF Content
  <2>3. Content(<<"untrusted", k>>) = <<"trusted", "b">>
    BY <1>3, <1>6, <1>8 DEF Content, ImageFile
  <2>. QED  BY <1>5, <1>6, <1>8, <2>2, <2>3 DEF FileExpected, Faulty, Bundle, Dirs
<1>. QED  BY <1>7, <1>8

LEMMA FinishKeeps == ASSUME FixtureInv, Finish PROVE FixtureInv'
<1>1. CASE policy = "same"
  <2>1. /\ step = "finish" /\ step' = "done" /\ report' = [status |-> "PASS", files |-> Held]
        /\ UNCHANGED <<stored, images, paths, data, dedupe>>
    BY <1>1 DEF Finish
  <2>t. /\ step \in AfterA /\ step \in AfterB /\ step \in AfterDerive /\ step \in AfterSign
        /\ step \in AfterLink /\ step \in BuildSteps
    BY <2>1 DEF AfterLink, AfterSign, AfterDerive, AfterB, AfterA, BuildSteps
  <2>2. Held \in [Dirs \X Kinds -> FileContents]
    <3>1. \A p \in Dirs \X Kinds : Content(p) \in FileContents
      BY FileNames DEF Content, FixtureInv, FixtureTypes
    <3>. QED  BY <3>1 DEF Held
  <2>3. FixtureTypes' /\ ParentInv'
    BY <2>1, <2>t, <2>2 DEF FixtureInv, FixtureTypes, ParentInv, AfterA
  <2>4. TreeInv'
    <3>1. ASSUME NEW k \in Kinds PROVE OwnOrShared(k)'
      BY <2>1, <2>t DEF FixtureInv, TreeInv, OwnOrShared
    <3>2. ASSUME NEW k \in Kinds, NEW c \in {"unsigned", "untrusted", "wrong_key"}
          PROVE  CaseFile(c, k)' = CaseFile(c, k)
      BY <2>1 DEF CaseFile, SignatureOf
    <3>. QED  BY <2>1, <2>t, <3>1, <3>2 DEF FixtureInv, TreeInv
  <2>5. DataInv'
    BY <2>1, <2>t DEF FixtureInv, DataInv, Exposed
  <2>6. ReportInv'
    <3>1. ASSUME NEW d \in Bundle, NEW k \in Kinds PROVE Held[<<d, k>>] = FileExpected(d, k)
      <4>1. <<d, k>> \in Dirs \X Kinds
        BY DEF Bundle
      <4>. QED  BY <4>1, <2>1, FinishedFiles DEF Held
    <3>2. report'.files = Held /\ step' = "done"
      BY <2>1
    <3>. QED  BY <3>1, <3>2 DEF ReportInv, FileExpected, Faulty
  <2>7. DedupeInv'
    <3>1. dedupe'.step # "sharing" /\ dedupe'.status # "PASS"
      BY <2>1, <2>t, NothingYet
    <3>. QED  BY <3>1 DEF DedupeInv
  <2>. QED  BY <2>3, <2>4, <2>5, <2>6, <2>7 DEF FixtureInv
<1>2. CASE policy # "same"
  BY <1>2, FilesAlone DEF Finish, FixtureInv, FixtureTypes
<1>. QED  BY <1>1, <1>2

\* The sharing of extents only ends, or begins again.
LEMMA DedupeAlone ==
    ASSUME FixtureInv, UNCHANGED <<stored, images, paths, data, step, report>>,
           dedupe' \in [step : {"idle", "sharing", "ended"}, todo : SUBSET Layers,
                        status : {"none", "PASS", "BLOCKED"}],
           \/ dedupe'.step = "sharing" /\ dedupe'.todo = Layers /\ dedupe'.status # "PASS"
                  /\ report.status = "PASS"
           \/ dedupe'.step # "sharing" /\ dedupe'.status # "PASS"
           \/ /\ dedupe.step = "sharing" /\ dedupe.todo = {}
              /\ dedupe'.step = "ended" /\ dedupe'.todo = {}
    PROVE  FixtureInv'
<1>1. FixtureTypes' /\ ParentInv'
  BY DEF FixtureInv, FixtureTypes, ParentInv
<1>2. TreeInv'
  BY DEF FixtureInv, TreeInv, OwnOrShared, CaseFile, SignatureOf
<1>3. DataInv' /\ ReportInv'
  BY DEF FixtureInv, DataInv, Exposed, ReportInv
<1>4. \A d \in Dirs, k \in Kinds : Named(d, k)' <=> Named(d, k)
  BY DEF Named, Content
<1>5. \A k \in Layers : /\ Named("b", k)' <=> Named("b", k)
                        /\ Named("wrong_signed", k)' <=> Named("wrong_signed", k)
  BY <1>4, FileNames DEF Dirs
<1>6. DedupeInv'
  BY <1>5 DEF FixtureInv, DedupeInv
<1>. QED  BY <1>1, <1>2, <1>3, <1>6 DEF FixtureInv

\* The kernel reaches the two blobs it was given, and no blob of another name.
LEMMA ShareExtentsKeeps ==
    ASSUME FixtureInv, NEW k \in Layers, ShareExtents(k) PROVE FixtureInv'
<1>1. /\ dedupe.step = "sharing" /\ k \in dedupe.todo
      /\ UNCHANGED <<stored, images, paths, step, report>>
  BY DEF ShareExtents
<1>2. report.status = "PASS" /\ step = "done" /\ FixtureTypes /\ dedupe.status # "PASS"
  BY <1>1 DEF FixtureInv, ReportInv, DedupeInv
<1>t. step \in AfterB /\ step \in AfterSign
  BY <1>2 DEF AfterSign, AfterDerive, AfterB, AfterA
<1>3. CASE UNCHANGED data /\ dedupe' = Block
  BY <1>1, <1>3, DedupeAlone DEF Block
<1>4. CASE /\ Kernel(k)
           /\ dedupe' = IF Named("b", k)' /\ Named("wrong_signed", k)'
                        THEN [dedupe EXCEPT !.todo = @ \ {k}] ELSE Block
  <2>1. \A j \in Layers : /\ j \in Kinds /\ OwnOrShared(j)
                          /\ paths[<<"wrong_signed", j>>] = <<"wrong_signed", j>>
    BY <1>t, FileNames DEF FixtureInv, TreeInv
  <2>2. \/ data' = data
        \/ \E i \in Dirs \X Kinds :
              /\ data' = [data EXCEPT ![i] = <<k, "damaged">>]
              /\ i \in {<<"b", k>>, <<"wrong_signed", k>>}
                     \cup (IF paths[<<"b", k>>] = <<"a", k>> THEN {<<"a", k>>} ELSE {})
    <3>1. \A e \in {"a", "b", "wrong_signed"} : <<e, k>> \in Dirs \X Kinds
      BY FileNames DEF Dirs
    <3>2. paths[<<"b", k>>] \in {<<"a", k>>, <<"b", k>>}
      BY <2>1 DEF OwnOrShared
    <3>3. data' = data \/ \E d \in {"b", "wrong_signed"} :
                              data' = [data EXCEPT ![paths[<<d, k>>]] = <<k, "damaged">>]
      BY <1>4 DEF Kernel
    <3>4. ASSUME NEW d \in {"b", "wrong_signed"}
          PROVE  /\ paths[<<d, k>>] \in Dirs \X Kinds
                 /\ paths[<<d, k>>] \in {<<"b", k>>, <<"wrong_signed", k>>}
                        \cup (IF paths[<<"b", k>>] = <<"a", k>> THEN {<<"a", k>>} ELSE {})
      BY <2>1, <3>1, <3>2
    <3>. QED  BY <3>3, <3>4
  <2>3. <<k, "damaged">> \in FileContents
    BY FileNames DEF FileContents
  <2>4. data' \in [Dirs \X Kinds -> FileContents]
    BY <1>2, <2>2, <2>3 DEF FixtureTypes
  <2>5. ASSUME NEW d \in Dirs, NEW j \in Kinds, j # k
        PROVE  data'[<<d, j>>] = data[<<d, j>>]
    <3>1. <<d, j>> \notin {<<"b", k>>, <<"wrong_signed", k>>, <<"a", k>>}
      BY <2>5
    <3>. QED  BY <1>2, <2>2, <3>1 DEF FixtureTypes
  <2>6. paths[<<"b", k>>] # <<"a", k>> => data'[<<"a", k>>] = data[<<"a", k>>]
    <3>1. <<"a", k>> \notin {<<"b", k>>, <<"wrong_signed", k>>}
      OBVIOUS
    <3>2. <<"a", k>> \in Dirs \X Kinds
      BY FileNames DEF Dirs
    <3>. QED  BY <1>2, <2>2, <3>1, <3>2 DEF FixtureTypes
  <2>7. data'[<<"wrong_key", "signature">>] = data[<<"wrong_key", "signature">>]
    BY <2>5, FileNames DEF Dirs
  <2>8. FixtureTypes' /\ ParentInv'
    BY <1>1, <1>4, <2>4 DEF FixtureInv, FixtureTypes, ParentInv, Block
  <2>9. TreeInv' /\ ReportInv'
    BY <1>1 DEF FixtureInv, TreeInv, OwnOrShared, CaseFile, SignatureOf, ReportInv
  <2>10. DataInv'
    <3>1. ASSUME NEW j \in Kinds
          PROVE  \A d \in {"a", "b", "wrong_signed"} :
                     j # k => data'[<<d, j>>] = data[<<d, j>>]
      BY <2>5 DEF Dirs
    <3>2. \A j \in Kinds : Exposed(j)' <=> Exposed(j)
      BY <1>1 DEF Exposed
    <3>3. Exposed(k)
      BY <1>2 DEF Exposed
    <3>. QED  BY <1>1, <2>6, <2>7, <3>1, <3>2, <3>3 DEF FixtureInv, DataInv
  <2>11. ASSUME NEW j \in Layers, j # k
         PROVE  /\ Named("b", j)' <=> Named("b", j)
                /\ Named("wrong_signed", j)' <=> Named("wrong_signed", j)
    <3>1. /\ paths[<<"b", j>>] \in {<<"a", j>>, <<"b", j>>}
          /\ paths[<<"wrong_signed", j>>] = <<"wrong_signed", j>> /\ j \in Kinds
      BY <2>1 DEF OwnOrShared
    <3>2. \A d \in {"a", "b", "wrong_signed"} : data'[<<d, j>>] = data[<<d, j>>]
      BY <2>5, <2>11, <3>1 DEF Dirs
    <3>3. /\ data'[paths[<<"b", j>>]] = data[paths[<<"b", j>>]]
          /\ data'[paths[<<"wrong_signed", j>>]] = data[paths[<<"wrong_signed", j>>]]
      BY <3>1, <3>2
    <3>. QED  BY <1>1, <3>3 DEF Named, Content
  <2>12. DedupeInv'
    <3>1. CASE Named("b", k)' /\ Named("wrong_signed", k)'
      <4>1. /\ dedupe'.todo = dedupe.todo \ {k} /\ dedupe'.status # "PASS"
        BY <1>2, <1>4, <3>1 DEF FixtureTypes
      <4>2. \A j \in Layers \ dedupe.todo : Named("b", j) /\ Named("wrong_signed", j)
        BY <1>1 DEF FixtureInv, DedupeInv
      <4>3. ASSUME NEW j \in Layers \ dedupe'.todo
            PROVE  Named("b", j)' /\ Named("wrong_signed", j)'
        <5>1. CASE j = k
          BY <3>1, <5>1
        <5>2. CASE j # k
          BY <2>11, <4>1, <4>2, <5>2
        <5>. QED  BY <5>1, <5>2
      <4>. QED  BY <1>1, <1>2, <4>1, <4>3 DEF DedupeInv
    <3>2. CASE dedupe' = Block
      BY <3>2 DEF DedupeInv, Block
    <3>. QED  BY <1>4, <3>1, <3>2
  <2>. QED  BY <2>8, <2>9, <2>10, <2>12 DEF FixtureInv
<1>. QED  BY <1>3, <1>4 DEF ShareExtents

LEMMA FixtureNext == FixtureInv /\ [Next]_vars => FixtureInv'
<1>. SUFFICES ASSUME FixtureInv, [Next]_vars PROVE FixtureInv'
  OBVIOUS
<1>t. FixtureTypes
  BY DEF FixtureInv
<1>1. CASE UNCHANGED fixtureVars
  BY <1>1, <1>t, FilesAlone DEF fixtureVars, FixtureTypes
<1>2. ASSUME NEW archive \in {"frozen", "other"}, Import(archive) PROVE FixtureInv'
  BY <1>2, FilesAlone DEF Import, BuildSteps
<1>3. CASE Start \/ Fail \/ ChangePolicy \/ StartTrial \/ EndTrial
  <2>1. UNCHANGED <<stored, images, paths, data, report, dedupe>>
    BY <1>3 DEF Start, Fail, ChangePolicy, StartTrial, EndTrial
  <2>2. \/ step' = step
        \/ step' = "refused" /\ step # "done"
        \/ step = "idle" /\ step' = "a" /\ stored' = "frozen"
    BY <1>3 DEF Start, Fail, ChangePolicy, StartTrial, EndTrial
  <2>. QED  BY <1>t, <2>1, <2>2, FilesAlone DEF FixtureTypes
<1>4. CASE \E q \in Questions : AskVerifier(q)
  BY <1>4, <1>t, FilesAlone DEF AskVerifier, FixtureTypes
<1>5. CASE BuildA \/ BuildB \/ Share \/ Derive \/ Unsign \/ SignWrong \/ LinkWrong \/ Strip
           \/ Swap \/ Finish
  BY <1>5, BuildAKeeps, BuildBKeeps, ShareKeeps, DeriveKeeps, UnsignKeeps, SignWrongKeeps,
     LinkWrongKeeps, StripKeeps, SwapKeeps, FinishKeeps
<1>6. CASE StartDedupe \/ EndDedupe \/ NextDedupe
  <2>1. UNCHANGED <<stored, images, paths, data, step, report>>
    BY <1>6 DEF StartDedupe, EndDedupe, NextDedupe
  <2>2. CASE StartDedupe
    <3>1. \/ /\ report.status = "PASS"
             /\ dedupe' = [step |-> "sharing", todo |-> Layers, status |-> "none"]
          \/ dedupe' = [step |-> "ended", todo |-> {}, status |-> "BLOCKED"]
      BY <2>2 DEF StartDedupe, Block
    <3>2. dedupe' \in [step : {"idle", "sharing", "ended"}, todo : SUBSET Layers,
                       status : {"none", "PASS", "BLOCKED"}]
      BY <3>1
    <3>3. \/ /\ dedupe'.step = "sharing" /\ dedupe'.todo = Layers
             /\ dedupe'.status # "PASS" /\ report.status = "PASS"
          \/ dedupe'.step # "sharing" /\ dedupe'.status # "PASS"
      BY <3>1
    <3>. QED  BY <2>1, <3>2, <3>3, DedupeAlone
  <2>3. CASE EndDedupe
    <3>1. \/ dedupe' = Block
          \/ /\ dedupe.step = "sharing" /\ dedupe.todo = {}
             /\ dedupe' = [dedupe EXCEPT !.step = "ended", !.status = "PASS"]
      BY <2>3 DEF EndDedupe
    <3>2. /\ dedupe' \in [step : {"idle", "sharing", "ended"}, todo : SUBSET Layers,
                          status : {"none", "PASS", "BLOCKED"}]
          /\ \/ dedupe'.step # "sharing" /\ dedupe'.status # "PASS"
             \/ /\ dedupe.step = "sharing" /\ dedupe.todo = {}
                /\ dedupe'.step = "ended" /\ dedupe'.todo = {}
      <4>1. CASE dedupe' = Block
        BY <4>1 DEF Block
      <4>2. CASE dedupe' # Block
        BY <3>1, <4>2, <1>t DEF FixtureTypes
      <4>. QED  BY <4>1, <4>2
    <3>. QED  BY <2>1, <3>2, DedupeAlone
  <2>4. CASE NextDedupe
    BY <2>1, <2>4, DedupeAlone DEF NextDedupe
  <2>. QED  BY <1>6, <2>2, <2>3, <2>4
<1>7. ASSUME NEW k \in Layers, ShareExtents(k) PROVE FixtureInv'
  BY <1>7, ShareExtentsKeeps
<1>8. UNCHANGED fixtureVars \/ FixturesNext
  BY DEF Next, vars
<1>. QED  BY <1>1, <1>2, <1>3, <1>4, <1>5, <1>6, <1>7, <1>8 DEF FixturesNext

THEOREM FixtureInductive == Spec => []FixtureInv
BY FixtureStarts, FixtureNext, PTL DEF Spec

\* A fixture that passed is built from the image its parent's digest names, and each of
\* its cases differs from B in the one file the case is about (installer_fixture_unit.py).
THEOREM CasesAreClean == Spec => []CasesDifferByOneFault
<1>1. FixtureInv => CasesDifferByOneFault
  <2>. SUFFICES ASSUME FixtureInv, report.status = "PASS"
                PROVE  /\ images = [a |-> "frozen", b |-> "frozen"]
                       /\ \A v \in {"a", "b"}, k \in Kinds :
                              report.files[<<v, k>>] = ImageFile(v, "trusted", k)
                       /\ \A c \in DOMAIN Faulty :
                              /\ \A k \in Kinds \ {"signature"} :
                                     report.files[<<c, k>>] = report.files[<<"b", k>>]
                              /\ report.files[<<c, "signature">>] = Faulty[c]
    BY DEF CasesDifferByOneFault
  <2>1. \A d \in Bundle, k \in Kinds : report.files[<<d, k>>] = FileExpected(d, k)
    BY DEF FixtureInv, ReportInv
  <2>2. images = [a |-> "frozen", b |-> "frozen"]
    <3>1. images.a = "frozen" /\ images.b = "frozen" /\ images \in [{"a", "b"} ->
                                                            {"none", "frozen", "other"}]
      BY DEF FixtureInv, FixtureTypes, ParentInv, ReportInv, AfterB, AfterA
    <3>. QED  BY <3>1
  <2>3. \A v \in {"a", "b"}, k \in Kinds : FileExpected(v, k) = ImageFile(v, "trusted", k)
    BY DEF FileExpected, Faulty
  <2>4. \A c \in DOMAIN Faulty :
           /\ \A k \in Kinds \ {"signature"} : FileExpected(c, k) = FileExpected("b", k)
           /\ FileExpected(c, "signature") = Faulty[c]
    BY DEF FileExpected, Faulty
  <2>5. DOMAIN Faulty \subseteq Bundle /\ {"a", "b"} \subseteq Bundle
    BY DEF Faulty, Bundle, Dirs
  <2>. QED  BY <2>1, <2>2, <2>3, <2>4, <2>5, FileNames
<1>. QED  BY <1>1, FixtureInductive, PTL

\* A sharing of extents that passed left every file as it was reported, whatever the
\* kernel did (installer_dedupe_unit.py).
THEOREM SharingIsHarmless == Spec => []DedupeKeepsContents
<1>1. FixtureInv => DedupeKeepsContents
  <2>. SUFFICES ASSUME FixtureInv, dedupe.status = "PASS"
                PROVE  /\ \A d \in Bundle, k \in Kinds : Content(<<d, k>>) = report.files[<<d, k>>]
                       /\ \A k \in Layers : Named("wrong_signed", k)
    BY DEF DedupeKeepsContents
  <2>1. /\ report.status = "PASS" /\ step = "done"
        /\ \A k \in Layers : Named("b", k) /\ Named("wrong_signed", k)
        /\ \A d \in Bundle, k \in Kinds : report.files[<<d, k>>] = FileExpected(d, k)
    BY DEF FixtureInv, DedupeInv, ReportInv
  <2>t. step \in AfterA /\ step \in AfterB /\ step \in AfterDerive /\ step \in AfterLink
    BY <2>1 DEF AfterLink, AfterSign, AfterDerive, AfterB, AfterA
  <2>2. ASSUME NEW k \in Kinds
        PROVE  /\ Content(<<"a", k>>) = FileExpected("a", k)
               /\ Content(<<"b", k>>) = FileExpected("b", k)
    <3>1. /\ paths[<<"a", k>>] = <<"a", k>> /\ OwnOrShared(k)
          /\ <<"a", k>> # NoFile /\ <<"b", k>> # NoFile
      BY <2>t DEF FixtureInv, TreeInv, NoFile
    <3>2. Content(<<"b", k>>) = ImageFile("b", "trusted", k)
      <4>1. CASE k \in Layers
        BY <2>1, <4>1 DEF Named
      <4>2. CASE k \notin Layers
        BY <2>t, <3>1, <4>2 DEF FixtureInv, DataInv, Exposed, OwnOrShared, Content
      <4>. QED  BY <4>1, <4>2
    <3>3. Content(<<"a", k>>) = ImageFile("a", "trusted", k)
      <4>1. CASE paths[<<"b", k>>] = <<"a", k>>
        <5>1. Content(<<"a", k>>) = Content(<<"b", k>>)
          BY <3>1, <4>1 DEF Content
        <5>2. ImageFile("a", "trusted", k) = ImageFile("b", "trusted", k)
          BY <3>1, <4>1 DEF OwnOrShared
        <5>. QED  BY <3>2, <5>1, <5>2
      <4>2. CASE paths[<<"b", k>>] # <<"a", k>>
        BY <2>t, <3>1, <4>2 DEF FixtureInv, DataInv, Content
      <4>. QED  BY <4>1, <4>2
    <3>. QED  BY <3>2, <3>3 DEF FileExpected, Faulty
  <2>3. ASSUME NEW c \in {"unsigned", "untrusted", "wrong_key"}, NEW k \in Kinds
        PROVE  Content(<<c, k>>) = FileExpected(c, k)
    <3>1. paths[<<c, k>>] = CaseFile(c, k)
      BY <2>t DEF FixtureInv, TreeInv
    <3>2. CASE k # "signature"
      <4>1. Content(<<c, k>>) = Content(<<"b", k>>)
        BY <3>1, <3>2 DEF CaseFile, Content
      <4>2. FileExpected(c, k) = FileExpected("b", k)
        BY <3>2 DEF FileExpected
      <4>. QED  BY <4>1, <4>2, <2>2
    <3>3. CASE k = "signature"
      <4>1. data[<<"wrong_key", "signature">>] = <<"wrong", "b">>
        BY <2>1 DEF FixtureInv, DataInv
      <4>2. CASE c = "unsigned"
        BY <2>1, <3>1, <3>3, <4>2 DEF CaseFile, SignatureOf, Content, FileExpected, Faulty
      <4>3. CASE c = "wrong_key"
        BY <2>1, <3>1, <3>3, <4>1, <4>3 DEF CaseFile, SignatureOf, Content, FileExpected,
           Faulty, NoFile
      <4>4. CASE c = "untrusted"
        <5>1. Content(<<c, k>>) = Content(<<"b", k>>)
          BY <3>1, <3>3, <4>4 DEF CaseFile, SignatureOf, Content
        <5>2. FileExpected(c, k) = <<"trusted", "b">> /\ FileExpected("b", k) = <<"trusted", "b">>
          BY <3>3, <4>4 DEF FileExpected, Faulty, ImageFile
        <5>. QED  BY <2>2, <5>1, <5>2
      <4>. QED  BY <4>2, <4>3, <4>4
    <3>. QED  BY <3>2, <3>3
  <2>4. ASSUME NEW d \in Bundle
        PROVE  d \in {"a", "b"} \/ d \in {"unsigned", "untrusted", "wrong_key"}
    BY DEF Bundle, Dirs
  <2>5. \A d \in Bundle, k \in Kinds : Content(<<d, k>>) = FileExpected(d, k)
    BY <2>2, <2>3, <2>4
  <2>. QED  BY <2>1, <2>5
<1>. QED  BY <1>1, FixtureInductive, PTL
=============================================================================
