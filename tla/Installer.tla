----------------------------- MODULE Installer ------------------------------
(* The offline installer: its live file system with the signed payload, the check    *)
(* that runs before any Anaconda code, and the fault that damages one file of the     *)
(* live system to see the check refuse.  The host asks for one fault of a run, keeps  *)
(* what the guest reported, and collects a result once the machine is off.            *)
EXTENDS Naturals

VARIABLES
    boot,       \* how the machine is booted
    live,       \* each file or field of the payload and of its trust, as it is now
    backup,     \* has the fault's directory been made
    kept,       \* the fields whose original file is in it
    check,      \* the check under way: the look it is at, who waits for it, what it read
    record,     \* what the check recorded last: nothing, PASS, or why it refused
    anaconda,   \* has Anaconda started, and has it made its log
    disks,      \* the two virtual disks against their sources
    unit,       \* the fault's unit in the guest
    host,       \* the host's side: the step, the request, what was kept, the result
    iso,        \* the ISO on the host, against the one the fault was asked for
    keys,       \* the files of the installer's key, in the builder
    signer      \* how far the builder is with signing the payload

installerVars ==
    <<boot, live, backup, kept, check, record, anaconda, disks, unit, host, iso, keys, signer>>
built == <<keys, signer>>
fault == <<backup, kept>>

Files == {"reference", "checksum", "key", "policy", "manifest", "signature", "blob"}
Contents == {"shipped", "changed", "gone"}
Shipped == [f \in Files |-> "shipped"]
Unread == [f \in Files |-> "unread"]

\* A fault and what the check has to say of it.
Expected == [missing_signature |-> "signature", altered_signature |-> "signature",
             wrong_key |-> "signature", changed_manifest |-> "manifest",
             corrupt_blob |-> "blob", unexpected_source |-> "source"]
FaultCases == DOMAIN Expected

UnitSteps == {"idle", "looked", "guarded", "made", "backed", "key", "checksum", "applied",
              "running", "ran"}
NoUnit == [step |-> "idle", case |-> "none", refused |-> FALSE]
NoReport == [case |-> "none", pass |-> FALSE, seen |-> Shipped]
NoCheck == [at |-> 0, by |-> "nobody", read |-> Unread, begun |-> Shipped]
NoHost == [step |-> "idle", request |-> "none", kept |-> NoReport, result |-> "none"]

InstallerInit ==
    /\ boot = "off" /\ live = Shipped /\ backup = FALSE /\ kept = {} /\ check = NoCheck
    /\ record = "none" /\ anaconda = "never" /\ disks = "clean"
    /\ unit = NoUnit /\ host = NoHost /\ iso = "same"
    /\ keys = {} /\ signer = "idle"

-----------------------------------------------------------------------------
(* The builder.  The key is made once, file by file, if none of its files is there; a  *)
(* key that is not whole is refused from then on.                                       *)

KeyFiles == {"passphrase", "private", "public"}
machineVars == <<boot, live, fault, check, record, anaconda, disks, unit, host, iso>>

\* The archive the builder retained is the target document's image, or is refused.
StartSigning(archive) ==
    /\ signer = "idle"
    /\ signer' = IF archive # "frozen" THEN "idle"
                 ELSE IF keys = {} THEN "keying" ELSE "signing"
    /\ UNCHANGED <<machineVars, keys>>

MakeKey(file) ==
    /\ signer = "keying" /\ file \notin keys
    /\ file # "passphrase" => "passphrase" \in keys
    /\ file = "public" => "private" \in keys
    /\ keys' = keys \cup {file}
    /\ signer' = IF file = "public" THEN "signing" ELSE signer
    /\ UNCHANGED machineVars

\* Signed with the whole key, and verified by the check itself, into the ISO.
Sign ==
    /\ signer = "signing"
    /\ signer' = IF keys = KeyFiles THEN "shipped" ELSE "idle"
    /\ UNCHANGED <<machineVars, keys>>

SigningDies ==
    /\ signer \in {"keying", "signing"} /\ signer' = "idle"
    /\ UNCHANGED <<machineVars, keys>>

-----------------------------------------------------------------------------
(* The check.  It looks at the live system file by file and refuses at the first that  *)
(* is wrong: the contract and the key with its checksum, the policy made of them, the   *)
(* manifest, what the proxy reads again for the signature, the blobs, the manifest.     *)
(* One check runs at a time; nothing keeps the files as they are meanwhile.             *)

Looks == <<{"reference", "checksum"}, {"key"}, {"policy"}, {"manifest"},
           {"policy", "manifest", "signature"}, {"blob"}, {"manifest"}>>

\* Mutants: the policy in place is not compared; blobs are left to the installation.
WrongAnyPolicy(i, read) ==
    IF i = 2 /\ read["reference"] # "shipped" THEN "source"
    ELSE IF i = 2 /\ read["key"] # read["checksum"] THEN "checksum"
    ELSE IF i \in {4, 7} /\ read["manifest"] # "shipped" THEN "manifest"
    ELSE IF i = 5 /\ \E f \in Looks[5] : read[f] # "shipped" THEN "signature"
    ELSE IF i = 6 /\ read["blob"] # "shipped" THEN "blob" ELSE "none"

\* What is wrong with what was read, up to this look.
Wrong(i, read) ==
    IF i = 2 /\ read["reference"] # "shipped" THEN "source"
    ELSE IF i = 2 /\ read["key"] # read["checksum"] THEN "checksum"
    ELSE IF i = 3 /\ read["policy"] # read["key"] THEN "policy"
    ELSE IF i \in {4, 7} /\ read["manifest"] # "shipped" THEN "manifest"
    ELSE IF i = 5 /\ \E f \in Looks[5] : read[f] # "shipped" THEN "signature"
    ELSE IF i = 6 /\ read["blob"] # "shipped" THEN "blob" ELSE "none"

\* The proxy may fail for reasons of its own, and words them alike.
Answers(i, read) == {Wrong(i, read)} \cup IF i = 5 THEN {"signature"} ELSE {}

BeginCheck(who) ==
    /\ check.at = 0
    /\ check' = [at |-> 1, by |-> who, read |-> Unread, begun |-> live]

\* The unit that waits for the check hears whether it was refused.
EndCheck(answer) ==
    /\ record' = answer /\ check' = NoCheck
    /\ unit' = IF check.by = "unit" /\ unit.step = "running"
               THEN [unit EXCEPT !.step = "ran", !.refused = answer # "PASS"] ELSE unit

LookAt(i) ==
    /\ check.at = i
    /\ LET read == [f \in Files |-> IF f \in Looks[i] THEN live[f] ELSE check.read[f]]
       IN  \E answer \in Answers(i, read) :
             IF answer = "none"
             THEN /\ check' = [check EXCEPT !.at = i + 1, !.read = read]
                  /\ UNCHANGED <<record, unit>>
             ELSE EndCheck(answer)
    /\ UNCHANGED <<boot, live, fault, anaconda, disks, host, iso, built>>

\* The guarded entry point goes on into Anaconda's code, unless it was killed meanwhile.
PassCheck ==
    /\ check.at = 8
    /\ EndCheck("PASS")
    /\ anaconda' = IF check.by # "nobody" /\ anaconda = "never" THEN "starting" ELSE anaconda
    /\ UNCHANGED <<boot, live, fault, disks, host, iso, built>>

-----------------------------------------------------------------------------
(* The machine and its operator. *)

\* A boot of the ISO restores the live system; the disks are as they were left.
PowerOn(target) ==
    /\ boot = "off" /\ signer = "shipped"
    /\ boot' = target
    /\ live' = Shipped /\ backup' = FALSE /\ kept' = {}
    /\ record' = "none" /\ anaconda' = "never"
    /\ UNCHANGED <<check, disks, unit, host, iso, built>>

Waiting == host.step \in {"asked", "running"}

\* The host's call into the guest ends with the machine, without a report.
PowerOff ==
    /\ boot # "off"
    /\ boot' = "off" /\ unit' = NoUnit
    /\ check' = NoCheck /\ anaconda' = "never"
    /\ host' = IF Waiting THEN [host EXCEPT !.step = "answered"] ELSE host
    /\ UNCHANGED <<live, fault, record, disks, iso, built>>

\* The service of a normal boot, or the operator at the shell of a diagnostic one.
StartInstaller ==
    /\ boot # "off" /\ anaconda = "never"
    /\ BeginCheck("operator")
    /\ UNCHANGED <<boot, live, fault, record, anaconda, disks, unit, host, iso, built>>

AnacondaLogs ==
    /\ anaconda = "starting" /\ anaconda' = "logging"
    /\ UNCHANGED <<boot, live, fault, check, record, disks, unit, host, iso, built>>

AnacondaWrites ==
    /\ anaconda = "logging" /\ disks' = "written"
    /\ UNCHANGED <<boot, live, fault, check, record, anaconda, unit, host, iso, built>>

ReplaceIso ==
    /\ iso' = "changed"
    /\ UNCHANGED <<boot, live, fault, check, record, anaconda, disks, unit, host, built>>

-----------------------------------------------------------------------------
(* The host, and the unit it asks for. *)

\* Written before the guest is touched; a run that has a request takes no other.
Ask(case) ==
    /\ boot # "off" /\ host.step = "idle" /\ host.request = "none"
    /\ host' = [host EXCEPT !.step = "asked", !.request = case]
    /\ iso' = "same"
    /\ UNCHANGED <<boot, live, fault, check, record, anaconda, disks, unit, built>>

\* The unit's report; a host that no longer waits does not keep it.
Reply(pass) ==
    /\ host' = IF Waiting
                 THEN [host EXCEPT !.step = "answered",
                                   !.kept = [case |-> unit.case, pass |-> pass, seen |-> live]]
                 ELSE host
    /\ unit' = NoUnit

\* A diagnostic boot in which the installer has not been entered; else it refuses.
Guard ==
    /\ boot # "off" /\ host.step = "asked" /\ unit.step = "idle"
    /\ \/ boot = "diagnostic" /\ record = "none" /\ anaconda # "logging"
          /\ host' = [host EXCEPT !.step = "running"]
          /\ unit' = [step |-> "looked", case |-> host.request, refused |-> FALSE]
       \/ ~(boot = "diagnostic" /\ record = "none" /\ anaconda # "logging")
          /\ UNCHANGED unit /\ host' = [host EXCEPT !.step = "answered"]
    /\ UNCHANGED <<boot, live, fault, check, record, anaconda, disks, iso, built>>

\* Looked for after the record and the log: an entry point that runs, or has run.
NoneRuns == check.by = "nobody" /\ anaconda = "never"

GuardProcesses ==
    /\ unit.step = "looked"
    /\ IF NoneRuns THEN unit' = [unit EXCEPT !.step = "guarded"] /\ UNCHANGED host
                   ELSE Reply(FALSE)
    /\ UNCHANGED <<boot, live, fault, check, record, anaconda, disks, iso, built>>

\* One mutation of a boot: the unit refuses a directory that is there.
MakeFault ==
    /\ unit.step = "guarded" /\ ~backup /\ backup' = TRUE
    /\ unit' = [unit EXCEPT !.step = "made"]
    /\ UNCHANGED <<boot, live, kept, check, record, anaconda, disks, host, iso, built>>

\* The file a case is aimed at, by its fields.
TargetOf == [missing_signature |-> {"signature"}, altered_signature |-> {"signature"},
             wrong_key |-> {"key"}, changed_manifest |-> {"manifest"},
             corrupt_blob |-> {"blob"}, unexpected_source |-> {"reference", "checksum"}]

\* Mutant: the original is kept of the payload's files alone.
KeepPayload ==
    /\ unit.step = "made" /\ kept' = TargetOf[unit.case] \cap {"manifest", "signature", "blob"}
    /\ unit' = [unit EXCEPT !.step = "backed"]
    /\ UNCHANGED <<boot, live, backup, check, record, anaconda, disks, host, iso, built>>

\* Of a new key only the key's own file is kept, not the contract nor the policy.
KeepOriginal ==
    /\ unit.step = "made" /\ kept' = TargetOf[unit.case]
    /\ unit' = [unit EXCEPT !.step = "backed"]
    /\ UNCHANGED <<boot, live, backup, check, record, anaconda, disks, host, iso, built>>

Write(file, content, next) ==
    /\ live' = [live EXCEPT ![file] = content]
    /\ unit' = [unit EXCEPT !.step = next]

\* One damage; a new key takes three writes, and the check may run between them.
Damage ==
    /\ \/ /\ unit.step = "backed"
          /\ \/ unit.case = "missing_signature" /\ Write("signature", "gone", "applied")
             \/ unit.case = "altered_signature" /\ Write("signature", "changed", "applied")
             \/ unit.case = "changed_manifest" /\ Write("manifest", "changed", "applied")
             \/ unit.case = "corrupt_blob" /\ Write("blob", "changed", "applied")
             \/ unit.case = "unexpected_source" /\ Write("reference", "changed", "applied")
             \/ unit.case = "wrong_key" /\ Write("key", "changed", "key")
       \/ unit.step = "key" /\ Write("checksum", "changed", "checksum")
       \/ unit.step = "checksum" /\ Write("policy", "changed", "applied")
    /\ UNCHANGED <<boot, fault, check, record, anaconda, disks, host, iso, built>>

\* The unit's own start of the installer waits for a check that is under way.
RunEntryPoint ==
    /\ unit.step = "applied"
    /\ BeginCheck("unit")
    /\ unit' = [unit EXCEPT !.step = "running"]
    /\ UNCHANGED <<boot, live, fault, record, anaconda, disks, host, iso, built>>

\* At its deadline the entry point is killed, and the check it began goes on alone.
Overdue ==
    /\ unit.step \in {"applied", "running"}
    /\ Reply(FALSE)
    /\ check' = IF check.by = "unit" THEN [check EXCEPT !.by = "nobody"] ELSE check
    /\ UNCHANGED <<boot, live, fault, record, anaconda, disks, iso, built>>

\* Refused, for the reason of the case, and Anaconda has no log.
Judge ==
    /\ unit.step = "ran"
    /\ Reply(unit.refused /\ record = Expected[unit.case] /\ anaconda # "logging")
    /\ UNCHANGED <<boot, live, fault, check, record, anaconda, disks, iso, built>>

\* The call reaches its deadline, or the host goes: the unit dies at any step or goes on.
Lost ==
    /\ Waiting
    /\ host' = [host EXCEPT !.step = "answered"] /\ unit' \in {unit, NoUnit}
    /\ UNCHANGED <<boot, live, fault, check, record, anaconda, disks, iso, built>>

\* Mutant: collecting trusts the guest's word for the disks.
CollectUncompared ==
    /\ boot = "off" /\ host.step = "answered"
    /\ host.kept.pass /\ host.kept.case = host.request /\ iso = "same"
    /\ host' = [host EXCEPT !.result = "PASS"]
    /\ UNCHANGED <<boot, live, fault, check, record, anaconda, disks, unit, iso, built>>

\* The machine is off, the guest confirmed the case asked for, the ISO is the same: the
\* disks decide, and the result is written either way.
Collect ==
    /\ boot = "off" /\ host.step = "answered"
    /\ host.kept.pass /\ host.kept.case = host.request /\ iso = "same"
    /\ host' = [host EXCEPT !.result = IF disks = "clean" THEN "PASS" ELSE "FAIL"]
    /\ UNCHANGED <<boot, live, fault, check, record, anaconda, disks, unit, iso, built>>

InstallerNext ==
    \/ \E archive \in {"frozen", "other"} : StartSigning(archive)
    \/ \E file \in KeyFiles : MakeKey(file)
    \/ Sign \/ SigningDies
    \/ PowerOn("normal") \/ PowerOn("diagnostic") \/ PowerOff
    \/ StartInstaller \/ AnacondaLogs \/ AnacondaWrites \/ ReplaceIso
    \/ \E case \in FaultCases : Ask(case)
    \/ \E i \in DOMAIN Looks : LookAt(i)
    \/ PassCheck
    \/ Guard \/ GuardProcesses \/ MakeFault \/ KeepOriginal \/ Damage \/ RunEntryPoint
    \/ Overdue \/ Judge \/ Lost \/ Collect

-----------------------------------------------------------------------------
(* Properties. *)

Targets == [missing_signature |-> {"signature"}, altered_signature |-> {"signature"},
            wrong_key |-> {"key", "checksum", "policy"}, changed_manifest |-> {"manifest"},
            corrupt_blob |-> {"blob"}, unexpected_source |-> {"reference"}]

\* Anaconda's code begins only after a check that began on a live system whole as shipped
\* and found each file of it so when it last read it: of the writes of a fault none was made
\* before the check, and those made during it are found unless they come after that look.
OnlyVerifiedStarts ==
    [][anaconda = "never" /\ anaconda' = "starting" =>
           check.begun = Shipped /\ check.read = Shipped]_installerVars

\* A result that passes was collected from disks nothing wrote to, for the case asked for,
\* from a guest whose live system had that damage and no other when it was refused.
RejectionIsEarned ==
    [][host'.result = "PASS" /\ host.result # "PASS" =>
           /\ disks = "clean" /\ iso = "same"
           /\ host.kept.case = host.request
           /\ \A f \in Files : host.kept.seen[f] # "shipped" <=> f \in Targets[host.request]
      ]_installerVars

\* No file of the live system is damaged before its original is kept, but for the two that
\* a new key rewrites, the contract's checksum and the policy, both made of the key: that
\* one is kept by then.
OriginalKept ==
    \A f \in Files : live[f] # "shipped" =>
        f \in kept \/ (f \in {"checksum", "policy"} /\ "key" \in kept)
=============================================================================
