------------------------------ MODULE Recipes ------------------------------
(* The recipes the program registers, and the order their stages are given.    *)
EXTENDS Verification, SequencesExt

Verifies(stages, seeds, role) == Recipe({RunIdentify} \cup stages, seeds, role, {"none"})

BuilderSeeds   == {"V_BUILDER", "WHEEL", "RUNTIME_ROOT"}
RetainingSeeds == {"GUEST", "WHEEL", "RUNTIME_ROOT"}
DesktopSeeds   == RetainingSeeds \cup {"CANDIDATE", "WITNESS", "RECORDER", "MONITOR"}
OperationSeeds == RetainingSeeds \cup {"FIXTURE", "ACTION", "CREDENTIALS",
                                       "MACHINE_PROCESS"}

\* A probe or a fault of a test machine, its report kept and nothing recorded.
ProbePlan(unit, retain, fact) ==
    Verifies({AgentDeliver, Probe(unit, {}, fact), Retain(retain, fact, "RETAINED")},
             RetainingSeeds, "test")
FaultPlan(unit, retain, fact) ==
    Verifies({AgentDeliver, Fault(unit, {}, fact), Retain(retain, fact, "RETAINED")},
             RetainingSeeds, "test")

OperationPlan(family, seeds) ==
    Verifies({GuestReady, AgentDeliverWaiting} \cup family, OperationSeeds \cup seeds, "test")

\* A program of the builder's guest whose output is brought home.
FixturePlan(stages, seeds) ==
    Verifies({BuilderGuard, AgentDeliver} \cup stages, BuilderSeeds \cup seeds, "builder")

BuilderTestPlan(unit) ==
    Verifies({BuilderGuard, BuilderTest(unit, "TEST_REPORT")},
             {"V_BUILDER", "V_PARENT", "RUNTIME_ROOT", "REPOSITORY"}, "builder")

BuildRecoveryDisk ==
    Recipe((BuildStages \ {BuildFreeze, BuildRun})
               \cup {BuilderGuard, AgentDeliver, FixtureSource, PayloadTag, FixtureDisk},
           BuildSeeds \cup {"V_BUILDER", "WHEEL", "FIXTURE"}, "builder", {"qcow2"})

BuildInstallerFixtures ==
    FixturePlan({Probe("fixture.installer-disks", {"RUN_ID"}, "DISKS_OBSERVED"),
                 FixtureRetrieve,
                 Retain("retain.fixture.installer-disks", "DISKS_OBSERVED", "RETAINED")}, {})

BuildUpdateFixtures ==
    FixturePlan({TargetFreeze, UpdateWork, PayloadImport,
                 Probe("fixture.update", {"WORK", "IMPORTED"}, "UPDATE_OBSERVED"),
                 UpdateRetrieve,
                 Retain("retain.fixture.update", "UPDATE_OBSERVED", "RETAINED")},
                {"V_PARENT", "REPOSITORY"})

BuildVentoyMedia ==
    FixturePlan({VentoyInputs, VentoyWork,
                 Probe("fixture.ventoy", {"WORK"}, "VENTOY_OBSERVED"), VentoyRetrieve,
                 Retain("retain.fixture.ventoy", "VENTOY_OBSERVED", "RETAINED")},
                {"VENTOY_INPUTS", "REPOSITORY"})

VerifyDedupe ==
    FixturePlan({Probe("fixture.dedupe", {"V_PARENT"}, "DEDUPE_OBSERVED"),
                 Retain("retain.fixture.dedupe", "DEDUPE_OBSERVED", "RETAINED")},
                {"V_PARENT"})

VerifyInstallerTrust ==
    FixturePlan({TrustWork, Fault("fault.installer-trust", {"WORK"}, "TRUST_FAULT"),
                 Retain("retain.fault.installer-trust", "TRUST_FAULT", "RETAINED")}, {})

VerifyFingerprintCleanup ==
    [FixturePlan({FingerprintAcquire, TargetFreeze, FingerprintWork, PayloadImport,
                  Fault("fault.fingerprint-cleanup", {"WORK", "IMPORTED"}, "CLEANUP"),
                  Mint("attest.fingerprint.virtual-cleanup", {"CLEANUP"})},
                 {"WITNESS", "RECORDER", "V_PARENT", "REPOSITORY"})
     EXCEPT !.check = "fingerprint.virtual-cleanup", !.requires = "build"]

VerifyDesktopRender ==
    [Verifies({AgentDeliver, DesktopLogin, DesktopShellStartup, DesktopRenderBars,
               Mint("attest.desktop.password-wayland", {"LOGIN", "SHELL", "BARS"})},
              DesktopSeeds \cup {"CREDENTIALS"}, "test")
     EXCEPT !.check = "desktop.password-wayland", !.requires = "vm"]

VerifyDesktopTheme ==
    [Verifies({AgentDeliver, WindowGtk3, WindowAdwaita, ShellSurface, ThemeSettings,
               Mint("attest.desktop.theme-surfaces",
                    {"GTK3", "ADWAITA", "SURFACE", "SETTINGS"})},
              DesktopSeeds, "test")
     EXCEPT !.check = "desktop.theme-surfaces", !.requires = "vm"]

VerifyLiveProtection ==
    [Verifies({AgentDeliver, Fault("fault.live-write-denial", {}, "LIVE_DENIAL"),
               Fault("fault.usb-write-denial", {}, "USB_DENIAL"),
               Mint("attest.live.disk-protection", {"LIVE_DENIAL", "USB_DENIAL"})},
              {"GUEST", "WHEEL", "CANDIDATE", "WITNESS", "RECORDER"}, "test")
     EXCEPT !.check = "live.disk-protection", !.requires = "vm"]

VerifyInstallerPayload ==
    Verifies({AgentDeliver, InstallerRequest,
              Fault("fault.installer-payload",
                    {"INSTALLER_REQUEST", "FAULT_CASE", "WRONG_KEY"}, "PAYLOAD_FAULT"),
              InstallerKeep,
              Retain("retain.fault.installer-payload", "PAYLOAD_FAULT", "RETAINED")},
             RetainingSeeds \cup {"MACHINE_RUN", "MACHINE_PROCESS", "FAULT_CASE",
                                  "WRONG_KEY"}, "test")

VerifyInstallerDiagnostics ==
    Verifies({AgentDeliver, Probe("installer.diagnostics", {}, "LOGS_OBSERVED"),
              Retain("retain.installer.diagnostics", "LOGS_OBSERVED", "LOGS_RETAINED"),
              InstallerLogs}, RetainingSeeds, "test")

VerifyUpdateCheck ==
    OperationPlan({DesktopLogin, DesktopShellStartup, DesktopRenderBars,
                   Operate("update.operate", {"LOGIN", "SHELL", "BARS"})}, {"MONITOR"})

\* What a test machine shows of itself.
VerifyLiveObserve    == ProbePlan("live.observe", "retain.live.observe", "LIVE_OBSERVED")
VerifyVentoyObserve  == ProbePlan("ventoy.observe", "retain.ventoy.observe", "MEDIA_OBSERVED")
VerifyLiveLock       == FaultPlan("fault.live-lock", "retain.fault.live-lock", "LOCK_FAULT")
VerifyFingerprintGtk  == BuilderTestPlan("test.fingerprint.gtk")
VerifyFingerprintRpms == BuilderTestPlan("test.fingerprint.rpm-smoke")

VerifyUpdate    == OperationPlan({Operate("update.operate", {})}, {})
VerifyRecovery  == OperationPlan({Operate("recovery.operate", {})}, {})
VerifyInitramfs == OperationPlan({Operate("initramfs.operate", {"INSPECTION"})}, {"INSPECTION"})

Recipes ==
    [build_image |-> BuildImage, build_disk_artifact |-> BuildDiskArtifact,
     build_live_artifact |-> BuildLiveArtifact, build_nvidia |-> BuildNvidia,
     build_fingerprint_rpms |-> BuildFingerprintRpms,
     build_fingerprint_image |-> BuildFingerprintImage,
     build_recovery_disk |-> BuildRecoveryDisk,
     build_installer_fixtures |-> BuildInstallerFixtures,
     build_update_fixtures |-> BuildUpdateFixtures,
     build_ventoy_media |-> BuildVentoyMedia, export_source |-> ExportSource,
     verify_dedupe |-> VerifyDedupe, verify_installer_trust |-> VerifyInstallerTrust,
     verify_fingerprint_cleanup |-> VerifyFingerprintCleanup,
     verify_fingerprint_gtk |-> VerifyFingerprintGtk,
     verify_fingerprint_rpms |-> VerifyFingerprintRpms,
     verify_desktop_render |-> VerifyDesktopRender,
     verify_desktop_theme |-> VerifyDesktopTheme,
     verify_live_protection |-> VerifyLiveProtection,
     verify_installer_payload |-> VerifyInstallerPayload,
     verify_installer_diagnostics |-> VerifyInstallerDiagnostics,
     verify_live_observe |-> VerifyLiveObserve,
     verify_ventoy_observe |-> VerifyVentoyObserve,
     verify_live_lock |-> VerifyLiveLock,
     verify_update |-> VerifyUpdate,
     verify_recovery |-> VerifyRecovery,
     verify_initramfs |-> VerifyInitramfs,
     verify_update_check |-> VerifyUpdateCheck]

(***************************************************************************)
(* The order of a recipe: layer by layer, by name within a layer.           *)
(***************************************************************************)

\* The names of the stages, in order.
ByName ==
    <<"access.grant", "agent.deliver", "attest.desktop.password-wayland",
      "attest.desktop.theme-surfaces", "attest.fingerprint.virtual-cleanup",
      "attest.live.disk-protection", "build.freeze", "build.record",
      "build.retrieve", "build.run", "builder.check", "builder.guard",
      "desktop.login", "desktop.render-bars", "desktop.shell-startup",
      "desktop.shell-surface", "desktop.theme-settings",
      "desktop.window-adwaita", "desktop.window-gtk3",
      "fault.fingerprint-cleanup", "fault.installer-payload",
      "fault.installer-trust", "fault.live-lock", "fault.live-write-denial",
      "fault.usb-write-denial", "fingerprint.acquire", "fingerprint.build",
      "fingerprint.deliver", "fingerprint.image-record", "fingerprint.inputs",
      "fingerprint.rpm-record", "fingerprint.work", "fixture.dedupe",
      "fixture.disk", "fixture.installer-disks", "fixture.retrieve",
      "fixture.source", "fixture.update", "fixture.ventoy", "guest.prepare",
      "guest.ready", "guest.transfer", "initramfs.operate",
      "installer.diagnostics", "installer.keep", "installer.logs",
      "installer.request", "live.observe", "nvidia.lock", "nvidia.record",
      "payload.import", "payload.tag", "recovery.operate",
      "retain.fault.installer-payload", "retain.fault.installer-trust",
      "retain.fault.live-lock", "retain.fixture.dedupe",
      "retain.fixture.installer-disks", "retain.fixture.update",
      "retain.fixture.ventoy", "retain.installer.diagnostics",
      "retain.live.observe", "retain.ventoy.observe", "run.identify",
      "source.bundle", "source.locate", "source.manifest", "sources.acquire",
      "sources.review", "target.freeze", "test.fingerprint.gtk",
      "test.fingerprint.rpm-smoke", "trust.work", "update.operate",
      "update.retrieve", "update.work", "ventoy.inputs", "ventoy.observe",
      "ventoy.retrieve", "ventoy.work">>

\* The stages whose facts a stage reads, when they are not seeds.
Feeds(r, s) ==
    {p \in r.stages : p # s /\ p.writes \cap (s.reads \ r.seeds) # {}}

\* Layer after layer: the stages all of whose facts come from the layers before,
\* in the order of their names.
OrderOf(r) ==
    LET ids   == {s.id : s \in r.stages}
        names == SelectSeq(ByName, LAMBDA id : id \in ids)
        all   == [i \in DOMAIN names |-> CHOOSE s \in r.stages : s.id = names[i]]
        Layer(placed, s) ==
            placed \o SelectSeq(all, LAMBDA t : /\ t \notin Range(placed)
                                                /\ Feeds(r, t) \subseteq Range(placed))
    IN  FoldLeft(Layer, <<>>, all)

Orders == [name \in DOMAIN Recipes |-> OrderOf(Recipes[name])]

(***************************************************************************)
(* What a run relies on in the order of its recipe.  The facts stages read   *)
(* are there to bring these about; a fact left out of a stage, or a recipe   *)
(* put together without one, breaks them.                                    *)
(***************************************************************************)

VerdictRules   == {"judge", "gated", "login"}
RecordRules    == {"record", "record report"}
PackageRecipes == {"build_nvidia", "build_fingerprint_image", "build_fingerprint_rpms"}

\* The fact a stage gives a verdict on.
FactOf(s) == CHOOSE f \in JudgedFacts : f \in s.writes

\* The positions of the stages that a rule, or one of a set of rules, is of.
At(o, rules) == {i \in DOMAIN o : o[i].rule \in rules}

\* Whatever leaves something in the builder's guest comes after its check.
GuardedFirst(o) ==
    \A i \in DOMAIN o :
        Range(o[i].makes) \cap GuestItems # {} \/ o[i].rule \in {"login", "operate"} =>
            \E j \in At(o, {"guard"}) : j < i

\* After the record the build is not touched again.
RecordedLast(o) ==
    \A i \in At(o, RecordRules), j \in At(o, RecordRules \cup {"build", "retrieve"}) : j <= i

\* The entry is minted last, from every verdict of the run.
MintedLast(o) ==
    \A i \in At(o, {"mint"}) :
        i = Len(o) /\ \A j \in At(o, VerdictRules) : FactOf(o[j]) \in o[i].reads

\* A stage that gives a verdict gives it on one judged fact, and only the password
\* check gives the one on the login.
VerdictsNamed(o) ==
    \A i \in At(o, VerdictRules) :
        FactOf(o[i]) \in JudgedFacts /\ (FactOf(o[i]) = "LOGIN" <=> o[i].rule = "login")

\* A stage on this fact comes before the entry.
MintedAfter(o, fact) ==
    \A i \in At(o, {"mint"}) : \E j \in At(o, VerdictRules) : j < i /\ FactOf(o[j]) = fact

\* A target made by a stage of its own is of a recipe that freezes none.
OneTarget(r, o) ==
    (\E i \in DOMAIN o : "target" \in Range(o[i].makes)) =>
        r.stages \cap {TargetFreeze, BuildFreeze} = {}

\* The table of recipes is finite and concrete, and so is this: TLC evaluates it.
ASSUME OrdersAssumption ==
    \A name \in DOMAIN Recipes :
        LET r == Recipes[name]
            o == Orders[name]
        IN  /\ o \in Seq(r.stages) /\ \A i \in DOMAIN o : o[i].makes \in Seq(STRING)
            /\ r.role = "builder" => GuardedFirst(o)
            /\ RecordedLast(o) /\ MintedLast(o) /\ VerdictsNamed(o) /\ OneTarget(r, o)
            /\ name \in PackageRecipes => At(o, {"record"}) = {}
            /\ name = "verify_desktop_render" => MintedAfter(o, "LOGIN")
            /\ name = "verify_desktop_theme" => MintedAfter(o, "GTK3")
=============================================================================
