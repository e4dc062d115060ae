---------------------------- MODULE Verification ----------------------------
(* The stages that verify artifacts and machines through the guest agent, and  *)
(* the recipes they make up.                                                   *)
EXTENDS Composition

CONSTANT
    \* does a file sent to the guest make the directories above it?  What carries
    \* it (scp, or base64 redirected over the serial console) does not; the fake
    \* guests of the tests do.
    SendMakesDirectories

ASSUME SendAssumption == SendMakesDirectories \in BOOLEAN

\* The facts that carry a verdict.
JudgedFacts ==
    {"LOGIN", "SHELL", "BARS", "GTK3", "ADWAITA", "SURFACE", "SETTINGS", "LIVE_DENIAL",
     "USB_DENIAL", "CLEANUP", "PAYLOAD_FAULT", "LOCK_FAULT", "TRUST_FAULT"}

(***************************************************************************)
(* The guest and its agent.                                                 *)
(***************************************************************************)

BuilderGuard ==
    [Stage("builder.guard", {"V_BUILDER"}, {"GUEST"}, {}, <<>>, {"raise"})
     EXCEPT !.rule = "guard"]

\* Polls until the guest answers as a running virtual machine.
GuestReady == Stage("guest.ready", {"GUEST"}, {"READY"}, {}, <<>>, {"refuse", "fail"})

\* The wheel is sent into the run's directory, then unpacked beside it.
AgentDeliver ==
    Stage("agent.deliver", {"RUN_ID", "GUEST", "WHEEL"}, {"AGENT"},
          IF SendMakesDirectories THEN {} ELSE {"rundir"},
          <<"rundir", "wheel", "library">>, {"fail"})

AgentDeliverWaiting == [AgentDeliver EXCEPT !.reads = @ \cup {"READY"}]

\* One request to the agent, one framed reply: refused, failed or answered.
Ask(id, reads, writes) ==
    Stage(id, {"GUEST", "AGENT"} \cup reads, writes, {"library"}, <<"agent reply">>,
          {"refuse", "fail"})

Probe(unit, after, fact) == Ask(unit, after, {fact})

Fault(unit, after, fact) == [Ask(unit, after, {fact}) EXCEPT !.rule = "judge"]

Retain(id, fact, retained) ==
    Stage(id, {fact, "RUNTIME_ROOT", "RUN_ID"}, {retained}, {}, <<"report">>, {"raise"})

\* mkdir -p, then each file: the work of one run.
WorkDelivered(id, reads) ==
    Stage(id, {"GUEST", "AGENT", "RUNTIME_ROOT", "RUN_ID"} \cup reads, {"WORK"}, {},
          <<"work", "delivered">>, {"fail", "raise"})

FingerprintWork == WorkDelivered("fingerprint.work", {"TEST_SOURCES", "TARGET"})
UpdateWork      == WorkDelivered("update.work", {"TARGET", "REPOSITORY"})

TrustWork ==
    [Stage("trust.work", {"GUEST", "AGENT", "RUN_ID"}, {"WORK"}, {}, <<"work">>,
           {"fail", "raise"})
     EXCEPT !.bars = {"work"}]

VentoyWork ==
    [WorkDelivered("ventoy.work", {"VENTOY_PREPARED"})
     EXCEPT !.needs = {"rundir"}, !.bars = {"work"}]

VentoyInputs ==
    Stage("ventoy.inputs", {"RUNTIME_ROOT", "RUN_ID", "REPOSITORY", "VENTOY_INPUTS"},
          {"VENTOY_PREPARED"}, {}, <<"request">>, {"refuse", "fail"})

FingerprintAcquire ==
    Stage("fingerprint.acquire", {"REPOSITORY", "RUNTIME_ROOT", "GUEST"},
          {"TEST_SOURCES"}, {}, <<"sources">>, {"refuse", "fail"})

TargetFreeze ==
    [Stage("target.freeze", {"V_PARENT", "RUNTIME_ROOT", "RUN_ID"},
           {"TARGET", "CANDIDATE"}, {}, <<>>, {"raise"})
     EXCEPT !.rule = "freeze"]

PayloadImport == Ask("payload.import", {"WORK", "V_PARENT"}, {"IMPORTED"})
PayloadTag    == [Ask("payload.tag", {"FIXTURE", "REMOTE", "TRANSFERRED"}, {"TAGGED"})
                  EXCEPT !.needs = @ \cup {"archive"}]

\* Received, then compared with what the guest reported of it.
Received(id, reads, writes) ==
    Stage(id, {"GUEST", "RUNTIME_ROOT", "RUN_ID"} \cup reads, writes, {"agent reply"},
          <<"exported">>, {"fail", "raise"})

FixtureRetrieve == Received("fixture.retrieve", {"DISKS_OBSERVED"}, {"FIXTURES"})
UpdateRetrieve  == Received("update.retrieve", {"WORK", "UPDATE_OBSERVED"}, {"FIXTURES"})
VentoyRetrieve  ==
    Received("ventoy.retrieve", {"WORK", "VENTOY_OBSERVED", "VENTOY_PREPARED"}, {"MEDIA"})

\* The recovery disk: built from image A of an update fixture.
FixtureSource ==
    Stage("fixture.source", {"FIXTURE", "RUNTIME_ROOT", "RUN_ID"},
          {"FROZEN", "BUILD_PROFILE"}, {}, <<"target", "report">>, {"refuse", "raise"})

FixtureDisk ==
    [BuildRun EXCEPT
        !.id = "fixture.disk",
        !.reads = {"BUILDER_VERIFIED", "REMOTE", "FROZEN", "ACCESS", "TAGGED",
                   "RUNTIME_ROOT", "RUN_ID"}]

\* A test program delivered to the builder, run and judged: a
\* FAIL is reported as well, and fails the stage.
BuilderTest(id, fact) ==
    Stage(id, {"GUEST", "V_PARENT", "REPOSITORY", "RUNTIME_ROOT", "RUN_ID"}, {fact}, {},
          <<"work", "delivered", "build log", "output", "exported", "report">>,
          {"refuse", "fail", "raise"})

(***************************************************************************)
(* The desktop, driven through the monitor.                                 *)
(***************************************************************************)

Desktop(id, rule, fact, reads) ==
    [Ask(id, {"MONITOR", "RUNTIME_ROOT", "RUN_ID"} \cup reads, {fact})
     EXCEPT !.rule = rule]

DesktopLogin == Desktop("desktop.login", "login", "LOGIN", {"CREDENTIALS"})
DesktopShellStartup == Desktop("desktop.shell-startup", "gated", "SHELL", {"LOGIN"})

DesktopRenderBars == Desktop("desktop.render-bars", "gated", "BARS", {"LOGIN", "SHELL"})
WindowGtk3    == Desktop("desktop.window-gtk3", "judge", "GTK3", {})
WindowAdwaita == Desktop("desktop.window-adwaita", "judge", "ADWAITA", {"GTK3"})

ShellSurface ==
    [Stage("desktop.shell-surface",
           {"MONITOR", "RUNTIME_ROOT", "RUN_ID", "GTK3", "ADWAITA"}, {"SURFACE"}, {},
           <<"report">>, {"refuse", "fail"})
     EXCEPT !.rule = "judge"]

ThemeSettings == Fault("desktop.theme-settings", {"SURFACE"}, "SETTINGS")

(***************************************************************************)
(* Installer faults, operations and minting.                                *)
(***************************************************************************)

InstallerRequest ==
    [Stage("installer.request",
           {"MACHINE_RUN", "MACHINE_PROCESS", "FAULT_CASE", "RUNTIME_ROOT"},
           {"INSTALLER_REQUEST"}, {}, <<>>, {"fail", "raise"})
     EXCEPT !.rule = "request"]

InstallerKeep ==
    Stage("installer.keep", {"PAYLOAD_FAULT", "INSTALLER_REQUEST", "MACHINE_RUN"},
          {"KEPT"}, {}, <<"kept">>, {"raise"})

InstallerLogs ==
    Stage("installer.logs", {"LOGS_OBSERVED", "LOGS_RETAINED"}, {"LOGS_COMPLETE"},
          {}, <<>>, {"fail"})

\* An operation's own steps are the Operations module's.
Operate(id, after) ==
    [Ask(id, {"FIXTURE", "ACTION", "CREDENTIALS", "MACHINE_PROCESS", "RUNTIME_ROOT",
              "RUN_ID"} \cup after, {"OPERATION"})
     EXCEPT !.rule = "operate", !.makes = <<"agent reply", "report">>]

Mint(id, reports) ==
    [Stage(id, reports \cup {"WITNESS", "CANDIDATE", "RECORDER"}, {"MINTED"}, {}, <<>>,
           {"raise"})
     EXCEPT !.rule = "mint"]
=============================================================================
