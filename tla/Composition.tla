---------------------------- MODULE Composition ----------------------------
(* The stages that build artifacts in the builder, and the recipes they make   *)
(* up.  A stage is what it reads and writes, what its commands find and leave  *)
(* in the guest and on the host, and the ways it can stop.  The decisions a    *)
(* stage takes are actions of Recipes, by the stage's rule.                    *)
EXTENDS Naturals, Sequences

\* needs: what must be there for the commands to work; bars: what must not be;
\* makes: what is left, one by one, so that a stage that stops leaves a prefix.
Stage(id, reads, writes, needs, makes, stops) ==
    [id |-> id, reads |-> reads, writes |-> writes, needs |-> needs, bars |-> {},
     makes |-> makes, stops |-> stops, rule |-> "plain"]

\* What a run leaves in the guest; the rest is left on the host.
GuestItems == {"rundir", "archive", "target document", "blueprint", "inputs", "rpms",
               "payload", "output", "wheel", "library", "agent reply", "work",
               "delivered", "session"}

(***************************************************************************)
(* Sources.                                                                 *)
(***************************************************************************)

RunIdentify == Stage("run.identify", {}, {"RUN_ID"}, {}, <<>>, {})

SourceLocate == Stage("source.locate", {"REPOSITORY"}, {"SOURCE_SET"}, {}, <<>>, {})

SourcesReview ==
    Stage("sources.review", {"REPOSITORY"}, {"REVIEWED_LOCK"}, {}, <<>>, {"refuse"})

SourceBundle ==
    Stage("source.bundle", {"RUN_ID", "RUNTIME_ROOT", "SOURCE_SET"}, {"SOURCE_BUNDLE"},
          {}, <<"bundle">>, {"refuse", "raise"})

SourceManifest ==
    Stage("source.manifest", {"RUN_ID", "RUNTIME_ROOT", "SOURCE_BUNDLE"},
          {"SOURCE_MANIFEST"}, {"bundle"}, <<"manifest">>, {"raise"})

SourcesAcquire ==
    Stage("sources.acquire", {"REVIEWED_LOCK", "RUNTIME_ROOT", "BUILDER_VERIFIED"},
          {"SOURCES"}, {}, <<"sources">>, {"refuse", "raise"})

(***************************************************************************)
(* The builder's guest.                                                     *)
(***************************************************************************)

\* The parent's frozen image, read before the builder is asked anything.
BuildFreeze ==
    [Stage("build.freeze",
           {"KIND", "PARENT", "REQUESTED_PROFILE", "RUNTIME_ROOT", "RUN_ID"},
           {"FROZEN", "BUILD_PROFILE"}, {}, <<>>, {"raise"})
     EXCEPT !.rule = "freeze"]

\* Is the guest at the builder's port the isolated builder?
BuilderCheck ==
    [Stage("builder.check", {"BUILDER", "FROZEN"}, {"BUILDER_VERIFIED"}, {}, <<>>, {"raise"})
     EXCEPT !.rule = "guard"]

\* mkdir without -p: the run's directory must be new.
GuestPrepare ==
    [Stage("guest.prepare", {"BUILDER_VERIFIED", "RUN_ID", "SOURCES"}, {"REMOTE"},
           {}, <<"rundir">>, {"fail", "raise"})
     EXCEPT !.bars = {"rundir"}]

GuestTransfer ==
    Stage("guest.transfer",
          {"BUILDER_VERIFIED", "REMOTE", "SOURCE_BUNDLE", "SOURCE_MANIFEST", "FROZEN",
           "RUNTIME_ROOT", "RUN_ID"},
          {"TRANSFERRED"}, {"rundir", "bundle"}, <<"archive", "target document">>, {"fail"})

\* The disposable account: its key and password on the host, its blueprint sent.
AccessGrant ==
    Stage("access.grant",
          {"TEST_ACCESS", "KIND", "RUNTIME_ROOT", "RUN_ID", "BUILDER_VERIFIED", "REMOTE",
           "TRANSFERRED"},
          {"ACCESS"}, {"rundir"}, <<"credentials", "blueprint">>, {"fail"})

\* The guest's build under its lock: advances whatever the guest answers.
BuildRun ==
    [Stage("build.run",
           {"BUILDER_VERIFIED", "REMOTE", "TRANSFERRED", "ACCESS", "KIND",
            "BUILD_PROFILE", "FROZEN", "PARENT", "RUNTIME_ROOT", "RUN_ID"},
           {"BUILD_RUN"}, {"rundir", "archive"}, <<"build log", "payload", "output">>,
           {"raise"})
     EXCEPT !.rule = "build"]

BuildRetrieve ==
    [Stage("build.retrieve",
           {"BUILDER_VERIFIED", "REMOTE", "BUILD_RUN", "RUNTIME_ROOT", "RUN_ID"},
           {"RETRIEVED"}, {"output"}, <<"exported">>, {"raise"})
     EXCEPT !.rule = "retrieve"]

RecordReads == {"BUILD_RUN", "RETRIEVED", "KIND", "BUILD_PROFILE", "SOURCE_BUNDLE",
                "REMOTE", "PARENT", "ACCESS", "RUNTIME_ROOT", "RUN_ID"}

\* The run's record, PASS or FAIL.
BuildRecord ==
    [Stage("build.record", RecordReads, {"BUILD_RECORD"}, {}, <<"record">>, {"raise"})
     EXCEPT !.rule = "record"]

(***************************************************************************)
(* Packages: the same build, with inputs and a report of their own.         *)
(***************************************************************************)

NvidiaLock ==
    Stage("nvidia.lock", {"PARENT", "FROZEN", "REPOSITORY", "RUNTIME_ROOT"},
          {"NVIDIA_LOCK"}, {}, <<>>, {"refuse", "raise"})

NvidiaRecord ==
    [Stage("nvidia.record", RecordReads \cup {"FROZEN", "NVIDIA_LOCK"},
           {"BUILD_RECORD", "NVIDIA_REPORT"}, {}, <<"record", "verification">>, {"raise"})
     EXCEPT !.rule = "record report"]

\* The signed parent, the package build and the GTK test, bound in one request.
FingerprintInputs ==
    Stage("fingerprint.inputs",
          {"PARENT", "FROZEN", "RPM_BUILD", "GTK_TEST", "REPOSITORY", "RUNTIME_ROOT",
           "RUN_ID"},
          {"FINGERPRINT_REQUEST"}, {}, <<"request">>, {"refuse", "fail"})

FingerprintDeliver ==
    [Stage("fingerprint.deliver",
           {"BUILDER_VERIFIED", "REMOTE", "TRANSFERRED", "FINGERPRINT_REQUEST",
            "RUNTIME_ROOT", "RUN_ID"},
           {"FINGERPRINT_DELIVERED"}, {"rundir", "request"}, <<"inputs", "rpms">>,
           {"fail", "raise"})
     EXCEPT !.bars = {"inputs"}]

FingerprintBuild ==
    [BuildRun EXCEPT !.id = "fingerprint.build", !.reads = @ \cup {"FINGERPRINT_DELIVERED"}]

FingerprintImageRecord ==
    [NvidiaRecord EXCEPT
        !.id = "fingerprint.image-record",
        !.reads = RecordReads \cup {"FINGERPRINT_REQUEST"},
        !.writes = {"BUILD_RECORD", "FINGERPRINT_REPORT"}]

FingerprintRpmRecord ==
    [NvidiaRecord EXCEPT
        !.id = "fingerprint.rpm-record",
        !.reads = RecordReads \cup {"REPOSITORY"},
        !.writes = {"BUILD_RECORD", "FINGERPRINT_REPORT"}]

(***************************************************************************)
(* The recipes: the stages of a plan, the facts it is seeded with, the role  *)
(* of the machine it asks and the kinds of artifact it builds.               *)
(***************************************************************************)

Recipe(stages, seeds, role, kinds) ==
    [stages |-> stages, seeds |-> seeds, role |-> role, kinds |-> kinds,
     check |-> "none", requires |-> "none"]

BuildStages ==
    {RunIdentify, BuildFreeze, BuilderCheck, SourcesReview, SourcesAcquire, SourceLocate,
     SourceBundle, SourceManifest, GuestPrepare, GuestTransfer, AccessGrant, BuildRun,
     BuildRetrieve, BuildRecord}

BuildSeeds == {"REPOSITORY", "RUNTIME_ROOT", "BUILDER", "REQUESTED_PROFILE", "KIND",
               "PARENT", "TEST_ACCESS"}

BuildImage        == Recipe(BuildStages, BuildSeeds, "builder", {"image"})
BuildDiskArtifact == Recipe(BuildStages, BuildSeeds, "builder", {"qcow2", "installer"})
BuildLiveArtifact == Recipe(BuildStages, BuildSeeds, "builder", {"live"})

BuildNvidia ==
    Recipe((BuildStages \ {BuildRecord}) \cup {NvidiaLock, NvidiaRecord}, BuildSeeds,
           "builder", {"nvidia"})

BuildFingerprintRpms ==
    Recipe((BuildStages \ {BuildRecord}) \cup {FingerprintRpmRecord}, BuildSeeds,
           "builder", {"fingerprint-rpms"})

BuildFingerprintImage ==
    Recipe((BuildStages \ {BuildRun, BuildRecord})
               \cup {FingerprintInputs, FingerprintDeliver, FingerprintBuild,
                     FingerprintImageRecord},
           BuildSeeds \cup {"RPM_BUILD", "GTK_TEST"}, "builder", {"fingerprint-image"})

ExportSource ==
    Recipe({RunIdentify, SourceLocate, SourceBundle, SourceManifest},
           {"REPOSITORY", "RUNTIME_ROOT"}, "none", {"none"})
=============================================================================
