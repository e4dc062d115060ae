# A verification project for apex-fedora

Apex builds, boots, tests and signs off a Fedora image from one host.  The program
is a Python package (`src/src/apex`) behind one command line, `apex`.  It starts QEMU
machines, runs plans of stages in them, asks an agent inside the guests, files what was
observed in a signed evidence store and answers whether a build may be installed.  This
directory models the parts of it that keep state across processes, machines and boots,
checks them with TLC and proves their most important properties with TLAPS.

## Inventory

| component | state | operations | interacts with |
|---|---|---|---|
| machine life (`provisioning/launching.py`, `leases.py`, `resuming.py`, `hotplugging.py`, `comparing.py`) | runtime root: intent, lease, MACHINE lock, monitor socket; run directories: lease copy, hotplug, power-loss and comparison records | start, resume, stop, power-loss, reclaim, hotplug, compare, collect | QEMU and the kernel's process table; every command that needs a machine |
| builder compaction (`compacting.py`, `compactledger.py`) | the builder's disk, copies, a report per compaction and per finalisation | compact, compact --resume | the same lock and lease; qemu-img; machines writing the disk |
| evidence ledger (`attestation/ledger.py`, `minting.py`, `proofs.py`, `verification/recording.py`) | mark, key, chain, head file, object store, candidate | open, mint, absorb, append, write head, select | verification runs, host proofs and `apex record`, without a lock |
| readiness gate (`attestation/readiness.py`, `storereaders/`, `columns.py`) | none of its own | read, judge, tabulate, exit | reads the ledger while it is written |
| workspace rules and hooks (`workspace/`, `cli/hookinstall.py`, `cli/hookkinds/`) | the hook scripts; Git's index, branches, remotes and tracking refs | install, commit-msg, pre-commit, pre-push, `apex prove git` | git, and whoever else pushes |
| pipeline (`pipeline/`, `registry/graph.py`) | a plan, a map of facts, a stack of finalisers | order, preflight, apply, unwind | every recipe |
| composition and verification recipes (`composition/`, `verification/`) | a run's directory in the guest and on the host, the build record, judged facts, an evidence entry | the stages of 28 recipes | pipeline, agent, machine, ledger |
| guest agent, guest shell, serial console (`agent/main.py`, `adapters/real/real_serialshell.py`, `real_guestshell.py`, `model/serialframe.py`, `composition/agentrun.py`) | the console's lock, the guest's build lock, known hosts | ask a unit, read its framed reply, give up | host commands, a guest that reboots or is replaced |
| update, recovery and initramfs operations (`agent/units/update_*`, `recovery_*`, `initramfs_fixture_unit.py`, `verification/gdmfallback.py`) | deployments, boot entries, GRUB's environment, the policy, the journal | provision, switch, forward, rollback, arm, inject, reboot, collect | bootc, greenboot, GRUB |
| live protection (`live/rootfs/.../live-disk-guard.sh`, `agent/livefixtures.py`, `live_lock_unit.py`) | read-only flags, latch, marker | guard, verify, two faults | udev, dracut, the operator's USB disk |
| offline installer (`guest/installer-preflight.py`, `installer_payload_unit.py`, `verification/installerfault.py`) | the payload and its trust, the check's record, the fault's backup, the host's request | sign, check, fault, keep, collect | Anaconda, the operator |
| signed fixtures (`update_fixture_unit.py`, `dedupe_unit.py`, `installer_trust_unit.py`) | image directories linked to each other, signatures, the builder's policy | build, derive, sign, share, try | skopeo, the kernel |
| trust (`trust/`) | a bundle and its anchor | verify, exercise | signed artifacts on the host |
| kernel, model, ports, registry, config, generating, targeting, wiring, cli | none, or import-time declarations | parsing, merging, rendering | everything |

What is hard here: commands are separate processes that may be killed between any two
writes; a lease read before the lock may be stale under it; process numbers are reused
and a signal must never reach a stranger; the evidence store has no lock and its head is
cached; the gate reads five files one after another; a stage may skip, stop, raise or be
interrupted; a builder's disk is replaced under a machine that may not have a lease; a
deadline ends the host's wait and not the guest's work; a console prints what earlier
commands left; a boot is judged by what its journal kept; nodes appear while they are
being verified; Git reads again what a hook has judged.  Each is listed at its line under
`hazards` in `PROJECT.json` with the properties that cover it.

What makes each component correct:

* machine life: only machines are signalled, a released lease is honest, no running
  machine is lost from sight, fixtures are registered before a guest has them, the lock
  comes back;
* ledger: nothing is cited before it is filed, undisturbed use leaves an intact chain,
  what was confirmed stays confirmed;
* gates: *ready* is earned by entries of the chain for the reported candidate; what a
  remote got was judged unless somebody went around the hooks; three passed Git checks
  mean the rules are in force;
* pipeline: the order is sound, resources are released newest first, attestations rest on
  completed stages, runs end;
* compaction: the disk keeps what guests wrote and the reports tell which copy it is;
* recipes: builds touch only the isolated builder, a PASS record or entry is earned;
* agent: an answer is the request's own and one guest's, every request is settled, a unit
  runs at most once and one at a time under the lock;
* operations: a fallback judged PASS took place, the way back boots, the strict policy
  arrives with a verified fixture;
* live protection: no disk of a desktop is writable unseen, passed faults are real;
* signing: Anaconda starts on a verified payload only, cases differ by one fault, a passed
  trial or exercise is of a verifier that verifies.

## Modules

`MC*` modules only give TLC its symmetry sets and structured constants; `*Proofs`
modules extend a component and hold its theorems: `GatesProofs` those of `Ledger`,
`Evidence`, `Hooks` and `Gates`, `SigningProofs` those of `Installer`, `Fixtures`, `Trust`
and `Signing`, `ChannelProofs` those of `Channel` and its refinement of `Asking`,
`VerificationProofs` those of `Runs` and of `Operations`.  A definition named *Mutant of ...*
is a plausible defect of the definition after it; no specification uses it.

| module | extends | what it is |
|---|---|---|
| Machine | | machine life, hypervisor and lock adapters |
| Ledger; Evidence | ; Ledger | the store and its recorders; the readiness gate beside them |
| Hooks; Gates | ; Evidence, Hooks | the Git hooks; one behaviour is of either gate |
| Pipeline | | ordering and running of any plan |
| Compaction | | compact and finalise beside machines |
| Composition; Verification; Recipes; Runs | each the one before | the build stages; the stages through the agent; the registered recipes and their order; their runs |
| Asking; Channel | ; refines Asking | what asking the agent promises; how it is done |
| Operations | | update, recovery and initramfs operations on one guest |
| Protection | | the live medium's disk protection and its faults |
| Installer, Fixtures, Trust; Signing | ; all three | what is signed and what verifies it |

### Machine

One member of `Clients` is one `apex machine` process; its `pc` is where it is, `seen`
the lease it holds in memory, `work` the run it was given.  `lock`, `intent`, `lease`,
`monitor`, `runLease`, `hotplug`, `powerLoss` and `comparison` are the files.  `slot` is
the process table: a number is free, an unrelated process's, or a QEMU's.  A QEMU is
named by the attempt that wrote its intent (`WriteIntent`), which stands for its start ticks and pidfd
inode, so `Running(l)` is the identity test of `real_hypervisor.py`.

`Start`/`Resume`, `Launch`, `Spawn`, `MonitorAppears`, `WriteLease`, `WriteRunLease` are
`launch` split where another process can act.  `Stop` reads the lease before the lock
and `Shutdown` goes on under it, as `machine_command.stop` and `launching.shutdown` do;
`AskPowerdown` reaches whichever QEMU listens at the path; `AwaitExit` goes on to
`Terminate`.  `AskFails` and `PlugFails` include an answer that came too late, so the
request may have been taken.  `Compare` takes no lock, as in the code.  `Crash` may
happen at any step.  QEMU, the kernel and the death of a command are external.

A killed QEMU stays in the process table until `QemuExits`: the stop command is not
its parent and does not wait.  The histories `interrupted` and `overlapped` name the
machines whose start ended without a lease, and those started while such a tear-down
was going on; `MachinesAccountedFor` excuses exactly these.

### Ledger and Evidence

A recorder opens (`Open`, `WriteKey`, `LoadHead`), decides (`Mint`), files its proofs
(`Absorb`), appends (`AppendLine`) and replaces the head (`WriteHead`); `apex record`
then ends, a verification run records on with its head in memory.  A link is the
digest of everything before it, so it is the position of a line; a MAC is the number
of the key that made it.  `append_line` does not look at how much was written, so
`AppendLine(r, written)` writes the whole line (`"line"`), all but its newline (`"open"`)
or less (`"cut"`).  Lines are split at newlines (`Parses`): an open last line parses and is
confirmed, and what is appended next is written onto it, so that neither does afterwards.
`Evidence` extends `Ledger` with the gate: `ReadMark`, `FindKey`,
`ReadLines` and `Tabulate` read one file each, and `Answer` is what it prints and
exits with when it has read the head.  A strict answer withholds imported passes
(`retracting.py`).

### Hooks and Gates

A commit is a number in `history` with all it descends from, the faults of its tree and
message, and whether the hooks saw it; `remote` and `tracking` are one branch per remote.
`apex hooks` checks that none of the three scripts is foreign and then writes them one by
one.  A commit is judged on the rows of the index, which Git reads again afterwards
(`Restage` may have been in between).  A push reads the remote branch, asks the hook about
the commits from the local branch less the branch read and less every tracking ref, and
moves the branch only if nobody moved it since; others push, rewind and delete, a fetch
may prune.  `broken` is the set of rules that find nothing, a defect of the code chosen at
the start; `hookproving` asks its known questions of the rules.  `unjudged` and `checked`
are histories: what a remote was given past the hooks, what the commit hooks saw.
Commits of others have conventional messages; the faults of their trees suffice.  Git is
external.  `Gates` lets one behaviour be of the readiness gate or of the hooks: they share
no state, so their product would only multiply states.

### Pipeline

A behaviour is one plan.  `Init` picks what the stages read, write and are seeded
with; `Load`, `NextLayer`, `Place` and `Ordered` are `registry/graph.py`; the rest is
`pipeline/runner.py`.  A stage is what the runner sees of it: advanced (with or
without a finaliser), skipped, stopped or raised.  The runner compares no declared reads
with the map, only a lookup of an absent fact raises (`LooksTooEarly`); so a stage that
advances has looked up some of what it declares (`LooksUp`), and a history, `looked`,
keeps which.

### Compaction

`content` gives every file the number of the last guest write it holds, so equal
contents are equal numbers and a lost write is a smaller one.  `Identity` is the
device, inode and times of the disk: the file and its content.  `Compact` ...
`Complete` is `compact`; `Finalise` ... `Untouched` and the same `Swap` is
`finalise`.  A machine is `leased` or `stray`: one no lease names, either of an
interrupted start or killed and not yet gone (both reachable in Machine).  qemu-img
refuses an image opened for writing (`Readable`), which is external.

### Composition, Verification, Recipes, Runs

A stage is a record: the facts it reads and writes, what its commands need in the guest
or on the host (`needs`), what must not be there (`bars`), what it leaves in which order
(`makes`), how it can stop, and a rule naming the decision it takes.  `Recipes` gives
every registered recipe its set of stages and seeds and orders each one by its facts,
layer by layer, as `registry/graph.py` does with the names of a layer in their order
(`ByName`).  `Runs` steps through the order: `Plain` does what a stage does, `Stops`
stops it with a prefix of what it makes, and the rules are actions of their own
(`Freeze`, `RunBuild`, `Retrieve`, `WriteRecord`, `Judge`, `Gated`, `Login`,
`MintEntry`, ...).  A run that ends leaves its machine and its build to the next: a
parent build, an open session, a request already made.  The preflights of all stages
come before the first stage and are one step, `Refused`.  The builder may be a guest
that is not the isolated builder.

`SendMakesDirectories` is the one place where the recipes are checked in a world the code
does not run in.  Neither scp nor the console makes the directory a file is sent into, and
then no recipe that asks the agent gets past `agent.deliver`: that is the run
`undelivered`.  With `TRUE`, what the fake guests of the tests do, the run `recipes`
checks everything behind that stage.

### Asking and Channel

`Asking` is the promise: a request is settled once, its unit runs at most once, of the
units under the guest's lock one runs at a time, an answer is of a unit that is done.
`Channel` is how it is done, over ssh and over the serial console.  `Find` reads the
lease; `AskSerial` takes the console's lock, connects the socket and types its
handshake; `ReadProbe`, `ReadCommand` and `Swallow` are what the guest's shell makes of
what is typed; `FinishUnit` prints a frame of two chunks and its trailer with a token of
the request.  `ReadSerial` looks at the whole stream since the socket was connected,
with a noise line in it (`Noisy`), as the decoder does.  `AskSsh`, `StartSsh` and
`ReadSsh` are one ssh process against the machine's pinned key.  `GiveUp` is a deadline:
it ends the host's wait only.  `BeginUnit` and `DenyUnit` are the guest's build lock.
`Reboot` and `Replace` are the machine's, with whatever was typed or running lost.  The
mapping joins the host's two steps of a request to one, `open`, and takes the guest's
lock for `holder`.

### Operations

One installed guest.  `dep` has the boot entries in order, the booted and the staged
image; `etc` each deployment's configuration; `env` GRUB's environment.  A command goes
`BeginCommand`, its changes (`Provision`, `Switch`, `Rollback`, `RepairGrub`, `ArmGdm`,
`RetryConfig`, `Inject`, `RebootGuest`) and `Confirm`, or `GivesUp` where a unit's check
refuses; each change is made file by file where another boot could see the half of it.
`PowerOn`, `Watch`, `HealthCheck`, `Retry`, `FallBack`, `PowerCut`, `Reboot` and `Finalise` are
GRUB, greenboot and bootc, external to the code and modelled as the units use them.
A boot has what it was (`went`) and what its journal kept of it (`kept`): a power cut
loses the end.  `Collected` is the verdict of `gdmfallback.py` over the kept part only.
The names that `Runs` has too are longer here, so that one module can prove about both.

### Protection

A node has its read-only flag; udev has the events it has not handled.  `Handle` is the
guard run by udev, `GuardFails` an ioctl that fails and sets the latch.  `VerifyBegins`
... `VerifyEnds` and `CheckBegins` ... `CheckEnds` are the walks over all nodes, one node
a step, in the initramfs and before the desktop.  The lock fault settles udev, stops its
queue, makes the target writable, runs the guard without privilege and restores.  The
denial fault reads the nodes one by one (`ReadNode`), reads them again before each write,
and writes (`Attempt`).  What it compares is what sysfs says, which is the same again
once a disk was unplugged, plugged in and guarded: `since` and `under`, how often the disk
had been plugged when the last reading began and when a node was written, are histories
that no guard reads.  `Plug` and `Unplug` are the operator's.

### Installer, Fixtures, Trust, Signing

`Installer`: a file of the payload or of its trust is as shipped, changed or gone. The
check is seven looks at the files (`Looks`), one step each (`LookAt`), with what it read
so far; `Wrong` is what it says of that, `Answers` adds the proxy's failures of its own,
`PassCheck` goes on into Anaconda.  Its lock keeps checks apart (`BeginCheck`), and
nothing keeps the fault's writes away from it.  `StartInstaller` is the operator, at any
time.  The unit goes `Guard` (the record and the log), `GuardProcesses`, `MakeFault`,
`KeepOriginal`, `Damage` (three writes for the wrong key, of whose files only the key is
kept), `RunEntryPoint`, `Judge`; at its deadline (`Overdue`) the entry point is killed
and the check it began goes on alone.  The host goes `Ask`, `Reply`, `Collect`.
`Fixtures`: a path has an inode and an inode a content, so that what is written through
a hard link is seen; `CopyImage`, `LinkTree`, `Remove` and `Swap` are the unit's
commands, `ShareExtents` what the kernel makes of a request to share, `AskVerifier` the
sixteen questions of the trial.  `Trust`: `Refusal` is the order of `verify_bundle`,
over the checks the verifier makes, which an exercise cannot know.  `Signing` lets a
behaviour be of one of the three.

## Runs

| run | bounds | what holds |
|---|---|---|
| machine | 2 commands, 2 process numbers, a builder and a test run, 2 launches; start, resume, stop, power-loss, reclaim | OnlyMachinesSignalled, ReleasedMeansEnded, MachinesAccountedFor |
| machine_usb | 2 commands, 1 process number, a usb run, 1 launch; hotplug and compare too | FixturesRegistered; LockGivenBack under fairness |
| ledger | 2 recorders, 1 check, 2 payloads, 2 lines, each whole, open or cut | CitationsFiled, UndisturbedIsIntact, PrefixKept |
| gates | 1 recorder beside the gate, 1 check, 2 candidates, 2 lines, three version one trees; 1 remote, 3 commits, a row exactly as large as the limit with a private key in it, the key rule sound or blind | ReadyIsEarned, PushedIsJudged, ProofsHold |
| pipeline | every plan of 3 stages over 2 facts, every seed set | OrderIsSound, UnwoundInReverse, AttestedOnCompleted; Terminates under fairness |
| compaction | 2 commands, 2 compactions, 2 guest writes | BuilderKept, ReportsHonest, RetainedWasCompared |
| recipes | every recipe, 3 runs one after the other | OnlyIsolatedBuilder, RecordIsEarned, DerivedFromCompleteImage, FoldedFromAll, PassOnOwnLogin |
| undelivered | every recipe, 1 run, in the world the code runs in | NeedsMet is violated |
| channel | 2 commands, 2 requests, 2 machines, 1 reboot | OwnAnswer, OneGuest, KeepsPromise (refinement); Settles under fairness |
| operations | 5 starting guests, 3 changes, 5 boots, 1 upset from outside | FallbackIsReal, WayBackBoots, PolicyOnlyVerified |
| protection | 2 board nodes, a USB disk of 2 nodes, plugged twice | DesktopOnlyProtected, DenialRefusesBoot, DenialIsTotal; EventuallyGuarded under fairness |
| signing | images of 2 layers, one in common, a bundle of 2 files, all six faults | CasesDifferByOneFault, DedupeKeepsContents, ExerciseProvesVerifier, OnlyVerifiedStarts, OriginalKept, RejectionIsEarned |

Why the bounds are enough.

* Machine: every interference is between two commands over one lease, so two clients and
  two launches reach each of them: a stale stop against a second start, a late monitor
  of the first machine, a number reused.  A third command can only hold the lock meanwhile.
* Ledger: two recorders and two lines reach a fork, two heads for one line, and a line
  written onto an open one; two payloads, an event that cites both and has one filed.  What
  was confirmed is a prefix, so a third line could only be lost with the second.
* Gates: two lines are a pass and its retraction or another candidate's; three commits are
  a root, one judged and one that arrives from elsewhere under it or beside it.
* Pipeline: three stages over two facts reach chains, diamonds with a seed, rings of two
  and of three, double producers and self-readers.
* Compaction: two compactions reach a finalisation of a copy made stale by the other.
* Recipes: a derived build needs a parent build, a request an earlier session; a run
  uses the leavings of at most two earlier runs.
* Channel: a late answer needs one request given up and one after it; a wrong guest needs
  a replaced machine; a unit run twice needs a reboot or a retyped command.
* Operations: a fallback takes a change, two failed boots of B and a boot of A; the other
  two boots and the upset let each of these be lost, picked at the menu or rolled back.
* Protection: two nodes of a disk and one plugging after another reach a node of the old
  disk with an event still queued, and a denial that reads one plugging and writes to another.
* Signing: the check has a step for each look and the fault one for each write, so every
  order of the two is there; a layer is shared beside one that is not.

The proofs remove the bounds for the properties they cover.  Symmetry is used only in
runs without temporal properties other than `PrefixKept`, an action property.  The
deadlock check is off in pipeline, recipes, undelivered, channel, operations, protection
and signing: a run, a campaign, a boot or a bounded number of requests ends there.

The largest runs are `pipeline` (2.2 million states), `ledger` (1.4 million, after symmetry)
and `gates`; `signing` has 61,000, `protection` 45,000.

Every property of a passing run is shown to depend on the code by a mutant that breaks it
under the same configuration.

### What the violated run shows

`agent.deliver` sends the wheel to `/var/tmp/apex-<run>/apex-agent.whl` and makes that
directory in the command after it (`composition/agentrun.py:90`).  No earlier stage of a
verification recipe makes it, and neither scp nor `base64 -d >` does, while
`docs/AGENT-MAP.md:83` and the tests of the recipes, whose guests accept any path, expect
the delivery to succeed.  `NeedsMet` finds the first recipe that gets there.

## Fairness

* `Machine!Fairness`: weak fairness of the steps of a command under way.  Every wait
  under the lock has a deadline in the code (`_await_monitor`, the monitor's, the
  shutdown's), so such a step stays enabled and the scheduler runs it.
* `Pipeline!FairSpec`: weak fairness of the one thread of a run; a stage that never
  returns is outside the model.
* `Channel!Fairness`: weak fairness of `GiveUp`, since every wait of the host has a
  deadline, and of `FinishUnit`, since every program a unit runs has one in the guest.
* `Protection!Fairness`: weak fairness of `Handle`: udev takes its events as long as its
  queue runs.

Nothing is assumed of users, QEMU, the boots of a guest or other processes.

## Proofs

Every safety property and action property of the passing runs is a theorem, for all
values of the constants, under the named assumptions of each component: sets of names are
disjoint where the code's are, bounds are natural numbers, the catalogue gives each check
an environment other than *simulated*, the parent's layer is one of the layers and none is
called like the manifest or the signature.

* Machine: `TypeCorrect`, `StrangersSafe`, `ReleasedHonest`, `NoMachineLost`,
  `NoFixtureUnregistered`.  The properties are not inductive: a command writes a lease from
  what it read before.  `IInv` adds who holds the lock at which step, that an attempt under
  way is known to one command only (`FreshInv`), that a machine runs at the number its
  lease holds (`PlaceInv`), that no tracked machine runs while a start is under way
  (`NoneInv`), and that a lease read earlier is of the tracked machine or of none
  (`SeenInv`).  `FixtureInv` adds how far the command that holds the lock has brought the
  record of its run: it is INCOMPLETE before the monitor is asked and until it has answered.
* Ledger: `StoreTyped`, `CitationsHold`, `UndisturbedHolds`, `PrefixStands`.
  `LedgerInv` says that undisturbed recorders follow one another (`AloneInv`) and that
  what one keeps in memory is what the files say (`ChainInv`).  `PrefixStands` needs no
  invariant: the file only grows, and a piece that is not the last parses as it did unless
  it was the last and open, which is the exception the property names.
* Evidence: `ReadyHolds`, from `LedgerInv`, that what mint let through stays true of it
  (`MintedInv`) and that the gate's lines are lines of the chain (`ReaderInv`).
* Hooks: `PushesAreJudged`, `ProofsAreKept`.  `HooksInv` says that a commit's line is
  closed (`LinesClosed`), that every remote and tracking ref holds sound lines only
  (`AllSound`) and that what the commit hooks saw has no fault but of a broken rule
  (`CheckedSound`).
* Gates: `GatesReady`, `GatesPushed`, `GatesProve` carry the two over to the composition:
  a behaviour of it is one of the gate or one of the hooks.
* Pipeline: `PlanTyped`, `OrderHolds`, `AttestedHolds`, `UnwindHolds`.  `PlanInv` says
  that stages are placed after what they need, that the map is the seeds and what
  completed stages wrote, and that what a completed stage looked up was in it.
  `UnwindInv` says that what is still to release and what was released are, together,
  what was acquired, the second from its end, but for the one stage whose facts the map
  refused.
* Compaction: `BuilderSurvives`, `ReportsTrue`, `RetainedSound`.  `CompactInv` says what
  a command knows of the source at each step (`KnownInv`): contents only grow, so a
  source whose identity is unchanged at the end was the same at every step between.
* Protection: `TypeCorrect`, `DesktopIsProtected`, `PassedLockRefusesBoot`,
  `DenialsAreTotal`.  A writable node has an event on its way, the latch or a walk that
  has still to come to it (`Watched`); the latch outlives the fault that set it
  (`LatchedBoot`); a denial that is about to write began its reading when the disk had been
  plugged no more often than now, and what it read is read-only still unless the disk was
  plugged anew (`DenialInv`).
* Signing: `VerifiedStarts`, `RejectionsAreEarned`, `OriginalsAreKept`,
  `ExercisesProveVerifiers`, `TrialsAreEarned`.  `FaultInv` ties the unit's step to what
  it has damaged and kept, `CheckInv` the check to the files: no damage is undone before the
  next boot, so what a look found whole was whole when the check began, and a check that
  passed looked at each file; `ExerciseInv` ties what was accepted to the checks that were
  made, `TrialInv` the answers heard to the questions put.  `TrialsAreEarned` is the one
  property proved that no run checks.
* Fixtures: `CasesAreClean`, `SharingIsHarmless`.  The hazard is a write through a hard
  link.  `TreeInv` says at each step which inode every path made so far leads to, `DataInv`
  what those inodes contain while somebody may still read them, so that a write is seen
  through the paths it is meant for; `ReportInv` says what the fixture reported, `DedupeInv`
  what the sharing has left to compare.
* Channel: `AnswersAreOwn`, `AnswersFromOneGuest`, `ChannelKeepsPromise`.  `ChannelInv`
  says that a command waits for one answer at a time (`AskInv`) and, at the console, holds
  it on the machine of its lease (`ConsoleInv`), that a typed command is of a request not
  yet begun and typed once (`TypedInv`), that a unit runs on the machine that was meant
  (`PlaceInv`), that an end that is printed is of a unit that ended so (`EndInv`) and that
  a printed trailer closes its own request's payload or is damaged (`FrameInv`).  So what
  the decoder accepts, at whatever line of the stream, is the payload a trailer of this
  very request closes.  That would be an induction over the lines; it is proved by a
  smallest counterexample: the first line after which the decoder's state is not of this
  kind would follow one where it is.  The refinement takes every step to one of `Asking` or
  a stutter, under `ChannelInv`.
* Runs: `OnlyBuildersTouched`, `RecordsAreEarned`, `TargetsAreComplete`, `EntriesFoldAll`,
  `PassesAreOwn`, over any number of runs.  `RunInv` says what the stages behind the
  current one have established: the guard that the builder is isolated (`GuardInv`), the
  record that its build stays as it was (`RecordInv`), which earlier builds can be a target
  (`TargetInv`), the judging stages their verdicts (`VerdictInv`), the mint stage an entry
  nothing changes afterwards (`EntryInv`).  That the order of each recipe has those stages
  at those places is `OrdersAssumption`: a statement about a finite table without
  parameters, which the prover cannot compute (the order is a fold over layers) and TLC
  evaluates, with both values of `SendMakesDirectories`, at every start of `recipes` and
  `undelivered`.  An edit of a recipe that breaks it stops those runs.
* Operations: `WayBackHolds`, `PolicyHolds`, `FallbacksAreReal`, over any number of boots,
  changes and upsets.  `OperationsInv` says that the fault is on entries of their own only
  (`WayInv`) and that, while the parent has an entry, no deployment has the fixture's
  policy before the fixture is whole, booted or not (`PolicyInv`).  `HistoriesInv` adds
  what relates boots to the journal: B has its arming from A and keeps it (`ArmedInv`); a
  boot fails by that arming, from the first on every boot of B does, and the journal keeps
  no more than happened (`HistoryInv`).

The first form of `FallbackIsReal` held within the bounds of its run and not beyond them:
with one upset more, a boot of B that the journal has nothing of can come between.  The
property now says so, and is proved without bounds.

Only model-checked: liveness under fairness, which is beyond the prover (`LockGivenBack`,
`Terminates`, `Settles`, `EventuallyGuarded`), and the violation of `NeedsMet`.  No module
has a RECURSIVE operator; `Channel!Decode` and the orders of `Recipes` are a recursive
function and a fold, of which the proofs use what is said above.

## Abstractions to know of

* The preflights of all stages of a recipe are one step.
* The parts of `Signing` and of `Gates` share no state, and a behaviour is of one part.
* A digest, a MAC, a signature or a token stands for what it is of: collisions and
  forgery are outside the model.
* A unit of the agent that only observes is a verdict.
* What a stage looks up, and when, is its own: it is any part of the reads it declares.

## Observations

Read in the code while modelling.  None is a disagreement a run shows; each is left out of
a property, or named in one as an exception.

Machines and evidence:

* A second machine can run: QEMU is spawned before its lease is written, and a start that
  times out on the monitor leaves its child (`launching.py:59`, `66`, `169`;
  `ARCHITECTURE.md:6`).  `MachinesAccountedFor` names these machines.
* An interrupted resume has the run identifier of the lease on file, so reclaim does not
  see it (`launching.py:151`, `leases.py:3`).
* compare asks once whether a machine runs and takes no lock (`comparing.py:64`, `68`).
* After a crash between the first line and the first head the next recorder writes a second
  line of sequence 0; the chain breaks there for good (`ledger.py:180`, `242`–`248`).
* `append_line` ignores how much `os.write` wrote (`real_files.py:67`).  A line that lost
  only its newline still verifies (`ledger.py:209`), and the next append, written onto it,
  destroys both, although `ports/files.py:105` speaks of "one newline-terminated record" and
  the contract test of appending has the earlier lines stay.  `PrefixKept` names this line
  as its exception.
* Stages declare reads they never look up (`check_builder_stage.py` FROZEN,
  `prepare_remote_stage.py` SOURCES): the reads order them, and with the producer skipped
  they advance all the same, since only a lookup raises (`facts.py:38`, `runner.py:123`).
* `apex readiness` exits 0 with checks not tested (`readiness_command.py:54`, `README.md:38`).
* The mint stage's preflight accepts an environment that satisfies a check where mint wants
  one that may attest it, so the refusal is late (`mint_stage.py:29`, `REPROVING.md:42`–`48`).
* A push is not asked about commits that any remote-tracking ref holds.  A passed Git check
  proves the hook kinds, not that the hooks are installed, and does not ask about sizes or
  passphrases.  `REPOSITORY_RULE_FLOOR` is compared as text (`hookdispatch.py:33`).  A
  foreign hook that appears between the check and the write is overwritten
  (`hookinstall.py:38`–`41`).

Guests:

* `UPDATES.md` speaks of refusing a second fault in the same run; nothing in the code
  does.  An update's check may join the verdicts of two boots.
* A repeated `bootc rollback` toggles, and ROLLBACK passes without a look at the state
  after it.
* A fallback judged PASS for two failures may have lost a boot of B to a power cut, also
  between the last failure it shows and the healthy boot of A: an operator's rollback during
  the failing boot undoes greenboot's, B is booted once more and loses power before its
  journal has anything of it, and A is picked at the menu (`gdmfallback.py:143`).
* build-recovery-disk delivers its agent before guest.prepare makes the directory.
* The lock fault ignores the result of starting udev's queue again, and a failed settle
  raises before the part that restores.  A node unplugged with an event still queued sets
  the latch.
* The denial fault compares sysfs documents (`blockdevices.py:166`), which cannot tell two
  pluggings of one disk apart: a PASS may be of nodes of both, and a write may reach a disk
  plugged anew just before it.
* A loop device stays attached when umount fails (ventoy, installer disks).

Signing:

* A refused import leaves what it copied under the digest's tag.
* The installer's signature reason matches any failure of the proxy, and the faults have
  no positive control (`docs/INSTALLER.md:181`–`200`).
* The fault's unit may pass while the operator's Anaconda has passed the check and has not
  made its log yet.
* The preflight and the fault's unit share no lock: damage after the last look at a file
  lets Anaconda start on it (`installer-preflight.py:133`–`147`, `installer_payload_unit.py:201`).
* The deadline of the unit's entry point ends that process alone (`real_process.py:60`); the
  check it began may still write its record after the unit reported.
* Of a new key only the key's file is kept; the contract and the policy are rewritten
  without a copy (`installer_payload_unit.py:211`–`217`, `257`).  `OriginalKept` names the two.
* The trust exercise has no negative for unsigned content, nor for the OCI binding.

## Not modelled

* Configuration, generating and targeting: pure reading, merging and text without state;
  the unit tests enumerate their cases.
* Registry and discovery: registrations at import; the ordering of a plan is in `Pipeline`.
* The attestation catalogue: declarations, the constants of `Evidence`.
* The command line: parsing and rendering; a command's effects are with its component.
* Wiring and fakes, packages and repository tools: construction, doubles and recipes.
* Guest and live scripts besides the guard and the installer's check: linear scripts of a
  container build.
* Builder preparation: a linear sequence of downloads and image tool calls, each piece
  made once and left alone afterwards, refused while a machine runs.
* QEMU's command line, the documents of a run and how a file is transferred: data the
  properties do not tell apart.

What is left: the temporal properties under fairness stay with TLC.  Still to prove are what
`Asking` promises in words, as invariants of its own that the refinement then carries to the
channel, and facts of the recipes' order that `OrdersAssumption` leaves to TLC.
