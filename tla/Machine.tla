------------------------------ MODULE Machine ------------------------------
(* The life of the one virtual machine the host runs: `apex machine start`,   *)
(* `resume`, `stop`, `power-loss`, `reclaim`, `hotplug` and `compare`.         *)
(*                                                                             *)
(* Each command is a process of its own (a member of Clients) that may die     *)
(* between any two steps.  They share the runtime root: the MACHINE lock, the  *)
(* intent, the lease, a copy of the lease in every run directory and one       *)
(* monitor socket path.  Around them runs the host: QEMU processes bind the    *)
(* socket, exit by themselves or after a signal, and their process numbers are *)
(* used again by unrelated processes.                                          *)
(*                                                                             *)
(* A start is numbered by the attempt that wrote its intent (the `written_at`  *)
(* stamp).  A QEMU process is named by its attempt; the start ticks and the    *)
(* pidfd inode of a process identity are unique to one process and are         *)
(* therefore the attempt number too.                                           *)
EXTENDS Naturals, FiniteSets

CONSTANTS
    Clients,        \* processes running the command line
    Pids,           \* process numbers of the host
    BuilderRuns,    \* run identifiers of builder starts
    TestRuns,       \* run identifiers of disposable test machines
    UsbRuns,        \* the test runs started with the emulated usb bus
    Commands,       \* the commands users give in this instance
    MaxLaunches     \* bound: intents written in one behaviour

ASSUME RunsAssumption ==
    /\ BuilderRuns \cap TestRuns = {}
    /\ UsbRuns \subseteq TestRuns

ASSUME MaxLaunchesAssumption == MaxLaunches \in Nat

Runs     == BuilderRuns \cup TestRuns
Attempts == 1 .. MaxLaunches

\* What a process number stands for when it is not a QEMU started here.
Free  == 0
Other == MaxLaunches + 1

ASSUME NamesAssumption == "none" \notin Clients \cup Runs

\* A lease names a machine by attempt and process number; 0 stands for no lease.
LeaseOf(k, p, over) == [at |-> k, pid |-> p, released |-> over]
NoLease == LeaseOf(0, 0, FALSE)
Lease   == [at : Attempts \cup {0}, pid : Pids \cup {0}, released : BOOLEAN]

VARIABLES
    \* the host
    slot,        \* occupant of every process number
    bound,       \* attempts whose QEMU has created its monitor socket
    asked,       \* attempts whose guest received system_powerdown
    signalled,   \* processes SIGKILL was sent to, strangers included
    plugged,     \* <<attempt, run>>: fixture of `run` attached to that QEMU
    \* the runtime root
    lock,        \* holder of the MACHINE lock
    monitor,     \* whose socket is at the monitor path, 0 when absent
    attempts,    \* intents written so far
    launched,    \* run of every attempt, as its intent names it
    intent,      \* the intent file: an attempt, 0 when absent
    lease,       \* the lease file
    \* the run directories
    prepared,    \* runs whose directory and record exist
    runLease,    \* the lease copy of a run
    hotplug,     \* the hotplug overlay and record of a run
    powerLoss,   \* runs that hold a power loss record
    comparison,  \* the comparison record of a run
    \* the commands
    pc, seen, work, watch,
    \* history
    born,        \* attempts whose QEMU was started
    interrupted, \* attempts started by a command that ended without a lease
    overlapped   \* attempts started while a killed machine, or one so started,
                 \* was not yet gone

host     == <<slot, bound, asked, signalled, plugged, born, overlapped>>
root     == <<attempts, launched, intent, lease>>
runs     == <<prepared, runLease, hotplug, powerLoss, comparison>>
vars     == <<host, lock, monitor, root, runs, pc, seen, work, watch,
              interrupted>>

PCs == {"idle", "launch", "spawn", "await", "lease", "runlease",
        "stop", "ask", "wait", "kill", "release", "powerloss",
        "register", "plug", "attached", "compare"}

HotplugStates    == {"none", "overlay", "INCOMPLETE", "ATTACHED"}
ComparisonStates == {"none", "at rest", "while running"}

TypeOK ==
    /\ slot \in [Pids -> {Free, Other} \cup Attempts]
    /\ bound \subseteq Attempts
    /\ asked \subseteq Attempts
    /\ signalled \subseteq Attempts \cup {Other}
    /\ plugged \subseteq Attempts \X Runs
    /\ lock \in Clients \cup {"none"}
    /\ monitor \in Attempts \cup {0}
    /\ attempts \in 0 .. MaxLaunches
    /\ launched \in [Attempts -> Runs \cup {"none"}]
    /\ intent \in Attempts \cup {0}
    /\ lease \in Lease
    /\ prepared \subseteq Runs
    /\ runLease \in [Runs -> Lease]
    /\ hotplug \in [Runs -> HotplugStates]
    /\ powerLoss \subseteq Runs
    /\ comparison \in [Runs -> ComparisonStates]
    /\ pc \in [Clients -> PCs]
    /\ seen \in [Clients -> Lease]
    /\ work \in [Clients -> Runs \cup {"none"}]
    /\ watch \in [Clients -> SUBSET Attempts]
    /\ born \subseteq Attempts
    /\ interrupted \subseteq Attempts
    /\ overlapped \subseteq Attempts

Init ==
    /\ slot = [p \in Pids |-> Free]
    /\ bound = {} /\ asked = {} /\ signalled = {} /\ plugged = {} /\ born = {}
    /\ lock = "none" /\ monitor = 0
    /\ attempts = 0 /\ launched = [k \in Attempts |-> "none"]
    /\ intent = 0 /\ lease = NoLease
    /\ prepared = {} /\ runLease = [r \in Runs |-> NoLease]
    /\ hotplug = [r \in Runs |-> "none"]
    /\ powerLoss = {} /\ comparison = [r \in Runs |-> "none"]
    /\ pc = [c \in Clients |-> "idle"]
    /\ seen = [c \in Clients |-> NoLease]
    /\ work = [c \in Clients |-> "none"]
    /\ watch = [c \in Clients |-> {}]
    /\ interrupted = {} /\ overlapped = {}

(***************************************************************************)
(* The host, as the hypervisor adapter observes it.                         *)
(***************************************************************************)

\* The QEMU processes that exist, the killed ones not yet gone included.
Up == {k \in Attempts : \E p \in Pids : slot[p] = k}

\* Mutant of Running: any process at the recorded number will do.
RunningByNumber(l) == l.at # 0 /\ l.pid \in Pids /\ slot[l.pid] # Free

\* running(identity): the process number exists with the recorded start.
Running(l) == l.at # 0 /\ l.pid \in Pids /\ slot[l.pid] = l.at

\* current(): the lease of the machine that is running now.
Current == /\ lease.at # 0
           /\ ~lease.released
           /\ Running(lease)

\* The run whose machine a lease names.
RunOf(l) == launched[l.at]

(***************************************************************************)
(* Steps every command is made of.                                          *)
(***************************************************************************)

\* Mutant of Leave: the lock context forgets to unlock.
LeaveLocked(c) ==
    /\ pc' = [pc EXCEPT ![c] = "idle"]
    /\ seen' = [seen EXCEPT ![c] = NoLease]
    /\ work' = [work EXCEPT ![c] = "none"]
    /\ watch' = [watch EXCEPT ![c] = {}]
    /\ lock' = lock

\* A command ends: whatever the lock context held is given back.
Leave(c) ==
    /\ pc' = [pc EXCEPT ![c] = "idle"]
    /\ seen' = [seen EXCEPT ![c] = NoLease]
    /\ work' = [work EXCEPT ![c] = "none"]
    /\ watch' = [watch EXCEPT ![c] = {}]
    /\ lock' = IF lock = c THEN "none" ELSE lock

\* The immediate policy: take the free lock and go on at `next`.
Acquire(c, next) ==
    /\ lock = "none"
    /\ lock' = c
    /\ pc' = [pc EXCEPT ![c] = next]

\* A user gives one of the commands of this instance to an idle process.
Given(c, name) == name \in Commands /\ pc[c] = "idle"

\* A command that needs the lock while another command holds it is refused.
LockHeld(c) ==
    /\ pc[c] \in {"launch", "stop", "powerloss"}
    /\ lock # "none"
    /\ Leave(c)
    /\ UNCHANGED <<host, monitor, root, runs, interrupted>>

(***************************************************************************)
(* Starting and resuming.                                                   *)
(***************************************************************************)

\* A fresh run directory, with the record of what it was made of.
Prepare(r) ==
    /\ r \notin prepared
    /\ prepared' = prepared \cup {r}

\* Only a test machine's run has such a record; without it the run is refused.
Recorded(r) == r \in prepared \cap TestRuns

\* start_builder, and start_test with testspec.prepare.
Start(c, r) ==
    /\ Given(c, "start")
    /\ Prepare(r)
    /\ pc' = [pc EXCEPT ![c] = "launch"]
    /\ work' = [work EXCEPT ![c] = r]
    /\ UNCHANGED <<host, lock, monitor, root, runLease, hotplug, powerLoss,
                   comparison, seen, watch, interrupted>>

\* resume: the run's own record, no usb bus, and no machine running now.
Resume(c, r) ==
    /\ Given(c, "resume")
    /\ Recorded(r) /\ r \notin UsbRuns
    /\ ~Current
    /\ pc' = [pc EXCEPT ![c] = "launch"]
    /\ work' = [work EXCEPT ![c] = r]
    /\ UNCHANGED <<host, lock, monitor, root, runs, seen, watch,
                   interrupted>>

\* The intent names the run, and what is started from it is the next attempt.
WriteIntent(r) ==
    /\ attempts' = attempts + 1
    /\ launched' = [launched EXCEPT ![attempts + 1] = r]
    /\ intent' = attempts + 1

\* Mutant of Launch: whether a machine runs is not asked again under the lock.
LaunchUnchecked(c) ==
    /\ pc[c] = "launch"
    /\ attempts < MaxLaunches
    /\ Acquire(c, "spawn")
    /\ WriteIntent(work[c])
    /\ seen' = [seen EXCEPT ![c] = LeaseOf(attempts + 1, 0, FALSE)]
    /\ UNCHANGED <<host, monitor, lease, runs, work, watch, interrupted>>

\* launch, up to the intent: one machine at a time, and room for it.
Launch(c) ==
    /\ pc[c] = "launch"
    /\ ~Current
    /\ attempts < MaxLaunches
    /\ Acquire(c, "spawn")
    /\ WriteIntent(work[c])
    /\ seen' = [seen EXCEPT ![c] = LeaseOf(attempts + 1, 0, FALSE)]
    /\ UNCHANGED <<host, monitor, lease, runs, work, watch, interrupted>>

\* launch refused under the lock: a machine is running, or no capacity.
LaunchRefused(c) ==
    /\ pc[c] = "launch"
    /\ lock = "none"
    /\ Leave(c)
    /\ UNCHANGED <<host, monitor, root, runs, interrupted>>

\* spawn: the old socket is unlinked and the process started.
Spawn(c, p) ==
    /\ pc[c] = "spawn"
    /\ slot[p] = Free
    /\ monitor' = 0
    /\ slot' = [slot EXCEPT ![p] = seen[c].at]
    /\ born' = born \cup {seen[c].at}
    /\ overlapped' = overlapped \cup
           (IF Up \cap (signalled \cup overlapped) # {} THEN {seen[c].at} ELSE {})
    /\ seen' = [seen EXCEPT ![c] = LeaseOf(seen[c].at, p, FALSE)]
    /\ pc' = [pc EXCEPT ![c] = "await"]
    /\ UNCHANGED <<bound, asked, signalled, plugged, lock, root, runs, work,
                   watch, interrupted>>

\* spawn when the program could not be started at all.
SpawnFails(c) ==
    /\ pc[c] = "spawn"
    /\ monitor' = 0
    /\ Leave(c)
    /\ UNCHANGED <<host, root, runs, interrupted>>

\* _await_monitor: a socket is at the path, whoever created it.
MonitorAppears(c) ==
    /\ pc[c] = "await"
    /\ monitor # 0
    /\ pc' = [pc EXCEPT ![c] = "lease"]
    /\ UNCHANGED <<host, lock, monitor, root, runs, seen, work, watch,
                   interrupted>>

\* _await_monitor: the child exited, or the deadline passed with it running.
MonitorMissing(c) ==
    /\ pc[c] = "await"
    /\ monitor = 0
    /\ interrupted' = interrupted \cup {seen[c].at}
    /\ Leave(c)
    /\ UNCHANGED <<host, monitor, root, runs>>

\* write_lease, the runtime root's file first ...
WriteLease(c) ==
    /\ pc[c] \in {"lease", "release"}
    /\ lease' = LeaseOf(seen[c].at, seen[c].pid, pc[c] = "release")
    /\ seen' = [seen EXCEPT ![c] = lease']
    /\ pc' = [pc EXCEPT ![c] = "runlease"]
    /\ UNCHANGED <<host, lock, monitor, attempts, launched, intent, runs, work,
                   watch, interrupted>>

\* ... then the run directory's, which is the command's last write.
WriteRunLease(c) ==
    /\ pc[c] = "runlease"
    /\ runLease' = [runLease EXCEPT ![RunOf(seen[c])] = seen[c]]
    /\ Leave(c)
    /\ UNCHANGED <<host, monitor, root, prepared, hotplug, powerLoss, comparison,
                   interrupted>>

(***************************************************************************)
(* Stopping and the power loss fault.                                       *)
(***************************************************************************)

\* stop reads the lease of the running machine before it takes the lock.
Stop(c) ==
    /\ Given(c, "stop")
    /\ Current
    /\ seen' = [seen EXCEPT ![c] = lease]
    /\ pc' = [pc EXCEPT ![c] = "stop"]
    /\ UNCHANGED <<host, lock, monitor, root, runs, work, watch,
                   interrupted>>

\* shutdown under the lock: the identity read earlier still runs, or refused.
Shutdown(c) ==
    /\ pc[c] = "stop"
    /\ IF Running(seen[c])
       THEN Acquire(c, "ask") /\ UNCHANGED <<seen, work, watch>>
       ELSE lock = "none" /\ Leave(c)
    /\ UNCHANGED <<host, monitor, root, runs, interrupted>>

\* The powerdown goes to whichever QEMU answers at the monitor path.
AskPowerdown(c) ==
    /\ pc[c] = "ask"
    /\ monitor \in Up
    /\ asked' = asked \cup {monitor}
    /\ pc' = [pc EXCEPT ![c] = "wait"]
    /\ UNCHANGED <<slot, bound, signalled, plugged, born, overlapped, lock, monitor, root,
                   runs, seen, work, watch, interrupted>>

\* No QEMU answers at the path, or not within the monitor's deadline, when the
\* request may have been taken all the same.
AskFails(c) ==
    /\ pc[c] = "ask"
    /\ asked' \in {asked, asked \cup (Up \cap {monitor})}
    /\ Leave(c)
    /\ UNCHANGED <<slot, bound, signalled, plugged, born, overlapped, monitor, root,
                   runs, interrupted>>

\* Mutant of AwaitExit: the deadline passes and the machine is taken for stopped.
AwaitDeadline(c) ==
    /\ pc[c] = "wait"
    /\ pc' = [pc EXCEPT ![c] = "release"]
    /\ UNCHANGED <<host, lock, monitor, root, runs, seen, work, watch,
                   interrupted>>

\* wait_until: gone, or the shutdown deadline passed and the kill follows.
AwaitExit(c) ==
    /\ pc[c] = "wait"
    /\ pc' = [pc EXCEPT ![c] = IF Running(seen[c]) THEN "kill" ELSE "release"]
    /\ UNCHANGED <<host, lock, monitor, root, runs, seen, work, watch,
                   interrupted>>

\* power_loss reads the lease first; only a disposable machine is owned.
PowerLoss(c) ==
    /\ Given(c, "power-loss")
    /\ Current
    /\ RunOf(lease) \in TestRuns
    /\ seen' = [seen EXCEPT ![c] = lease]
    /\ pc' = [pc EXCEPT ![c] = "powerloss"]
    /\ UNCHANGED <<host, lock, monitor, root, runs, work, watch,
                   interrupted>>

\* power_loss under the lock records the fault before it signals.
RecordPowerLoss(c) ==
    /\ pc[c] = "powerloss"
    /\ Acquire(c, "kill")
    /\ powerLoss' = powerLoss \cup {RunOf(seen[c])}
    /\ UNCHANGED <<host, monitor, root, prepared, runLease, hotplug, comparison,
                   seen, work, watch, interrupted>>

\* terminate: SIGKILL to the process that answers to the whole identity.  The
\* command is not its parent and does not wait for it to be gone.
Terminate(c) ==
    /\ pc[c] = "kill"
    /\ Running(seen[c])
    /\ signalled' = signalled \cup {slot[seen[c].pid]}
    /\ pc' = [pc EXCEPT ![c] = "release"]
    /\ UNCHANGED <<slot, bound, asked, plugged, born, overlapped, lock, monitor, root, runs,
                   seen, work, watch, interrupted>>

\* terminate refuses: the process is gone or its number was used again.
TerminateRefused(c) ==
    /\ pc[c] = "kill"
    /\ ~Running(seen[c])
    /\ Leave(c)
    /\ UNCHANGED <<host, monitor, root, runs, interrupted>>

(***************************************************************************)
(* Reclaiming.                                                              *)
(***************************************************************************)

StartedWithoutLease ==
    intent # 0 /\ (lease.at = 0 \/ launched[lease.at] # launched[intent])

StaleLease == lease.at # 0 /\ ~lease.released /\ ~Running(lease)

\* What reclaim answers.
Orphaned == StartedWithoutLease \/ StaleLease

\* reclaim: a stale lease is released; the answer is Orphaned.
Reclaim(c) ==
    /\ Given(c, "reclaim")
    /\ lock = "none"
    /\ IF StaleLease
       THEN Acquire(c, "release") /\ seen' = [seen EXCEPT ![c] = lease]
       ELSE UNCHANGED <<lock, pc, seen>>
    /\ UNCHANGED <<host, monitor, root, runs, work, watch, interrupted>>

(***************************************************************************)
(* The fixture hot-plugged into a usb test run.                             *)
(***************************************************************************)

\* Mutant of Attach: the guest gets the fixture before the record names it.
AttachUnregistered(c) ==
    /\ Given(c, "hotplug")
    /\ Current
    /\ RunOf(lease) \in UsbRuns
    /\ hotplug[RunOf(lease)] = "none"
    /\ Acquire(c, "plug")
    /\ hotplug' = [hotplug EXCEPT ![RunOf(lease)] = "overlay"]
    /\ seen' = [seen EXCEPT ![c] = lease]
    /\ UNCHANGED <<host, monitor, root, prepared, runLease, powerLoss, comparison,
                   work, watch, interrupted>>

\* attach under the lock: a running usb test machine, nothing attached before.
Attach(c) ==
    /\ Given(c, "hotplug")
    /\ Current
    /\ RunOf(lease) \in UsbRuns
    /\ hotplug[RunOf(lease)] = "none"
    /\ Acquire(c, "register")
    /\ hotplug' = [hotplug EXCEPT ![RunOf(lease)] = "overlay"]
    /\ seen' = [seen EXCEPT ![c] = lease]
    /\ UNCHANGED <<host, monitor, root, prepared, runLease, powerLoss, comparison,
                   work, watch, interrupted>>

\* The record is written INCOMPLETE before the monitor is asked.
RegisterFixture(c) ==
    /\ pc[c] = "register"
    /\ hotplug' = [hotplug EXCEPT ![RunOf(seen[c])] = "INCOMPLETE"]
    /\ pc' = [pc EXCEPT ![c] = "plug"]
    /\ UNCHANGED <<host, lock, monitor, root, prepared, runLease, powerLoss,
                   comparison, seen, work, watch, interrupted>>

\* Both requests accepted by the QEMU that answers at the monitor path.
PlugFixture(c) ==
    /\ pc[c] = "plug"
    /\ Running(seen[c])
    /\ monitor \in Up
    /\ plugged' = plugged \cup {<<monitor, RunOf(seen[c])>>}
    /\ pc' = [pc EXCEPT ![c] = "attached"]
    /\ UNCHANGED <<slot, bound, asked, signalled, born, overlapped, lock, monitor, root, runs,
                   seen, work, watch, interrupted>>

\* No connection, a machine that changed, or a request refused: the record is
\* written again, INCOMPLETE as it was.  A request whose answer came too late was
\* taken all the same.
PlugFails(c) ==
    /\ pc[c] = "plug"
    /\ plugged' \in {plugged, plugged \cup ((Up \cap {monitor}) \X {RunOf(seen[c])})}
    /\ Leave(c)
    /\ UNCHANGED <<slot, bound, asked, signalled, born, overlapped, monitor, root,
                   runs, interrupted>>

FixtureAttached(c) ==
    /\ pc[c] = "attached"
    /\ hotplug' = [hotplug EXCEPT ![RunOf(seen[c])] = "ATTACHED"]
    /\ Leave(c)
    /\ UNCHANGED <<host, monitor, root, prepared, runLease, powerLoss, comparison,
                   interrupted>>

(***************************************************************************)
(* Comparing a run's overlays with their sources.                           *)
(***************************************************************************)

\* compare: no machine runs now.  The lock is not taken.
Compare(c, r) ==
    /\ Given(c, "compare")
    /\ Recorded(r)
    /\ ~Current
    /\ pc' = [pc EXCEPT ![c] = "compare"]
    /\ work' = [work EXCEPT ![c] = r]
    /\ watch' = [watch EXCEPT ![c] = {k \in born \ Up : launched[k] = r}]
    /\ UNCHANGED <<host, lock, monitor, root, runs, seen, interrupted>>

\* The record, and whether a machine had the run's disks open meanwhile.
WriteComparison(c) ==
    /\ pc[c] = "compare"
    /\ comparison' = [comparison EXCEPT ![work[c]] =
           IF {k \in born : launched[k] = work[c]} = watch[c]
           THEN "at rest" ELSE "while running"]
    /\ Leave(c)
    /\ UNCHANGED <<host, monitor, root, prepared, runLease, hotplug, powerLoss,
                   interrupted>>

(***************************************************************************)
(* What no command decides.                                                 *)
(***************************************************************************)

\* QEMU creates its socket, over whatever is at the path, once.
QemuBinds(k) ==
    /\ k \in Up \ bound
    /\ bound' = bound \cup {k}
    /\ monitor' = k
    /\ UNCHANGED <<slot, asked, signalled, plugged, born, overlapped, lock, root, runs, pc,
                   seen, work, watch, interrupted>>

\* QEMU ends: by itself, after the powerdown or by the signal.  One that ends
\* in order removes its socket.
QemuExits(p) ==
    /\ slot[p] \in Attempts
    /\ slot' = [slot EXCEPT ![p] = Free]
    /\ \/ monitor' = monitor
       \/ slot[p] \in bound \ signalled /\ monitor' = 0
    /\ UNCHANGED <<bound, asked, signalled, plugged, born, overlapped, lock, root, runs, pc,
                   seen, work, watch, interrupted>>

\* The command that started a process is its parent until the command ends, and
\* the kernel keeps the number of a child nobody has waited for.
Unreaped(p) ==
    \E c \in Clients : /\ pc[c] \in {"await", "lease", "runlease"}
                       /\ seen[c].pid = p
                       /\ ~seen[c].released

\* Unrelated processes come and go on the numbers that are free.
OtherStarts(p) ==
    /\ slot[p] = Free
    /\ ~Unreaped(p)
    /\ slot' = [slot EXCEPT ![p] = Other]
    /\ UNCHANGED <<bound, asked, signalled, plugged, born, overlapped, lock, monitor, root,
                   runs, pc, seen, work, watch, interrupted>>

OtherExits(p) ==
    /\ slot[p] = Other
    /\ slot' = [slot EXCEPT ![p] = Free]
    /\ UNCHANGED <<bound, asked, signalled, plugged, born, overlapped, lock, monitor, root,
                   runs, pc, seen, work, watch, interrupted>>

\* A command is killed; the kernel drops its lock with its descriptors.
Crash(c) ==
    /\ pc[c] # "idle"
    /\ interrupted' = interrupted \cup
           (IF pc[c] \in {"await", "lease"} THEN {seen[c].at} ELSE {})
    /\ Leave(c)
    /\ UNCHANGED <<host, monitor, root, runs>>

(***************************************************************************)
(* The specification.                                                       *)
(***************************************************************************)

\* The steps a command takes once it is under way.
Advance(c) ==
    \/ LockHeld(c) \/ Launch(c) \/ LaunchRefused(c)
    \/ \E p \in Pids : Spawn(c, p)
    \/ SpawnFails(c) \/ MonitorAppears(c) \/ MonitorMissing(c)
    \/ WriteLease(c) \/ WriteRunLease(c)
    \/ Shutdown(c) \/ AskPowerdown(c) \/ AskFails(c) \/ AwaitExit(c)
    \/ RecordPowerLoss(c) \/ Terminate(c) \/ TerminateRefused(c)
    \/ RegisterFixture(c) \/ PlugFixture(c) \/ PlugFails(c)
    \/ FixtureAttached(c) \/ WriteComparison(c)

\* The commands a user may give to an idle command line.
Command(c) ==
    \/ \E r \in Runs : Start(c, r) \/ Resume(c, r) \/ Compare(c, r)
    \/ Stop(c) \/ PowerLoss(c) \/ Reclaim(c) \/ Attach(c)

Environment ==
    \/ \E k \in Attempts : QemuBinds(k)
    \/ \E p \in Pids : QemuExits(p) \/ OtherStarts(p) \/ OtherExits(p)

Next ==
    \/ \E c \in Clients : Advance(c) \/ Command(c) \/ Crash(c)
    \/ Environment

Spec == Init /\ [][Next]_vars

\* A command that runs is scheduled; its waits all carry a deadline.
Fairness == \A c \in Clients : WF_vars(Advance(c))

FairSpec == Spec /\ Fairness

(***************************************************************************)
(* Properties.                                                              *)
(***************************************************************************)

\* Stopping and the power loss fault never signal a process that is not one of
\* the machines started here, whatever became of the process number the lease
\* holds (launching.py: "a process number the kernel reused is never signalled").
OnlyMachinesSignalled == Other \notin signalled

\* A lease that reads released, in the root or in a run directory, is honest: its
\* machine is gone or has been sent the signal that ends it.  Commands write it
\* from a lease they read before they held the lock.
Ended(l) == l.released => l.at \notin Up \ signalled

ReleasedMeansEnded == Ended(lease) /\ \A r \in Runs : Ended(runLease[r])

\* Every machine that runs and was not killed is the one the lease names, or its
\* start is still under way under the lock, or its start was interrupted, or it
\* was started while a killed machine was still being torn down (overlapped).  Otherwise no
\* stale stop, power loss, reclaim or second start takes the lease away from it.
Starting(k) == \E c \in Clients : /\ lock = c
                                  /\ pc[c] \in {"await", "lease"}
                                  /\ seen[c].at = k

MachinesAccountedFor ==
    \A k \in Up \ (signalled \cup interrupted \cup overlapped) :
        (lease.at = k /\ ~lease.released) \/ Starting(k)

\* A fixture that reached a guest is registered in the run it belongs to, so a
\* comparison finds it; a run has one fixture; and a record says ATTACHED only
\* when a machine took it.
FixturesRegistered ==
    /\ \A x \in plugged : hotplug[x[2]] \in {"INCOMPLETE", "ATTACHED"}
    /\ \A x, y \in plugged : x[2] = y[2] => x = y
    /\ \A r \in Runs : hotplug[r] = "ATTACHED" => \E x \in plugged : x[2] = r

\* Whoever takes the MACHINE lock gives it back: every wait under it carries a
\* deadline, and the kernel drops the lock of a command that dies.
LockGivenBack == \A c \in Clients : lock = c ~> lock # c

(***************************************************************************)
(* Why the properties hold: the inductive invariant of the proofs.          *)
(***************************************************************************)

Launching == {"spawn", "await", "lease"}
Stopping  == {"stop", "ask", "wait", "kill", "release", "powerloss",
              "register", "plug", "attached"}
Locked    == (Launching \cup Stopping \cup {"runlease"}) \ {"stop", "powerloss"}

\* The machines the lease is meant to keep track of.
Tracked == Up \ (signalled \cup interrupted \cup overlapped)

\* A command past the lock holds it.
LockInv == \A c \in Clients : pc[c] \in Locked => lock = c

\* Commands under way know the run or the machine they work on.
WorkInv ==
    /\ \A k \in Attempts : k <= attempts => launched[k] \in Runs
    /\ \A c \in Clients : pc[c] \in {"launch", "compare"} => work[c] \in Runs
    /\ \A c \in Clients : pc[c] \in Launching \cup Stopping \cup {"runlease"}
                            => seen[c].at \in Attempts

\* Nothing is numbered beyond the last intent.
NumberInv ==
    /\ lease.at <= attempts
    /\ \A r \in Runs : runLease[r].at <= attempts
    /\ \A c \in Clients : seen[c].at <= attempts
    /\ \A p \in Pids : slot[p] \in Attempts => slot[p] <= attempts
    /\ \A k \in interrupted : k <= attempts

\* The attempt under way is known only to the command that makes it.
FreshInv ==
    \A c \in Clients : pc[c] \in Launching =>
        /\ lease.at # seen[c].at
        /\ \A r \in Runs : runLease[r].at # seen[c].at
        /\ \A d \in Clients : d # c => seen[d].at # seen[c].at
        /\ pc[c] = "spawn" => seen[c].at \notin Up

\* A machine runs nowhere but at the process number its lease holds.
PlaceInv ==
    /\ \A p \in Pids : slot[p] = lease.at /\ lease.at # 0 => p = lease.pid
    /\ \A c \in Clients : pc[c] # "spawn" =>
          \A p \in Pids : slot[p] = seen[c].at /\ seen[c].at # 0 => p = seen[c].pid

\* While a start is under way the lease names no running machine.
NoneInv ==
    \A c \in Clients : pc[c] \in Launching => lease.released \/ lease.at \notin Up

\* What a command is about to release has ended.
EndedInv ==
    \A c \in Clients :
        pc[c] = "release" \/ (pc[c] = "runlease" /\ seen[c].released)
            => seen[c].at \notin Up \ signalled

\* A lease a command read earlier is of the tracked machine, or of none.
SeenInv ==
    \A c \in Clients : pc[c] \in Stopping =>
        /\ seen[c].at \in Up => Tracked \subseteq {seen[c].at}
        /\ pc[c] \in {"ask", "wait", "release"} => Tracked \subseteq {seen[c].at}

\* A machine that has a lease, or may still get one, is not of an interrupted start.
LeasedInv ==
    /\ lease.at \notin interrupted
    /\ \A c \in Clients : pc[c] \in Launching \cup Stopping
                            => seen[c].at \notin interrupted

\* How far the command that holds the lock has brought the fixture of its run.
Plugging == {"register", "plug", "attached"}

FixtureInv ==
    /\ FixturesRegistered
    /\ \A c \in Clients : pc[c] \in Plugging =>
        /\ pc[c] = "register" => hotplug[RunOf(seen[c])] = "overlay"
        /\ pc[c] # "register" => hotplug[RunOf(seen[c])] = "INCOMPLETE"
        /\ pc[c] = "attached" <=> \E x \in plugged : x[2] = RunOf(seen[c])

IInv == /\ TypeOK /\ WorkInv /\ LockInv /\ NumberInv /\ FreshInv /\ PlaceInv /\ NoneInv
        /\ EndedInv /\ SeenInv /\ LeasedInv
        /\ ReleasedMeansEnded /\ MachinesAccountedFor
=============================================================================
