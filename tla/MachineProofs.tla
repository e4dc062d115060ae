--------------------------- MODULE MachineProofs ---------------------------
(* Proofs about Machine for any number of commands, process numbers, runs    *)
(* and starts.                                                               *)
EXTENDS Machine, TLAPS

\* What the proofs need to know about attempt numbers.
LEMMA Numbers ==
    /\ MaxLaunches \in Nat
    /\ 0 \notin Attempts
    /\ Other \notin Attempts
    /\ Free = 0
    /\ \A k \in Attempts : k \in Nat
  BY MaxLaunchesAssumption DEF Attempts, Other, Free

LEMMA NoLeaseType == NoLease \in Lease /\ NoLease.at = 0
  BY DEF NoLease, Lease, LeaseOf

(***************************************************************************)
(* Types, the lock, and what a command under way knows.                     *)
(***************************************************************************)

Basic == TypeOK /\ WorkInv /\ LockInv /\ NumberInv

LEMMA BasicInit == Init => Basic
  BY NoLeaseType, Numbers
  DEF Init, Basic, TypeOK, WorkInv, LockInv, NumberInv, PCs, HotplugStates,
      ComparisonStates, Attempts, Launching, Stopping, Locked, Free

\* A command that ends disturbs only what is its own.
LEMMA BasicLeave ==
    ASSUME Basic, NEW c \in Clients, Leave(c),
           UNCHANGED <<attempts, launched, lease, slot>>,
           interrupted' \subseteq interrupted \cup {seen[c].at},
           \A r \in Runs : runLease'[r].at <= attempts
    PROVE  /\ WorkInv' /\ LockInv' /\ NumberInv'
           /\ pc' \in [Clients -> PCs]
           /\ seen' \in [Clients -> Lease]
           /\ work' \in [Clients -> Runs \cup {"none"}]
           /\ watch' \in [Clients -> SUBSET Attempts]
           /\ lock' \in Clients \cup {"none"}
  <1>1. /\ pc' \in [Clients -> PCs]
        /\ seen' \in [Clients -> Lease]
        /\ work' \in [Clients -> Runs \cup {"none"}]
        /\ watch' \in [Clients -> SUBSET Attempts]
        /\ lock' \in Clients \cup {"none"}
    BY NoLeaseType DEF Basic, TypeOK, Leave, PCs
  <1>2. WorkInv'
    BY DEF Basic, TypeOK, WorkInv, Leave, Launching, Stopping
  <1>3. LockInv'
    BY DEF Basic, TypeOK, LockInv, Leave, Launching, Stopping, Locked
  <1>4. NumberInv'
    BY NoLeaseType DEF Basic, TypeOK, NumberInv, Leave
  <1> QED
    BY <1>1, <1>2, <1>3, <1>4

LEMMA BasicStep == Basic /\ [Next]_vars => Basic'
  <1> SUFFICES ASSUME Basic, [Next]_vars PROVE Basic'
    OBVIOUS
  <1> USE Numbers, NamesAssumption
  <1>1. ASSUME NEW c \in Clients, Advance(c) PROVE Basic'
    <2>1. CASE LockHeld(c) \/ LaunchRefused(c) \/ SpawnFails(c) \/ MonitorMissing(c)
               \/ AskFails(c) \/ TerminateRefused(c) \/ PlugFails(c)
               \/ FixtureAttached(c) \/ WriteComparison(c)
      <3>1. /\ Leave(c)
            /\ UNCHANGED <<attempts, launched, lease, slot, runLease>>
            /\ interrupted' \subseteq interrupted \cup {seen[c].at}
        BY <2>1 DEF LockHeld, LaunchRefused, SpawnFails, MonitorMissing,
           AskFails, TerminateRefused, PlugFails, FixtureAttached, WriteComparison,
           host, root, runs
      <3>2. WorkInv' /\ LockInv' /\ NumberInv'
        BY <3>1, BasicLeave DEF Basic, NumberInv
      <3>4. interrupted' \subseteq Attempts
        <4>1. CASE MonitorMissing(c)
          BY <4>1 DEF MonitorMissing, Basic, TypeOK, WorkInv, Launching
        <4>2. CASE interrupted' = interrupted
          BY <4>2 DEF Basic, TypeOK
        <4> QED
          BY <2>1, <4>1, <4>2 DEF LockHeld, LaunchRefused, SpawnFails, AskFails,
             TerminateRefused, PlugFails, FixtureAttached, WriteComparison
      <3>5. asked' \subseteq Attempts
        BY <2>1 DEF LockHeld, LaunchRefused, SpawnFails, MonitorMissing, AskFails,
           TerminateRefused, PlugFails, FixtureAttached, WriteComparison, Basic,
           TypeOK, host, Up
      <3>6. plugged' \subseteq Attempts \X Runs
        <4>1. CASE PlugFails(c)
          <5>1. RunOf(seen[c]) \in Runs
            BY <4>1 DEF PlugFails, RunOf, Basic, TypeOK, WorkInv, NumberInv, Stopping
          <5>2. Up \cap {monitor} \subseteq Attempts
            BY DEF Up
          <5> QED
            BY <4>1, <5>1, <5>2 DEF PlugFails, Basic, TypeOK
        <4>2. CASE ~PlugFails(c)
          BY <2>1, <4>2 DEF LockHeld, LaunchRefused, SpawnFails, MonitorMissing, AskFails,
             TerminateRefused, FixtureAttached, WriteComparison, Basic, TypeOK, host
        <4> QED
          BY <4>1, <4>2
      <3>3. TypeOK'
        BY <2>1, <3>1, <3>4, <3>5, <3>6, BasicLeave DEF Basic, LockHeld, LaunchRefused,
           SpawnFails, MonitorMissing, AskFails, TerminateRefused, PlugFails,
           FixtureAttached, WriteComparison, TypeOK, host, root, runs, HotplugStates,
           ComparisonStates, NumberInv
      <3> QED
        BY <3>2, <3>3 DEF Basic
    <2>2. CASE Launch(c)
      <3>a. attempts + 1 \in Attempts /\ work[c] \in Runs
        BY <2>2 DEF Launch, WriteIntent, Basic, TypeOK, WorkInv, Attempts
      <3>e. LeaseOf(attempts + 1, 0, FALSE) \in Lease
        BY <3>a DEF LeaseOf, Lease
      <3>1. TypeOK'
        <4>1. /\ lock' \in Clients \cup {"none"} /\ pc' \in [Clients -> PCs]
              /\ seen' \in [Clients -> Lease]
          BY <2>2, <3>e DEF Launch, WriteIntent, Acquire, Basic, TypeOK, PCs
        <4>2. /\ attempts' \in 0 .. MaxLaunches /\ intent' \in Attempts \cup {0}
              /\ launched' \in [Attempts -> Runs \cup {"none"}]
          BY <2>2, <3>a DEF Launch, WriteIntent, Basic, TypeOK, Attempts
        <4> QED
          BY <2>2, <4>1, <4>2 DEF Launch, WriteIntent, Basic, TypeOK, host, runs
      <3>b. WorkInv'
        BY <2>2, <3>a DEF Launch, WriteIntent, Acquire, Basic, TypeOK, WorkInv, LeaseOf, Launching,
           Stopping
      <3>c. LockInv'
        BY <2>2 DEF Launch, WriteIntent, Acquire, Basic, TypeOK, LockInv, Locked, Launching, Stopping
      <3>d. NumberInv'
        <4>1. /\ UNCHANGED <<lease, runLease, slot, interrupted>>
              /\ attempts' = attempts + 1 /\ attempts \in Nat
          BY <2>2 DEF Launch, WriteIntent, Basic, TypeOK, host, runs
        <4>2. \A d \in Clients : seen'[d] = seen[d] \/ seen'[d].at = attempts + 1
          BY <2>2 DEF Launch, WriteIntent, Basic, TypeOK, LeaseOf
        <4>3. /\ lease.at \in Nat /\ \A r \in Runs : runLease[r].at \in Nat
              /\ \A d \in Clients : seen[d].at \in Nat
              /\ \A k \in Attempts : k \in Nat
              /\ interrupted \subseteq Attempts
          BY DEF Basic, TypeOK, Lease, Attempts
        <4> QED
          BY <4>1, <4>2, <4>3 DEF Basic, NumberInv
      <3>2. WorkInv' /\ LockInv' /\ NumberInv'
        BY <3>b, <3>c, <3>d
      <3> QED
        BY <3>1, <3>2 DEF Basic
    <2>3. ASSUME NEW p \in Pids, Spawn(c, p) PROVE Basic'
      <3>1. TypeOK'
        BY <2>3 DEF Spawn, Basic, TypeOK, WorkInv, root, runs, PCs, LeaseOf, Lease,
           Launching
      <3>2. WorkInv' /\ LockInv' /\ NumberInv'
        BY <2>3 DEF Spawn, Basic, TypeOK, WorkInv, LockInv, NumberInv,
           root, runs, LeaseOf, Locked, Launching, Stopping
      <3> QED
        BY <3>1, <3>2 DEF Basic
    <2>4. CASE MonitorAppears(c) \/ AwaitExit(c)
      BY <2>4 DEF MonitorAppears, AwaitExit, Basic, TypeOK, WorkInv, LockInv,
         NumberInv, host, root, runs, PCs, Locked, Launching, Stopping
    <2>5. CASE WriteLease(c)
      <3>1. TypeOK'
        BY <2>5 DEF WriteLease, Basic, TypeOK, host, runs, PCs, Lease, LeaseOf
      <3>2. WorkInv' /\ LockInv' /\ NumberInv'
        BY <2>5 DEF WriteLease, Basic, TypeOK, WorkInv, LockInv, NumberInv,
           host, runs, LeaseOf, Locked, Launching, Stopping
      <3> QED
        BY <3>1, <3>2 DEF Basic
    <2>6. CASE WriteRunLease(c)
      <3>1. \A r \in Runs : runLease'[r].at <= attempts
        BY <2>6 DEF WriteRunLease, Basic, TypeOK, NumberInv
      <3>2. WorkInv' /\ LockInv' /\ NumberInv'
        BY <2>6, <3>1, BasicLeave DEF WriteRunLease, host, root
      <3>3. TypeOK'
        BY <2>6, <3>1, BasicLeave DEF WriteRunLease, host, root, Basic, TypeOK
      <3> QED
        BY <3>2, <3>3 DEF Basic
    <2>7. CASE Shutdown(c)
      <3>1. CASE Running(seen[c])
        BY <2>7, <3>1 DEF Shutdown, Acquire, Basic, TypeOK, WorkInv, LockInv,
           NumberInv, host, root, runs, PCs, Locked, Launching, Stopping
      <3>2. CASE ~Running(seen[c])
        <4>1. /\ Leave(c)
              /\ UNCHANGED <<attempts, launched, lease, slot, runLease>>
              /\ interrupted' \subseteq interrupted \cup {seen[c].at}
          BY <2>7, <3>2 DEF Shutdown, host, root, runs
        <4>2. WorkInv' /\ LockInv' /\ NumberInv'
          BY <4>1, BasicLeave DEF Basic, NumberInv
        <4>3. TypeOK'
          BY <2>7, <4>1, BasicLeave DEF Basic, Shutdown, TypeOK, host, root, runs,
             NumberInv
        <4> QED
          BY <4>2, <4>3 DEF Basic
      <3> QED
        BY <3>1, <3>2
    <2>8. CASE AskPowerdown(c)
      BY <2>8 DEF AskPowerdown, Basic, TypeOK, WorkInv, LockInv, NumberInv,
         root, runs, PCs, Up, Locked, Launching, Stopping
    <2>9. CASE RecordPowerLoss(c)
      <3>1. RunOf(seen[c]) \in Runs
        BY <2>9 DEF RecordPowerLoss, Basic, WorkInv, NumberInv, RunOf, Stopping
      <3> QED
        BY <2>9, <3>1 DEF RecordPowerLoss, Acquire, Basic, TypeOK, WorkInv, LockInv,
           NumberInv, host, root, PCs, Locked, Launching, Stopping
    <2>10. CASE Terminate(c)
      BY <2>10 DEF Terminate, Basic, TypeOK, WorkInv, LockInv, NumberInv,
         root, runs, PCs, Running, Locked, Launching, Stopping, Lease
    <2>11. CASE RegisterFixture(c)
      BY <2>11 DEF RegisterFixture, Basic, TypeOK, WorkInv, LockInv, NumberInv,
         host, root, PCs, HotplugStates, Locked, Launching, Stopping
    <2>12. CASE PlugFixture(c)
      <3>1. RunOf(seen[c]) \in Runs
        BY <2>12 DEF PlugFixture, Basic, WorkInv, NumberInv, RunOf, Stopping
      <3> QED
        BY <2>12, <3>1 DEF PlugFixture, Basic, TypeOK, WorkInv, LockInv, NumberInv,
           root, runs, PCs, Up, Locked, Launching, Stopping
    <2> QED
      BY <1>1, <2>1, <2>2, <2>3, <2>4, <2>5, <2>6, <2>7, <2>8, <2>9, <2>10, <2>11,
         <2>12 DEF Advance
  <1>2. ASSUME NEW c \in Clients, Command(c) PROVE Basic'
    <2>1. ASSUME NEW r \in Runs, Start(c, r) \/ Resume(c, r) \/ Compare(c, r)
          PROVE  Basic'
      <3>1. TypeOK'
        BY <2>1 DEF Start, Resume, Prepare, Recorded, Compare, Basic, TypeOK, host, root, runs, PCs
      <3>2. WorkInv'
        BY <2>1 DEF Start, Resume, Prepare, Recorded, Compare, Given, Basic, TypeOK, WorkInv, host, root,
           runs, Launching, Stopping
      <3>3. LockInv'
        BY <2>1 DEF Start, Resume, Prepare, Recorded, Compare, Basic, TypeOK, LockInv, Locked, Launching,
           Stopping
      <3>4. NumberInv'
        BY <2>1 DEF Start, Resume, Prepare, Recorded, Compare, Basic, NumberInv, host, root, runs
      <3> QED
        BY <3>1, <3>2, <3>3, <3>4 DEF Basic
    <2>2. CASE Stop(c) \/ PowerLoss(c)
      <3>1. lease.at \in Attempts
        BY <2>2 DEF Stop, PowerLoss, Current, Basic, TypeOK, Lease
      <3>2. TypeOK'
        BY <2>2 DEF Stop, PowerLoss, Basic, TypeOK, host, root, runs, PCs
      <3>3. WorkInv' /\ LockInv' /\ NumberInv'
        BY <2>2, <3>1 DEF Stop, PowerLoss, Given, Basic, TypeOK, WorkInv, LockInv,
           NumberInv, host, root, runs, Locked, Launching, Stopping
      <3> QED
        BY <3>2, <3>3 DEF Basic
    <2>3. CASE Reclaim(c)
      <3>1. StaleLease => lease.at \in Attempts
        BY DEF StaleLease, Basic, TypeOK, Lease
      <3>2. TypeOK'
        BY <2>3 DEF Reclaim, Acquire, Basic, TypeOK, host, root, runs, PCs
      <3>3. WorkInv' /\ LockInv' /\ NumberInv'
        BY <2>3, <3>1 DEF Reclaim, Given, Acquire, Basic, TypeOK, WorkInv, LockInv,
           NumberInv, host, root, runs, Locked, Launching, Stopping
      <3> QED
        BY <3>2, <3>3 DEF Basic
    <2>4. CASE Attach(c)
      <3>1. lease.at \in Attempts /\ RunOf(lease) \in Runs
        BY <2>4 DEF Attach, Current, RunOf, Basic, TypeOK, Lease, WorkInv, NumberInv
      <3>2. TypeOK'
        BY <2>4, <3>1 DEF Attach, Acquire, Basic, TypeOK, host, root, PCs, HotplugStates
      <3>3. WorkInv'
        BY <2>4, <3>1 DEF Attach, Given, Acquire, Basic, TypeOK, WorkInv, host, root,
           Launching, Stopping
      <3>4. LockInv' /\ NumberInv'
        BY <2>4, <3>1 DEF Attach, Given, Acquire, Basic, TypeOK, LockInv, NumberInv, host,
           root, Locked, Launching, Stopping
      <3> QED
        BY <3>2, <3>3, <3>4 DEF Basic
    <2> QED
      BY <1>2, <2>1, <2>2, <2>3, <2>4 DEF Command
  <1>3. ASSUME NEW c \in Clients, Crash(c) PROVE Basic'
    <2>1. /\ Leave(c)
          /\ UNCHANGED <<attempts, launched, lease, slot, runLease>>
          /\ interrupted' \subseteq interrupted \cup {seen[c].at}
      BY <1>3 DEF Crash, host, root, runs
    <2>2. WorkInv' /\ LockInv' /\ NumberInv'
      BY <2>1, BasicLeave DEF Basic, NumberInv
    <2>3. interrupted' \subseteq Attempts
      BY <1>3 DEF Crash, Basic, TypeOK, WorkInv, Launching
    <2>4. TypeOK'
      BY <1>3, <2>1, <2>3, BasicLeave DEF Basic, Crash, TypeOK, host, root, runs,
         NumberInv
    <2> QED
      BY <2>2, <2>4 DEF Basic
  <1>4. CASE Environment
    <2>1. ASSUME NEW k \in Attempts, QemuBinds(k) PROVE Basic'
      BY <2>1 DEF QemuBinds, Basic, TypeOK, WorkInv, LockInv, NumberInv, root, runs
    <2>2. ASSUME NEW p \in Pids, QemuExits(p) \/ OtherStarts(p) \/ OtherExits(p)
          PROVE  Basic'
      BY <2>2 DEF QemuExits, OtherStarts, OtherExits, Basic, TypeOK, WorkInv, LockInv,
         NumberInv, root, runs
    <2> QED
      BY <1>4, <2>1, <2>2 DEF Environment
  <1>5. CASE UNCHANGED vars
    BY <1>5 DEF vars, host, root, runs, Basic, TypeOK, WorkInv, LockInv, NumberInv
  <1> QED
    BY <1>1, <1>2, <1>3, <1>4, <1>5 DEF Next

\* Every state of a machine's life has the types of TypeOK.
THEOREM TypeCorrect == Spec => []TypeOK
  <1>1. Basic => TypeOK
    BY DEF Basic
  <1> QED
    BY BasicInit, BasicStep, <1>1, PTL DEF Spec

(***************************************************************************)
(* Leases: who may release what.                                            *)
(***************************************************************************)

Rest == /\ FreshInv /\ PlaceInv /\ NoneInv /\ EndedInv /\ SeenInv /\ LeasedInv
        /\ ReleasedMeansEnded /\ MachinesAccountedFor

LEMMA RestInit == Init => Rest
  BY Numbers, NoLeaseType
  DEF Init, Rest, FreshInv, PlaceInv, NoneInv, EndedInv, SeenInv, LeasedInv,
      ReleasedMeansEnded, MachinesAccountedFor, Launching, Stopping, Ended, Up, NoLease,
      LeaseOf, Free

\* A command that ends, whatever made it end, leaves the leases in order.  A start
\* that ends before its lease is written becomes an interrupted one.
LEMMA RestLeave ==
    ASSUME Basic, Rest, NEW c \in Clients, Leave(c),
           UNCHANGED <<slot, signalled, overlapped, lease>>,
           interrupted' = interrupted \cup
               (IF pc[c] \in {"await", "lease"} THEN {seen[c].at} ELSE {}),
           \A r \in Runs : runLease'[r] = runLease[r] \/
                           (pc[c] = "runlease" /\ runLease'[r] = seen[c])
    PROVE  Rest'
  <1> USE Numbers, NamesAssumption, NoLeaseType
  <1>0. /\ Up' = Up /\ pc'[c] = "idle" /\ seen'[c] = NoLease
        /\ \A d \in Clients : d # c => pc'[d] = pc[d] /\ seen'[d] = seen[d]
    BY DEF Up, Leave, Basic, TypeOK
  <1>1. FreshInv'
    BY <1>0 DEF Basic, TypeOK, WorkInv, Rest, FreshInv, Launching
  <1>2. PlaceInv'
    BY <1>0 DEF Basic, TypeOK, Rest, PlaceInv
  <1>3. NoneInv'
    BY <1>0 DEF Basic, TypeOK, Rest, NoneInv, Launching
  <1>4. EndedInv'
    BY <1>0 DEF Basic, TypeOK, Rest, EndedInv
  <1>5. SeenInv'
    BY <1>0 DEF Basic, TypeOK, Rest, SeenInv, Stopping, Tracked
  <1>6. LeasedInv'
    BY <1>0 DEF Basic, TypeOK, WorkInv, Rest, LeasedInv, FreshInv, Launching, Stopping
  <1>7. ReleasedMeansEnded'
    BY <1>0 DEF Basic, TypeOK, Rest, ReleasedMeansEnded, EndedInv, Ended
  <1>8. MachinesAccountedFor'
    <2> SUFFICES ASSUME NEW k \in Up' \ (signalled' \cup interrupted' \cup overlapped')
                 PROVE  (lease.at = k /\ ~lease.released) \/ Starting(k)'
      BY DEF MachinesAccountedFor
    <2>1. k \in Up \ (signalled \cup interrupted \cup overlapped)
      BY <1>0
    <2>2. (lease.at = k /\ ~lease.released) \/ Starting(k)
      BY <2>1 DEF Rest, MachinesAccountedFor
    <2>3. ASSUME NEW d \in Clients, lock = d, pc[d] \in {"await", "lease"}, seen[d].at = k
          PROVE  Starting(k)'
      <3>1. d # c
        BY <2>3
      <3>2. lock' = d
        BY <2>3, <3>1 DEF Leave
      <3> QED
        BY <2>3, <3>1, <3>2, <1>0 DEF Starting
    <2> QED
      BY <2>2, <2>3 DEF Starting
  <1> QED
    BY <1>1, <1>2, <1>3, <1>4, <1>5, <1>6, <1>7, <1>8 DEF Rest

\* Processes that end, and strangers that come and go, release nothing.
LEMMA RestHost ==
    ASSUME Basic, Rest,
           UNCHANGED <<signalled, overlapped, lease, interrupted, runLease, pc, seen, lock>>,
           slot' \in [Pids -> {Free, Other} \cup Attempts],
           \A p \in Pids : slot'[p] \in Attempts => slot'[p] = slot[p]
    PROVE  Rest'
  <1> USE Numbers
  <1>0. Up' \subseteq Up
    BY DEF Up
  <1>1. FreshInv' /\ NoneInv' /\ EndedInv' /\ LeasedInv'
    BY <1>0 DEF Rest, FreshInv, NoneInv, EndedInv, LeasedInv
  <1>2. PlaceInv'
    BY DEF Basic, TypeOK, Rest, PlaceInv, Lease
  <1>3. SeenInv'
    BY <1>0 DEF Rest, SeenInv, Tracked
  <1>4. ReleasedMeansEnded'
    BY <1>0 DEF Rest, ReleasedMeansEnded, Ended
  <1>5. MachinesAccountedFor'
    BY <1>0 DEF Rest, MachinesAccountedFor, Starting
  <1> QED
    BY <1>1, <1>2, <1>3, <1>4, <1>5 DEF Rest

\* A step that only moves one command on, between places of the same kind.
LEMMA RestMove ==
    ASSUME Basic, Rest, NEW c \in Clients, NEW next,
           UNCHANGED <<slot, signalled, overlapped, lease, interrupted, runLease, seen, lock>>,
           pc' = [pc EXCEPT ![c] = next],
           \/ pc[c] = "await" /\ next = "lease"
           \/ pc[c] = "ask" /\ next = "wait"
           \/ pc[c] = "register" /\ next = "plug"
           \/ pc[c] = "plug" /\ next = "attached"
           \/ pc[c] = "idle" /\ next \in {"launch", "compare"}
    PROVE  Rest'
  <1> USE Numbers
  <1>0. /\ Up' = Up /\ pc'[c] = next
        /\ \A d \in Clients : d # c => pc'[d] = pc[d]
    BY DEF Up, Basic, TypeOK
  <1>1. FreshInv'
    BY <1>0 DEF Rest, FreshInv, Launching
  <1>2. PlaceInv' /\ NoneInv'
    BY <1>0 DEF Rest, PlaceInv, NoneInv, Launching
  <1>3. EndedInv' /\ LeasedInv'
    BY <1>0 DEF Rest, EndedInv, LeasedInv, Launching, Stopping
  <1>4. SeenInv'
    BY <1>0 DEF Rest, SeenInv, Tracked, Stopping
  <1>5. ReleasedMeansEnded' /\ MachinesAccountedFor'
    BY <1>0 DEF Rest, ReleasedMeansEnded, Ended, MachinesAccountedFor, Starting
  <1> QED
    BY <1>1, <1>2, <1>3, <1>4, <1>5 DEF Rest

\* launch takes a number nothing else refers to, and no machine is leased and up.
LEMMA RestLaunch ==
    ASSUME Basic, Rest, NEW c \in Clients, Launch(c)
    PROVE  Rest'
  <1> USE Numbers, NamesAssumption
  <1>0. /\ Up' = Up /\ pc'[c] = "spawn" /\ seen'[c].at = attempts + 1
        /\ \A d \in Clients : d # c => pc'[d] = pc[d] /\ seen'[d] = seen[d]
        /\ UNCHANGED <<slot, signalled, overlapped, lease, interrupted, runLease>>
    BY DEF Launch, WriteIntent, Acquire, Up, Basic, TypeOK, LeaseOf, host, runs
  <1>1. \A d \in Clients : d # c => pc[d] \notin Launching
    BY DEF Launch, WriteIntent, Acquire, Basic, LockInv, Locked, Launching
  <1>2. attempts + 1 \notin Up /\ lease.at # attempts + 1
    BY DEF Basic, TypeOK, NumberInv, Up, Lease
  <1>3. FreshInv'
    BY <1>0, <1>1, <1>2 DEF Basic, TypeOK, NumberInv, FreshInv, Launching, Lease
  <1>4. PlaceInv'
    BY <1>0 DEF Basic, TypeOK, Rest, PlaceInv
  <1>5. lease.released \/ lease.at \notin Up
    BY DEF Launch, WriteIntent, Current, Running, Rest, PlaceInv, Up, Basic, TypeOK, Lease
  <1>6. NoneInv' /\ EndedInv'
    BY <1>0, <1>1, <1>5 DEF Rest, NoneInv, EndedInv
  <1>10. LeasedInv'
    BY <1>0, <1>1 DEF Rest, LeasedInv, Basic, TypeOK, NumberInv
  <1>7. SeenInv'
    BY <1>0 DEF Rest, SeenInv, Tracked, Stopping
  <1>8. ReleasedMeansEnded'
    BY <1>0 DEF Rest, ReleasedMeansEnded, Ended
  <1>9. MachinesAccountedFor'
    <2>1. \A k : ~Starting(k)
      BY <1>1 DEF Starting, Launch, WriteIntent, Acquire
    <2>2. \A k \in Tracked : lease.at = k /\ ~lease.released
      BY <2>1 DEF Rest, MachinesAccountedFor, Tracked
    <2>. QED  BY <1>0, <2>2 DEF MachinesAccountedFor, Tracked
  <1> QED
    BY <1>3, <1>4, <1>6, <1>7, <1>8, <1>9, <1>10 DEF Rest

\* spawn brings up the one machine its command alone knows of.
LEMMA RestSpawn ==
    ASSUME Basic, Rest, NEW c \in Clients, NEW p \in Pids, Spawn(c, p)
    PROVE  Rest'
  <1> USE Numbers, NamesAssumption
  <1> DEFINE k == seen[c].at
  <1>0. /\ k \in Attempts /\ pc[c] = "spawn" /\ pc'[c] = "await"
        /\ seen'[c].at = k /\ seen'[c].pid = p /\ ~seen'[c].released
        /\ \A d \in Clients : d # c => pc'[d] = pc[d] /\ seen'[d] = seen[d]
        /\ UNCHANGED <<signalled, lease, interrupted, runLease, lock>>
    BY DEF Spawn, Basic, TypeOK, WorkInv, Launching, LeaseOf, root, runs
  <1>1. /\ slot'[p] = k /\ slot[p] = Free
        /\ \A q \in Pids : q # p => slot'[q] = slot[q]
    BY DEF Spawn, Basic, TypeOK
  <1>2. Up' = Up \cup {k}
    BY <1>0, <1>1 DEF Up
  <1>3. /\ k \notin Up /\ lease.at # k
        /\ \A r \in Runs : runLease[r].at # k
        /\ \A d \in Clients : d # c => seen[d].at # k
    BY <1>0 DEF Rest, FreshInv, Launching
  <1>4. lock = c /\ \A d \in Clients : d # c => pc[d] \notin Locked
    BY <1>0 DEF Basic, LockInv, Locked, Launching
  <1>5. FreshInv'
    BY <1>0, <1>2, <1>3, <1>4 DEF FreshInv, Launching, Locked
  <1>6. PlaceInv'
    <2>1. \A q \in Pids : slot'[q] = lease.at /\ lease.at # 0 => q = lease.pid
      BY <1>1, <1>3 DEF Rest, PlaceInv
    <2>2. \A d \in Clients : d # c /\ pc[d] # "spawn" =>
             \A q \in Pids : slot'[q] = seen[d].at /\ seen[d].at # 0 => q = seen[d].pid
      BY <1>1, <1>3 DEF Rest, PlaceInv
    <2>3. \A q \in Pids : slot'[q] = k => q = p
      BY <1>0, <1>1, <1>3 DEF Up
    <2> QED
      BY <2>1, <2>2, <2>3, <1>0 DEF PlaceInv
  <1>7. NoneInv'
    BY <1>0, <1>2, <1>3, <1>4 DEF Rest, NoneInv, Launching, Locked
  <1>8. EndedInv'
    BY <1>0, <1>2, <1>3 DEF Rest, EndedInv
  <1>9. Tracked' \subseteq Tracked \cup {k}
    BY <1>0, <1>2 DEF Spawn, Tracked
  <1>10. Tracked = {}
    <2> SUFFICES ASSUME NEW j \in Tracked PROVE FALSE
      OBVIOUS
    <2>1. (lease.at = j /\ ~lease.released) \/ Starting(j)
      BY DEF Rest, MachinesAccountedFor, Tracked
    <2>2. lease.released \/ lease.at \notin Up
      BY <1>0 DEF Rest, NoneInv, Launching
    <2>3. ~Starting(j)
      BY <1>0, <1>4 DEF Starting
    <2> QED
      BY <2>1, <2>2, <2>3 DEF Tracked
  <1>11. SeenInv'
    <2> SUFFICES ASSUME NEW d \in Clients, pc'[d] \in Stopping
                 PROVE  /\ seen'[d].at \in Up' => Tracked' \subseteq {seen'[d].at}
                        /\ pc'[d] \in {"ask", "wait", "release"} =>
                               Tracked' \subseteq {seen'[d].at}
      BY DEF SeenInv
    <2>1. d # c /\ pc[d] \in Stopping /\ pc[d] \notin Locked
      BY <1>0, <1>4 DEF Stopping
    <2>2. pc'[d] \notin {"ask", "wait", "release"}
      BY <1>0, <2>1 DEF Stopping, Locked
    <2>3. ASSUME seen[d].at \in Up PROVE k \in overlapped'
      <3>1. seen[d].at \in signalled \cup overlapped
        BY <2>1, <2>3, <1>10 DEF Rest, LeasedInv, Tracked
      <3> QED
        BY <2>3, <3>1 DEF Spawn
    <2>4. seen[d].at \in Up => Tracked' = {}
      BY <1>9, <1>10, <2>3 DEF Tracked
    <2> QED
      BY <2>1, <2>2, <2>4, <1>0, <1>2, <1>3
  <1>12. LeasedInv'
    BY <1>0 DEF Rest, LeasedInv, Launching, Stopping
  <1>13. ReleasedMeansEnded'
    BY <1>0, <1>2, <1>3 DEF Rest, ReleasedMeansEnded, Ended
  <1>14. MachinesAccountedFor'
    BY <1>0, <1>4, <1>9, <1>10 DEF MachinesAccountedFor, Tracked, Starting
  <1> QED
    BY <1>5, <1>6, <1>7, <1>8, <1>11, <1>12, <1>13, <1>14 DEF Rest

\* write_lease, before and after a machine's life.
LEMMA RestWriteLease ==
    ASSUME Basic, Rest, NEW c \in Clients, WriteLease(c)
    PROVE  Rest'
  <1> USE Numbers, NamesAssumption
  <1> DEFINE k == seen[c].at
  <1>0. /\ k \in Attempts /\ pc[c] \in {"lease", "release"} /\ pc'[c] = "runlease"
        /\ Up' = Up /\ Tracked' = Tracked
        /\ lease'.at = k /\ lease'.pid = seen[c].pid
        /\ lease'.released = (pc[c] = "release")
        /\ seen'[c] = lease'
        /\ \A d \in Clients : d # c => pc'[d] = pc[d] /\ seen'[d] = seen[d]
        /\ UNCHANGED <<slot, signalled, interrupted, overlapped, runLease, lock>>
    BY DEF WriteLease, Basic, TypeOK, WorkInv, Launching, Stopping, LeaseOf, host, runs, Up,
       Tracked
  <1>1. lock = c /\ \A d \in Clients : d # c => pc[d] \notin Locked
    BY <1>0 DEF Basic, LockInv, Locked, Launching, Stopping
  <1>2. FreshInv' /\ NoneInv'
    BY <1>0, <1>1 DEF FreshInv, NoneInv, Launching, Locked
  <1>3. PlaceInv'
    BY <1>0 DEF Rest, PlaceInv
  <1>4. EndedInv'
    BY <1>0 DEF Rest, EndedInv
  <1>5. SeenInv'
    BY <1>0 DEF Rest, SeenInv, Stopping
  <1>6. LeasedInv'
    BY <1>0 DEF Rest, LeasedInv, Launching, Stopping
  <1>7. ReleasedMeansEnded'
    BY <1>0 DEF Rest, ReleasedMeansEnded, EndedInv, Ended
  <1>8. MachinesAccountedFor'
    <2> SUFFICES ASSUME NEW j \in Tracked PROVE lease'.at = j /\ ~lease'.released
      BY <1>0 DEF MachinesAccountedFor, Tracked
    <2>1. (lease.at = j /\ ~lease.released) \/ Starting(j)
      BY DEF Rest, MachinesAccountedFor, Tracked
    <2>2. CASE pc[c] = "lease"
      BY <2>1, <2>2, <1>0, <1>1 DEF Rest, NoneInv, Launching, Starting, Tracked
    <2>3. CASE pc[c] = "release"
      BY <2>3, <1>0 DEF Rest, SeenInv, EndedInv, Stopping, Tracked
    <2> QED
      BY <2>2, <2>3, <1>0
  <1> QED
    BY <1>2, <1>3, <1>4, <1>5, <1>6, <1>7, <1>8 DEF Rest

\* stop, power_loss and attach read the lease of the machine that runs now.
LEMMA RestRead ==
    ASSUME Basic, Rest, NEW c \in Clients, Current,
           NEW next \in {"stop", "powerloss", "register"},
           pc[c] = "idle",
           pc' = [pc EXCEPT ![c] = next],
           seen' = [seen EXCEPT ![c] = lease],
           lock' = lock \/ (lock = "none" /\ lock' = c),
           UNCHANGED <<slot, signalled, overlapped, lease, interrupted, runLease>>
    PROVE  Rest'
  <1> USE Numbers, NamesAssumption
  <1>0. /\ Up' = Up /\ Tracked' = Tracked /\ pc'[c] = next /\ seen'[c] = lease
        /\ \A d \in Clients : d # c => pc'[d] = pc[d] /\ seen'[d] = seen[d]
    BY DEF Up, Basic, TypeOK, Tracked
  <1>1. lease.at \in Up /\ ~lease.released
    BY DEF Current, Running, Up, Basic, TypeOK, Lease
  <1>2. \A d \in Clients : pc[d] \notin Launching
    BY <1>1 DEF Rest, NoneInv
  <1>3. FreshInv' /\ NoneInv'
    BY <1>0, <1>2 DEF FreshInv, NoneInv, Launching
  <1>4. PlaceInv'
    BY <1>0 DEF Rest, PlaceInv
  <1>5. EndedInv' /\ LeasedInv'
    BY <1>0 DEF Rest, EndedInv, LeasedInv
  <1>6. Tracked \subseteq {lease.at}
    BY <1>2 DEF Rest, MachinesAccountedFor, Starting, Tracked, Launching
  <1>7. SeenInv'
    BY <1>0, <1>6 DEF Rest, SeenInv
  <1>8. ReleasedMeansEnded'
    BY <1>0 DEF Rest, ReleasedMeansEnded, Ended
  <1>9. MachinesAccountedFor'
    BY <1>0, <1>1, <1>6 DEF MachinesAccountedFor, Tracked
  <1> QED
    BY <1>3, <1>4, <1>5, <1>7, <1>8, <1>9 DEF Rest

\* The lock is taken, or the wait ends, for a command that knows its machine.
LEMMA RestHold ==
    ASSUME Basic, Rest, NEW c \in Clients, NEW next,
           pc' = [pc EXCEPT ![c] = next],
           UNCHANGED <<slot, signalled, overlapped, lease, interrupted, runLease, seen>>,
           lock' = lock \/ (lock = "none" /\ lock' = c),
           \/ pc[c] = "stop" /\ next = "ask" /\ Running(seen[c])
           \/ pc[c] = "powerloss" /\ next = "kill"
           \/ pc[c] = "wait" /\ next = "kill" /\ Running(seen[c])
           \/ pc[c] = "wait" /\ next = "release" /\ ~Running(seen[c])
    PROVE  Rest'
  <1> USE Numbers, NamesAssumption
  <1>0. /\ Up' = Up /\ Tracked' = Tracked /\ pc'[c] = next
        /\ \A d \in Clients : d # c => pc'[d] = pc[d]
        /\ pc[c] \in Stopping /\ next \in Stopping \ Launching
        /\ seen[c].at \in Attempts
    BY DEF Up, Basic, TypeOK, WorkInv, Tracked, Stopping, Launching
  <1>1. Running(seen[c]) <=> seen[c].at \in Up
    BY <1>0 DEF Running, Up, Rest, PlaceInv, Basic, TypeOK, Lease
  <1>2. FreshInv' /\ NoneInv' /\ LeasedInv'
    BY <1>0 DEF Rest, FreshInv, NoneInv, LeasedInv
  <1>3. PlaceInv'
    BY <1>0 DEF Rest, PlaceInv
  <1>4. EndedInv'
    BY <1>0, <1>1 DEF Rest, EndedInv
  <1>5. SeenInv'
    BY <1>0, <1>1 DEF Rest, SeenInv
  <1>6. ReleasedMeansEnded'
    BY <1>0 DEF Rest, ReleasedMeansEnded, Ended
  <1>7. MachinesAccountedFor'
    <2> SUFFICES ASSUME NEW k \in Tracked
                 PROVE  (lease.at = k /\ ~lease.released) \/ Starting(k)'
      BY <1>0 DEF MachinesAccountedFor, Tracked
    <2>1. ASSUME NEW d \in Clients, lock = d, pc[d] \in {"await", "lease"}, seen[d].at = k
          PROVE  Starting(k)'
      BY <2>1, <1>0 DEF Starting
    <2> QED
      BY <2>1 DEF Rest, MachinesAccountedFor, Starting, Tracked
  <1> QED
    BY <1>2, <1>3, <1>4, <1>5, <1>6, <1>7 DEF Rest

\* terminate signals the machine of the lease its command holds.
LEMMA RestTerminate ==
    ASSUME Basic, Rest, NEW c \in Clients, Terminate(c)
    PROVE  Rest'
  <1> USE Numbers
  <1>0. /\ Up' = Up /\ pc'[c] = "release" /\ pc[c] = "kill"
        /\ \A d \in Clients : d # c => pc'[d] = pc[d]
        /\ signalled' = signalled \cup {seen[c].at}
        /\ seen[c].at \in Up
        /\ UNCHANGED <<slot, overlapped, lease, interrupted, runLease, seen, lock>>
    BY DEF Terminate, Running, Up, Basic, TypeOK, Lease, root, runs
  <1>1. Tracked' \subseteq Tracked
    BY <1>0 DEF Tracked
  <1>2. FreshInv' /\ NoneInv' /\ LeasedInv'
    BY <1>0 DEF Rest, FreshInv, NoneInv, LeasedInv, Launching, Stopping
  <1>3. PlaceInv'
    BY <1>0 DEF Rest, PlaceInv
  <1>4. EndedInv'
    BY <1>0 DEF Rest, EndedInv
  <1>5. SeenInv'
    BY <1>0, <1>1 DEF Rest, SeenInv, Stopping
  <1>6. ReleasedMeansEnded'
    BY <1>0 DEF Rest, ReleasedMeansEnded, Ended
  <1>7. MachinesAccountedFor'
    BY <1>0 DEF Rest, MachinesAccountedFor, Starting
  <1> QED
    BY <1>2, <1>3, <1>4, <1>5, <1>6, <1>7 DEF Rest

\* reclaim holds the lock with a lease whose machine is gone.
LEMMA RestReclaim ==
    ASSUME Basic, Rest, NEW c \in Clients, Reclaim(c)
    PROVE  Rest'
  <1> USE Numbers, NamesAssumption
  <1>1. CASE ~StaleLease
    <2>1. UNCHANGED <<slot, signalled, overlapped, lease, interrupted, runLease, pc, seen,
                      lock>>
      BY <1>1 DEF Reclaim, host, root, runs
    <2> QED
      BY <2>1, RestHost DEF Basic, TypeOK
  <1>2. CASE StaleLease
    <2>0. /\ Up' = Up /\ Tracked' = Tracked /\ pc'[c] = "release" /\ seen'[c] = lease
          /\ \A d \in Clients : d # c => pc'[d] = pc[d] /\ seen'[d] = seen[d]
          /\ pc[c] = "idle" /\ lock = "none"
          /\ UNCHANGED <<slot, signalled, overlapped, lease, interrupted, runLease>>
      BY <1>2 DEF Reclaim, Given, Acquire, Up, Basic, TypeOK, Tracked, host, root, runs
    <2>1. \A d \in Clients : pc[d] \notin Locked
      BY <2>0 DEF Basic, LockInv
    <2>2. lease.at \notin Up
      BY <1>2 DEF StaleLease, Running, Up, Rest, PlaceInv, Basic, TypeOK, Lease
    <2>3. Tracked = {}
      BY <2>0, <2>2 DEF Rest, MachinesAccountedFor, Tracked, Starting
    <2>4. FreshInv' /\ NoneInv' /\ LeasedInv'
      BY <2>0, <2>1 DEF Rest, FreshInv, NoneInv, LeasedInv, Launching, Locked
    <2>5. PlaceInv'
      BY <2>0 DEF Rest, PlaceInv
    <2>6. EndedInv'
      BY <2>0, <2>2 DEF Rest, EndedInv
    <2>7. SeenInv'
      BY <2>0, <2>3 DEF SeenInv
    <2>8. ReleasedMeansEnded'
      BY <2>0 DEF Rest, ReleasedMeansEnded, Ended
    <2>9. MachinesAccountedFor'
      BY <2>0, <2>3 DEF MachinesAccountedFor, Tracked
    <2> QED
      BY <2>4, <2>5, <2>6, <2>7, <2>8, <2>9 DEF Rest
  <1> QED
    BY <1>1, <1>2

LEMMA RestStep == Basic /\ Rest /\ Basic' /\ [Next]_vars => Rest'
  <1> SUFFICES ASSUME Basic, Rest, Basic', [Next]_vars PROVE Rest'
    OBVIOUS
  <1>1. ASSUME NEW c \in Clients, Advance(c) PROVE Rest'
    <2>1. CASE LockHeld(c) \/ LaunchRefused(c) \/ SpawnFails(c) \/ MonitorMissing(c)
               \/ AskFails(c) \/ TerminateRefused(c) \/ PlugFails(c)
               \/ FixtureAttached(c) \/ WriteComparison(c)
      <3>1. /\ Leave(c)
            /\ UNCHANGED <<slot, signalled, overlapped, lease, runLease>>
            /\ interrupted' = interrupted \cup
                  (IF pc[c] \in {"await", "lease"} THEN {seen[c].at} ELSE {})
        BY <2>1 DEF LockHeld, LaunchRefused, SpawnFails, MonitorMissing, AskFails,
           TerminateRefused, PlugFails, FixtureAttached, WriteComparison, host, root, runs
      <3> QED
        BY <3>1, RestLeave
    <2>2. CASE WriteRunLease(c)
      <3>1. /\ Leave(c)
            /\ UNCHANGED <<slot, signalled, overlapped, lease>>
            /\ interrupted' = interrupted \cup
                  (IF pc[c] \in {"await", "lease"} THEN {seen[c].at} ELSE {})
        BY <2>2 DEF WriteRunLease, host, root
      <3>2. \A r \in Runs : runLease'[r] = runLease[r] \/
                            (pc[c] = "runlease" /\ runLease'[r] = seen[c])
        BY <2>2 DEF WriteRunLease, Basic, TypeOK
      <3> QED
        BY <3>1, <3>2, RestLeave
    <2>3. CASE Shutdown(c) /\ ~Running(seen[c])
      <3>1. /\ Leave(c) /\ pc[c] = "stop"
            /\ UNCHANGED <<slot, signalled, overlapped, lease, runLease, interrupted>>
        BY <2>3 DEF Shutdown, host, root, runs
      <3>2. interrupted' = interrupted \cup
                  (IF pc[c] \in {"await", "lease"} THEN {seen[c].at} ELSE {})
        BY <3>1
      <3> QED
        BY <3>1, <3>2, RestLeave
    <2>4. CASE Launch(c)
      BY <2>4, RestLaunch
    <2>5. CASE \E p \in Pids : Spawn(c, p)
      BY <2>5, RestSpawn
    <2>6. CASE WriteLease(c)
      BY <2>6, RestWriteLease
    <2>7. CASE MonitorAppears(c) \/ AskPowerdown(c) \/ RegisterFixture(c) \/ PlugFixture(c)
      <3>1. UNCHANGED <<slot, signalled, overlapped, lease, interrupted, runLease, seen, lock>>
        BY <2>7 DEF MonitorAppears, AskPowerdown, RegisterFixture, PlugFixture, host, root,
           runs
      <3>2. CASE MonitorAppears(c)
        BY <3>1, <3>2, RestMove DEF MonitorAppears
      <3>3. CASE AskPowerdown(c)
        BY <3>1, <3>3, RestMove DEF AskPowerdown
      <3>4. CASE RegisterFixture(c)
        BY <3>1, <3>4, RestMove DEF RegisterFixture
      <3>5. CASE PlugFixture(c)
        BY <3>1, <3>5, RestMove DEF PlugFixture
      <3> QED
        BY <2>7, <3>2, <3>3, <3>4, <3>5
    <2>8. CASE (Shutdown(c) /\ Running(seen[c])) \/ RecordPowerLoss(c) \/ AwaitExit(c)
      <3>1. /\ UNCHANGED <<slot, signalled, overlapped, lease, interrupted, runLease, seen>>
            /\ lock' = lock \/ (lock = "none" /\ lock' = c)
        BY <2>8 DEF Shutdown, RecordPowerLoss, AwaitExit, Acquire, host, root, runs
      <3>2. CASE Shutdown(c) /\ Running(seen[c])
        BY <3>1, <3>2, RestHold DEF Shutdown, Acquire
      <3>3. CASE RecordPowerLoss(c)
        BY <3>1, <3>3, RestHold DEF RecordPowerLoss, Acquire
      <3>4. CASE AwaitExit(c) /\ Running(seen[c])
        BY <3>1, <3>4, RestHold DEF AwaitExit
      <3>5. CASE AwaitExit(c) /\ ~Running(seen[c])
        BY <3>1, <3>5, RestHold DEF AwaitExit
      <3> QED
        BY <2>8, <3>2, <3>3, <3>4, <3>5
    <2>9. CASE Terminate(c)
      BY <2>9, RestTerminate
    <2> QED
      BY <1>1, <2>1, <2>2, <2>3, <2>4, <2>5, <2>6, <2>7, <2>8, <2>9 DEF Advance
  <1>2. ASSUME NEW c \in Clients, Command(c) PROVE Rest'
    <2>1. ASSUME NEW r \in Runs, Start(c, r) \/ Resume(c, r) \/ Compare(c, r)
          PROVE  Rest'
      <3>1. /\ UNCHANGED <<slot, signalled, overlapped, lease, interrupted, runLease, seen,
                           lock>>
            /\ pc[c] = "idle"
        BY <2>1 DEF Start, Resume, Prepare, Recorded, Compare, Given, host, root, runs
      <3>2. CASE Start(c, r) \/ Resume(c, r)
        BY <3>1, <3>2, RestMove DEF Start, Resume, Prepare, Recorded
      <3>3. CASE Compare(c, r)
        BY <3>1, <3>3, RestMove DEF Compare, Recorded
      <3> QED
        BY <2>1, <3>2, <3>3
    <2>2. CASE Stop(c) \/ PowerLoss(c) \/ Attach(c)
      <3>1. /\ UNCHANGED <<slot, signalled, overlapped, lease, interrupted, runLease>>
            /\ lock' = lock \/ (lock = "none" /\ lock' = c)
            /\ pc[c] = "idle" /\ Current /\ seen' = [seen EXCEPT ![c] = lease]
        BY <2>2 DEF Stop, PowerLoss, Attach, Given, Acquire, host, root, runs
      <3>2. CASE Stop(c)
        BY <3>1, <3>2, RestRead DEF Stop
      <3>3. CASE PowerLoss(c)
        BY <3>1, <3>3, RestRead DEF PowerLoss
      <3>4. CASE Attach(c)
        BY <3>1, <3>4, RestRead DEF Attach, Acquire
      <3> QED
        BY <2>2, <3>2, <3>3, <3>4
    <2>3. CASE Reclaim(c)
      BY <2>3, RestReclaim
    <2> QED
      BY <1>2, <2>1, <2>2, <2>3 DEF Command
  <1>3. ASSUME NEW c \in Clients, Crash(c) PROVE Rest'
    BY <1>3, RestLeave DEF Crash, host, root, runs
  <1>4. CASE Environment
    <2>1. ASSUME NEW k \in Attempts, QemuBinds(k) PROVE Rest'
      BY <2>1, RestHost DEF QemuBinds, Basic, TypeOK, root, runs
    <2>2. ASSUME NEW p \in Pids, QemuExits(p) \/ OtherStarts(p) \/ OtherExits(p)
          PROVE  Rest'
      <3>1. UNCHANGED <<signalled, overlapped, lease, interrupted, runLease, pc, seen, lock>>
        BY <2>2 DEF QemuExits, OtherStarts, OtherExits, root, runs
      <3>2. \A q \in Pids : slot'[q] \in Attempts => slot'[q] = slot[q]
        BY <2>2, Numbers DEF QemuExits, OtherStarts, OtherExits, Basic, TypeOK
      <3> QED
        BY <3>1, <3>2, RestHost DEF Basic, TypeOK
    <2> QED
      BY <1>4, <2>1, <2>2 DEF Environment
  <1>5. CASE UNCHANGED vars
    <2>1. UNCHANGED <<slot, signalled, overlapped, lease, interrupted, runLease, pc, seen,
                      lock>>
      BY <1>5 DEF vars, host, root, runs
    <2> QED
      BY <2>1, RestHost DEF Basic, TypeOK
  <1> QED
    BY <1>1, <1>2, <1>3, <1>4, <1>5 DEF Next

\* The inductive invariant holds in every state.
THEOREM InductiveInvariant == Spec => []IInv
  <1>1. Basic /\ Rest <=> IInv
    BY DEF Basic, Rest, IInv
  <1>2. Init => Basic /\ Rest
    BY BasicInit, RestInit
  <1>3. (Basic /\ Rest) /\ [Next]_vars => (Basic /\ Rest)'
    BY BasicStep, RestStep
  <1> QED
    BY <1>1, <1>2, <1>3, PTL DEF Spec

\* A lease that reads released names a machine that has ended or was signalled.
THEOREM ReleasedHonest == Spec => []ReleasedMeansEnded
  <1>1. IInv => ReleasedMeansEnded
    BY DEF IInv
  <1> QED
    BY InductiveInvariant, <1>1, PTL

\* No machine whose start completed beside no dying one loses its lease.
THEOREM NoMachineLost == Spec => []MachinesAccountedFor
  <1>1. IInv => MachinesAccountedFor
    BY DEF IInv
  <1> QED
    BY InductiveInvariant, <1>1, PTL

\* No stop and no power loss signals a process that reused a machine's number.
THEOREM StrangersSafe == Spec => []OnlyMachinesSignalled
  <1>1. Init => OnlyMachinesSignalled
    BY DEF Init, OnlyMachinesSignalled
  <1>2. TypeOK /\ OnlyMachinesSignalled /\ [Next]_vars => OnlyMachinesSignalled'
    <2> SUFFICES ASSUME TypeOK, OnlyMachinesSignalled, [Next]_vars
                 PROVE  OnlyMachinesSignalled'
      OBVIOUS
    <2>1. ASSUME NEW c \in Clients, Terminate(c) PROVE OnlyMachinesSignalled'
      <3>1. slot[seen[c].pid] = seen[c].at /\ seen[c].at \in Attempts
        BY <2>1 DEF Terminate, Running, TypeOK, Lease
      <3> QED
        BY <2>1, <3>1, Numbers DEF Terminate, OnlyMachinesSignalled
    <2>2. CASE signalled' = signalled
      BY <2>2 DEF OnlyMachinesSignalled
    <2>3. (\E c \in Clients : Terminate(c)) \/ signalled' = signalled
      <3>1. ASSUME NEW c \in Clients, Advance(c)
            PROVE  Terminate(c) \/ signalled' = signalled
        BY <3>1 DEF Advance, LockHeld, Launch, WriteIntent, LaunchRefused, Spawn, SpawnFails,
           MonitorAppears, MonitorMissing, WriteLease, WriteRunLease, Shutdown,
           AskPowerdown, AskFails, AwaitExit, RecordPowerLoss, TerminateRefused,
           RegisterFixture, PlugFixture, PlugFails, FixtureAttached, WriteComparison, host
      <3>2. ASSUME NEW c \in Clients, Command(c) \/ Crash(c)
            PROVE  signalled' = signalled
        BY <3>2 DEF Command, Start, Resume, Prepare, Recorded, Compare, Stop, PowerLoss, Reclaim, Attach,
           Crash, host
      <3>3. Environment \/ UNCHANGED vars => signalled' = signalled
        BY DEF Environment, QemuBinds, QemuExits, OtherStarts, OtherExits, vars, host
      <3> QED
        BY <3>1, <3>2, <3>3 DEF Next
    <2> QED
      BY <2>1, <2>2, <2>3
  <1> QED
    BY <1>1, <1>2, TypeCorrect, PTL DEF Spec

(***************************************************************************)
(* The hot-plugged fixture.                                                 *)
(***************************************************************************)

LEMMA FixtureInit == Init => FixtureInv
  BY DEF Init, FixtureInv, FixturesRegistered, Plugging

\* At most one command is plugging, and the run it plugs into stays its own.
LEMMA PluggingAlone ==
    ASSUME Basic, NEW c \in Clients, pc[c] \in Plugging
    PROVE  /\ lock = c
           /\ seen[c].at \in Attempts
           /\ RunOf(seen[c]) \in Runs
           /\ \A d \in Clients : d # c => pc[d] \notin Plugging
  <1>1. pc[c] \in Locked /\ pc[c] \in Stopping
    BY DEF Plugging, Locked, Stopping
  <1>2. lock = c /\ seen[c].at \in Attempts
    BY <1>1 DEF Basic, LockInv, WorkInv
  <1>3. RunOf(seen[c]) \in Runs
    BY <1>2 DEF Basic, WorkInv, NumberInv, RunOf
  <1>4. \A d \in Clients : pc[d] \in Plugging => lock = d
    BY DEF Basic, LockInv, Plugging, Locked, Stopping
  <1> QED
    BY <1>2, <1>3, <1>4

\* A step that leaves records, fixtures and the commands that plug alone.
LEMMA FixtureFrame ==
    ASSUME Basic, FixtureInv, UNCHANGED <<hotplug, plugged>>,
           \A d \in Clients : pc'[d] \in Plugging =>
               /\ pc'[d] = pc[d] /\ seen'[d] = seen[d]
               /\ launched'[seen[d].at] = launched[seen[d].at]
    PROVE  FixtureInv'
  <1>1. FixturesRegistered'
    BY DEF FixtureInv, FixturesRegistered
  <1>2. ASSUME NEW d \in Clients, pc'[d] \in Plugging
        PROVE  pc[d] \in Plugging /\ pc'[d] = pc[d] /\ RunOf(seen[d])' = RunOf(seen[d])
    BY <1>2 DEF RunOf
  <1> QED
    BY <1>1, <1>2 DEF FixtureInv

\* attach makes the overlay of a run that has no fixture yet.
LEMMA FixtureAttach ==
    ASSUME Basic, FixtureInv, NEW c \in Clients, Attach(c)
    PROVE  FixtureInv'
  <1> DEFINE r == RunOf(lease)
  <1>1. /\ lock = "none" /\ hotplug[r] = "none" /\ r \in Runs
        /\ hotplug' = [hotplug EXCEPT ![r] = "overlay"]
        /\ pc' = [pc EXCEPT ![c] = "register"]
        /\ seen' = [seen EXCEPT ![c] = lease]
        /\ UNCHANGED <<plugged, launched>>
    BY DEF Attach, Acquire, host, root, Basic, TypeOK, Current, RunOf, WorkInv, NumberInv,
       Lease
  <1>2. \A d \in Clients : pc[d] \notin Plugging
    BY <1>1, PluggingAlone, NamesAssumption
  <1>3. \A x \in plugged : x[2] # r
    BY <1>1 DEF FixtureInv, FixturesRegistered
  <1> HIDE DEF r
  <1>4. hotplug'[r] = "overlay" /\ \A q \in Runs : q # r => hotplug'[q] = hotplug[q]
    BY <1>1 DEF Basic, TypeOK
  <1>5. FixturesRegistered'
    <2>1. \A x \in plugged : x[2] \in Runs
      BY DEF Basic, TypeOK
    <2> QED
      BY <1>1, <1>3, <1>4, <2>1 DEF FixtureInv, FixturesRegistered
  <1>6. /\ pc'[c] = "register" /\ RunOf(seen[c])' = r
        /\ \A d \in Clients : d # c => pc'[d] \notin Plugging
    BY <1>1, <1>2 DEF Basic, TypeOK, RunOf, r
  <1> QED
    BY <1>1, <1>3, <1>4, <1>5, <1>6 DEF FixtureInv

\* The record is written INCOMPLETE, then the monitor is asked, then it says ATTACHED.
LEMMA FixturePlugging ==
    ASSUME Basic, FixtureInv, NEW c \in Clients,
           RegisterFixture(c) \/ PlugFixture(c) \/ PlugFails(c) \/ FixtureAttached(c)
    PROVE  FixtureInv'
  <1> DEFINE r == RunOf(seen[c])
  <1>1. pc[c] \in Plugging
    BY DEF RegisterFixture, PlugFixture, PlugFails, FixtureAttached, Plugging
  <1>2. r \in Runs /\ \A d \in Clients : d # c => pc[d] \notin Plugging
    BY <1>1, PluggingAlone
  <1>3. UNCHANGED launched
    BY DEF RegisterFixture, PlugFixture, PlugFails, FixtureAttached, root
  <1>4. \A d \in Clients : d # c => pc'[d] = pc[d]
    BY DEF RegisterFixture, PlugFixture, PlugFails, FixtureAttached, Leave, Basic, TypeOK
  <1>5. \A x \in plugged : x[2] \in Runs
    BY DEF Basic, TypeOK
  <1>6. CASE RegisterFixture(c)
    <2>1. /\ pc[c] = "register" /\ pc'[c] = "plug" /\ UNCHANGED plugged
          /\ hotplug' = [hotplug EXCEPT ![r] = "INCOMPLETE"]
      BY <1>6 DEF RegisterFixture, Basic, TypeOK, host
    <2>0. RunOf(seen[c])' = RunOf(seen[c])
      BY <1>6 DEF RegisterFixture, RunOf, root
    <2>2. ~\E x \in plugged : x[2] = r
      BY <1>1, <2>1 DEF FixtureInv
    <2>3. hotplug'[r] = "INCOMPLETE" /\ \A q \in Runs : q # r => hotplug'[q] = hotplug[q]
      BY <1>2, <2>1 DEF Basic, TypeOK
    <2> HIDE DEF r
    <2>4. FixturesRegistered'
      BY <1>2, <1>5, <2>1, <2>2, <2>3 DEF FixtureInv, FixturesRegistered
    <2>5. ASSUME NEW d \in Clients, pc'[d] \in Plugging PROVE d = c
      BY <1>2, <1>4, <2>5
    <2> QED
      BY <2>0, <2>1, <2>2, <2>3, <2>4, <2>5 DEF FixtureInv, r
  <1>7. CASE PlugFixture(c)
    <2>1. /\ pc[c] = "plug" /\ pc'[c] = "attached" /\ UNCHANGED hotplug
          /\ plugged' = plugged \cup {<<monitor, r>>}
      BY <1>7 DEF PlugFixture, Basic, TypeOK, runs
    <2>0. RunOf(seen[c])' = RunOf(seen[c])
      BY <1>7 DEF PlugFixture, RunOf, root
    <2>2. hotplug[r] = "INCOMPLETE" /\ ~\E x \in plugged : x[2] = r
      BY <1>1, <2>1 DEF FixtureInv
    <2> HIDE DEF r
    <2>4. FixturesRegistered'
      BY <1>5, <2>1, <2>2 DEF FixtureInv, FixturesRegistered
    <2>5. ASSUME NEW d \in Clients, pc'[d] \in Plugging PROVE d = c
      BY <1>2, <1>4, <2>5
    <2>6. \E x \in plugged' : x[2] = r
      <3>1. <<monitor, r>> \in plugged' /\ <<monitor, r>>[2] = r
        BY <2>1 DEF r
      <3> QED
        BY <3>1
    <2> QED
      BY <2>0, <2>1, <2>2, <2>4, <2>5, <2>6 DEF FixtureInv, r
  <1>8. CASE PlugFails(c)
    <2>1. /\ pc[c] = "plug" /\ pc'[c] = "idle" /\ UNCHANGED hotplug
          /\ plugged' \in {plugged, plugged \cup ((Up \cap {monitor}) \X {r})}
      BY <1>8 DEF PlugFails, Leave, Basic, TypeOK, runs
    <2>2. hotplug[r] = "INCOMPLETE" /\ ~\E x \in plugged : x[2] = r
      BY <1>1, <2>1 DEF FixtureInv
    <2> HIDE DEF r
    <2>3. plugged' \subseteq plugged \cup {<<monitor, r>>} /\ plugged \subseteq plugged'
      BY <2>1
    <2>4. FixturesRegistered'
      BY <1>5, <2>1, <2>2, <2>3 DEF FixtureInv, FixturesRegistered
    <2>5. \A d \in Clients : pc'[d] \notin Plugging
      BY <1>2, <1>4, <2>1 DEF Plugging
    <2> QED
      BY <2>4, <2>5 DEF FixtureInv
  <1>9. CASE FixtureAttached(c)
    <2>1. /\ pc[c] = "attached" /\ pc'[c] = "idle" /\ UNCHANGED plugged
          /\ hotplug' = [hotplug EXCEPT ![r] = "ATTACHED"]
      BY <1>9 DEF FixtureAttached, Leave, Basic, TypeOK, host
    <2>2. \E x \in plugged : x[2] = r
      BY <1>1, <2>1 DEF FixtureInv
    <2>3. hotplug'[r] = "ATTACHED" /\ \A q \in Runs : q # r => hotplug'[q] = hotplug[q]
      BY <1>2, <2>1 DEF Basic, TypeOK
    <2> HIDE DEF r
    <2>4. FixturesRegistered'
      BY <1>5, <2>1, <2>2, <2>3 DEF FixtureInv, FixturesRegistered
    <2>5. \A d \in Clients : pc'[d] \notin Plugging
      BY <1>2, <1>4, <2>1 DEF Plugging
    <2> QED
      BY <2>4, <2>5 DEF FixtureInv
  <1> QED
    BY <1>6, <1>7, <1>8, <1>9

LEMMA FixtureStep == Basic /\ FixtureInv /\ [Next]_vars => FixtureInv'
  <1> SUFFICES ASSUME Basic, FixtureInv, [Next]_vars PROVE FixtureInv'
    OBVIOUS
  <1> USE NamesAssumption
  <1>p. \A d \in Clients : pc[d] \in Plugging => seen[d].at \in Attempts
    BY PluggingAlone
  <1>1. ASSUME NEW c \in Clients, Advance(c) PROVE FixtureInv'
    <2>1. CASE RegisterFixture(c) \/ PlugFixture(c) \/ PlugFails(c) \/ FixtureAttached(c)
      BY <2>1, FixturePlugging
    <2>2. CASE Launch(c)
      <3>1. /\ UNCHANGED <<hotplug, plugged>> /\ pc' = [pc EXCEPT ![c] = "spawn"]
            /\ seen' = [seen EXCEPT ![c] = LeaseOf(attempts + 1, 0, FALSE)]
            /\ launched' = [launched EXCEPT ![attempts + 1] = work[c]]
            /\ attempts < MaxLaunches
        BY <2>2 DEF Launch, WriteIntent, Acquire, host, runs
      <3>2. \A d \in Clients : seen[d].at # attempts + 1
        <4>1. \A d \in Clients : seen[d].at \in Nat /\ seen[d].at <= attempts
          BY Numbers DEF Basic, TypeOK, NumberInv, Lease
        <4>2. attempts \in Nat
          BY DEF Basic, TypeOK
        <4> QED
          BY <4>1, <4>2
      <3>3. ASSUME NEW d \in Clients, pc'[d] \in Plugging
            PROVE  pc'[d] = pc[d] /\ seen'[d] = seen[d] /\ pc[d] \in Plugging
        BY <3>1, <3>3 DEF Basic, TypeOK, Plugging
      <3>4. ASSUME NEW d \in Clients, pc'[d] \in Plugging
            PROVE  launched'[seen[d].at] = launched[seen[d].at]
        <4>1. seen[d].at \in Attempts /\ seen[d].at # attempts + 1
          BY <1>p, <3>2, <3>3, <3>4
        <4> QED
          BY <3>1, <4>1 DEF Basic, TypeOK
      <3> QED
        BY <3>1, <3>3, <3>4, FixtureFrame
    <2>3. CASE /\ ~Launch(c) /\ ~RegisterFixture(c) /\ ~PlugFixture(c)
               /\ ~PlugFails(c) /\ ~FixtureAttached(c)
      <3>1. UNCHANGED <<hotplug, plugged, launched>>
        BY <1>1, <2>3 DEF Advance, LockHeld, LaunchRefused, Spawn, SpawnFails,
           MonitorAppears, MonitorMissing, WriteLease, WriteRunLease, Shutdown,
           AskPowerdown, AskFails, AwaitExit, RecordPowerLoss, Terminate,
           TerminateRefused, WriteComparison, host, root, runs
      <3>2. /\ pc'[c] \notin Plugging
            /\ \A d \in Clients : d # c => pc'[d] = pc[d] /\ seen'[d] = seen[d]
        <4>1. CASE LockHeld(c) \/ LaunchRefused(c) \/ SpawnFails(c) \/ MonitorMissing(c)
          BY <4>1 DEF LockHeld, LaunchRefused, SpawnFails, MonitorMissing, Leave, Basic,
             TypeOK, Plugging
        <4>2. CASE \E p \in Pids : Spawn(c, p)
          BY <4>2 DEF Spawn, Basic, TypeOK, Plugging
        <4>3. CASE MonitorAppears(c) \/ WriteLease(c) \/ WriteRunLease(c)
          BY <4>3 DEF MonitorAppears, WriteLease, WriteRunLease, Leave, Basic, TypeOK, Plugging
        <4>4. CASE Shutdown(c)
          BY <4>4 DEF Shutdown, Leave, Acquire, Basic, TypeOK, Plugging
        <4>5. CASE AskPowerdown(c) \/ AskFails(c)
          BY <4>5 DEF AskPowerdown, AskFails, Leave, Basic, TypeOK, Plugging
        <4>6. CASE AwaitExit(c) \/ RecordPowerLoss(c)
          BY <4>6 DEF AwaitExit, RecordPowerLoss, Acquire, Basic, TypeOK, Plugging
        <4>7. CASE Terminate(c) \/ TerminateRefused(c) \/ WriteComparison(c)
          BY <4>7 DEF Terminate, TerminateRefused, WriteComparison, Leave, Basic, TypeOK,
             Plugging
        <4> QED
          BY <1>1, <2>3, <4>1, <4>2, <4>3, <4>4, <4>5, <4>6, <4>7 DEF Advance
      <3> QED
        BY <3>1, <3>2, FixtureFrame
    <2> QED
      BY <2>1, <2>2, <2>3
  <1>2. ASSUME NEW c \in Clients, Command(c) PROVE FixtureInv'
    <2>1. CASE Attach(c)
      BY <2>1, FixtureAttach
    <2>2. CASE ~Attach(c)
      <3>1. UNCHANGED <<hotplug, plugged, launched>>
        BY <1>2, <2>2 DEF Command, Start, Resume, Prepare, Recorded, Compare, Stop, PowerLoss, Reclaim, host,
           root, runs
      <3>2. \A d \in Clients : d # c => pc'[d] = pc[d] /\ seen'[d] = seen[d]
        BY <1>2, <2>2 DEF Command, Start, Resume, Prepare, Recorded, Compare, Stop, PowerLoss, Reclaim,
           Acquire, Basic, TypeOK
      <3>3. pc'[c] \notin Plugging
        BY <1>2, <2>2 DEF Command, Start, Resume, Prepare, Recorded, Compare, Stop, PowerLoss, Reclaim,
           Given, Acquire, Basic, TypeOK, Plugging
      <3> QED
        BY <3>1, <3>2, <3>3, FixtureFrame
    <2> QED
      BY <2>1, <2>2
  <1>3. ASSUME NEW c \in Clients, Crash(c) PROVE FixtureInv'
    <2>1. UNCHANGED <<hotplug, plugged, launched>>
      BY <1>3 DEF Crash, host, root, runs
    <2>2. /\ pc'[c] \notin Plugging
          /\ \A d \in Clients : d # c => pc'[d] = pc[d] /\ seen'[d] = seen[d]
      BY <1>3 DEF Crash, Leave, Basic, TypeOK, Plugging
    <2> QED
      BY <2>1, <2>2, FixtureFrame
  <1>4. CASE Environment \/ UNCHANGED vars
    <2>1. UNCHANGED <<hotplug, plugged, launched, pc, seen>>
      BY <1>4 DEF Environment, QemuBinds, QemuExits, OtherStarts, OtherExits, vars, host,
         root, runs
    <2> QED
      BY <2>1, FixtureFrame
  <1> QED
    BY <1>1, <1>2, <1>3, <1>4 DEF Next

\* A fixture a guest received is registered in its run, which has no other, and a
\* record says ATTACHED only when a machine took the fixture.
THEOREM NoFixtureUnregistered == Spec => []FixturesRegistered
  <1>1. Init => Basic /\ FixtureInv
    BY BasicInit, FixtureInit
  <1>2. (Basic /\ FixtureInv) /\ [Next]_vars => (Basic /\ FixtureInv)'
    BY BasicStep, FixtureStep
  <1>3. FixtureInv => FixturesRegistered
    BY DEF FixtureInv
  <1> QED
    BY <1>1, <1>2, <1>3, PTL DEF Spec
=============================================================================
