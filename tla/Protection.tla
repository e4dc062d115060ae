----------------------------- MODULE Protection -----------------------------
(* The live medium's disk protection: a udev rule makes every block node read-only  *)
(* as it appears, the initramfs verifies all of them before it mounts a root, and a  *)
(* service verifies them again before the desktop.  Nodes come and go meanwhile, a   *)
(* guard's ioctl may fail, and the two faults of the agent act on it: one takes the   *)
(* guard's privilege away at the initramfs breakpoint, one writes to a plugged disk. *)
EXTENDS Naturals, FiniteSets

CONSTANTS
    Board,      \* the nodes there from the start: virtual disks and their partitions
    Usb,        \* the nodes of the disk that is hotplugged
    Target,     \* the node the lock fault makes writable
    MaxLives    \* bound: how often the USB disk is plugged

ASSUME ProtectionAssumption ==
    Target \in Board /\ Board \cap Usb = {} /\ MaxLives \in Nat

VARIABLES
    ro,         \* each node's read-only flag in sysfs, or that there is no node
    life,       \* how often the USB disk has been plugged
    plugged,    \* is it plugged
    events,     \* the nodes with an event udev has not handled
    queue,      \* does udev take events
    latch,      \* /run/apex-protection-failed
    marker,     \* /run/apex-disks-protected
    phase,      \* how far the boot is
    todo,       \* the nodes the verification under way has still to protect
    lock,       \* the fault of the denied lock
    denial      \* the fault of the denied writes

vars == <<ro, life, plugged, events, queue, latch, marker, phase, todo, lock, denial>>

Nodes == Board \cup Usb
Phases == {"break", "initrd", "verifying", "root", "checking", "desktop", "refused"}

Present(n) == ro[n] # "absent"
AllRo(S) == \A n \in S : ro[n] = "1"

LockSteps == {"idle", "settle", "stop", "setrw", "guard", "restore", "start", "ended"}
NoLock == [step |-> "idle", denied |-> FALSE, clean |-> FALSE]

Answers == {"none", "denied", "other", "wrote"}
NoDenial == [step |-> "idle", unread |-> {}, since |-> 0, under |-> 0,
             answer |-> [n \in Usb |-> "none"], status |-> "none"]

Init ==
    /\ ro = [n \in Nodes |-> IF n \in Board THEN "0" ELSE "absent"]
    /\ events = Board /\ queue = TRUE
    /\ life = 0 /\ plugged = FALSE
    /\ latch = FALSE /\ marker = FALSE
    /\ phase \in {"break", "initrd"} /\ todo = {}
    /\ lock = NoLock /\ denial = NoDenial

-----------------------------------------------------------------------------
(* The kernel and udev. *)

Plug ==
    /\ ~plugged /\ life < MaxLives
    /\ plugged' = TRUE /\ life' = life + 1
    /\ UNCHANGED <<ro, events, queue, latch, marker, phase, todo, lock, denial>>

Appear(n) ==
    /\ plugged /\ n \in Usb /\ ~Present(n)
    /\ ro' = [ro EXCEPT ![n] = "0"]
    /\ events' = events \cup {n}
    /\ UNCHANGED <<life, plugged, queue, latch, marker, phase, todo, lock, denial>>

Unplug ==
    /\ plugged /\ plugged' = FALSE
    /\ ro' = [n \in Nodes |-> IF n \in Usb THEN "absent" ELSE ro[n]]
    /\ UNCHANGED <<life, events, queue, latch, marker, phase, todo, lock, denial>>

\* The guard run with one node: read the flag, set it if it is clear, read it back.  A
\* node that is gone, or whose ioctl the kernel denies, fails the guard.
Guarded(n) == Present(n) /\ ro' = [ro EXCEPT ![n] = "1"]

GuardFails(n) == ro[n] # "1" /\ UNCHANGED ro

\* Mutants: a guard that fails and says nothing; a rule that is in the initramfs alone.
HandleQuietly(n) ==
    /\ queue /\ n \in events
    /\ events' = events \ {n}
    /\ Guarded(n) \/ GuardFails(n)
    /\ UNCHANGED <<life, plugged, queue, latch, marker, phase, todo, lock, denial>>

HandleEarly(n) ==
    /\ phase \notin {"root", "checking", "desktop"}
    /\ queue /\ n \in events
    /\ events' = events \ {n}
    /\ \/ Guarded(n) /\ UNCHANGED latch
       \/ GuardFails(n) /\ latch' = TRUE
    /\ UNCHANGED <<life, plugged, queue, marker, phase, todo, lock, denial>>

\* The rule's guard on one event; a guard that fails sets the latch.
Handle(n) ==
    /\ queue /\ n \in events
    /\ events' = events \ {n}
    /\ \/ Guarded(n) /\ UNCHANGED latch
       \/ GuardFails(n) /\ latch' = TRUE
    /\ UNCHANGED <<life, plugged, queue, marker, phase, todo, lock, denial>>

-----------------------------------------------------------------------------
(* The boot.  A verification refuses at the latch, then protects the nodes it saw     *)
(* when it began, skips one that has gone, and dies at the first it cannot protect.   *)

Resting == lock.step \in {"idle", "ended"}

Resume ==
    /\ phase = "break" /\ Resting
    /\ phase' = "initrd"
    /\ UNCHANGED <<ro, life, plugged, events, queue, latch, marker, todo, lock, denial>>

\* Mutant: a verification that does not look for the latch.
BeginUnlatched(now, next, ready) ==
    /\ phase = now /\ ready
    /\ phase' = next /\ todo' = {n \in Nodes : Present(n)}
    /\ UNCHANGED <<ro, life, plugged, events, queue, latch, marker, lock, denial>>

Begin(now, next, ready) ==
    /\ phase = now
    /\ IF ready /\ ~latch
       THEN phase' = next /\ todo' = {n \in Nodes : Present(n)}
       ELSE phase' = "refused" /\ UNCHANGED todo
    /\ UNCHANGED <<ro, life, plugged, events, queue, latch, marker, lock, denial>>

VerifyBegins == Begin("initrd", "verifying", TRUE)
CheckBegins == Begin("root", "checking", marker)

Verifying == phase \in {"verifying", "checking"}

Protect(n) ==
    /\ Verifying /\ n \in todo
    /\ \/ ~Present(n) /\ todo' = todo \ {n} /\ UNCHANGED <<ro, phase>>
       \/ Guarded(n) /\ todo' = todo \ {n} /\ UNCHANGED phase
       \/ GuardFails(n) /\ phase' = "refused" /\ todo' = {}
    /\ UNCHANGED <<life, plugged, events, queue, latch, marker, lock, denial>>

\* The last of it: the firmware's variables made read-only and the marker left; the
\* service also asks for no swap on a disk and for enforcing SELinux.  The root's udev
\* is another daemon, which is sent an event of every node there is.
VerifyEnds ==
    /\ phase = "verifying" /\ todo = {}
    /\ \/ /\ phase' = "root" /\ marker' = TRUE /\ queue' = TRUE
          /\ events' = events \cup {n \in Nodes : Present(n)}
       \/ phase' = "refused" /\ UNCHANGED <<marker, queue, events>>
    /\ UNCHANGED <<ro, life, plugged, latch, todo, lock, denial>>

CheckEnds ==
    /\ phase = "checking" /\ todo = {}
    /\ phase' \in {"desktop", "refused"}
    /\ marker' = TRUE
    /\ UNCHANGED <<ro, life, plugged, events, queue, latch, todo, lock, denial>>

-----------------------------------------------------------------------------
(* The denied lock, at the breakpoint: udev is paused, the target made writable, and *)
(* the guard run on it without the privilege its ioctl needs.  What was begun is put  *)
(* back; a step that fails stops the fault, and a kill leaves it where it is.         *)

LockIs(step) == phase = "break" /\ lock.step = step
LockGoes(step) == lock' = [lock EXCEPT !.step = step]
LockAlone == UNCHANGED <<life, plugged, events, marker, phase, todo, denial>>

LockStart ==
    /\ LockIs("idle") /\ ~latch /\ AllRo(Board)
    /\ LockGoes("settle")
    /\ UNCHANGED <<ro, queue, latch>> /\ LockAlone

Settle ==
    /\ LockIs("settle")
    /\ \/ events = {} /\ LockGoes("stop")
       \/ events # {} /\ LockGoes("ended")
    /\ UNCHANGED <<ro, queue, latch>> /\ LockAlone

StopQueue ==
    /\ LockIs("stop")
    /\ \/ queue' = FALSE /\ LockGoes("setrw")
       \/ UNCHANGED queue /\ LockGoes("ended")
    /\ UNCHANGED <<ro, latch>> /\ LockAlone

SetWritable ==
    /\ LockIs("setrw")
    /\ \/ ro' = [ro EXCEPT ![Target] = "0"] /\ LockGoes("guard")
       \/ UNCHANGED ro /\ LockGoes("restore")
    /\ UNCHANGED <<queue, latch>> /\ LockAlone

\* The child asks for its own capabilities and becomes the guard.  It is denied when the
\* guard failed for want of them, the flag is still clear and the latch is there.
DeniedGuard ==
    /\ LockIs("guard")
    /\ \E dropped \in BOOLEAN :
         /\ \/ ~dropped /\ Guarded(Target) /\ UNCHANGED latch
            \/ GuardFails(Target) /\ latch' = TRUE
         /\ lock' = [lock EXCEPT !.step = "restore",
                                 !.denied = dropped /\ ro'[Target] = "0" /\ latch']
    /\ UNCHANGED queue /\ LockAlone

Restore ==
    /\ LockIs("restore")
    /\ \/ ro' = [ro EXCEPT ![Target] = "1"]
       \/ UNCHANGED ro
    /\ lock' = [lock EXCEPT !.step = "start", !.clean = ro'[Target] = "1"]
    /\ UNCHANGED <<queue, latch>> /\ LockAlone

StartQueue ==
    /\ LockIs("start")
    /\ queue' \in {queue, TRUE}
    /\ LockGoes("ended")
    /\ UNCHANGED <<ro, latch>> /\ LockAlone

LockKilled ==
    /\ phase = "break" /\ ~Resting
    /\ lock' = [NoLock EXCEPT !.step = "ended"]
    /\ UNCHANGED <<ro, queue, latch>> /\ LockAlone

LockPassed == lock.step = "ended" /\ lock.denied /\ lock.clean

-----------------------------------------------------------------------------
(* The denied writes, on the desktop: once udev has settled, the nodes of the plugged  *)
(* disk are read one after the other, and each is written in turn, the nodes read      *)
(* again before it; one that is gone or writable ends it, and so does the first write   *)
(* that is not denied.  What is compared is what sysfs says of each node, which is      *)
(* the same again once the disk was unplugged, plugged into its port and guarded.       *)

DenialGoes(d) ==
    /\ denial' = d
    /\ UNCHANGED <<ro, life, plugged, events, queue, latch, marker, phase, todo, lock>>

Unwritten == {n \in Usb : denial.answer[n] = "none"}

DenialStart ==
    /\ phase = "desktop" /\ denial.step = "idle"
    /\ events = {}
    /\ DenialGoes([NoDenial EXCEPT !.step = "take", !.unread = Usb])

\* Mutant: the inventory is not compared with the first.
AnyState(n) == Present(n)

AsInventoried(n) == ro[n] = "1"

\* One node is read.  The first inventory is followed by another, that by a write;
\* "since" is how often the disk had been plugged when the reading began.
ReadNode(n) ==
    /\ denial.step \in {"take", "look"} /\ n \in denial.unread
    /\ IF ~AsInventoried(n)
       THEN DenialGoes([denial EXCEPT !.step = "ended"])
       ELSE LET left == denial.unread \ {n}
                read == [denial EXCEPT !.unread = left,
                                       !.since = IF denial.unread = Usb THEN life ELSE @]
            IN  DenialGoes(IF left # {} THEN read
                           ELSE IF denial.step = "look" THEN [read EXCEPT !.step = "write"]
                           ELSE [read EXCEPT !.step = "look", !.unread = Usb])

StatusOf(answer) ==
    CASE answer = "denied" -> "PASS"
      [] answer = "other"  -> "BLOCKED"
      [] OTHER             -> "FAIL"

Overall(answer) == IF \A n \in Usb : StatusOf(answer[n]) = "PASS" THEN "PASS" ELSE "NOT PASS"

\* The node is opened by its name and its number compared; a write of its own bytes is
\* denied by the flag alone, and a device may fail any other way.
Attempt(n) ==
    /\ denial.step = "write" /\ n \in Unwritten
    /\ IF ~Present(n)
       THEN DenialGoes([denial EXCEPT !.step = "ended"])
       ELSE \E answer \in {"other", IF ro[n] = "1" THEN "denied" ELSE "wrote"} :
              LET d == [denial EXCEPT !.answer[n] = answer, !.under = life]
              IN  DenialGoes(IF StatusOf(answer) # "PASS" \/ Unwritten = {n}
                             THEN [d EXCEPT !.step = "ended", !.status = Overall(d.answer)]
                             ELSE [d EXCEPT !.step = "look", !.unread = Usb])

-----------------------------------------------------------------------------
Lock == \/ LockStart \/ Settle \/ StopQueue \/ SetWritable \/ DeniedGuard
        \/ Restore \/ StartQueue \/ LockKilled
Denial == DenialStart \/ \E n \in Usb : ReadNode(n) \/ Attempt(n)
Device == Plug \/ Unplug \/ \E n \in Usb : Appear(n)
Boot == \/ Resume \/ VerifyBegins \/ CheckBegins \/ VerifyEnds \/ CheckEnds
        \/ \E n \in Nodes : Protect(n)

Next == Device \/ Boot \/ Lock \/ Denial \/ \E n \in Nodes : Handle(n)

Spec == Init /\ [][Next]_vars

\* udev takes its events one after the other, whatever the rest of the system does.
Fairness == \A n \in Nodes : WF_vars(Handle(n))

FairSpec == Spec /\ Fairness

-----------------------------------------------------------------------------
NodesOK ==
    /\ ro \in [Nodes -> {"absent", "0", "1"}]
    /\ life \in 0..MaxLives /\ plugged \in BOOLEAN
    /\ events \subseteq Nodes /\ queue \in BOOLEAN

BootOK ==
    /\ latch \in BOOLEAN /\ marker \in BOOLEAN
    /\ phase \in Phases /\ todo \subseteq Nodes

LockOK == lock \in [step : LockSteps, denied : BOOLEAN, clean : BOOLEAN]

DenialOK ==
    denial \in [step : {"idle", "take", "look", "write", "ended"}, unread : SUBSET Usb,
                since : 0..MaxLives, under : 0..MaxLives, answer : [Usb -> Answers],
                status : {"none", "PASS", "NOT PASS"}]

\* Every flag, event and answer is one the guard, the boot and the faults know.
TypeOK == NodesOK /\ BootOK /\ LockOK /\ DenialOK

\* On a desktop that is up, a node that can be written is one udev is still to be told
\* the guard's answer for, or the guard has failed and left its latch: nothing that was
\* there when the last verification began, and nothing the faults did, is left writable
\* unseen (live-disk-guard.sh, live-protection-check.sh).
DesktopOnlyProtected ==
    phase = "desktop" =>
      \A n \in Nodes : ro[n] = "0" => (n \in events /\ queue) \/ latch

\* A denied lock that passed is a boot that is refused: once the fault reports PASS the
\* root is never mounted and the desktop never reached in that boot, however the operator
\* goes on from the breakpoint (live_lock_unit.py, and the guard's --verify).
DenialRefusesBoot == LockPassed => phase \in {"break", "initrd", "refused"}

\* A PASS of the denied writes is a denial by the kernel of every node there is to
\* write; and a write that gets through, of which there is one at most and no PASS, met
\* a disk plugged anew after the nodes were first read for it: the fault never writes to
\* a disk it has not found protected (livefixtures.exercise, overall).
DenialIsTotal ==
    /\ denial.status = "PASS" => \A n \in Usb : denial.answer[n] = "denied"
    /\ \A n \in Usb : denial.answer[n] = "wrote" =>
          /\ denial.since < denial.under /\ denial.status # "PASS"
          /\ \A m \in Usb \ {n} : denial.answer[m] \in {"none", "denied"}

\* A node that can be written on a desktop does not stay so: it becomes read-only, goes
\* away, or leaves the latch that says it could not be protected.
EventuallyGuarded ==
    \A n \in Nodes : (phase = "desktop" /\ ro[n] = "0") ~> (ro[n] # "0" \/ latch)

=============================================================================
