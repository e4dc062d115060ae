----------------------------- MODULE Operations -----------------------------
(* One installed guest under update, recovery and initramfs operations.  A       *)
(* command reads the guest, checks what it read, asks for a change and confirms   *)
(* it, unit by unit; in between the guest boots, rejects a boot, falls back, loses *)
(* power or is rebooted at its console.  What a boot did and what its journal kept *)
(* of it are apart: the fallback's judge sees the journal only.                   *)
EXTENDS Naturals, Sequences, FiniteSets

CONSTANTS
    Starts,                            \* the guests a campaign may start with
    MaxChanges, MaxBoots, MaxUpsets    \* bounds: changes, boots, upsets from outside

Guests == [kind : {"parent", "installed", "pair"}, grub : {"broken", "repaired"},
           retries : 1..2, isolated : BOOLEAN]

ASSUME OperationsAssumption ==
    /\ Starts \subseteq Guests
    /\ MaxChanges \in Nat /\ MaxBoots \in Nat \ {0} /\ MaxUpsets \in Nat

VARIABLES
    dep,        \* the boot entries in order, the booted image and the staged one
    etc,        \* each deployment's configuration: policy, armed fault, retries
    disk,       \* what all deployments share
    fault,      \* the image whose boot entry names the faulty initramfs
    env,        \* GRUB's environment: counter, success, the deployment to fall back from
    phase,      \* how far the boot under way is
    boots,      \* the boots, as they went and as the journal kept them
    cmd,        \* the command under way
    spent       \* the changes made, and the losses of power and picks at the menu

operationsVars == <<dep, etc, disk, fault, env, phase, boots, cmd, spent>>

Images == {"parent", "a", "b"}
Slots  == Images \cup {"none"}
Absent == 3     \* no counter in GRUB's environment

Actions == {"provision", "provision-a", "switch-a", "forward", "wrong-key", "rollback",
            "reboot"}

NoDeployments == [first |-> "none", second |-> "none", booted |-> "none", staged |-> "none"]
NoCommand == [action |-> "none", step |-> "idle", read |-> NoDeployments, ok |-> FALSE]

\* A boot of an image: what its observer could see, how far it went (1 seen before its
\* health check, 2 judged, 3 rolled back), and how much of that the journal kept.
Boot(image, config, e) ==
    [image |-> image, counter |-> e.counter, cleared |-> ~e.success,
     next |-> e.next, watched |-> config.armed = "whole",
     broken |-> config.armed # "none" /\ image = "b", went |-> 0, kept |-> 0]

BootPassed(boot) == boot.went >= 2 /\ ~boot.broken

Config(policy, retries) == [policy |-> policy, armed |-> "none", retries |-> retries]

Settled == [counter |-> Absent, success |-> TRUE, next |-> "none"]

\* A fresh parent, a fresh guest installed with A, or a healthy pair that is
\* provisioned; A and B may share the directory of their kernel and initramfs.
OperationsInit ==
    /\ \E start \in Starts :
          LET image == IF start.kind = "parent" THEN "parent" ELSE "a"
              pair  == start.kind = "pair"
          IN
          /\ dep = [first |-> image, second |-> IF pair THEN "b" ELSE "none",
                    booted |-> image, staged |-> "none"]
          /\ etc = [i \in Images |-> Config(IF image = "parent" THEN "bootstrap" ELSE "fixture",
                                            start.retries)]
          /\ disk = [fixture |-> IF pair THEN "whole" ELSE "none", sentinel |-> pair,
                     grub |-> start.grub, isolated |-> start.isolated]
          /\ boots = <<[Boot(image, etc[image], Settled)
                        EXCEPT !.went = 2, !.kept = 2]>>
    /\ fault = "none" /\ env = Settled /\ phase = "up" /\ cmd = NoCommand
    /\ spent = [changes |-> 0, upsets |-> 0]

(***************************************************************************)
(* The guest's boots.                                                       *)
(***************************************************************************)

now    == Len(boots)
config == etc[dep.booted]
Other(image) == IF image = dep.first THEN dep.second ELSE dep.first

\* The guest answers from its health check on.
Reachable == phase \in {"watched", "up"}

World == <<dep, etc, disk, fault, env, phase, boots, spent>>

\* The order of the entries turned: with a shared directory the text of an entry stays
\* where it was, and the fault it names is the other image's.
Turned ==
    /\ dep' = [dep EXCEPT !.first = dep.second, !.second = dep.first, !.staged = "none"]
    /\ fault' = IF disk.isolated \/ fault = "none" THEN fault ELSE Other(fault)

\* The staged deployment becomes the default, with the configuration of the booted
\* one and entries of its own, and the fallback is armed.
Finalised(e) ==
    /\ dep' = [dep EXCEPT !.first = dep.staged, !.second = dep.booted, !.staged = "none"]
    /\ etc' = [etc EXCEPT ![dep.staged] = config]
    /\ env' = [e EXCEPT !.next = dep.staged]
    /\ fault' = "none"

\* An orderly shutdown finalises what is staged.
ShutDown(e) ==
    /\ phase' = "down"
    /\ IF dep.staged # "none" THEN Finalised(e) ELSE env' = e /\ UNCHANGED <<dep, etc, fault>>

\* GRUB counts a boot that follows a failed one down, and takes the second entry when
\* the count is spent; the operator may take any.  Without the repair it may save none.
PowerOn ==
    /\ phase = "down" /\ now < MaxBoots
    /\ \E image \in {dep.first, dep.second} \ {"none"},
          saves \in (IF disk.grub = "repaired" THEN {TRUE} ELSE BOOLEAN) :
          LET counts == env.counter # Absent /\ ~env.success
              pick   == IF counts /\ env.counter = 0 /\ dep.second # "none"
                        THEN dep.second ELSE dep.first
              saved  == [env EXCEPT !.success = FALSE,
                                    !.counter = IF counts /\ @ > 0 THEN @ - 1 ELSE @]
          IN  /\ env' = IF saves THEN saved ELSE env
              /\ dep' = [dep EXCEPT !.booted = image]
              /\ boots' = Append(boots, Boot(image, etc[image], env'))
              /\ phase' = IF fault = image THEN "stuck" ELSE "starting"
              /\ image = pick \/ spent.upsets < MaxUpsets
              /\ spent' = IF image = pick THEN spent ELSE [spent EXCEPT !.upsets = @ + 1]
    /\ UNCHANGED <<cmd, etc, disk, fault>>

\* The observer's report before the health check.
Watch ==
    /\ phase = "starting" /\ phase' = "watched"
    /\ boots' = [boots EXCEPT ![now].went = 1, ![now].kept = 1]
    /\ UNCHANGED <<cmd, dep, etc, disk, fault, env, spent>>

\* The health check: rejected when GDM failed, passed otherwise; a boot that passes
\* makes its own entry the default.
HealthCheck ==
    /\ phase = "watched"
    /\ boots' = [boots EXCEPT ![now].went = 2, ![now].kept = 2]
    /\ IF boots[now].broken
       THEN phase' = "rejected" /\ UNCHANGED <<dep, fault, env>>
       ELSE /\ phase' = "up" /\ env' = Settled
            /\ IF dep.booted = dep.first THEN UNCHANGED <<dep, fault>> ELSE Turned
    /\ UNCHANGED <<cmd, etc, disk, spent>>

\* The first failure starts the count of retries, the next ones reboot.
Retry ==
    /\ phase = "rejected" /\ env.counter # 0
    /\ ShutDown([env EXCEPT !.counter = IF @ = Absent THEN config.retries ELSE @])
    /\ UNCHANGED <<cmd, disk, boots, spent>>

\* The retries are spent: greenboot rolls back and reboots.
FallBack ==
    /\ phase = "rejected" /\ env.counter = 0 /\ dep.second # "none"
    /\ Turned
    /\ boots' = [boots EXCEPT ![now].went = 3, ![now].kept = 3]
    /\ env' = [env EXCEPT !.counter = Absent]
    /\ phase' = "down"
    /\ UNCHANGED <<cmd, etc, disk, spent>>

\* What is staged is lost, and the end of this boot's journal may be.
PowerCut ==
    /\ phase # "down" /\ spent.upsets < MaxUpsets
    /\ spent' = [spent EXCEPT !.upsets = @ + 1]
    /\ phase' = "down"
    /\ dep' = [dep EXCEPT !.staged = "none"]
    /\ \E kept \in 0..boots[now].kept : boots' = [boots EXCEPT ![now].kept = kept]
    /\ UNCHANGED <<cmd, etc, disk, fault, env>>

\* Rebooted at the console.
Reboot ==
    /\ phase = "up" /\ ShutDown(env)
    /\ UNCHANGED <<cmd, disk, boots, spent>>

\* The services that finalise a staged deployment stopped before a shutdown.
Finalise ==
    /\ phase = "up" /\ dep.staged # "none" /\ Finalised(env)
    /\ UNCHANGED <<cmd, disk, phase, boots, spent>>

(***************************************************************************)
(* A command: what it reads, and what it wants to have read.                *)
(***************************************************************************)

\* A command is over, its report kept whatever it says.
CommandEnds == cmd' = NoCommand

\* What an action wants of the status and the policy its host read.
Wanted(action) ==
    /\ action = "provision" => dep.booted = "parent"
    /\ action \in {"provision-a", "forward", "wrong-key", "reboot"} => dep.booted = "a"
    /\ action = "rollback" => dep.booted = "b" /\ "a" \in {dep.first, dep.second}
    /\ action \in {"switch-a", "forward", "wrong-key", "rollback"} => config.policy = "fixture"
    /\ action = "reboot" => dep.staged = "b"

\* A command reads the guest first, and goes no further when it is not as it wants.
BeginCommand ==
    /\ cmd.step = "idle" /\ Reachable
    /\ \E action \in Actions :
          /\ Wanted(action)
          /\ cmd' = [action |-> action, step |-> "change", ok |-> FALSE,
                     read |-> IF action = "wrong-key" THEN dep ELSE NoDeployments]
    /\ UNCHANGED World

\* The host's wait ends, or the host, or the guest refuses what it was asked: what was
\* done to the guest stays.
GivesUp ==
    /\ cmd.step # "idle" /\ CommandEnds
    /\ UNCHANGED World

Changes(action) == cmd.step = "change" /\ cmd.action = action /\ Reachable

Spends ==
    /\ spent.changes < MaxChanges
    /\ spent' = [spent EXCEPT !.changes = @ + 1]

(***************************************************************************)
(* Updates.                                                                 *)
(***************************************************************************)

\* Mutant of ProvisionSteps: the policy first, then the files it comes with.
PolicyFirst == <<<<"partial", FALSE>>, <<"partial", TRUE>>, <<"whole", TRUE>>>>

\* What a provision leaves in turn: are the fixture's files verified, is its policy in
\* force?
ProvisionSteps == <<<<"partial", FALSE>>, <<"whole", FALSE>>, <<"whole", TRUE>>>>

\* Unpacked, verified, the policy in force kept beside it and the fixture's put in its
\* place; what stops on the way leaves the directory, and no other provision begins.
Provision ==
    /\ Changes("provision") \/ Changes("provision-a")
    /\ disk.fixture = "none" /\ Spends
    /\ \E n \in DOMAIN ProvisionSteps :
          /\ ProvisionSteps[n][2] =>
                config.policy = IF cmd.action = "provision-a" THEN "fixture" ELSE "bootstrap"
          /\ disk' = [disk EXCEPT !.fixture = ProvisionSteps[n][1]]
          /\ etc' = IF ProvisionSteps[n][2]
                    THEN [etc EXCEPT ![dep.booted].policy = "fixture"] ELSE etc
          /\ \/ CommandEnds
             \/ n = Len(ProvisionSteps) /\ cmd' = [cmd EXCEPT !.step = "confirm"]
    /\ UNCHANGED <<dep, fault, env, phase, boots>>

Source == IF cmd.action = "switch-a" THEN "a" ELSE "b"

\* bootc takes a signed image of the fixture under the fixture's policy, or fails.
Switch ==
    /\ \E action \in {"switch-a", "forward", "wrong-key"} : Changes(action)
    /\ \/ /\ cmd.action # "wrong-key" /\ config.policy = "fixture"
          /\ disk.fixture # "none" /\ Source # dep.booted
          /\ Spends /\ dep' = [dep EXCEPT !.staged = Source]
          /\ cmd' = [cmd EXCEPT !.step = "confirm", !.ok = TRUE]
       \/ /\ cmd' = [cmd EXCEPT !.step = "confirm"]
          /\ UNCHANGED <<dep, spent>>
    /\ UNCHANGED <<etc, disk, fault, env, phase, boots>>

\* bootc turns the entries, whichever is first.
Rollback ==
    /\ Changes("rollback") /\ dep.second # "none"
    /\ Turned /\ Spends
    /\ cmd' = [cmd EXCEPT !.step = "confirm", !.ok = TRUE]
    /\ UNCHANGED <<etc, disk, env, phase, boots>>

\* Did the switch do as its case wants: a rejection that changed nothing, or the
\* image staged?
Observed ==
    CASE cmd.action = "wrong-key"               -> ~cmd.ok /\ dep = cmd.read
      [] cmd.action \in {"switch-a", "forward"} -> cmd.ok /\ dep.staged = Source
      [] OTHER                                  -> TRUE

\* The state after it, and the user's data: created by a provision, verified by all.
Confirm ==
    /\ cmd.step = "confirm" /\ Reachable /\ Observed
    /\ disk' = [disk EXCEPT !.sentinel = @ \/ cmd.action \in {"provision", "provision-a"}]
    /\ CommandEnds
    /\ UNCHANGED <<dep, etc, fault, env, phase, boots, spent>>

(***************************************************************************)
(* Recovery.                                                                *)
(***************************************************************************)

\* One unit each, which finds again what its host read.
HealthyPair ==
    /\ cmd.step = "idle" /\ Reachable
    /\ dep.booted = "a" /\ dep.second # "none" /\ dep.staged = "none"

\* The exact newline over the exact file that was read.
RepairGrub ==
    /\ HealthyPair /\ disk.grub = "broken"
    /\ disk' = [disk EXCEPT !.grub = "repaired"]
    /\ Spends
    /\ UNCHANGED <<dep, etc, fault, env, phase, boots, cmd>>

\* The observer and its drop-ins, GDM's before the health check's: armed once.
ArmGdm ==
    /\ HealthyPair /\ config.armed = "none"
    /\ \E armed \in {"half", "whole"} : etc' = [etc EXCEPT !["a"].armed = armed]
    /\ Spends
    /\ UNCHANGED <<dep, disk, fault, env, phase, boots, cmd>>

OneRetry == 1

\* One retry over the two of the older configuration.
RetryConfig ==
    /\ HealthyPair /\ config.retries = 2
    /\ etc' = [etc EXCEPT !["a"].retries = OneRetry]
    /\ Spends
    /\ UNCHANGED <<dep, disk, fault, env, phase, boots, cmd>>

\* The request to reboot ends the connection that made it.
RebootGuest ==
    /\ Changes("reboot")
    /\ ShutDown(env) /\ CommandEnds
    /\ UNCHANGED <<disk, boots, spent>>

\* The boots whose observer the journal shows, of an image.
Shown(image) == {i \in 1..now : boots[i].image = image /\ boots[i].watched /\ boots[i].kept >= 1}

\* The fallback's last failed boot, and the healthy boot that followed.
Latest(set)  == CHOOSE i \in set : \A j \in set : j <= i
Earliest(set) == CHOOSE i \in set : \A j \in set : i <= j

\* Mutant of RollbackSeen: any boot after the failures is their fallback.
RollbackUnseen(boot) == TRUE

\* Does the journal show that greenboot rolled this boot back?
RollbackSeen(boot) == boot.kept = 3

\* The failed boots in order, with absent, then falling counters; a rollback in the
\* last; a healthy boot of A after a failure, and no return to B.
Complete ==
    LET bad  == Shown("b")
        good == {i \in Shown("a") : \E j \in bad : j < i}
        n    == Cardinality(bad)
    IN  /\ bad # {} /\ good # {}
        /\ \A i \in bad :
              /\ boots[i].kept >= 2 /\ boots[i].cleared /\ boots[i].next = "b"
              /\ i < Earliest(good)
              /\ LET k == Cardinality({j \in bad : j <= i})
                 IN  boots[i].counter = IF k = 1 THEN Absent ELSE n - k
        /\ LET g == boots[Earliest(good)] IN g.kept >= 2 /\ BootPassed(g)
        /\ RollbackSeen(boots[Latest(bad)])

\* What a collection says: one unit reads the journal, and the host judges it.
Collected ==
    IF ~Complete THEN "BLOCKED"
    ELSE IF Cardinality(Shown("b")) = 2 THEN "PASS" ELSE "LIMIT"

(***************************************************************************)
(* The faulty initramfs: one unit each.                                     *)
(***************************************************************************)

\* B finalised and pending, A booted, the fallback armed and no count begun, and no
\* entry that names the fault already.
Armed ==
    /\ dep.booted = "a" /\ dep.first = "b" /\ dep.second = "a" /\ dep.staged = "none"
    /\ env.next = "b" /\ env.counter = Absent /\ fault = "none"

\* Mutant of Isolated: the entries' directories are not compared.
SharedTaken == TRUE

Isolated == disk.isolated

\* The inspection is made again in the unit, which stops unless it finds what was
\* reviewed: the reviewed plan is the present one.  Then B's entry is replaced.
Inject ==
    /\ cmd.step = "idle" /\ Reachable
    /\ Armed /\ Isolated
    /\ fault' = "b" /\ Spends
    /\ UNCHANGED <<dep, etc, disk, env, phase, boots, cmd>>

OperationsNext ==
    \/ PowerOn \/ Watch \/ HealthCheck \/ Retry \/ FallBack \/ PowerCut \/ Reboot \/ Finalise
    \/ BeginCommand \/ GivesUp \/ Provision \/ Switch \/ Rollback \/ Confirm \/ RepairGrub
    \/ ArmGdm \/ RetryConfig \/ RebootGuest \/ Inject

OperationsSpec == OperationsInit /\ [][OperationsNext]_operationsVars

(***************************************************************************)
(* Properties.                                                              *)
(***************************************************************************)

\* A collected verdict stands for what happened, not only for what the journal kept: B
\* failed by the injected fault, greenboot rolled the last failed boot back, and what the
\* guest booted from there to the A that passed its own check was A, apart from boots the
\* journal has nothing of; and a PASS, as long as power was not lost, for two boots of B,
\* its limit.  Boots whose journal was cut, half armed guests, rollbacks an operator asked
\* for and entries an operator picked must not add up to one (gdmfallback.evaluate).
FallbackIsReal ==
    Reachable /\ Collected # "BLOCKED" =>
        LET bad == {i \in 1..now : boots[i].image = "b" /\ boots[i].broken}
        IN  \E last \in bad, good \in 1..now :
                /\ last < good /\ boots[last].went = 3
                /\ boots[good].image = "a" /\ BootPassed(boots[good])
                /\ \A i \in (last + 1)..good : boots[i].image = "a" \/ boots[i].kept = 0
                /\ Collected = "PASS" /\ spent.upsets = 0 => Cardinality(bad) = 2

\* The way back boots: a fault laid on B's entry is never met by a boot of A, whatever
\* rollbacks, rescues and updates turn the entries afterwards (require_isolated).
WayBackBoots == phase = "stuck" => dep.booted = "b"

\* The policy a guest takes updates by is the fixture's only once every file of the
\* fixture was verified, wherever a provision stops and whichever deployment inherits
\* it; a guest installed with A came with it (update_provision_unit).
PolicyOnlyVerified ==
    (config.policy = "fixture" /\ "parent" \in {dep.first, dep.second}) =>
        disk.fixture = "whole"

(***************************************************************************)
(* The inductive invariant behind the properties.                           *)
(***************************************************************************)

\* What a guest keeps from boot to boot has its type: a staged image is never the
\* parent, and the configuration an entry inherits is a configuration.
GuestTypes ==
    /\ dep \in [first : Slots, second : Slots, booted : Images, staged : Slots \ {"parent"}]
    /\ etc \in [Images -> [policy : {"bootstrap", "fixture"}, armed : {"none", "half", "whole"},
                           retries : 1..2]]
    /\ disk \in [fixture : {"none", "partial", "whole"}, sentinel : BOOLEAN,
                 grub : {"broken", "repaired"}, isolated : BOOLEAN]

\* The fault is laid on entries of their own only, so that no turn of the order moves it
\* away from B, and a boot that is stuck met it there.
WayInv ==
    /\ fault \in {"none", "b"}
    /\ fault = "b" => disk.isolated
    /\ phase = "stuck" => dep.booted = "b"

\* The booted deployment keeps an entry, so the parent is gone for good with its last
\* one; as long as it is there, no deployment has the fixture's policy before the
\* fixture is whole, booted or not: a staged one inherits it, a fallback returns to it.
PolicyInv ==
    /\ dep.booted \in {dep.first, dep.second}
    /\ "parent" \in {dep.first, dep.second} =>
          disk.fixture = "whole" \/ \A i \in Images : etc[i].policy = "bootstrap"

BootRecords ==
    [image : Images, counter : 0..Absent, cleared : BOOLEAN, next : Slots,
     watched : BOOLEAN, broken : BOOLEAN, went : 0..3, kept : 0..3]

Environments == [counter : 0..Absent, success : BOOLEAN, next : Slots]

\* The boots and what GRUB remembers of them have their types.
BootTypes ==
    /\ env \in Environments
    /\ boots \in Seq(BootRecords) /\ now >= 1
    /\ phase \in {"starting", "stuck", "watched", "rejected", "up", "down"} 
    /\ spent \in [changes : Nat, upsets : Nat]

\* A guest is armed once, in A, and B has it from A: what B is armed with once it is at
\* all, it keeps, and A has the same.
ArmedInv ==
    /\ etc["parent"].armed = "none"
    /\ etc["b"].armed # "none" =>
          etc["a"].armed = etc["b"].armed /\ "parent" \notin {dep.first, dep.second}

\* A boot fails by the fault B is armed with, and its observer shows it when B is wholly
\* armed; from the first on each boot of B fails, and the parent is gone.  The journal
\* keeps no more than happened, and all of it while power stays.
HistoryInv ==
    /\ \A i \in 1..now :
          LET boot == boots[i] IN
          /\ boot.kept <= boot.went
          /\ boot.broken => boot.image = "b"
          /\ boot.image = "b" /\ boot.watched => boot.broken
          /\ boot.broken => etc["b"].armed = IF boot.watched THEN "whole" ELSE "half"
          /\ boot.broken => \A j \in i..now :
                boots[j].image # "parent" /\ (boots[j].image = "b" => boots[j].broken)
    /\ spent.upsets = 0 => \A i \in 1..now :
          /\ boots[i].kept = boots[i].went
          /\ boots[i].went = 0 => i = now /\ phase \in {"starting", "stuck"}

OperationsInv == GuestTypes /\ WayInv /\ PolicyInv
HistoriesInv  == OperationsInv /\ BootTypes /\ ArmedInv /\ HistoryInv
=============================================================================
