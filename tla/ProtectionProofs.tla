-------------------------- MODULE ProtectionProofs --------------------------
(* What holds of the disk protection for every set of nodes and every bound. *)
EXTENDS Protection, TLAPS

LEMMA NodesTyped == ASSUME TypeOK, [Next]_vars PROVE NodesOK'
<1> USE DEF TypeOK, NodesOK, BootOK, Nodes
<1>1. CASE Plug
  BY <1>1, ProtectionAssumption DEF Plug
<1>2. CASE Boot
  BY <1>2 DEF Boot, Resume, VerifyBegins, CheckBegins, Begin,
     VerifyEnds, CheckEnds, Protect, Guarded, GuardFails
<1>3. CASE Lock
  BY <1>3, ProtectionAssumption DEF Lock, LockStart, Settle, StopQueue, SetWritable,
     DeniedGuard, Restore, StartQueue, LockKilled, LockAlone, Guarded, GuardFails
<1>4. CASE Denial
  BY <1>4 DEF Denial, DenialStart, ReadNode, Attempt, DenialGoes
<1>5. ASSUME NEW n \in Nodes, Handle(n) PROVE NodesOK'
  BY <1>5 DEF Handle, Guarded, GuardFails
<1>6. CASE UNCHANGED vars
  BY <1>6 DEF vars
<1>7. CASE Unplug
  <2>1. ro' = [n \in Nodes |-> IF n \in Usb THEN "absent" ELSE ro[n]]
    BY <1>7 DEF Unplug
  <2>2. \A n \in Nodes : (IF n \in Usb THEN "absent" ELSE ro[n]) \in {"absent", "0", "1"}
    OBVIOUS
  <2>3. ro' \in [Nodes -> {"absent", "0", "1"}]
    BY <2>1, <2>2, Zenon
  <2> QED
    BY <1>7, <2>3 DEF Unplug
<1>8. ASSUME NEW n \in Usb, Appear(n) PROVE NodesOK'
  BY <1>8 DEF Appear
<1> QED
  BY <1>1, <1>2, <1>3, <1>4, <1>5, <1>6, <1>7, <1>8 DEF Next, Device

LEMMA BootTyped == ASSUME TypeOK, [Next]_vars PROVE BootOK'
<1> USE DEF TypeOK, BootOK, Nodes, Phases
<1>1. CASE Device
  BY <1>1 DEF Device, Plug, Unplug, Appear
<1>2. CASE Boot
  BY <1>2 DEF Boot, Resume, VerifyBegins, CheckBegins, Begin, VerifyEnds, CheckEnds, Protect
<1>3. CASE Lock
  BY <1>3 DEF Lock, LockStart, Settle, StopQueue, SetWritable,
     DeniedGuard, Restore, StartQueue, LockKilled, LockAlone
<1>4. CASE Denial
  BY <1>4 DEF Denial, DenialStart, ReadNode, Attempt, DenialGoes
<1>5. ASSUME NEW n \in Nodes, Handle(n) PROVE BootOK'
  BY <1>5 DEF Handle
<1>6. CASE UNCHANGED vars
  BY <1>6 DEF vars
<1> QED
  BY <1>1, <1>2, <1>3, <1>4, <1>5, <1>6 DEF Next

LEMMA LockTyped == ASSUME TypeOK, [Next]_vars PROVE LockOK'
<1> USE DEF TypeOK, LockOK, LockSteps
<1>1. CASE Lock
  <2>1. CASE DeniedGuard
    BY <2>1, Zenon DEF DeniedGuard, LockIs
  <2>2. CASE Restore
    BY <2>2 DEF Restore, LockIs
  <2> QED
    BY <1>1, <2>1, <2>2 DEF Lock, LockStart, Settle, StopQueue, SetWritable, StartQueue,
       LockKilled, LockGoes, NoLock
<1>2. CASE UNCHANGED lock
  BY <1>2
<1> QED
  BY <1>1, <1>2 DEF Next, vars, Device, Plug, Unplug, Appear, Boot, Resume, VerifyBegins,
     CheckBegins, Begin, VerifyEnds, CheckEnds, Protect, Handle, Denial, DenialStart,
     ReadNode, Attempt, DenialGoes

LEMMA ZeroLives == 0 \in 0..MaxLives
BY ProtectionAssumption

DenialRecords ==
    [step : {"idle", "take", "look", "write", "ended"}, unread : SUBSET Usb,
     since : 0..MaxLives, under : 0..MaxLives, answer : [Usb -> Answers],
     status : {"none", "PASS", "NOT PASS"}]

LEMMA NoDenialTyped == NoDenial \in DenialRecords
<1> DEFINE unanswered == [n \in Usb |-> "none"]
<1>1. unanswered \in [Usb -> Answers]
  <2>1. "none" \in Answers
    BY DEF Answers
  <2> QED
    BY <2>1, Zenon
<1>2. NoDenial = [step |-> "idle", unread |-> {}, since |-> 0, under |-> 0,
                  answer |-> unanswered, status |-> "none"]
  BY DEF NoDenial
<1> HIDE DEF unanswered
<1> QED
  BY <1>1, <1>2, ZeroLives DEF DenialRecords

\* What one node read, and one write, make of the fault's record.
LEMMA ReadFields ==
    ASSUME TypeOK, NEW n \in Usb, ReadNode(n), AsInventoried(n)
    PROVE  /\ denial' \in DenialRecords
           /\ denial.step \in {"take", "look"} /\ denial'.step \in {"take", "look", "write"}
           /\ denial'.answer = denial.answer /\ denial'.status = denial.status
           /\ denial'.since = IF denial.unread = Usb THEN life ELSE denial.since
           /\ \/ denial'.unread = denial.unread \ {n}
              \/ denial'.unread = Usb
           /\ denial'.step = "write" => denial'.unread = {}
           /\ UNCHANGED <<ro, life, plugged>>
<1> DEFINE left == denial.unread \ {n}
           since == IF denial.unread = Usb THEN life ELSE denial.since
           read == [denial EXCEPT !.unread = left, !.since = since]
<1>1. denial \in DenialRecords /\ life \in 0..MaxLives
  BY DEF TypeOK, DenialOK, DenialRecords, NodesOK
<1>2. /\ denial' = IF left # {} THEN read
                   ELSE IF denial.step = "look" THEN [read EXCEPT !.step = "write"]
                   ELSE [read EXCEPT !.step = "look", !.unread = Usb]
      /\ denial.step \in {"take", "look"} /\ UNCHANGED <<ro, life, plugged>>
  BY DEF ReadNode, DenialGoes
<1>3. left \in SUBSET Usb /\ since \in 0..MaxLives
  BY <1>1 DEF DenialRecords
<1> HIDE DEF left, since
<1>4. CASE left # {}
  <2>1. denial' = [denial EXCEPT !.unread = left, !.since = since]
    BY <1>2, <1>4
  <2> QED
    BY <1>1, <1>2, <1>3, <2>1 DEF DenialRecords, left, since
<1>5. CASE left = {} /\ denial.step = "look"
  <2>1. denial' = [denial EXCEPT !.unread = left, !.since = since, !.step = "write"]
    BY <1>1, <1>2, <1>5 DEF DenialRecords
  <2> QED
    BY <1>1, <1>2, <1>3, <1>5, <2>1 DEF DenialRecords, left, since
<1>6. CASE left = {} /\ denial.step = "take"
  <2>1. denial' = [denial EXCEPT !.unread = Usb, !.since = since, !.step = "look"]
    BY <1>1, <1>2, <1>6 DEF DenialRecords
  <2> QED
    BY <1>1, <1>2, <1>3, <1>6, <2>1 DEF DenialRecords, left, since
<1> QED
  BY <1>2, <1>4, <1>5, <1>6

LEMMA AttemptFields ==
    ASSUME TypeOK, NEW n \in Usb, Attempt(n), Present(n)
    PROVE  \E answer \in {"other", IF ro[n] = "1" THEN "denied" ELSE "wrote"} :
             LET over == StatusOf(answer) # "PASS" \/ Unwritten = {n}
             IN  /\ denial' \in DenialRecords
                 /\ denial'.answer = [denial.answer EXCEPT ![n] = answer]
                 /\ denial'.under = life /\ denial'.since = denial.since
                 /\ over => /\ denial'.step = "ended"
                            /\ denial'.status = Overall(denial'.answer)
                 /\ ~over => /\ denial'.step = "look" /\ denial'.unread = Usb
                             /\ denial'.status = denial.status
<1>1. PICK answer \in {"other", IF ro[n] = "1" THEN "denied" ELSE "wrote"} :
        LET d == [denial EXCEPT !.answer[n] = answer, !.under = life]
        IN  denial' = IF StatusOf(answer) # "PASS" \/ Unwritten = {n}
                      THEN [d EXCEPT !.step = "ended", !.status = Overall(d.answer)]
                      ELSE [d EXCEPT !.step = "look", !.unread = Usb]
  BY DEF Attempt, DenialGoes
<1> DEFINE over == StatusOf(answer) # "PASS" \/ Unwritten = {n}
           answers == [denial.answer EXCEPT ![n] = answer]
           d == [denial EXCEPT !.answer[n] = answer, !.under = life]
           result == Overall(answers)
<1>2. denial \in DenialRecords /\ life \in 0..MaxLives /\ answer \in Answers
  BY <1>1 DEF TypeOK, DenialOK, DenialRecords, NodesOK, Answers
<1>3. answers \in [Usb -> Answers]
  BY <1>2 DEF DenialRecords
<1>4. d = [denial EXCEPT !.answer = answers, !.under = life]
  BY <1>2 DEF DenialRecords
<1>5. result \in {"PASS", "NOT PASS"}
  BY DEF Overall
<1>6. d.answer = answers /\ d \in DenialRecords
  <2> HIDE DEF answers, d
  <2> QED
    BY <1>2, <1>3, <1>4 DEF DenialRecords
<1>7. denial' = IF over THEN [d EXCEPT !.step = "ended", !.status = Overall(d.answer)]
                ELSE [d EXCEPT !.step = "look", !.unread = Usb]
  BY <1>1
<1>8. denial' = IF over THEN [d EXCEPT !.step = "ended", !.status = result]
                ELSE [d EXCEPT !.step = "look", !.unread = Usb]
  <2> HIDE DEF answers, d, over
  <2> QED
    BY <1>6, <1>7
<1>9. d.under = life /\ d.since = denial.since /\ d.status = denial.status
  <2> HIDE DEF answers, d
  <2> QED
    BY <1>2, <1>4 DEF DenialRecords
<1>10. CASE over
  <2>1. denial' = [d EXCEPT !.step = "ended", !.status = result]
    BY <1>8, <1>10
  <2> HIDE DEF answers, d, over, result
  <2>2. /\ denial' \in DenialRecords /\ denial'.answer = answers /\ denial'.under = life
        /\ denial'.since = denial.since /\ denial'.step = "ended" /\ denial'.status = result
    BY <1>5, <1>6, <1>9, <2>1 DEF DenialRecords
  <2>3. denial'.status = Overall(denial'.answer)
    BY <2>2 DEF result
  <2> QED
    BY <1>1, <1>10, <2>2, <2>3 DEF over, answers
<1>11. CASE ~over
  <2>1. denial' = [d EXCEPT !.step = "look", !.unread = Usb]
    BY <1>8, <1>11
  <2> HIDE DEF answers, d, over, result
  <2>2. /\ denial' \in DenialRecords /\ denial'.answer = answers /\ denial'.under = life
        /\ denial'.since = denial.since /\ denial'.step = "look" /\ denial'.unread = Usb
        /\ denial'.status = denial.status
    BY <1>6, <1>9, <2>1 DEF DenialRecords
  <2> QED
    BY <1>1, <1>11, <2>2 DEF over, answers
<1> QED
  BY <1>10, <1>11

\* Only these steps touch the fault of the denied writes.
LEMMA DenialSteps ==
    ASSUME [Next]_vars
    PROVE  DenialStart \/ (\E n \in Usb : ReadNode(n) \/ Attempt(n)) \/ UNCHANGED denial
BY DEF Next, vars, Device, Plug, Unplug, Appear, Boot, Resume, VerifyBegins, CheckBegins,
   Begin, VerifyEnds, CheckEnds, Protect, Handle, Denial, Lock, LockStart, Settle,
   StopQueue, SetWritable, DeniedGuard, Restore, StartQueue, LockKilled, LockAlone

LEMMA Ending == ASSUME TypeOK, denial' = [denial EXCEPT !.step = "ended"]
                PROVE  /\ denial' \in DenialRecords /\ denial'.step = "ended"
                       /\ denial'.status = denial.status /\ denial'.answer = denial.answer
                       /\ denial'.since = denial.since /\ denial'.under = denial.under
BY DEF TypeOK, DenialOK, DenialRecords

LEMMA Starting == ASSUME DenialStart
                  PROVE  /\ denial' \in DenialRecords /\ denial'.step = "take"
                         /\ denial'.unread = Usb /\ denial'.since = 0
                         /\ denial'.status = "none"
                         /\ \A n \in Usb : denial'.answer[n] = "none"
<1>1. denial' = [NoDenial EXCEPT !.step = "take", !.unread = Usb]
  BY DEF DenialStart, DenialGoes
<1>2. /\ NoDenial.since = 0 /\ NoDenial.status = "none"
      /\ \A n \in Usb : NoDenial.answer[n] = "none"
  BY DEF NoDenial
<1> QED
  BY <1>1, <1>2, NoDenialTyped DEF DenialRecords

LEMMA DenialTyped == ASSUME TypeOK, [Next]_vars PROVE DenialOK'
<1>1. ASSUME NEW n \in Usb, ReadNode(n), ~AsInventoried(n) PROVE denial' \in DenialRecords
  BY <1>1, Ending DEF ReadNode, DenialGoes
<1>2. ASSUME NEW n \in Usb, Attempt(n), ~Present(n) PROVE denial' \in DenialRecords
  BY <1>2, Ending DEF Attempt, DenialGoes
<1>3. ASSUME UNCHANGED denial PROVE denial' \in DenialRecords
  BY <1>3 DEF TypeOK, DenialOK, DenialRecords
<1>4. ASSUME NEW n \in Usb, ReadNode(n) PROVE denial' \in DenialRecords
  <2>1. CASE AsInventoried(n)
    BY <1>4, <2>1, ReadFields
  <2> QED
    BY <1>1, <1>4, <2>1
<1>5. ASSUME NEW n \in Usb, Attempt(n) PROVE denial' \in DenialRecords
  <2>1. CASE Present(n)
    BY <1>5, <2>1, AttemptFields
  <2> QED
    BY <1>2, <1>5, <2>1
<1>6. denial' \in DenialRecords
  <2>1. CASE DenialStart
    BY <2>1, Starting
  <2>2. DenialStart \/ (\E n \in Usb : ReadNode(n) \/ Attempt(n)) \/ UNCHANGED denial
    BY DenialSteps
  <2> QED
    BY <1>3, <1>4, <1>5, <2>1, <2>2, Zenon
<1> QED
  BY <1>6 DEF DenialOK, DenialRecords

\* The state keeps its types: every flag, event and answer is one of those the guard, the
\* boot and the two faults know.
THEOREM TypeCorrect == Spec => []TypeOK
<1>1. Init => TypeOK
  <2> SUFFICES ASSUME Init PROVE TypeOK
    OBVIOUS
  <2>1. NodesOK
    <3>1. ro = [n \in Nodes |-> IF n \in Board THEN "0" ELSE "absent"]
      BY DEF Init
    <3>2. \A n \in Nodes : (IF n \in Board THEN "0" ELSE "absent") \in {"absent", "0", "1"}
      OBVIOUS
    <3>3. ro \in [Nodes -> {"absent", "0", "1"}]
      BY <3>1, <3>2, Zenon
    <3>4. life = 0 /\ plugged = FALSE /\ events = Board /\ queue = TRUE
      BY Zenon DEF Init
    <3>5. life \in 0..MaxLives
      BY <3>4, ProtectionAssumption
    <3>6. events \subseteq Nodes
      BY <3>4 DEF Nodes
    <3>7. plugged \in BOOLEAN /\ queue \in BOOLEAN
      BY <3>4
    <3> QED
      BY <3>3, <3>5, <3>6, <3>7, Zenon DEF NodesOK
  <2>2. BootOK
    BY DEF Init, BootOK, Phases
  <2>3. LockOK
    BY DEF Init, LockOK, NoLock, LockSteps
  <2>4. DenialOK
    BY NoDenialTyped DEF Init, DenialOK, DenialRecords
  <2> QED
    BY <2>1, <2>2, <2>3, <2>4 DEF TypeOK
<1>2. TypeOK /\ [Next]_vars => TypeOK'
  BY NodesTyped, BootTyped, LockTyped, DenialTyped DEF TypeOK
<1> QED
  BY <1>1, <1>2, PTL DEF Spec

-----------------------------------------------------------------------------
\* From the verification the desktop waits for on, udev runs, and a node that can be
\* written is still to be verified, still to be handled, or has left the latch.
Watched ==
    /\ phase \in {"root", "checking", "desktop"} => queue
    /\ phase \in {"checking", "desktop"} =>
         \A n \in Nodes : ro[n] = "0" => n \in events \/ latch \/ (phase = "checking" /\ n \in todo)

LEMMA WatchedKept == ASSUME TypeOK, Watched, [Next]_vars PROVE Watched'
<1> USE DEF Watched, TypeOK, NodesOK, BootOK, Nodes, Phases
<1>1. CASE Device
  BY <1>1 DEF Device, Plug, Unplug, Appear
<1>2. CASE Boot
  BY <1>2 DEF Boot, Resume, VerifyBegins, CheckBegins, Begin, Present,
     VerifyEnds, CheckEnds, Protect, Guarded, GuardFails, Verifying
<1>3. CASE Lock
  BY <1>3 DEF Lock, LockStart, Settle, StopQueue, SetWritable, DeniedGuard, Restore,
     StartQueue, LockKilled, LockIs, LockAlone
<1>4. CASE Denial
  BY <1>4 DEF Denial, DenialStart, ReadNode, Attempt, DenialGoes
<1>5. ASSUME NEW n \in Nodes, Handle(n) PROVE Watched'
  BY <1>5 DEF Handle, Guarded, GuardFails
<1>6. CASE UNCHANGED vars
  BY <1>6 DEF vars
<1> QED
  BY <1>1, <1>2, <1>3, <1>4, <1>5, <1>6 DEF Next

\* Whatever comes and goes while the verification runs, and whatever the faults did before
\* it, a desktop that is up has no node that can be written and that nobody is to guard.
THEOREM DesktopIsProtected == Spec => []DesktopOnlyProtected
<1>1. Init => Watched
  BY DEF Init, Watched
<1>2. TypeOK /\ Watched /\ [Next]_vars => Watched'
  BY WatchedKept
<1>3. Watched => DesktopOnlyProtected
  BY DEF Watched, DesktopOnlyProtected
<1> QED
  BY <1>1, <1>2, <1>3, TypeCorrect, PTL DEF Spec

-----------------------------------------------------------------------------
\* The fault runs at the breakpoint alone, and a denial leaves the latch, which no step of
\* the boot removes and every verification looks for.
LatchedBoot ==
    /\ lock.step \notin {"idle", "ended"} => phase = "break"
    /\ lock.denied => latch /\ phase \in {"break", "initrd", "refused"}

LEMMA LatchedBootKept == ASSUME TypeOK, LatchedBoot, [Next]_vars PROVE LatchedBoot'
<1> USE DEF LatchedBoot, TypeOK, BootOK, LockOK, LockSteps, Phases
<1>1. CASE Device
  BY <1>1 DEF Device, Plug, Unplug, Appear
<1>2. CASE Boot
  BY <1>2 DEF Boot, Resume, Resting, VerifyBegins, CheckBegins, Begin,
     VerifyEnds, CheckEnds, Protect, Verifying
<1>3. CASE Lock
  BY <1>3 DEF Lock, LockStart, Settle, StopQueue, SetWritable, DeniedGuard, Restore,
     StartQueue, LockKilled, LockIs, LockGoes, LockAlone, NoLock, Resting, Guarded, GuardFails
<1>4. CASE Denial
  BY <1>4 DEF Denial, DenialStart, ReadNode, Attempt, DenialGoes
<1>5. ASSUME NEW n \in Nodes, Handle(n) PROVE LatchedBoot'
  BY <1>5 DEF Handle
<1>6. CASE UNCHANGED vars
  BY <1>6 DEF vars
<1> QED
  BY <1>1, <1>2, <1>3, <1>4, <1>5, <1>6 DEF Next

\* A denied lock that passed is a boot that never mounts a root.
THEOREM PassedLockRefusesBoot == Spec => []DenialRefusesBoot
<1>1. Init => LatchedBoot
  BY DEF Init, LatchedBoot, NoLock
<1>2. TypeOK /\ LatchedBoot /\ [Next]_vars => LatchedBoot'
  BY LatchedBootKept
<1>3. LatchedBoot => DenialRefusesBoot
  BY DEF LatchedBoot, DenialRefusesBoot, LockPassed
<1> QED
  BY <1>1, <1>2, <1>3, TypeCorrect, PTL DEF Spec

-----------------------------------------------------------------------------
\* While the fault goes on, every write so far was denied; a node read since the disk was
\* last plugged is read-only for as long as the disk stays; and a write follows the
\* reading of them all.
DenialInv ==
    /\ ~plugged => \A n \in Usb : ro[n] = "absent"
    /\ denial.since <= life
    /\ denial.step # "ended" =>
         denial.status = "none" /\ \A n \in Usb : denial.answer[n] \in {"none", "denied"}
    /\ denial.step \in {"take", "look", "write"} /\ denial.since = life =>
         \A n \in Usb \ denial.unread : ro[n] = IF plugged THEN "1" ELSE "absent"
    /\ denial.step = "write" => denial.unread = {}
    /\ DenialIsTotal

LEMMA LivesAreNat == 0..MaxLives \subseteq Nat
BY ProtectionAssumption

LEMMA LifeIsNat == ASSUME TypeOK PROVE life \in Nat /\ denial.since \in Nat
<1>1. life \in 0..MaxLives /\ denial.since \in 0..MaxLives
  BY DEF TypeOK, NodesOK, DenialOK
<1> QED
  BY <1>1, LivesAreNat

\* What the rest of the system does to the disk while the fault is at rest.
LEMMA DisksKept == ASSUME TypeOK, DenialInv, [Next]_vars, UNCHANGED denial PROVE DenialInv'
<1> USE DEF DenialInv, DenialIsTotal
<1>0. ro \in [Nodes -> {"absent", "0", "1"}] /\ Usb \subseteq Nodes /\ Target \notin Usb
  BY ProtectionAssumption DEF TypeOK, NodesOK, Nodes
<1>1. CASE Plug
  BY <1>1, LifeIsNat DEF Plug
<1>2. CASE Unplug
  <2>1. \A n \in Usb : ro'[n] = "absent"
    BY <1>0, <1>2 DEF Unplug
  <2> QED
    BY <1>2, <2>1 DEF Unplug
<1>3. ASSUME NEW n \in Usb, Appear(n) PROVE DenialInv'
  BY <1>0, <1>3 DEF Appear, Present
<1>4. ASSUME UNCHANGED <<life, plugged>>,
             \/ UNCHANGED ro
             \/ \E n \in Nodes : ro[n] # "absent" /\ ro' = [ro EXCEPT ![n] = "1"]
             \/ \E f \in {"0", "1"} : ro' = [ro EXCEPT ![Target] = f]
      PROVE  DenialInv'
  BY <1>0, <1>4
<1>5. CASE Boot
  <2>1. /\ UNCHANGED <<life, plugged>>
        /\ UNCHANGED ro \/ \E n \in Nodes : ro[n] # "absent" /\ ro' = [ro EXCEPT ![n] = "1"]
    BY <1>5 DEF Boot, Resume, VerifyBegins, CheckBegins, Begin, VerifyEnds, CheckEnds,
       Protect, Guarded, GuardFails, Present
  <2> QED
    BY <1>4, <2>1
<1>6. CASE Lock
  <2>1. /\ UNCHANGED <<life, plugged>>
        /\ UNCHANGED ro \/ \E f \in {"0", "1"} : ro' = [ro EXCEPT ![Target] = f]
    BY <1>6 DEF Lock, LockStart, Settle, StopQueue, SetWritable, DeniedGuard, Restore,
       StartQueue, LockKilled, LockAlone, Guarded, GuardFails
  <2> QED
    BY <1>4, <2>1
<1>7. ASSUME NEW n \in Nodes, Handle(n) PROVE DenialInv'
  <2>1. /\ UNCHANGED <<life, plugged>>
        /\ UNCHANGED ro \/ (ro[n] # "absent" /\ ro' = [ro EXCEPT ![n] = "1"])
    BY <1>7 DEF Handle, Guarded, GuardFails, Present
  <2> QED
    BY <1>4, <2>1
<1>8. CASE UNCHANGED vars \/ Denial
  BY <1>4, <1>8 DEF vars, Denial, DenialStart, ReadNode, Attempt, DenialGoes
<1> QED
  BY <1>1, <1>2, <1>3, <1>5, <1>6, <1>7, <1>8 DEF Next, Device

LEMMA DenialInvKept == ASSUME TypeOK, DenialInv, [Next]_vars PROVE DenialInv'
<1> USE DEF DenialInv, DenialIsTotal
<1>1. CASE DenialStart
  BY <1>1, Starting, LifeIsNat DEF DenialStart, DenialGoes
<1>2. ASSUME NEW n \in Usb, ReadNode(n) PROVE DenialInv'
  <2>1. CASE ~AsInventoried(n)
    BY <1>2, <2>1, Ending DEF ReadNode, DenialGoes
  <2>2. CASE AsInventoried(n)
    <3>1. plugged /\ ro[n] = "1"
      BY <2>2 DEF AsInventoried
    <3>2. /\ denial.step \in {"take", "look"} /\ denial'.step \in {"take", "look", "write"}
          /\ denial'.answer = denial.answer /\ denial'.status = denial.status
          /\ denial'.since = IF denial.unread = Usb THEN life ELSE denial.since
          /\ denial'.unread = denial.unread \ {n} \/ denial'.unread = Usb
          /\ denial'.step = "write" => denial'.unread = {}
          /\ UNCHANGED <<ro, life, plugged>>
      BY <1>2, <2>2, ReadFields
    <3>3. denial'.since <= life'
      BY <3>2, LifeIsNat
    <3>4. ASSUME denial'.since = life', NEW m \in Usb \ denial'.unread
          PROVE  ro'[m] = IF plugged' THEN "1" ELSE "absent"
      BY <3>1, <3>2, <3>4
    <3>5. DenialIsTotal'
      BY <3>2
    <3> QED
      BY <3>1, <3>2, <3>3, <3>4, <3>5
  <2> QED
    BY <2>1, <2>2
<1>3. ASSUME NEW n \in Usb, Attempt(n) PROVE DenialInv'
  <2>1. CASE ~Present(n)
    BY <1>3, <2>1, Ending DEF Attempt, DenialGoes
  <2>2. CASE Present(n)
    <3>1. PICK answer \in {"other", IF ro[n] = "1" THEN "denied" ELSE "wrote"} :
            LET over == StatusOf(answer) # "PASS" \/ Unwritten = {n}
            IN  /\ denial'.answer = [denial.answer EXCEPT ![n] = answer]
                /\ denial'.under = life /\ denial'.since = denial.since
                /\ over => /\ denial'.step = "ended"
                           /\ denial'.status = Overall(denial'.answer)
                /\ ~over => /\ denial'.step = "look" /\ denial'.unread = Usb
                            /\ denial'.status = denial.status
      BY <1>3, <2>2, AttemptFields
    <3>2. /\ denial.step = "write" /\ denial.unread = {} /\ UNCHANGED <<ro, life, plugged>>
      BY <1>3 DEF Attempt, DenialGoes
    <3>3. \A a : StatusOf(a) = "PASS" => a = "denied"
      BY DEF StatusOf
    <3>4. /\ denial'.answer[n] = answer
          /\ \A m \in Usb \ {n} : /\ denial'.answer[m] = denial.answer[m]
                                  /\ denial'.answer[m] \in {"none", "denied"}
      BY <3>1, <3>2 DEF TypeOK, DenialOK
    <3>5. ASSUME answer = "wrote" PROVE denial'.since < denial'.under
      <4>1. ro[n] # "1" /\ ro[n] # "absent"
        BY <2>2, <3>1, <3>5 DEF Present
      <4>2. denial.since # life
        BY <3>2, <4>1
      <4> QED
        BY <3>1, <4>2, LifeIsNat
    <3>6. CASE StatusOf(answer) # "PASS" \/ Unwritten = {n}
      <4>1. denial'.step = "ended" /\ denial'.status = Overall(denial'.answer)
        BY <3>1, <3>6
      <4>2. denial'.status = "PASS" => \A m \in Usb : denial'.answer[m] = "denied"
        BY <3>3, <4>1 DEF Overall
      <4>3. DenialIsTotal'
        BY <3>4, <3>5, <4>2
      <4> QED
        BY <3>1, <3>2, <4>1, <4>3
    <3>7. CASE ~(StatusOf(answer) # "PASS" \/ Unwritten = {n})
      <4>1. answer = "denied"
        BY <3>3, <3>7
      <4>2. denial'.step = "look" /\ denial'.unread = Usb /\ denial'.status = "none"
        BY <3>1, <3>2, <3>7
      <4>3. DenialIsTotal'
        BY <3>4, <4>1, <4>2
      <4> QED
        BY <3>1, <3>2, <3>4, <4>1, <4>2, <4>3
    <3> QED
      BY <3>6, <3>7
  <2> QED
    BY <2>1, <2>2
<1> QED
  BY <1>1, <1>2, <1>3, DisksKept, DenialSteps

\* A PASS of the denied writes is a denial of every node, and a write that gets through
\* met a disk plugged anew since it was read: what is read-only stays so until then.
THEOREM DenialsAreTotal == Spec => []DenialIsTotal
<1>1. Init => DenialInv
  <2> SUFFICES ASSUME Init PROVE DenialInv
    OBVIOUS
  <2>1. /\ denial.step = "idle" /\ denial.status = "none" /\ denial.since = 0 /\ life = 0
        /\ \A n \in Usb : denial.answer[n] = "none"
    BY DEF Init, NoDenial
  <2>2. \A n \in Usb : ro[n] = "absent"
    BY ProtectionAssumption DEF Init, Nodes
  <2> QED
    BY <2>1, <2>2 DEF DenialInv, DenialIsTotal
<1>2. TypeOK /\ DenialInv /\ [Next]_vars => DenialInv'
  BY DenialInvKept
<1>3. DenialInv => DenialIsTotal
  BY DEF DenialInv
<1> QED
  BY <1>1, <1>2, <1>3, TypeCorrect, PTL DEF Spec

=============================================================================
