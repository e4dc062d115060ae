------------------------------ MODULE Pipeline ------------------------------
(* A plan of stages: its order derived from what the stages read and write,    *)
(* and one run of it.  Every recipe and command that acts in several steps is  *)
(* such a plan.                                                                *)
(*                                                                             *)
(* A behaviour is one plan, loaded and run once.  What a stage does inside is  *)
(* the stage's own; the run sees whether it advanced, skipped, refused, failed *)
(* or raised, the facts it looked up and wrote, and the finaliser it handed    *)
(* over.  A stage may declare that it reads a fact only to come after whoever  *)
(* writes it: the declaration orders the plan, and the run looks at it never   *)
(* again.  Stage ids are numbers, in the order of their names.                 *)
EXTENDS Naturals, Sequences, FiniteSets

CONSTANTS Stages, Facts, Checks,
          Attests     \* the checks each stage attests

ASSUME StagesAssumption == Stages \subseteq Nat /\ IsFiniteSet(Stages)
ASSUME AttestsAssumption == Attests \in [Stages -> SUBSET Checks]

VARIABLES
    \* the plan as declared
    reads, writes, seeds,
    \* the plan as ordered
    order,       \* stages placed so far
    layer,       \* stages of the current layer, not yet placed
    \* the run
    phase, verdicts, at,
    held,        \* facts in the map
    finalisers,  \* finalisers registered and not released, oldest first
    completed,   \* stages that advanced
    outcome,     \* how the run ended or is about to end
    \* history
    acquired,    \* stages that took a resource, in that order
    released,    \* stages whose finaliser was released, in that order
    looked,      \* the facts each stage that advanced looked up
    missing      \* the fact a stage looked up before any stage wrote it

plan == <<reads, writes, seeds>>
run  == <<verdicts, at, held, finalisers, completed>>
past == <<acquired, released, looked, missing>>
vars == <<plan, order, layer, phase, run, outcome, past>>

Phases    == {"load", "order", "preflight", "apply", "unwind", "ended"}
Outcomes  == {"none", "unloadable", "refused", "stopped", "raised", "succeeded",
              "interrupted"}
Preflights == {"ready", "skip", "refuse"}

TypeOK ==
    /\ reads \in [Stages -> SUBSET Facts]
    /\ writes \in [Stages -> SUBSET Facts]
    /\ seeds \subseteq Facts
    /\ order \in Seq(Stages)
    /\ layer \subseteq Stages
    /\ phase \in Phases
    /\ verdicts \in [Stages -> Preflights]
    /\ at \in Nat
    /\ held \subseteq Facts
    /\ finalisers \in Seq(Stages)
    /\ completed \subseteq Stages
    /\ outcome \in Outcomes
    /\ acquired \in Seq(Stages)
    /\ released \in Seq(Stages)
    /\ looked \in [Stages -> SUBSET Facts]
    /\ missing \subseteq Facts

Init ==
    /\ reads \in [Stages -> SUBSET Facts]
    /\ writes \in [Stages -> SUBSET Facts]
    /\ seeds \in SUBSET Facts
    /\ order = <<>> /\ layer = {}
    /\ phase = "load" /\ outcome = "none"
    /\ verdicts = [s \in Stages |-> "ready"]
    /\ at = 1 /\ held = {} /\ finalisers = <<>> /\ completed = {}
    /\ acquired = <<>> /\ released = <<>> /\ missing = {}
    /\ looked = [s \in Stages |-> {}]

(***************************************************************************)
(* Ordering: Plan.of.                                                       *)
(***************************************************************************)

Writers(f) == {s \in Stages : f \in writes[s]}

\* _producers: no fact is written by two stages.
OneProducerEach == \A f \in Facts : \A s, t \in Writers(f) : s = t

\* _dependencies: every fact read is a seed or has a producer ...
EveryReadProduced == \A s \in Stages : \A f \in reads[s] \ seeds : Writers(f) # {}

\* ... and the producers, other than the stage itself, are what it needs.
Needs(s) == {p \in Stages \ {s} : writes[p] \cap (reads[s] \ seeds) # {}}

Placed    == {order[i] : i \in DOMAIN order}
Remaining == Stages \ (Placed \cup layer)

\* Mutant of Unblocked: one of the stages it needs is enough.
UnblockedByAny ==
    {s \in Remaining : Needs(s) = {} \/ Needs(s) \cap Placed # {}}

Unblocked == {s \in Remaining : Needs(s) \subseteq Placed}

Load ==
    /\ phase = "load"
    /\ IF OneProducerEach /\ EveryReadProduced
       THEN phase' = "order" /\ outcome' = outcome
       ELSE phase' = "ended" /\ outcome' = "unloadable"
    /\ UNCHANGED <<plan, order, layer, run, past>>

\* Mutant of NextLayer: stages that depend on each other are not refused.
LayerWithoutRefusal ==
    /\ phase = "order" /\ layer = {} /\ Remaining # {}
    /\ layer' = Unblocked
    /\ UNCHANGED <<plan, phase, outcome, order, run, past>>

\* _topological: the next layer, or stages that depend on each other.
NextLayer ==
    /\ phase = "order" /\ layer = {} /\ Remaining # {}
    /\ layer' = Unblocked
    /\ IF Unblocked # {}
       THEN UNCHANGED <<phase, outcome>>
       ELSE phase' = "ended" /\ outcome' = "unloadable"
    /\ UNCHANGED <<plan, order, run, past>>

\* The stages of a layer, by name.
Place ==
    /\ phase = "order"
    /\ \E s \in layer :
          /\ \A t \in layer : s <= t
          /\ order' = Append(order, s)
          /\ layer' = layer \ {s}
    /\ UNCHANGED <<plan, phase, run, outcome, past>>

Ordered ==
    /\ phase = "order" /\ layer = {} /\ Remaining = {}
    /\ phase' = "preflight"
    /\ held' = seeds
    /\ UNCHANGED <<plan, order, layer, verdicts, at, finalisers, completed, outcome,
                   past>>

(***************************************************************************)
(* Running: preflight every stage, then apply them in order.                *)
(***************************************************************************)

\* Every stage is asked before any is applied; the first refusal ends the run.
Preflight(answers) ==
    /\ phase = "preflight"
    /\ verdicts' = answers
    /\ IF \E s \in Stages : answers[s] = "refuse"
       THEN phase' = "ended" /\ outcome' = "refused"
       ELSE phase' = "apply" /\ outcome' = outcome
    /\ UNCHANGED <<plan, order, layer, at, held, finalisers, completed, past>>

\* A preflight that acted through a planning port is a defect, raised at once.
PreflightActs ==
    /\ phase = "preflight"
    /\ phase' = "ended" /\ outcome' = "raised"
    /\ UNCHANGED <<plan, order, layer, run, past>>

\* The stage whose turn it is, when its preflight did not skip it.
Turn(s) == /\ phase = "apply" /\ at \in DOMAIN order
           /\ s = order[at] /\ verdicts[s] = "ready"

PreflightSkipped ==
    /\ phase = "apply" /\ at \in DOMAIN order
    /\ verdicts[order[at]] = "skip"
    /\ at' = at + 1
    /\ UNCHANGED <<plan, order, layer, phase, verdicts, held, finalisers, completed,
                   outcome, past>>

\* The stage looks up a fact the map does not hold.
LooksTooEarly(s, f) ==
    /\ Turn(s)
    /\ f \in reads[s] \ held
    /\ missing' = {f}
    /\ phase' = "unwind" /\ outcome' = "raised"
    /\ UNCHANGED <<plan, order, layer, run, acquired, released, looked>>

\* Mutant of LooksUp: an absent fact is nothing, as FactMap.get would have it.
LooksUpOrNothing(s, found) == found \subseteq reads[s]

\* What a stage that returns has looked up: some of what it declares, all of it in
\* the map.  A fact it declares and does not look up may be absent.
LooksUp(s, found) == found \subseteq reads[s] \cap held

\* Advance: the facts enter the map, then the finaliser is registered.
Advance(s, found, acquires) ==
    /\ Turn(s)
    /\ LooksUp(s, found)
    /\ acquired' = IF acquires THEN Append(acquired, s) ELSE acquired
    /\ IF writes[s] \cap held = {}
       THEN /\ held' = held \cup writes[s]
            /\ finalisers' = IF acquires THEN Append(finalisers, s) ELSE finalisers
            /\ completed' = completed \cup {s}
            /\ looked' = [looked EXCEPT ![s] = found]
            /\ at' = at + 1
            /\ UNCHANGED <<phase, outcome>>
       ELSE /\ phase' = "unwind" /\ outcome' = "raised"
            /\ UNCHANGED <<held, finalisers, completed, looked, at>>
    /\ UNCHANGED <<plan, order, layer, verdicts, released, missing>>

\* Skip: neither completed nor stopped.
Skip(s) ==
    /\ Turn(s)
    /\ at' = at + 1
    /\ UNCHANGED <<plan, order, layer, phase, verdicts, held, finalisers, completed,
                   outcome, past>>

\* Refuse or Fail stops the run; an exception of the stage, or the operator's
\* interrupt while it works, raises through it.
Stop(s, how) ==
    /\ Turn(s)
    /\ phase' = "unwind" /\ outcome' = how
    /\ UNCHANGED <<plan, order, layer, run, past>>

Finish ==
    /\ phase = "apply" /\ at \notin DOMAIN order
    /\ phase' = "unwind" /\ outcome' = "succeeded"
    /\ UNCHANGED <<plan, order, layer, run, past>>

\* Mutant of Release: the oldest finaliser first.
ReleaseOldest ==
    /\ phase = "unwind" /\ finalisers # <<>>
    /\ released' = Append(released, Head(finalisers))
    /\ finalisers' = Tail(finalisers)
    /\ UNCHANGED <<plan, order, layer, phase, verdicts, at, held, completed, outcome,
                   acquired, looked, missing>>

\* _unwind: the newest finaliser first; what a release raises is suppressed.
Release ==
    /\ phase = "unwind" /\ finalisers # <<>>
    /\ released' = Append(released, finalisers[Len(finalisers)])
    /\ finalisers' = SubSeq(finalisers, 1, Len(finalisers) - 1)
    /\ UNCHANGED <<plan, order, layer, phase, verdicts, at, held, completed, outcome,
                   acquired, looked, missing>>

\* An interrupt is no Exception: it leaves the unwinding where it is.
InterruptRelease ==
    /\ phase = "unwind" /\ finalisers # <<>>
    /\ phase' = "ended" /\ outcome' = "interrupted"
    /\ UNCHANGED <<plan, order, layer, run, past>>

Unwound ==
    /\ phase = "unwind" /\ finalisers = <<>>
    /\ phase' = "ended"
    /\ UNCHANGED <<plan, order, layer, run, outcome, past>>

Apply(s) ==
    \/ \E f \in Facts : LooksTooEarly(s, f)
    \/ \E found \in SUBSET Facts, acquires \in BOOLEAN : Advance(s, found, acquires)
    \/ Skip(s)
    \/ \E how \in {"stopped", "raised"} : Stop(s, how)

Next ==
    \/ Load \/ NextLayer \/ Place \/ Ordered
    \/ \E answers \in [Stages -> Preflights] : Preflight(answers)
    \/ PreflightActs \/ PreflightSkipped
    \/ \E s \in Stages : Apply(s)
    \/ Finish \/ Release \/ InterruptRelease \/ Unwound

Spec == Init /\ [][Next]_vars

\* The run is one thread that nothing else waits for.
FairSpec == Spec /\ WF_vars(Next)

\* attested_so_far: the checks an outcome reports as attested.
Attested == UNION {Attests[s] : s \in completed}

(***************************************************************************)
(* Properties.                                                              *)
(***************************************************************************)

\* The derived order has every stage once, and each fact a stage reads is a seed,
\* its own, or written by a stage placed before it; stages that depend on each
\* other are refused, and nothing else is once every fact has one producer.
Before(p, s) == \E i, j \in DOMAIN order : i < j /\ order[i] = p /\ order[j] = s

DependOnEachOther == \E ring \in SUBSET Stages :
                         ring # {} /\ \A s \in ring : Needs(s) \cap ring # {}

OrderIsSound ==
    /\ phase \in {"preflight", "apply", "unwind"} =>
          /\ Placed = Stages
          /\ \A i, j \in DOMAIN order : order[i] = order[j] => i = j
          /\ \A s \in Stages : \A p \in Needs(s) : Before(p, s)
    /\ outcome = "unloadable" =>
          ~OneProducerEach \/ ~EveryReadProduced \/ DependOnEachOther

\* A fact looked up before any stage wrote it is a surprise part way through a run:
\* it takes a stage that reads what it writes itself, or a producer that was skipped.
SurprisesExplained ==
    \A f \in missing : \A p \in Writers(f) :
        p \notin completed /\ (p = order[at] \/ Before(p, order[at]))

\* However a run ends, refused, failed or raised, every resource a stage took is
\* released once, newest first; what is left over was cut off by an interrupt
\* during the unwinding, or is of the one stage whose facts the map refused.
UnwoundInReverse ==
    /\ \A i \in DOMAIN released :
          \E j \in DOMAIN acquired :
              /\ released[i] = acquired[j]
              /\ \A k \in DOMAIN released : k < i =>
                    \E l \in DOMAIN acquired : j < l /\ released[k] = acquired[l]
    /\ phase = "ended" /\ outcome # "interrupted" =>
          \/ Len(released) = Len(acquired)
          \/ /\ Len(released) + 1 = Len(acquired)
             /\ outcome = "raised"
             /\ writes[acquired[Len(acquired)]] \cap held # {}

\* Whatever a stage that attests looked up was a seed or written by a stage that
\* completed before it, however many between them were skipped: a skipped stage is
\* missed by those that look its facts up, and by those only.  A plan refused at
\* load or in preflight attests nothing and has taken no resource.
AttestedOnCompleted ==
    /\ \A s \in completed : \A f \in looked[s] \ seeds :
          \E p \in Writers(f) \cap completed : Before(p, s)
    /\ outcome \in {"refused", "unloadable"} => acquired = <<>> /\ Attested = {}

\* Ordering and running always come to an end, on every graph and every path.
Terminates == <>(phase = "ended")

(***************************************************************************)
(* Why the properties hold: the inductive invariant of the proofs.          *)
(***************************************************************************)

Loaded == phase \notin {"load", "ended"}

\* Stages are placed once, after everything they need.
OrderInv ==
    /\ phase \in {"load", "order"} => outcome = "none"
    /\ phase = "load" => order = <<>> /\ layer = {}
    /\ layer \cap Placed = {}
    /\ \A s \in layer : Needs(s) \subseteq Placed
    /\ \A i, j \in DOMAIN order : order[i] = order[j] => i = j
    /\ \A i \in DOMAIN order : \A p \in Needs(order[i]) :
          \E j \in DOMAIN order : j < i /\ order[j] = p
    /\ phase \in {"preflight", "apply", "unwind"} => Placed = Stages

\* The map holds the seeds and what the completed stages wrote, all of them before
\* the stage whose turn it is.
HeldInv ==
    /\ \A s \in completed : \E i \in DOMAIN order : i < at /\ order[i] = s
    /\ Loaded => OneProducerEach /\ EveryReadProduced
    /\ completed # {} => OneProducerEach
    /\ phase \in {"load", "order"} => held = {} /\ completed = {} /\ acquired = <<>>
    /\ phase = "preflight" => completed = {} /\ acquired = <<>>
    /\ phase \in {"preflight", "apply", "unwind"} =>
          held = seeds \cup UNION {writes[s] : s \in completed}

\* A run that goes on has met no surprise.
MissingInv == phase \in {"load", "order", "preflight", "apply"} =>
                  missing = {} /\ outcome = "none"

\* What was taken is, oldest first, what is registered still, what was released in
\* reverse, and at most the resource of a stage whose facts the map refused.
Registered == Len(finalisers) + Len(released)

UnwindInv ==
    /\ phase \notin {"unwind", "ended"} => finalisers = acquired /\ released = <<>>
    /\ \/ Registered = Len(acquired)
       \/ /\ Registered + 1 = Len(acquired)
          /\ phase \in {"unwind", "ended"} /\ outcome \in {"raised", "interrupted"}
          /\ writes[acquired[Len(acquired)]] \cap held # {}
    /\ \A i \in DOMAIN finalisers : finalisers[i] = acquired[i]
    /\ \A i \in DOMAIN released : released[i] = acquired[Registered + 1 - i]
    /\ phase = "ended" /\ outcome # "interrupted" => finalisers = <<>>

PlanInv == /\ TypeOK /\ OrderInv /\ HeldInv /\ MissingInv /\ UnwindInv
           /\ OrderIsSound /\ SurprisesExplained /\ AttestedOnCompleted
=============================================================================
