--------------------------- MODULE PipelineProofs ---------------------------
(* Proofs about plans, for every set of stages and facts, every graph they     *)
(* can be declared with and every way a run can end.                           *)
EXTENDS Pipeline, SequenceTheorems, TLAPS

(***************************************************************************)
(* Typing.                                                                  *)
(***************************************************************************)

LEMMA TypeInit == Init => TypeOK
BY DEF Init, TypeOK, Phases, Outcomes, Preflights

LEMMA TypeStep == ASSUME TypeOK, [Next]_vars PROVE TypeOK'
<1>1. CASE UNCHANGED vars
  BY <1>1 DEF TypeOK, vars, plan, run, past
<1>2. CASE Load
  BY <1>2 DEF TypeOK, Load, plan, run, past, Phases, Outcomes
<1>3. CASE NextLayer
  BY <1>3 DEF TypeOK, NextLayer, plan, run, past, Phases, Outcomes, Unblocked, Remaining
<1>4. CASE Place
  BY <1>4 DEF TypeOK, Place, plan, run, past
<1>5. CASE Ordered
  BY <1>5 DEF TypeOK, Ordered, plan, past, Phases
<1>6. ASSUME NEW answers \in [Stages -> Preflights], Preflight(answers) PROVE TypeOK'
  BY <1>6 DEF TypeOK, Preflight, plan, past, Phases, Outcomes
<1>7. CASE PreflightActs
  BY <1>7 DEF TypeOK, PreflightActs, plan, run, past, Phases, Outcomes
<1>8. CASE PreflightSkipped
  BY <1>8 DEF TypeOK, PreflightSkipped, plan, past
<1>9. ASSUME NEW s \in Stages, NEW f \in Facts, LooksTooEarly(s, f) PROVE TypeOK'
  BY <1>9 DEF TypeOK, LooksTooEarly, plan, run, Phases, Outcomes
<1>10. ASSUME NEW s \in Stages, NEW found \in SUBSET Facts, NEW acquires \in BOOLEAN,
             Advance(s, found, acquires)
       PROVE  TypeOK'
  <2>1. acquired' \in Seq(Stages)
    <3>1. CASE acquires
      BY <1>10, <3>1 DEF TypeOK, Advance
    <3>2. CASE ~acquires
      BY <1>10, <3>2 DEF TypeOK, Advance
    <3>. QED  BY <3>1, <3>2
  <2>2. CASE writes[s] \cap held = {}
    <3>1. finalisers' \in Seq(Stages)
      <4>1. CASE acquires
        <5>1. finalisers' = Append(finalisers, s)
          BY <1>10, <2>2, <4>1 DEF Advance
        <5>. QED  BY <5>1 DEF TypeOK
      <4>2. CASE ~acquires
        BY <1>10, <2>2, <4>2 DEF TypeOK, Advance
      <4>. QED  BY <4>1, <4>2
    <3>2. looked' \in [Stages -> SUBSET Facts] /\ completed' \subseteq Stages
      BY <1>10, <2>2 DEF TypeOK, Advance
    <3>3. held' \subseteq Facts /\ at' \in Nat
      BY <1>10, <2>2 DEF TypeOK, Advance
    <3>. QED  BY <1>10, <2>1, <2>2, <3>1, <3>2, <3>3 DEF TypeOK, Advance, plan
  <2>3. CASE writes[s] \cap held # {}
    BY <1>10, <2>1, <2>3 DEF TypeOK, Advance, plan, Phases, Outcomes
  <2>. QED  BY <2>2, <2>3
<1>11. ASSUME NEW s \in Stages, Skip(s) PROVE TypeOK'
  BY <1>11 DEF TypeOK, Skip, plan, past
<1>12. ASSUME NEW s \in Stages, NEW how \in {"stopped", "raised"}, Stop(s, how)
       PROVE  TypeOK'
  BY <1>12 DEF TypeOK, Stop, plan, run, past, Phases, Outcomes
<1>13. CASE Finish
  BY <1>13 DEF TypeOK, Finish, plan, run, past, Phases, Outcomes
<1>14. CASE Release
  <2>1. Len(finalisers) \in 1 .. Len(finalisers)
    BY <1>14 DEF TypeOK, Release
  <2>2. finalisers[Len(finalisers)] \in Stages
    BY <2>1 DEF TypeOK
  <2>3. SubSeq(finalisers, 1, Len(finalisers) - 1) \in Seq(Stages)
    BY <2>1 DEF TypeOK
  <2>. QED  BY <1>14, <2>2, <2>3 DEF TypeOK, Release, plan
<1>15. CASE InterruptRelease
  BY <1>15 DEF TypeOK, InterruptRelease, plan, run, past, Phases, Outcomes
<1>16. CASE Unwound
  BY <1>16 DEF TypeOK, Unwound, plan, run, past, Phases
<1>. QED  BY <1>1, <1>2, <1>3, <1>4, <1>5, <1>6, <1>7, <1>8, <1>9, <1>10, <1>11, <1>12,
             <1>13, <1>14, <1>15, <1>16 DEF Next, Apply

\* Every state of loading, ordering and running a plan is well formed.
THEOREM PlanTyped == Spec => []TypeOK
BY TypeInit, TypeStep, PTL DEF Spec

(***************************************************************************)
(* The order.                                                               *)
(***************************************************************************)

\* Nothing changes the declared plan, and only Place extends the order.
LEMMA PlanFixed ==
    ASSUME [Next]_vars
    PROVE  /\ reads' = reads /\ writes' = writes /\ seeds' = seeds
           /\ Place \/ NextLayer \/ (order' = order /\ layer' = layer)
BY DEF Next, Apply, vars, plan, Load, Ordered, Preflight, PreflightActs,
   PreflightSkipped, LooksTooEarly, Advance, Skip, Stop, Finish, Release,
   InterruptRelease, Unwound, Place, NextLayer

LEMMA OrderInit == Init => OrderInv
BY DEF Init, OrderInv, Placed

\* How the phase and the outcome move outside ordering.
LEMMA PhaseSteps ==
    ASSUME [Next]_vars
    PROVE  /\ phase' \in {"load", "order"} => phase \in {"load", "order"}
                                             /\ outcome' = outcome
           /\ phase' = "load" => UNCHANGED vars
           /\ phase' \in {"preflight", "apply", "unwind"} =>
                 \/ phase \in {"preflight", "apply", "unwind"}
                 \/ Ordered
           /\ outcome' = "unloadable" =>
                 outcome = "unloadable" \/ Load \/ NextLayer
<1>1. CASE UNCHANGED vars
  BY <1>1 DEF vars
<1>2. CASE Load \/ NextLayer \/ Place \/ Ordered
  BY <1>2 DEF Load, NextLayer, Place, Ordered
<1>3. ASSUME NEW answers \in [Stages -> Preflights], Preflight(answers)
      PROVE  /\ phase = "preflight" /\ phase' \in {"apply", "ended"}
             /\ outcome' \in {outcome, "refused"}
  BY <1>3 DEF Preflight
<1>4. CASE PreflightActs \/ PreflightSkipped \/ Finish \/ Release \/ InterruptRelease
           \/ Unwound
  BY <1>4 DEF PreflightActs, PreflightSkipped, Finish, Release, InterruptRelease, Unwound
<1>5. ASSUME NEW s \in Stages, Apply(s)
      PROVE  /\ phase = "apply" /\ phase' \in {"apply", "unwind"}
             /\ outcome' \in {outcome, "raised", "stopped"}
  BY <1>5 DEF Apply, LooksTooEarly, Advance, Skip, Stop, Turn
<1>. QED  BY <1>1, <1>2, <1>3, <1>4, <1>5 DEF Next

LEMMA OrderStep == ASSUME TypeOK, OrderInv, [Next]_vars PROVE OrderInv'
<1>f. reads' = reads /\ writes' = writes /\ seeds' = seeds
  BY PlanFixed
<1>n. \A s : Needs(s)' = Needs(s)
  BY <1>f DEF Needs
<1>d. order \in Seq(Stages) /\ DOMAIN order = 1 .. Len(order) /\ Len(order) \in Nat
  BY DEF TypeOK
<1>p. (phase' \in {"load", "order"} => outcome' = "none")
      /\ (phase' = "load" => order' = <<>> /\ layer' = {})
  BY PhaseSteps DEF OrderInv, vars
<1>1. CASE order' = order /\ layer' = layer
  <2>1. Placed' = Placed
    BY <1>1 DEF Placed
  <2>2. phase' \in {"preflight", "apply", "unwind"} => Placed = Stages
    <3>1. CASE phase \in {"preflight", "apply", "unwind"}
      BY <3>1 DEF OrderInv
    <3>2. CASE Ordered
      BY <3>2, <1>d DEF Ordered, Remaining, Placed, TypeOK
    <3>. QED  BY <3>1, <3>2, PhaseSteps
  <2>. QED  BY <1>1, <1>n, <1>p, <2>1, <2>2 DEF OrderInv
<1>2. CASE NextLayer
  <2>1. order' = order /\ Placed' = Placed /\ layer' = Unblocked
        /\ phase' \in {"order", "ended"}
    BY <1>2 DEF NextLayer, Placed
  <2>2. layer' \cap Placed = {} /\ \A s \in layer' : Needs(s) \subseteq Placed
    BY <2>1 DEF Unblocked, Remaining
  <2>. QED  BY <1>n, <1>p, <2>1, <2>2 DEF OrderInv
<1>3. CASE Place
  <2>1. PICK s \in layer : order' = Append(order, s) /\ layer' = layer \ {s}
    BY <1>3 DEF Place
  <2>2. s \in Stages
    BY <2>1 DEF TypeOK
  <2>3. DOMAIN order' = 1 .. Len(order) + 1
    BY <1>d, <2>1, <2>2
  <2>4. order'[Len(order) + 1] = s /\ \A i \in DOMAIN order : order'[i] = order[i]
    BY <1>d, <2>1, <2>2
  <2>5. Placed' = Placed \cup {s}
    <3>1. ASSUME NEW i \in DOMAIN order' PROVE order'[i] \in Placed \cup {s}
      BY <1>d, <2>3, <2>4 DEF Placed
    <3>2. ASSUME NEW i \in DOMAIN order PROVE order[i] \in Placed'
      BY <1>d, <2>3, <2>4 DEF Placed
    <3>3. s \in Placed'
      BY <1>d, <2>3, <2>4 DEF Placed
    <3>. QED  BY <3>1, <3>2, <3>3 DEF Placed
  <2>6. s \notin Placed /\ Needs(s) \subseteq Placed
    BY <2>1 DEF OrderInv
  <2>7. \A i, j \in DOMAIN order' : order'[i] = order'[j] => i = j
    BY <1>d, <2>3, <2>4, <2>6 DEF OrderInv, Placed
  <2>8. ASSUME NEW i \in DOMAIN order', NEW p \in Needs(order'[i])
        PROVE  \E j \in DOMAIN order' : j < i /\ order'[j] = p
    <3>1. CASE i \in DOMAIN order
      <4>1. PICK j \in DOMAIN order : j < i /\ order[j] = p
        BY <2>4, <2>8, <3>1 DEF OrderInv
      <4>. QED  BY <1>d, <2>3, <2>4, <4>1
    <3>2. CASE i = Len(order) + 1
      <4>1. p \in Placed
        BY <2>4, <2>6, <2>8, <3>2
      <4>2. PICK j \in DOMAIN order : order[j] = p
        BY <4>1 DEF Placed
      <4>. QED  BY <1>d, <2>3, <2>4, <3>2, <4>2
    <3>. QED  BY <1>d, <2>3, <3>1, <3>2
  <2>9. layer' \cap Placed' = {} /\ \A t \in layer' : Needs(t) \subseteq Placed'
    BY <2>1, <2>5 DEF OrderInv
  <2>10. phase' = "order"
    BY <1>3 DEF Place
  <2>. QED  BY <1>n, <1>p, <2>7, <2>8, <2>9, <2>10 DEF OrderInv
<1>. QED  BY <1>1, <1>2, <1>3, PlanFixed

\* Stages that are all blocked depend on each other.
LEMMA BlockedStages ==
    ASSUME layer = {}, Remaining # {}, Unblocked = {}
    PROVE  DependOnEachOther
<1>1. Remaining \subseteq Stages /\ Remaining # {}
  BY DEF Remaining
<1>2. ASSUME NEW s \in Remaining PROVE Needs(s) \cap Remaining # {}
  <2>1. PICK p \in Needs(s) : p \notin Placed
    BY DEF Unblocked
  <2>2. p \in Stages
    BY DEF Needs
  <2>. QED  BY <2>1, <2>2 DEF Remaining
<1>. QED  BY <1>1, <1>2 DEF DependOnEachOther

LEMMA SoundStep ==
    ASSUME TypeOK, OrderInv, OrderInv', OrderIsSound, [Next]_vars
    PROVE  OrderIsSound'
<1>f. reads' = reads /\ writes' = writes /\ seeds' = seeds
  BY PlanFixed
<1>1. ASSUME phase' \in {"preflight", "apply", "unwind"}
      PROVE  /\ Placed' = Stages
             /\ \A i, j \in DOMAIN order' : order'[i] = order'[j] => i = j
             /\ \A s \in Stages : \A p \in Needs(s)' : Before(p, s)'
  <2>1. /\ Placed' = Stages
        /\ \A i, j \in DOMAIN order' : order'[i] = order'[j] => i = j
        /\ \A i \in DOMAIN order' : \A p \in Needs(order'[i]) :
              \E j \in DOMAIN order' : j < i /\ order'[j] = p
    BY <1>1, <1>f DEF OrderInv, Needs
  <2>2. ASSUME NEW s \in Stages, NEW p \in Needs(s)' PROVE Before(p, s)'
    <3>0. p \in Needs(s)
      BY <1>f DEF Needs
    <3>1. PICK i \in DOMAIN order' : order'[i] = s
      BY <2>1 DEF Placed
    <3>2. PICK j \in DOMAIN order' : j < i /\ order'[j] = p
      BY <2>1, <3>0, <3>1
    <3>. QED  BY <3>1, <3>2 DEF Before
  <2>. QED  BY <2>1, <2>2
<1>2. ASSUME outcome' = "unloadable"
      PROVE  (~OneProducerEach \/ ~EveryReadProduced \/ DependOnEachOther)'
  <2>1. OneProducerEach' = OneProducerEach /\ EveryReadProduced' = EveryReadProduced
        /\ DependOnEachOther' = DependOnEachOther
    BY <1>f DEF OneProducerEach, EveryReadProduced, DependOnEachOther, Needs, Writers
  <2>2. CASE outcome = "unloadable"
    BY <2>1, <2>2 DEF OrderIsSound
  <2>3. CASE Load
    BY <1>2, <2>1, <2>3 DEF Load, OrderInv
  <2>4. CASE NextLayer
    <3>1. layer = {} /\ Remaining # {} /\ Unblocked = {}
      BY <1>2, <2>4 DEF NextLayer, OrderInv
    <3>. QED  BY <2>1, <3>1, BlockedStages
  <2>. QED  BY <1>2, <2>2, <2>3, <2>4, PhaseSteps
<1>. QED  BY <1>1, <1>2 DEF OrderIsSound

(***************************************************************************)
(* The facts.                                                               *)
(***************************************************************************)

\* Outside Advance the completed stages and the map stay as they are; the map is
\* filled with the seeds once, and a resource is taken only by a stage.
LEMMA QuietSteps ==
    ASSUME [Next]_vars,
           ~\E s \in Stages, found \in SUBSET Facts, acquires \in BOOLEAN :
                Advance(s, found, acquires)
    PROVE  /\ completed' = completed /\ looked' = looked /\ acquired' = acquired
           /\ held' = held \/ Ordered
<1>1. CASE UNCHANGED vars
  BY <1>1 DEF vars, run, past
<1>2. CASE \E s \in Stages : Apply(s)
  BY <1>2 DEF Apply, LooksTooEarly, Skip, Stop, run, past
<1>3. CASE \E answers \in [Stages -> Preflights] : Preflight(answers)
  BY <1>3 DEF Preflight, past
<1>4. CASE Load \/ NextLayer \/ Place \/ Ordered
  BY <1>4 DEF Load, NextLayer, Place, Ordered, run, past
<1>5. CASE PreflightActs \/ PreflightSkipped \/ Finish \/ Release \/ InterruptRelease
           \/ Unwound
  BY <1>5 DEF PreflightActs, PreflightSkipped, Finish, Release, InterruptRelease,
     Unwound, run, past
<1>. QED  BY <1>1, <1>2, <1>3, <1>4, <1>5 DEF Next

\* The phases a step can lead to.
LEMMA PhaseOrder ==
    ASSUME [Next]_vars
    PROVE  /\ phase' \in {"load", "order"} => phase \in {"load", "order"}
           /\ phase' = "preflight" => phase \in {"order", "preflight"}
           /\ phase' \notin {"load", "ended"} => phase \notin {"load", "ended"} \/ Load
           /\ phase' \in {"preflight", "apply", "unwind"} =>
                 Ordered \/ phase \in {"preflight", "apply", "unwind"}
<1>1. CASE UNCHANGED vars
  BY <1>1 DEF vars
<1>2. CASE \E s \in Stages : Apply(s)
  <2>1. phase = "apply" /\ phase' \in {"apply", "unwind"}
    BY <1>2 DEF Apply, LooksTooEarly, Skip, Stop, Advance, Turn
  <2>. QED  BY <2>1
<1>3. CASE \E answers \in [Stages -> Preflights] : Preflight(answers)
  <2>1. phase = "preflight" /\ phase' \in {"apply", "ended"}
    BY <1>3 DEF Preflight
  <2>. QED  BY <2>1
<1>4. CASE Load \/ NextLayer \/ Place \/ Ordered
  BY <1>4 DEF Load, NextLayer, Place, Ordered
<1>5. CASE PreflightActs \/ PreflightSkipped \/ Finish \/ Release \/ InterruptRelease
           \/ Unwound
  BY <1>5 DEF PreflightActs, PreflightSkipped, Finish, Release, InterruptRelease, Unwound
<1>. QED  BY <1>1, <1>2, <1>3, <1>4, <1>5 DEF Next

\* A stage that is placed keeps its place.
LEMMA PlacedStays ==
    ASSUME TypeOK, [Next]_vars
    PROVE  /\ DOMAIN order \subseteq DOMAIN order'
           /\ \A i \in DOMAIN order : order'[i] = order[i]
<1>1. CASE order' = order
  BY <1>1
<1>2. CASE Place
  <2>1. PICK s \in layer : order' = Append(order, s)
    BY <1>2 DEF Place
  <2>. QED  BY <2>1 DEF TypeOK
<1>3. CASE NextLayer
  BY <1>3 DEF NextLayer
<1>. QED  BY <1>1, <1>2, <1>3, PlanFixed

\* The stages that completed stand before the one whose turn it is.
LEMMA TurnStep ==
    ASSUME TypeOK, HeldInv, [Next]_vars
    PROVE  \A s \in completed' : \E i \in DOMAIN order' : i < at' /\ order'[i] = s
<1>o. /\ DOMAIN order \subseteq DOMAIN order'
      /\ \A i \in DOMAIN order : order'[i] = order[i]
  BY PlacedStays
<1>1. ASSUME NEW s \in Stages, NEW found \in SUBSET Facts, NEW acquires \in BOOLEAN,
             Advance(s, found, acquires)
      PROVE  /\ at \in DOMAIN order /\ s = order[at]
             /\ \/ completed' = completed /\ at' = at
                \/ completed' = completed \cup {s} /\ at' = at + 1
  BY <1>1 DEF Advance, Turn
<1>2. ASSUME ~\E s \in Stages, found \in SUBSET Facts, acquires \in BOOLEAN :
                  Advance(s, found, acquires)
      PROVE  completed' = completed /\ at' \in {at, at + 1}
  <2>1. completed' = completed
    BY <1>2, QuietSteps
  <2>2. CASE UNCHANGED vars
    BY <2>2 DEF vars, run
  <2>3. CASE \E s \in Stages : Apply(s)
    BY <1>2, <2>3 DEF Apply, LooksTooEarly, Skip, Stop, run
  <2>4. CASE \E answers \in [Stages -> Preflights] : Preflight(answers)
    BY <2>4 DEF Preflight
  <2>5. CASE Load \/ NextLayer \/ Place \/ Ordered
    BY <2>5 DEF Load, NextLayer, Place, Ordered, run
  <2>6. CASE PreflightActs \/ PreflightSkipped \/ Finish \/ Release \/ InterruptRelease
             \/ Unwound
    BY <2>6 DEF PreflightActs, PreflightSkipped, Finish, Release, InterruptRelease,
       Unwound, run
  <2>. QED  BY <2>1, <2>2, <2>3, <2>4, <2>5, <2>6 DEF Next
<1>3. /\ at \in Nat /\ DOMAIN order \subseteq Nat
      /\ \A t \in completed : \E i \in DOMAIN order : i < at /\ order[i] = t
  BY DEF HeldInv, TypeOK
<1>. QED  BY <1>o, <1>1, <1>2, <1>3

LEMMA HeldStep == ASSUME TypeOK, HeldInv, [Next]_vars PROVE HeldInv'
<1>f. reads' = reads /\ writes' = writes /\ seeds' = seeds
  BY PlanFixed
<1>p. OneProducerEach' = OneProducerEach /\ EveryReadProduced' = EveryReadProduced
  BY <1>f DEF OneProducerEach, EveryReadProduced, Writers
<1>l. phase' \notin {"load", "ended"} => OneProducerEach /\ EveryReadProduced
  <2>1. CASE Load
    BY <2>1 DEF Load
  <2>. QED  BY <2>1, PhaseOrder DEF HeldInv, Loaded
<1>t. \A s \in completed' : \E i \in DOMAIN order' : i < at' /\ order'[i] = s
  BY TurnStep
<1>1. ASSUME NEW s \in Stages, NEW found \in SUBSET Facts, NEW acquires \in BOOLEAN,
             Advance(s, found, acquires)
      PROVE  HeldInv'
  <2>1. /\ phase = "apply" /\ phase' \in {"apply", "unwind"}
        /\ \/ held' = held /\ completed' = completed
           \/ held' = held \cup writes[s] /\ completed' = completed \cup {s}
    BY <1>1 DEF Advance, Turn
  <2>2. OneProducerEach /\ held = seeds \cup UNION {writes[t] : t \in completed}
    BY <2>1 DEF HeldInv, Loaded
  <2>. QED  BY <1>f, <1>p, <1>l, <1>t, <2>1, <2>2 DEF HeldInv, Loaded
<1>2. CASE ~\E s \in Stages, found \in SUBSET Facts, acquires \in BOOLEAN :
               Advance(s, found, acquires)
  <2>1. completed' = completed /\ acquired' = acquired /\ (held' = held \/ Ordered)
    BY <1>2, QuietSteps
  <2>2. CASE Ordered
    <3>1. phase = "order" /\ phase' = "preflight" /\ held' = seeds
      BY <2>2 DEF Ordered
    <3>2. completed = {} /\ acquired = <<>>
      BY <3>1 DEF HeldInv
    <3>. QED  BY <1>f, <1>p, <1>l, <1>t, <2>1, <3>1, <3>2 DEF HeldInv, Loaded
  <2>3. CASE held' = held /\ ~Ordered
    <3>1. /\ phase' \in {"load", "order"} => phase \in {"load", "order"}
          /\ phase' \in {"preflight", "apply", "unwind"} =>
                phase \in {"preflight", "apply", "unwind"}
          /\ phase' = "preflight" => phase \in {"order", "preflight"}
      BY <2>3, PhaseOrder
    <3>. QED  BY <1>f, <1>p, <1>l, <1>t, <2>1, <2>3, <3>1 DEF HeldInv, Loaded
  <2>. QED  BY <2>1, <2>2, <2>3
<1>. QED  BY <1>1, <1>2

\* A surprise ends the stages; where it happened stays as it was.
LEMMA MissingStep ==
    ASSUME TypeOK, MissingInv, [Next]_vars
    PROVE  /\ MissingInv'
           /\ \/ \E s \in Stages, f \in Facts : LooksTooEarly(s, f)
              \/ missing' = missing /\ (missing # {} =>
                    order' = order /\ at' = at /\ completed' = completed)
<1>1. CASE UNCHANGED vars
  BY <1>1 DEF MissingInv, vars, run, past
<1>2. ASSUME NEW s \in Stages, NEW f \in Facts, LooksTooEarly(s, f) PROVE MissingInv'
  BY <1>2 DEF LooksTooEarly, MissingInv
<1>3. ASSUME NEW s \in Stages, \/ \E found \in SUBSET Facts, a \in BOOLEAN :
                                     Advance(s, found, a)
                               \/ Skip(s)
                               \/ \E how \in {"stopped", "raised"} : Stop(s, how)
      PROVE  MissingInv' /\ missing' = missing /\ missing = {}
  BY <1>3 DEF Advance, Skip, Stop, Turn, MissingInv, past
<1>4. CASE \E answers \in [Stages -> Preflights] : Preflight(answers)
  BY <1>4 DEF Preflight, MissingInv, past
<1>5. CASE Load \/ NextLayer \/ Place \/ Ordered
  BY <1>5 DEF Load, NextLayer, Place, Ordered, MissingInv, run, past
<1>6. CASE PreflightActs \/ PreflightSkipped \/ Finish
  BY <1>6 DEF PreflightActs, PreflightSkipped, Finish, MissingInv, run, past
<1>7. CASE Release \/ InterruptRelease \/ Unwound
  BY <1>7 DEF Release, InterruptRelease, Unwound, MissingInv, run, past
<1>. QED  BY <1>1, <1>2, <1>3, <1>4, <1>5, <1>6, <1>7 DEF Next, Apply

LEMMA SurprisesStep ==
    ASSUME TypeOK, OrderInv, OrderIsSound, HeldInv, MissingInv, SurprisesExplained,
           [Next]_vars
    PROVE  SurprisesExplained'
<1>f. reads' = reads /\ writes' = writes /\ seeds' = seeds
  BY PlanFixed
<1>1. ASSUME NEW s \in Stages, NEW g \in Facts, LooksTooEarly(s, g)
      PROVE  SurprisesExplained'
  <2>1. /\ s = order[at] /\ phase = "apply" /\ missing' = {g} /\ g \in reads[s] \ held
        /\ order' = order /\ at' = at /\ completed' = completed
    BY <1>1 DEF LooksTooEarly, Turn, run
  <2>2. held = seeds \cup UNION {writes[t] : t \in completed}
    BY <2>1 DEF HeldInv
  <2>3. ASSUME NEW f \in missing', NEW p \in Writers(f)
        PROVE  p \notin completed /\ (p = s \/ Before(p, s))
    <3>1. p \in Stages /\ f \in writes[p] /\ f \in reads[s] /\ f \notin seeds
      BY <2>1, <2>2, <2>3 DEF Writers
    <3>2. p \notin completed
      BY <2>1, <2>2, <2>3, <3>1
    <3>3. p # s => p \in Needs(s)
      BY <3>1 DEF Needs
    <3>. QED  BY <2>1, <3>2, <3>3 DEF OrderIsSound
  <2>. QED  BY <1>f, <2>1, <2>3 DEF SurprisesExplained, Writers, Before
<1>2. CASE missing' = missing /\ (missing # {} =>
               order' = order /\ at' = at /\ completed' = completed)
  BY <1>f, <1>2 DEF SurprisesExplained, Writers, Before
<1>. QED  BY <1>1, <1>2, MissingStep

\* A plan that was refused has taken nothing, and stays refused.
LEMMA RefusedStep ==
    ASSUME TypeOK, HeldInv, HeldInv', MissingInv, AttestedOnCompleted, [Next]_vars,
           outcome' \in {"refused", "unloadable"}
    PROVE  acquired' = <<>> /\ completed' = completed
           /\ (completed = {} \/ outcome = outcome')
<1>1. CASE UNCHANGED vars
  BY <1>1 DEF AttestedOnCompleted, vars, run, past
<1>2. CASE \E s \in Stages : Apply(s)
  BY <1>2 DEF Apply, LooksTooEarly, Advance, Skip, Stop, Turn, MissingInv
<1>3. CASE \E answers \in [Stages -> Preflights] : Preflight(answers)
  BY <1>3 DEF Preflight, HeldInv, past
<1>4. CASE Load \/ NextLayer \/ Place \/ Ordered
  BY <1>4 DEF Load, NextLayer, Place, Ordered, HeldInv, run, past
<1>5. CASE PreflightActs \/ PreflightSkipped \/ Finish
  BY <1>5 DEF PreflightActs, PreflightSkipped, Finish, MissingInv
<1>6. CASE Release \/ InterruptRelease \/ Unwound
  BY <1>6 DEF Release, InterruptRelease, Unwound, AttestedOnCompleted, run, past
<1>. QED  BY <1>1, <1>2, <1>3, <1>4, <1>5, <1>6 DEF Next

LEMMA AttestedStep ==
    ASSUME TypeOK, TypeOK', HeldInv, HeldInv', MissingInv, AttestedOnCompleted, [Next]_vars
    PROVE  AttestedOnCompleted'
<1>f. reads' = reads /\ writes' = writes /\ seeds' = seeds
  BY PlanFixed
<1>o. /\ DOMAIN order \subseteq DOMAIN order'
      /\ \A i \in DOMAIN order : order'[i] = order[i]
  BY PlacedStays
<1>b. ASSUME NEW p, NEW t, Before(p, t) PROVE Before(p, t)'
  BY <1>o, <1>b DEF Before
<1>1. ASSUME NEW t \in completed', NEW f \in looked'[t] \ seeds
      PROVE  \E p \in Writers(f) \cap completed' : Before(p, t)'
  <2>1. CASE t \in completed /\ looked'[t] = looked[t]
    <3>1. PICK p \in Writers(f) \cap completed : Before(p, t)
      BY <1>1, <2>1 DEF AttestedOnCompleted
    <3>2. completed \subseteq completed'
      <4>1. CASE \E s \in Stages, found \in SUBSET Facts, acquires \in BOOLEAN :
                     Advance(s, found, acquires)
        BY <4>1 DEF Advance
      <4>. QED  BY <4>1, QuietSteps
    <3>. QED  BY <1>b, <3>1, <3>2
  <2>2. ASSUME NEW s \in Stages, NEW found \in SUBSET Facts, NEW acquires \in BOOLEAN,
               Advance(s, found, acquires), ~(t \in completed /\ looked'[t] = looked[t])
        PROVE  \E p \in Writers(f) \cap completed' : Before(p, t)'
    <3>1. /\ phase = "apply" /\ found \subseteq held
          /\ at \in DOMAIN order /\ s = order[at] /\ order' = order
          /\ t = s /\ looked'[t] = found /\ completed' = completed \cup {s}
      BY <2>2 DEF Advance, LooksUp, Turn, TypeOK
    <3>2. held = seeds \cup UNION {writes[q] : q \in completed}
      BY <3>1 DEF HeldInv
    <3>3. PICK p \in completed : f \in writes[p]
      BY <1>1, <3>1, <3>2
    <3>4. p \in Writers(f)
      BY <3>3 DEF Writers, TypeOK
    <3>5. Before(p, t)
      <4>1. PICK i \in DOMAIN order : i < at /\ order[i] = p
        BY <3>3 DEF HeldInv
      <4>. QED  BY <3>1, <4>1 DEF Before
    <3>. QED  BY <1>b, <3>1, <3>3, <3>4, <3>5
  <2>3. CASE completed' = completed /\ looked' = looked
    BY <1>1, <2>1, <2>3
  <2>. QED  BY <2>1, <2>2, <2>3, QuietSteps
<1>2. ASSUME outcome' \in {"refused", "unloadable"} PROVE acquired' = <<>> /\ Attested' = {}
  <2>1. /\ acquired' = <<>> /\ completed' = completed
        /\ completed = {} \/ outcome = outcome'
    BY <1>2, RefusedStep
  <2>2. CASE completed = {}
    BY <2>1, <2>2 DEF Attested
  <2>3. CASE outcome = outcome'
    BY <1>2, <2>1, <2>3 DEF AttestedOnCompleted, Attested
  <2>. QED  BY <2>1, <2>2, <2>3
<1>. QED  BY <1>f, <1>1, <1>2 DEF AttestedOnCompleted, Writers

(***************************************************************************)
(* The unwinding.                                                           *)
(***************************************************************************)

\* Outside the application of stages and the unwinding nothing is taken or released.
LEMMA UntakenStep ==
    ASSUME TypeOK, HeldInv, UnwindInv, [Next]_vars,
           \/ UNCHANGED vars \/ Load \/ NextLayer \/ Place \/ Ordered \/ PreflightActs
           \/ PreflightSkipped \/ Finish
           \/ \E answers \in [Stages -> Preflights] : Preflight(answers)
           \/ \E s \in Stages : \/ (\E f \in Facts : LooksTooEarly(s, f)) \/ Skip(s)
                                \/ \E how \in {"stopped", "raised"} : Stop(s, how)
    PROVE  /\ UNCHANGED <<finalisers, acquired, released, writes>>
           /\ phase' = "unwind" => phase \in {"apply", "unwind"}
           /\ phase \in {"unwind", "ended"} => UNCHANGED <<phase, outcome, held>>
           /\ phase' = "ended" => phase = "ended" \/ acquired = <<>>
           /\ phase' \notin {"unwind", "ended"} => phase \notin {"unwind", "ended"}
<1>1. CASE UNCHANGED vars
  BY <1>1 DEF vars, plan, run, past
<1>2. CASE Load \/ NextLayer \/ Place \/ Ordered
  BY <1>2 DEF Load, NextLayer, Place, Ordered, HeldInv, plan, run, past
<1>3. CASE PreflightActs \/ PreflightSkipped \/ Finish
  BY <1>3 DEF PreflightActs, PreflightSkipped, Finish, HeldInv, plan, run, past
<1>4. ASSUME NEW answers \in [Stages -> Preflights], Preflight(answers)
      PROVE  /\ UNCHANGED <<finalisers, acquired, released, writes>>
             /\ phase = "preflight" /\ phase' \in {"apply", "ended"} /\ acquired = <<>>
  BY <1>4 DEF Preflight, HeldInv, plan, past
<1>5. ASSUME NEW s \in Stages, \/ (\E f \in Facts : LooksTooEarly(s, f)) \/ Skip(s)
                               \/ \E how \in {"stopped", "raised"} : Stop(s, how)
      PROVE  /\ UNCHANGED <<finalisers, acquired, released, writes>>
             /\ phase = "apply" /\ phase' \in {"apply", "unwind"}
  BY <1>5 DEF LooksTooEarly, Skip, Stop, Turn, plan, run, past
<1>. QED  BY <1>1, <1>2, <1>3, <1>4, <1>5

LEMMA AdvanceUnwinds ==
    ASSUME TypeOK, UnwindInv, NEW s \in Stages, NEW found \in SUBSET Facts,
           NEW acquires \in BOOLEAN, Advance(s, found, acquires)
    PROVE  UnwindInv'
<1>1. /\ phase = "apply" /\ finalisers = acquired /\ released = <<>>
      /\ released' = released /\ writes' = writes
      /\ acquired \in Seq(Stages) /\ outcome \in Outcomes
  BY DEF Advance, Turn, UnwindInv, TypeOK, plan
<1>2. CASE writes[s] \cap held = {}
  <2>1. finalisers' = acquired' /\ phase' = phase /\ acquired' \in Seq(Stages)
    <3>1. CASE acquires
      BY <1>1, <1>2, <3>1 DEF Advance
    <3>2. CASE ~acquires
      BY <1>1, <1>2, <3>2 DEF Advance
    <3>. QED  BY <3>1, <3>2
  <2>. QED  BY <1>1, <2>1 DEF UnwindInv, Registered
<1>3. CASE writes[s] \cap held # {}
  <2>1. /\ phase' = "unwind" /\ outcome' = "raised" /\ held' = held
        /\ finalisers' = finalisers
    BY <1>3 DEF Advance
  <2>2. CASE acquires
    <3>1. /\ acquired' = Append(acquired, s) /\ Len(acquired') = Len(acquired) + 1
          /\ acquired'[Len(acquired')] = s
          /\ \A i \in DOMAIN acquired : acquired'[i] = acquired[i]
      BY <1>1, <2>2 DEF Advance
    <3>2. /\ Registered' + 1 = Len(acquired')
          /\ writes'[acquired'[Len(acquired')]] \cap held' # {}
      BY <1>1, <1>3, <2>1, <3>1 DEF Registered
    <3>3. \A i \in DOMAIN finalisers' : finalisers'[i] = acquired'[i]
      BY <1>1, <2>1, <3>1
    <3>4. DOMAIN released' = {}
      BY <1>1
    <3>. QED  BY <2>1, <3>2, <3>3, <3>4 DEF UnwindInv
  <2>3. CASE ~acquires
    <3>1. acquired' = acquired
      BY <2>3 DEF Advance
    <3>. QED  BY <1>1, <2>1, <3>1 DEF UnwindInv, Registered
  <2>. QED  BY <2>2, <2>3
<1>. QED  BY <1>2, <1>3

\* A sequence without its last element.
LEMMA FrontProperties ==
    ASSUME NEW S, NEW s \in Seq(S), s # <<>>
    PROVE  /\ Len(SubSeq(s, 1, Len(s) - 1)) = Len(s) - 1
           /\ DOMAIN SubSeq(s, 1, Len(s) - 1) = 1 .. (Len(s) - 1)
           /\ \A i \in 1 .. (Len(s) - 1) : SubSeq(s, 1, Len(s) - 1)[i] = s[i]
<1>. DEFINE n == Len(s) - 1
<1>1. n \in Nat
  OBVIOUS
<1>2. \A i \in 1 .. n : s[i] \in S
  OBVIOUS
<1>3. Len(SubSeq(s, 1, n)) = n
  <2>. HIDE DEF n
  <2>1. Len(SubSeq(s, 1, n)) = IF 1 <= n THEN n - 1 + 1 ELSE 0
    BY <1>1, <1>2, SubSeqProperties
  <2>. QED  BY <1>1, <2>1
<1>4. DOMAIN SubSeq(s, 1, Len(s) - 1) = 1 .. (Len(s) - 1)
  OBVIOUS
<1>5. \A i \in 1 .. (Len(s) - 1) : SubSeq(s, 1, Len(s) - 1)[i] = s[i]
  OBVIOUS
<1>. QED  BY <1>3, <1>4, <1>5

\* The newest finaliser is that of the newest resource that is neither released nor lost.
LEMMA ReleaseUnwinds == ASSUME TypeOK, UnwindInv, Release PROVE UnwindInv'
<1>1. /\ phase = "unwind" /\ finalisers # <<>>
      /\ UNCHANGED <<phase, outcome, held, acquired, writes>>
      /\ released' = Append(released, finalisers[Len(finalisers)])
      /\ finalisers' = SubSeq(finalisers, 1, Len(finalisers) - 1)
  BY DEF Release, plan
<1>2. finalisers \in Seq(Stages) /\ released \in Seq(Stages) /\ acquired \in Seq(Stages)
  BY DEF TypeOK
<1>3. Len(finalisers) \in Nat \ {0} /\ Len(released) \in Nat
  BY <1>1, <1>2
<1>4. /\ Len(finalisers') = Len(finalisers) - 1
      /\ \A i \in DOMAIN finalisers' : finalisers'[i] = finalisers[i] /\ i \in DOMAIN finalisers
  <2>1. DOMAIN finalisers' = 1 .. (Len(finalisers) - 1)
    BY <1>1, <1>2, FrontProperties
  <2>2. \A i \in 1 .. (Len(finalisers) - 1) : finalisers'[i] = finalisers[i]
    BY <1>1, <1>2, FrontProperties
  <2>3. Len(finalisers') = Len(finalisers) - 1
    BY <1>1, <1>2, FrontProperties
  <2>. QED  BY <1>2, <1>3, <2>1, <2>2, <2>3
<1>5. /\ Len(released') = Len(released) + 1
      /\ \A i \in DOMAIN released : released'[i] = released[i]
      /\ released'[Len(released) + 1] = finalisers[Len(finalisers)]
  BY <1>1, <1>2, <1>3
<1>6. Registered' = Registered
  BY <1>3, <1>4, <1>5 DEF Registered
<1>7. \A i \in DOMAIN released' : released'[i] = acquired[Registered + 1 - i]
  <2>. SUFFICES ASSUME NEW i \in DOMAIN released'
                PROVE  released'[i] = acquired[Registered + 1 - i]
    OBVIOUS
  <2>1. i \in DOMAIN released \/ i = Len(released) + 1
    BY <1>1, <1>2, <1>5
  <2>2. CASE i \in DOMAIN released
    BY <1>5, <2>2 DEF UnwindInv
  <2>3. CASE i = Len(released) + 1
    <3>1. Registered + 1 - i = Len(finalisers)
      BY <1>3, <2>3 DEF Registered
    <3>2. finalisers[Len(finalisers)] = acquired[Len(finalisers)]
      BY <1>2, <1>3 DEF UnwindInv
    <3>. QED  BY <1>5, <2>3, <3>1, <3>2
  <2>. QED  BY <2>1, <2>2, <2>3
<1>. QED  BY <1>1, <1>4, <1>6, <1>7 DEF UnwindInv

LEMMA UnwindStep == ASSUME TypeOK, HeldInv, UnwindInv, [Next]_vars PROVE UnwindInv'
<1>1. CASE \/ UNCHANGED vars \/ Load \/ NextLayer \/ Place \/ Ordered \/ PreflightActs
           \/ PreflightSkipped \/ Finish
           \/ \E answers \in [Stages -> Preflights] : Preflight(answers)
           \/ \E s \in Stages : \/ (\E f \in Facts : LooksTooEarly(s, f)) \/ Skip(s)
                                \/ \E how \in {"stopped", "raised"} : Stop(s, how)
  <2>1. /\ UNCHANGED <<finalisers, acquired, released, writes>>
        /\ phase' = "unwind" => phase \in {"apply", "unwind"}
        /\ phase \in {"unwind", "ended"} => UNCHANGED <<phase, outcome, held>>
        /\ phase' = "ended" => phase = "ended" \/ acquired = <<>>
        /\ phase' \notin {"unwind", "ended"} => phase \notin {"unwind", "ended"}
    BY <1>1, UntakenStep
  <2>2. CASE phase \in {"unwind", "ended"}
    BY <2>1, <2>2 DEF UnwindInv, Registered
  <2>3. CASE phase \notin {"unwind", "ended"}
    <3>1. Registered = Len(acquired) /\ finalisers = acquired /\ released = <<>>
      BY <2>3 DEF UnwindInv
    <3>. QED  BY <2>1, <2>3, <3>1 DEF UnwindInv, Registered
  <2>. QED  BY <2>2, <2>3
<1>2. ASSUME NEW s \in Stages, NEW found \in SUBSET Facts, NEW acquires \in BOOLEAN,
             Advance(s, found, acquires)
      PROVE  UnwindInv'
  BY <1>2, AdvanceUnwinds
<1>3. CASE Release
  BY <1>3, ReleaseUnwinds
<1>4. CASE InterruptRelease \/ Unwound
  <2>1. /\ UNCHANGED <<finalisers, acquired, released, writes, held>>
        /\ phase = "unwind" /\ phase' = "ended"
        /\ \/ outcome' = "interrupted"
           \/ outcome' = outcome /\ finalisers = <<>>
    BY <1>4 DEF InterruptRelease, Unwound, plan, run, past
  <2>. QED  BY <2>1 DEF UnwindInv, Registered
<1>. QED  BY <1>1, <1>2, <1>3, <1>4 DEF Next, Apply

\* Released is, from the newest, what was taken before the last resource still held.
LEMMA UnwindReverses == ASSUME TypeOK, UnwindInv PROVE UnwoundInReverse
<1>1. Len(finalisers) \in Nat /\ Len(released) \in Nat /\ Len(acquired) \in Nat
  BY DEF TypeOK
<1>d. DOMAIN released = 1 .. Len(released) /\ DOMAIN acquired = 1 .. Len(acquired)
  BY DEF TypeOK
<1>2. Registered <= Len(acquired) /\ Registered \in Nat /\ Registered >= Len(released)
  <2>1. Registered = Len(acquired) \/ Registered + 1 = Len(acquired)
    BY DEF UnwindInv
  <2>2. Registered \in Nat /\ Registered >= Len(released)
    BY <1>1 DEF Registered
  <2>. QED  BY <1>1, <2>1, <2>2
<1>3. \A i \in DOMAIN released : /\ Registered + 1 - i \in DOMAIN acquired
                                 /\ released[i] = acquired[Registered + 1 - i]
  <2>1. ASSUME NEW i \in DOMAIN released PROVE Registered + 1 - i \in DOMAIN acquired
    <3>1. i \in Nat /\ 1 <= i /\ i <= Len(released)
      BY <1>1, <1>d
    <3>2. Registered + 1 - i \in 1 .. Len(acquired)
      BY <1>1, <1>2, <3>1
    <3>. QED  BY <1>d, <3>2
  <2>. QED  BY <2>1 DEF UnwindInv
<1>4. ASSUME NEW i \in DOMAIN released
      PROVE  \E j \in DOMAIN acquired :
                 /\ released[i] = acquired[j]
                 /\ \A k \in DOMAIN released : k < i =>
                       \E l \in DOMAIN acquired : j < l /\ released[k] = acquired[l]
  <2>1. ASSUME NEW k \in DOMAIN released, k < i
        PROVE  /\ Registered + 1 - k \in DOMAIN acquired
               /\ Registered + 1 - i < Registered + 1 - k
               /\ released[k] = acquired[Registered + 1 - k]
    <3>1. i \in Nat /\ k \in Nat
      BY <1>1, <1>d
    <3>. QED  BY <1>2, <1>3, <2>1, <3>1
  <2>2. \A k \in DOMAIN released : k < i =>
            \E l \in DOMAIN acquired :
                Registered + 1 - i < l /\ released[k] = acquired[l]
    BY <2>1
  <2>3. Registered + 1 - i \in DOMAIN acquired
    BY <1>3
  <2>. WITNESS Registered + 1 - i \in DOMAIN acquired
  <2>. QED  BY <1>3, <2>2
<1>5. phase = "ended" /\ outcome # "interrupted" =>
          \/ Len(released) = Len(acquired)
          \/ /\ Len(released) + 1 = Len(acquired)
             /\ outcome = "raised"
             /\ writes[acquired[Len(acquired)]] \cap held # {}
  <2>. SUFFICES ASSUME phase = "ended", outcome # "interrupted"
                PROVE  \/ Len(released) = Len(acquired)
                       \/ /\ Len(released) + 1 = Len(acquired)
                          /\ outcome = "raised"
                          /\ writes[acquired[Len(acquired)]] \cap held # {}
    OBVIOUS
  <2>1. finalisers = <<>>
    BY DEF UnwindInv
  <2>2. Registered = Len(released)
    BY <1>1, <2>1 DEF Registered
  <2>. QED  BY <2>2 DEF UnwindInv
<1>. QED  BY <1>4, <1>5 DEF UnwoundInReverse

(***************************************************************************)
(* The theorems.                                                            *)
(***************************************************************************)

LEMMA PlanInit == Init => PlanInv
<1>. SUFFICES ASSUME Init PROVE PlanInv
  OBVIOUS
<1>1. HeldInv /\ MissingInv
  BY DEF Init, HeldInv, MissingInv, Loaded
<1>2. OrderIsSound /\ SurprisesExplained /\ AttestedOnCompleted
  BY DEF Init, OrderIsSound, SurprisesExplained, AttestedOnCompleted
<1>3. UnwindInv
  BY DEF Init, UnwindInv, Registered
<1>. QED  BY <1>1, <1>2, <1>3, TypeInit, OrderInit DEF PlanInv

\* The invariant of loading, ordering and running a plan.
THEOREM PlanInductive == Spec => []PlanInv
<1>1. PlanInv /\ [Next]_vars => PlanInv'
  <2>. SUFFICES ASSUME PlanInv, [Next]_vars PROVE PlanInv'
    OBVIOUS
  <2>1. TypeOK' /\ OrderInv' /\ HeldInv' /\ MissingInv'
    BY TypeStep, OrderStep, HeldStep, MissingStep DEF PlanInv
  <2>u. UnwindInv'
    BY UnwindStep DEF PlanInv
  <2>2. OrderIsSound'
    BY <2>1, SoundStep DEF PlanInv
  <2>3. SurprisesExplained'
    BY SurprisesStep DEF PlanInv
  <2>4. AttestedOnCompleted'
    BY <2>1, AttestedStep DEF PlanInv
  <2>. QED  BY <2>1, <2>u, <2>2, <2>3, <2>4 DEF PlanInv
<1>. QED  BY <1>1, PlanInit, PTL DEF Spec

\* The order a plan runs in satisfies every read, whatever the graph, and a graph
\* that has no such order is refused.
THEOREM OrderHolds == Spec => []OrderIsSound
<1>1. PlanInv => OrderIsSound
  BY DEF PlanInv
<1>. QED  BY <1>1, PlanInductive, PTL

\* A fact is read too early only behind a skipped producer, or by its own writer.
THEOREM SurprisesHold == Spec => []SurprisesExplained
<1>1. PlanInv => SurprisesExplained
  BY DEF PlanInv
<1>. QED  BY <1>1, PlanInductive, PTL

\* What a run attests rests on stages that completed.
THEOREM AttestedHolds == Spec => []AttestedOnCompleted
<1>1. PlanInv => AttestedOnCompleted
  BY DEF PlanInv
<1>. QED  BY <1>1, PlanInductive, PTL
\* However a run ends, what its stages took is released newest first, and nothing is
\* left but what an interrupt cut off or the one resource the runner was never told of.
THEOREM UnwindHolds == Spec => []UnwoundInReverse
<1>1. PlanInv => UnwoundInReverse
  BY UnwindReverses DEF PlanInv
<1>. QED  BY <1>1, PlanInductive, PTL
=============================================================================
