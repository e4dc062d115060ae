------------------------------ MODULE Evidence ------------------------------
(* The readiness gate over the evidence store of Ledger: `apex readiness`     *)
(* reads candidate, mark, version one documents, key, chain and head one after *)
(* the other, while recorders write, and states a verdict for every check of   *)
(* the catalogue.                                                              *)
EXTENDS Ledger

CONSTANT Legacies   \* the version one documents a root may hold

\* A version one document states a result in the fields of the legacy evidence
\* tree; one that cannot be read is a fault.
Document == [readable : BOOLEAN, verdict : Stored, environment : Environments,
             candidate : Candidates, intact : BOOLEAN, count : Nat]

\* A version one document per check, for some of the checks.
ASSUME LegaciesAssumption ==
    \A legacy \in Legacies : \E known \in SUBSET Checks : legacy \in [known -> Document]

VARIABLES
    legacy,     \* the version one documents, which nothing writes any more
    reader      \* how far the gate has read, and what it keeps of it

allVars == <<vars, legacy, reader>>

Readings == [at : {"idle", "key", "lines", "head"}, candidate : Candidates \cup {"none"},
             exists : BOOLEAN, keyed : Nat, count : Nat]

\* A reading: where the gate is, the candidate, whether there is a chain, the key
\* beside it and the number of lines read.
Reading(at, d, found, k, n) ==
    [at |-> at, candidate |-> d, exists |-> found, keyed |-> k, count |-> n]

NoReading == Reading("idle", "none", FALSE, 0, 0)

GateTypeOK == TypeOK /\ legacy \in Legacies /\ reader \in Readings

\* A virtual machine booted from a medium meets a requirement for a machine.
Satisfies(environment, required) ==
    /\ environment # "simulated"
    /\ \/ environment = required
       \/ required = "vm" /\ environment \in {"live-vm", "installer-vm"}

\* The last verified entry of a check.
Latest(k, held) == {i \in held : /\ chain[i].event.check = k
                                 /\ \A j \in held : chain[j].event.check = k => j <= i}

\* v2_reader.read: what each check has, the chain's answer over the document's.
Imported(k) == IF k \in DOMAIN legacy /\ legacy[k].readable
               THEN {[verdict |-> legacy[k].verdict, environment |-> legacy[k].environment,
                      candidate |-> legacy[k].candidate, intact |-> legacy[k].intact,
                      count |-> legacy[k].count, imported |-> TRUE]}
               ELSE {}

Recorded(k, held) ==
    {[verdict |-> chain[i].event.verdict, environment |-> chain[i].event.environment,
      candidate |-> chain[i].event.candidate,
      intact |-> \A x \in chain[i].event.proofs : objects[x] = "intact",
      count |-> Cardinality(chain[i].event.proofs), imported |-> FALSE]
     : i \in Latest(k, held)}

Resolved(k, held) == IF Latest(k, held) = {} THEN Imported(k) ELSE Recorded(k, held)

\* Mutant of Faulty: a record of another build is as good.
FaultyForAnyBuild(k, record, build) ==
    \/ ~record.intact
    \/ ~Satisfies(record.environment, Required[k])
    \/ record.verdict = "PASS" /\ record.count = 0

\* _judge finds a fault in a record, which becomes Blocked.
Faulty(k, record, build) ==
    \/ record.candidate # build
    \/ ~record.intact
    \/ ~Satisfies(record.environment, Required[k])
    \/ record.verdict = "PASS" /\ record.count = 0

\* The records that permit installation, of the checks in the catalogue.
Passing(k, held, build) ==
    {x \in Resolved(k, held) : ~Faulty(k, x, build) /\ x.verdict = "PASS"}

\* evaluate: every check stands on a record of its own that passes.
Ready(held, build) ==
    /\ Checks # {}
    /\ \A k \in Checks : Passing(k, held, build) # {}
    /\ \A k \in Checks : \A x \in Passing(k, held, build) : ~x.imported
    /\ \A k \in Checks : \A x \in Resolved(k, held) : ~Faulty(k, x, build)

\* What the gate states as not tested; a strict gate withholds imported passes.
NotTested(held, build, strict) ==
    {k \in Checks : \/ Resolved(k, held) = {}
                    \/ \E x \in Resolved(k, held) : ~Faulty(k, x, build)
                                                    /\ x.verdict = "NOT TESTED"
                    \/ strict /\ \E x \in Passing(k, held, build) : x.imported}

\* The faults of the reading and of the evaluation, of which there are some or none.
Faults(held, build, broken) ==
    \/ broken
    \/ \E k \in DOMAIN legacy : ~legacy[k].readable
    \/ \E k \in Checks : \E x \in Resolved(k, held) : Faulty(k, x, build)

\* `apex readiness`: the candidate, then elect by the mark.  A root without a
\* candidate is skipped, and a later version refused.
ReadMark ==
    /\ reader.at = "idle"
    /\ candidate # "none"
    /\ mark < 3
    /\ reader' = Reading(IF mark = 2 THEN "key" ELSE "head", candidate, FALSE, 0, 0)
    /\ UNCHANGED <<vars, legacy>>

\* _chain looks for the chain, then for the key beside it.
FindKey ==
    /\ reader.at = "key"
    /\ reader' = Reading(IF chain # <<>> /\ key # 0 THEN "lines" ELSE "head",
                         reader.candidate, chain # <<>>, key, 0)
    /\ UNCHANGED <<vars, legacy>>

\* read_chain takes the lines first ...
ReadLines ==
    /\ reader.at = "lines"
    /\ reader' = Reading("head", reader.candidate, TRUE, reader.keyed, Len(chain))
    /\ UNCHANGED <<vars, legacy>>

\* ... then the head; the proofs are hashed and the table is stated.
Tabulate ==
    /\ reader.at = "head"
    /\ reader' = NoReading
    /\ UNCHANGED <<vars, legacy>>

\* What the gate holds when it states its table: the verified lines it read,
\* whether the chain breaks, and the answers made of them.
Held == Verified(reader.count, reader.keyed)

ChainFault == \/ reader.exists /\ reader.keyed = 0
              \/ reader.count > 0 /\ Broken(reader.count, reader.keyed, head)

Answer(strict) ==
    [ready  |-> /\ Ready(Held, reader.candidate)
                /\ strict => NotTested(Held, reader.candidate, strict) = {},
     absent |-> NotTested(Held, reader.candidate, strict),
     exit   |-> IF Faults(Held, reader.candidate, ChainFault) THEN 1 ELSE 0]

(***************************************************************************)
(* The specification.                                                       *)
(***************************************************************************)

GateInit == Init /\ legacy \in Legacies /\ reader = NoReading

GateNext ==
    \/ Next /\ UNCHANGED <<legacy, reader>>
    \/ ReadMark \/ FindKey \/ ReadLines \/ Tabulate

GateSpec == GateInit /\ [][GateNext]_allVars

(***************************************************************************)
(* Properties.                                                              *)
(***************************************************************************)

\* A gate that answers ready stands, for every check, on a passing entry of the
\* chain made for the reported candidate in the required environment with proof;
\* and when it exits successfully too, no later line, not even one a second
\* recorder slipped in while the gate was reading, says otherwise.
ReadyIsEarned ==
    \A strict \in BOOLEAN : reader.at = "head" /\ Answer(strict).ready =>
        \A k \in Checks : \E i \in 1 .. reader.count :
            LET e == chain[i].event IN
            /\ e.check = k /\ e.verdict = "PASS" /\ e.candidate = reader.candidate
            /\ e.environment = Required[k] /\ e.proofs # {}
            /\ chain[i].signer = reader.keyed
            /\ Answer(strict).exit = 0 =>
                  \A j \in i + 1 .. reader.count : chain[j].event.check # k

(***************************************************************************)
(* Why a ready answer is earned: the invariants of the proof.               *)
(***************************************************************************)

\* What mint let through stays true of it on its way to the chain.
MintedInv ==
    /\ \A r \in Recorders : \A e \in event[r] : e.environment = Required[e.check]
    /\ \A i \in 1 .. Len(chain) :
          chain[i].event.environment = Required[chain[i].event.check]

\* The lines the gate read are lines of the chain.
ReaderInv == reader \in Readings /\ reader.count <= Len(chain)

GateInv == LedgerInv /\ MintedInv /\ ReaderInv
=============================================================================
