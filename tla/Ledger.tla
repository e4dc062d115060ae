------------------------------- MODULE Ledger -------------------------------
(* The evidence store as it is written: `apex record`, the recorder a          *)
(* verification run or a host proof keeps open, and `apex candidate select`.   *)
(*                                                                             *)
(* No lock guards the store.  A recorder caches the head when it opens, files  *)
(* the proofs of a result, appends one line to the chain and then replaces the *)
(* head file; it may die between any two of these, and two recorders may be    *)
(* open at once.                                                               *)
(*                                                                             *)
(* A link is the digest of the previous link and the entry, so it names one    *)
(* line: it is that line's position, and 0 is GENESIS.  A MAC is confirmed by  *)
(* the key that made it, so an entry carries the number of its signer's key.   *)
(*                                                                             *)
(* The chain file is the sequence of what was appended to it.  The count the   *)
(* write returns is ignored, so a piece may lack its newline, or more; what is *)
(* appended next then continues its line.  Up to the first line that does not  *)
(* verify, pieces and lines are the same.                                      *)
EXTENDS Integers, Sequences, FiniteSets

CONSTANTS
    Recorders,      \* processes that record results
    Checks,         \* the catalogue
    Required,       \* the environment each check requires
    Hardware,       \* the checks of the hardware group
    Candidates,     \* digests of builds
    Payloads,       \* contents offered as proof
    Verdicts,       \* the verdicts results are recorded with
    Sessions,       \* how results are recorded in this instance
    MaxEntries      \* bound: appends to the chain

Environments == {"build", "build-container", "vm", "live-vm", "installer-vm",
                 "physical", "operator", "simulated"}
Stored       == {"PASS", "FAIL", "BLOCKED", "NOT TESTED"}

\* How much of a line reached the file: all of it, all but its newline, or less.
Writes       == {"line", "open", "cut"}

ASSUME CatalogueAssumption ==
    /\ Required \in [Checks -> Environments \ {"simulated"}]
    /\ Hardware \subseteq {k \in Checks : Required[k] = "physical"}
    /\ Verdicts \subseteq Stored
    /\ "none" \notin Candidates
    /\ Sessions \subseteq {"record", "verify"}

ASSUME BoundAssumption == MaxEntries \in Nat

Event == [check : Checks, verdict : Stored, environment : Environments,
          candidate : Candidates, proofs : SUBSET Payloads]
Entry == [sequence : Int, previous : Nat, signer : Nat, written : Writes, event : Event]
Heads == [sequence : Int, link : Nat]

EMPTY   == [sequence |-> -1, link |-> 0]
Nothing == {}

VARIABLES
    \* the runtime root
    mark,       \* version of the store: 1 also when absent, 3 for any later one
    key,        \* the key file, 0 when absent
    chain,      \* what was appended to the chain file
    head,       \* the head file, EMPTY when absent
    objects,    \* the object filed under the digest of each payload
    candidate,  \* the candidate document
    \* the recorders
    pc, session, holds, signer, cached, event,
    \* history
    keys,       \* keys made so far
    disturbed   \* a line without its head, or written short, or two recorders open

store    == <<mark, key, chain, head, objects, keys>>
recorder == <<pc, session, holds, signer, cached, event>>
vars     == <<store, candidate, recorder, disturbed>>

PCs      == {"idle", "newkey", "load", "open", "absorb", "head"}

TypeOK ==
    /\ mark \in 1 .. 3
    /\ key \in Nat /\ keys \in Nat
    /\ chain \in Seq(Entry)
    /\ head \in Heads
    /\ objects \in [Payloads -> {"absent", "intact", "altered"}]
    /\ candidate \in Candidates \cup {"none"}
    /\ pc \in [Recorders -> PCs]
    /\ session \in [Recorders -> {"record", "verify"}]
    /\ holds \in [Recorders -> Candidates \cup {"none"}]
    /\ signer \in [Recorders -> Nat]
    /\ cached \in [Recorders -> Heads]
    /\ event \in [Recorders -> SUBSET Event]
    /\ disturbed \in BOOLEAN

Init ==
    /\ mark \in {1, 3}
    /\ key = 0 /\ keys = 0
    /\ chain = <<>> /\ head = EMPTY
    /\ objects = [x \in Payloads |-> "absent"]
    /\ candidate = "none"
    /\ pc = [r \in Recorders |-> "idle"]
    /\ session = [r \in Recorders |-> "record"]
    /\ holds = [r \in Recorders |-> "none"]
    /\ signer = [r \in Recorders |-> 0]
    /\ cached = [r \in Recorders |-> EMPTY]
    /\ event = [r \in Recorders |-> Nothing]
    /\ disturbed = FALSE

(***************************************************************************)
(* The candidate.                                                           *)
(***************************************************************************)

\* select: one atomic write, whatever runs are under way.
Select(d) ==
    /\ candidate' = d
    /\ UNCHANGED <<store, recorder, disturbed>>

(***************************************************************************)
(* Recorder.open.                                                           *)
(***************************************************************************)

\* The process ends; nothing it held outlives it.
Leave(r) ==
    /\ pc' = [pc EXCEPT ![r] = "idle"]
    /\ session' = [session EXCEPT ![r] = "record"]
    /\ holds' = [holds EXCEPT ![r] = "none"]
    /\ signer' = [signer EXCEPT ![r] = 0]
    /\ cached' = [cached EXCEPT ![r] = EMPTY]
    /\ event' = [event EXCEPT ![r] = Nothing]

\* _require_mark, then signer_at: the key beside the chain, when there is one.  A
\* verification run and a host proof are bound to the candidate read before this;
\* `apex record` reads it later.
Open(r, how) ==
    /\ pc[r] = "idle"
    /\ mark < 3
    /\ how = "verify" => candidate # "none"
    /\ mark' = 2
    /\ pc' = [pc EXCEPT ![r] = IF key = 0 THEN "newkey" ELSE "load"]
    /\ session' = [session EXCEPT ![r] = how]
    /\ holds' = [holds EXCEPT ![r] = IF how = "verify" THEN candidate ELSE "none"]
    /\ signer' = [signer EXCEPT ![r] = key]
    /\ disturbed' = (disturbed \/ \E q \in Recorders \ {r} : pc[q] # "idle")
    /\ UNCHANGED <<key, chain, head, objects, keys, candidate, cached, event>>

\* None was found: fresh material is laid down, over whatever is there by now.
WriteKey(r) ==
    /\ pc[r] = "newkey"
    /\ keys' = keys + 1
    /\ key' = keys + 1
    /\ signer' = [signer EXCEPT ![r] = keys + 1]
    /\ pc' = [pc EXCEPT ![r] = "load"]
    /\ UNCHANGED <<mark, chain, head, objects, candidate, session, holds, cached,
                   event, disturbed>>

\* Mutant of LoadHead: a recorder starts from an empty chain.
LoadEmpty(r) ==
    /\ pc[r] = "load"
    /\ cached' = [cached EXCEPT ![r] = EMPTY]
    /\ pc' = [pc EXCEPT ![r] = "open"]
    /\ UNCHANGED <<store, candidate, session, holds, signer, event, disturbed>>

\* Ledger.__init__ keeps the stored head for the life of the recorder.
LoadHead(r) ==
    /\ pc[r] = "load"
    /\ cached' = [cached EXCEPT ![r] = head]
    /\ pc' = [pc EXCEPT ![r] = "open"]
    /\ UNCHANGED <<store, candidate, session, holds, signer, event, disturbed>>

(***************************************************************************)
(* mint: refuse, then absorb every proof, then append.                      *)
(***************************************************************************)

\* What require_attestable and _require_environment let through for a check.
Witnessed(k, environment) ==
    /\ k \in Hardware => environment = "physical"
    /\ environment # "simulated"
    /\ environment = Required[k]

\* _specification, _require_environment and _require_proof_for_pass together.
Acceptable(k, verdict, environment, proofs) ==
    /\ k \in Checks
    /\ Witnessed(k, environment)
    /\ verdict = "PASS" => proofs # {}

\* The build a result is recorded for.
Bound(r) == IF session[r] = "verify" THEN holds[r] ELSE candidate

\* Every caller offers at least its note or its report.
Offers == SUBSET Payloads \ {{}}

\* mint up to the last refusal.
Mint(r, k, verdict, environment, proofs) ==
    /\ pc[r] = "open"
    /\ Bound(r) # "none"
    /\ Acceptable(k, verdict, environment, proofs)
    /\ event' = [event EXCEPT ![r] =
           {[check |-> k, verdict |-> verdict, environment |-> environment,
             candidate |-> Bound(r), proofs |-> proofs]}]
    /\ pc' = [pc EXCEPT ![r] = "absorb"]
    /\ UNCHANGED <<store, candidate, session, holds, signer, cached, disturbed>>

\* A refusal ends the command; a verification run stops at its refused stage.
MintRefused(r) ==
    /\ pc[r] = "open"
    /\ \/ Bound(r) = "none"
       \/ \E k \in Checks, verdict \in Verdicts, environment \in Environments,
             proofs \in SUBSET Payloads : ~Acceptable(k, verdict, environment, proofs)
    /\ Leave(r)
    /\ UNCHANGED <<store, candidate, disturbed>>

\* The object names of a minted event.
Cited(r) == UNION {e.proofs : e \in event[r]}

\* absorb files a payload under its digest unless something is filed there.
Absorb(r, x) ==
    /\ pc[r] = "absorb"
    /\ x \in Cited(r) /\ objects[x] = "absent"
    /\ objects' = [objects EXCEPT ![x] = "intact"]
    /\ UNCHANGED <<mark, key, chain, head, keys, candidate, recorder, disturbed>>

\* The line after the cached head, and what every append does beside writing it.
LineOf(r, written, e) ==
    [sequence |-> cached[r].sequence + 1, previous |-> cached[r].link,
     signer |-> signer[r], written |-> written, event |-> e]

Appended(r, written) ==
    /\ cached' = [cached EXCEPT ![r] = [sequence |-> cached[r].sequence + 1,
                                        link |-> Len(chain) + 1]]
    /\ pc' = [pc EXCEPT ![r] = "head"]
    /\ event' = [event EXCEPT ![r] = Nothing]
    /\ disturbed' = (disturbed \/ written # "line")
    /\ UNCHANGED <<mark, key, head, objects, keys, candidate, session, holds,
                   signer>>

\* Mutant of AppendLine: the line is appended before its proofs are filed.
AppendUnfiled(r, written) ==
    /\ pc[r] = "absorb"
    /\ Len(chain) < MaxEntries
    /\ \E e \in event[r] : chain' = Append(chain, LineOf(r, written, e))
    /\ Appended(r, written)

\* Mutant of AppendLine: the file is written anew instead of appended to.
Overwrite(r, written) ==
    /\ pc[r] = "absorb"
    /\ \A x \in Cited(r) : objects[x] # "absent"
    /\ Len(chain) < MaxEntries
    /\ \E e \in event[r] : chain' = <<LineOf(r, written, e)>>
    /\ Appended(r, written)

\* Every proof is filed.  append: one line after the cached head, at the end of the
\* file, whatever is there.  A write cut short is not noticed, and the head moves on.
AppendLine(r, written) ==
    /\ pc[r] = "absorb"
    /\ \A x \in Cited(r) : objects[x] # "absent"
    /\ Len(chain) < MaxEntries
    /\ \E e \in event[r] : chain' = Append(chain, LineOf(r, written, e))
    /\ Appended(r, written)

\* The head file is replaced and the result acknowledged.  `apex record` ends; a
\* run goes on to its next result with the head it has in memory.
WriteHead(r) ==
    /\ pc[r] = "head"
    /\ head' = cached[r]
    /\ IF session[r] = "verify"
       THEN /\ pc' = [pc EXCEPT ![r] = "open"]
            /\ UNCHANGED <<session, holds, signer, cached, event>>
       ELSE Leave(r)
    /\ UNCHANGED <<mark, key, chain, objects, keys, candidate, disturbed>>

\* A run ends, a command is killed, or a port fails.
End(r) ==
    /\ pc[r] # "idle"
    /\ disturbed' = (disturbed \/ pc[r] = "head")
    /\ Leave(r)
    /\ UNCHANGED <<store, candidate>>

\* An object changes on disk.
Alter(x) ==
    /\ objects[x] = "intact"
    /\ objects' = [objects EXCEPT ![x] = "altered"]
    /\ UNCHANGED <<mark, key, chain, head, keys, candidate, recorder, disturbed>>

(***************************************************************************)
(* What the chain proves.                                                   *)
(***************************************************************************)

\* Of the first n pieces of the file, whether piece i is a line that parses: nothing
\* unended stands before it, and it is whole or lacks only the newline at the very end.
Parses(i, n) ==
    /\ i > 1 => chain[i - 1].written = "line"
    /\ chain[i].written = "line" \/ (i = n /\ chain[i].written = "open")

\* Whether a line is confirmed by the key and continues the line before it.
Confirmed(i, n, k) ==
    /\ Parses(i, n)
    /\ chain[i].sequence = i - 1
    /\ chain[i].signer = k
    /\ chain[i].previous = i - 1

\* verified: the positions up to the first break, of the first n pieces.
Verified(n, k) == {i \in 1 .. n : \A j \in 1 .. i : Confirmed(j, n, k)}

\* The break that replay reports, the stored head's included when there is one.
Broken(n, k, h) ==
    \/ Verified(n, k) # 1 .. n
    \/ h # EMPTY /\ (h.sequence # n - 1 \/ h.link # n)

(***************************************************************************)
(* The specification.                                                       *)
(***************************************************************************)

Record(r) ==
    \/ \E how \in Sessions : Open(r, how)
    \/ WriteKey(r) \/ LoadHead(r)
    \/ \E k \in Checks, verdict \in Verdicts, environment \in Environments,
          proofs \in Offers : Mint(r, k, verdict, environment, proofs)
    \/ MintRefused(r)
    \/ \E x \in Payloads : Absorb(r, x)
    \/ \E written \in Writes : AppendLine(r, written)
    \/ WriteHead(r) \/ End(r)

Next ==
    \/ \E r \in Recorders : Record(r)
    \/ \E d \in Candidates : Select(d)
    \/ \E x \in Payloads : Alter(x)

Spec == Init /\ [][Next]_vars

(***************************************************************************)
(* Properties.                                                              *)
(***************************************************************************)

\* "Nothing is filed before the last refusal", and nothing is cited before it is
\* filed: whenever a recorder dies, every line of the chain, verified or not, cites
\* objects the store has, and the chain is never without its mark and a key.
CitationsFiled ==
    /\ \A i \in 1 .. Len(chain) : \A x \in chain[i].event.proofs : objects[x] # "absent"
    /\ chain # <<>> => mark = 2 /\ key # 0

\* Recorders that never overlap, die between a line and its head, or meet a short
\* write leave a chain every line of which is confirmed, whose head file is the
\* last line except while that line's head is being written.
UndisturbedIsIntact ==
    ~disturbed =>
        /\ Verified(Len(chain), key) = 1 .. Len(chain)
        /\ (\A r \in Recorders : pc[r] # "head")
               => head.sequence = Len(chain) - 1 /\ head.link = Len(chain)

\* What is confirmed stays confirmed: no later result, crash, short write or second
\* recorder takes an entry out of the verified prefix, but for the last one when its
\* write lost the newline and something is appended to its line, and unless a second
\* opener that found no key replaced the key meanwhile.
PrefixKept ==
    [][key' = key =>
          \A i \in Verified(Len(chain), key) :
              \/ i \in Verified(Len(chain), key)'
              \/ i = Len(chain) /\ chain[i].written = "open"]_vars

(***************************************************************************)
(* Why the properties hold: the inductive invariant of the proofs.          *)
(***************************************************************************)

\* A recorder that is open has marked the root, and past the key there is one.
MarkInv ==
    \A r \in Recorders :
        /\ pc[r] # "idle" => mark = 2
        /\ pc[r] \in {"load", "open", "absorb", "head"} => key # 0

\* Undisturbed recorders follow one another.
AloneInv ==
    ~disturbed => \A q, r \in Recorders : pc[q] # "idle" /\ pc[r] # "idle" => q = r

\* The head a chain has, or is about to have.
LastLine == [sequence |-> Len(chain) - 1, link |-> Len(chain)]

\* Then what a recorder keeps in memory is what the files say.
ChainInv ==
    ~disturbed =>
        /\ \A i \in 1 .. Len(chain) :
              chain[i].written = "line" /\ Confirmed(i, Len(chain), key)
        /\ \A r \in Recorders : pc[r] = "newkey" => key = 0
        /\ \A r \in Recorders :
              pc[r] \in {"load", "open", "absorb", "head"} => signer[r] = key
        /\ \A r \in Recorders : pc[r] \in {"open", "absorb", "head"} => cached[r] = LastLine
        /\ (\A r \in Recorders : pc[r] # "head") => head = LastLine

LedgerInv == TypeOK /\ MarkInv /\ CitationsFiled /\ AloneInv /\ ChainInv
=============================================================================
