----------------------------- MODULE GatesProofs -----------------------------
(* Proofs about the two gates.  The evidence store, and that the readiness gate   *)
(* answers ready only on earned evidence, for every catalogue, every set of       *)
(* recorders, candidates and payloads, every version one store and every bound    *)
(* on the chain; what a judged push can leave on a remote, and what the Git       *)
(* checks say of the hooks, for any number of remotes, commits and kinds of rows. *)
EXTENDS Gates, SequenceTheorems, FiniteSetTheorems, TLAPS

(***************************************************************************)
(* Facts about the steps.                                                   *)
(***************************************************************************)

\* No step of the model changes or removes a line of the chain.
LEMMA ChainGrows ==
    ASSUME TypeOK, [Next]_vars
    PROVE  /\ Len(chain) \in Nat /\ Len(chain') \in Nat /\ Len(chain') >= Len(chain)
           /\ \A i \in 1 .. Len(chain) : chain'[i] = chain[i]
<1>1. chain \in Seq(Entry)
  BY DEF TypeOK
<1>2. CASE chain' = chain
  BY <1>1, <1>2
<1>3. ASSUME NEW e, chain' = Append(chain, e)
      PROVE  /\ Len(chain') = Len(chain) + 1
             /\ \A i \in 1 .. Len(chain) : chain'[i] = chain[i]
  BY <1>1, <1>3
<1>4. chain' = chain \/ \E e : chain' = Append(chain, e)
  <2>1. CASE UNCHANGED vars
    BY <2>1 DEF vars, store
  <2>2. ASSUME NEW r \in Recorders, Record(r)
        PROVE  chain' = chain \/ \E e : chain' = Append(chain, e)
    BY <2>2 DEF Record, Open, WriteKey, LoadHead, Mint, MintRefused, Absorb,
       AppendLine, LineOf, Appended, WriteHead, End, store
  <2>3. ASSUME NEW d \in Candidates, Select(d)
        PROVE  chain' = chain
    BY <2>3 DEF Select, store
  <2>4. ASSUME NEW x \in Payloads, Alter(x)
        PROVE  chain' = chain
    BY <2>4 DEF Alter
  <2>. QED  BY <2>1, <2>2, <2>3, <2>4 DEF Next
<1>. QED  BY <1>1, <1>2, <1>3, <1>4

\* A result that mint accepts is an event.
LEMMA MintedTyped ==
    ASSUME TypeOK, NEW r \in Recorders, NEW k \in Checks, NEW v \in Verdicts,
           NEW n \in Environments, NEW ps \in Offers, Mint(r, k, v, n, ps)
    PROVE  event' \in [Recorders -> SUBSET Event]
<1>1. Bound(r) \in Candidates
  BY DEF Mint, Bound, TypeOK
<1>2. [check |-> k, verdict |-> v, environment |-> n, candidate |-> Bound(r),
       proofs |-> ps] \in Event
  BY <1>1, CatalogueAssumption DEF Event, Offers
<1>. QED  BY <1>2 DEF Mint, TypeOK

\* A line that is appended is an entry.
LEMMA AppendedTyped ==
    ASSUME TypeOK, NEW r \in Recorders, NEW w \in Writes, AppendLine(r, w)
    PROVE  /\ chain' \in Seq(Entry)
           /\ cached' \in [Recorders -> Heads]
           /\ \E e \in event[r] : chain' = Append(chain,
                 [sequence |-> cached[r].sequence + 1, previous |-> cached[r].link,
                  signer |-> signer[r], written |-> w, event |-> e])
<1>1. PICK e \in event[r] : chain' = Append(chain,
          [sequence |-> cached[r].sequence + 1, previous |-> cached[r].link,
           signer |-> signer[r], written |-> w, event |-> e])
  BY DEF AppendLine, LineOf, Appended
<1>2. e \in Event /\ cached[r] \in Heads /\ signer[r] \in Nat /\ chain \in Seq(Entry)
  BY DEF TypeOK
<1>3. cached[r].sequence + 1 \in Int /\ cached[r].link \in Nat
  BY <1>2 DEF Heads
<1>4. [sequence |-> cached[r].sequence + 1, previous |-> cached[r].link,
       signer |-> signer[r], written |-> w, event |-> e] \in Entry
  BY <1>2, <1>3 DEF Entry
<1>5. chain' \in Seq(Entry)
  BY <1>1, <1>2, <1>4
<1>6. [sequence |-> cached[r].sequence + 1, link |-> Len(chain) + 1] \in Heads
  BY <1>2, <1>3 DEF Heads
<1>7. cached' \in [Recorders -> Heads]
  BY <1>6 DEF AppendLine, LineOf, Appended, TypeOK
<1>. QED  BY <1>1, <1>5, <1>7

(***************************************************************************)
(* Typing.                                                                  *)
(***************************************************************************)

LEMMA TypeInit == Init => TypeOK
<1>1. EMPTY \in Heads
  BY DEF EMPTY, Heads
<1>2. <<>> \in Seq(Entry)
  OBVIOUS
<1>3. ASSUME Init PROVE mark \in 1 .. 3 /\ key \in Nat /\ keys \in Nat
  BY <1>3 DEF Init
<1>4. ASSUME Init
      PROVE  /\ chain \in Seq(Entry) /\ head \in Heads
             /\ cached \in [Recorders -> Heads] /\ signer \in [Recorders -> Nat]
  BY <1>1, <1>2, <1>4 DEF Init
<1>5. ASSUME Init PROVE event \in [Recorders -> SUBSET Event] /\ disturbed \in BOOLEAN
  BY <1>5 DEF Init, Nothing
<1>6. ASSUME Init
      PROVE  /\ pc \in [Recorders -> PCs]
             /\ session \in [Recorders -> {"record", "verify"}]
             /\ holds \in [Recorders -> Candidates \cup {"none"}]
  BY <1>6 DEF Init, PCs
<1>7. ASSUME Init
      PROVE  /\ objects \in [Payloads -> {"absent", "intact", "altered"}]
             /\ candidate \in Candidates \cup {"none"}
  BY <1>7 DEF Init
<1>. QED  BY <1>3, <1>4, <1>5, <1>6, <1>7 DEF TypeOK

\* A recorder that ends leaves its own variables well formed.
LEMMA LeaveTyped ==
    ASSUME TypeOK, NEW r \in Recorders, Leave(r)
    PROVE  /\ pc' \in [Recorders -> PCs]
           /\ session' \in [Recorders -> {"record", "verify"}]
           /\ holds' \in [Recorders -> Candidates \cup {"none"}]
           /\ signer' \in [Recorders -> Nat]
           /\ cached' \in [Recorders -> Heads]
           /\ event' \in [Recorders -> SUBSET Event]
<1>1. EMPTY \in Heads
  BY DEF EMPTY, Heads
<1>. QED  BY <1>1 DEF TypeOK, Leave, PCs, Nothing

LEMMA TypeStep == TypeOK /\ [Next]_vars => TypeOK'
<1>. SUFFICES ASSUME TypeOK, [Next]_vars PROVE TypeOK'
  OBVIOUS
<1>1. CASE UNCHANGED vars
  BY <1>1 DEF TypeOK, vars, store, recorder
<1>2. ASSUME NEW r \in Recorders, NEW how \in Sessions, Open(r, how) PROVE TypeOK'
  BY <1>2, CatalogueAssumption DEF TypeOK, Open, PCs
<1>3. ASSUME NEW r \in Recorders, WriteKey(r) PROVE TypeOK'
  BY <1>3 DEF TypeOK, WriteKey, PCs
<1>4. ASSUME NEW r \in Recorders, LoadHead(r) PROVE TypeOK'
  BY <1>4 DEF TypeOK, LoadHead, PCs, store
<1>5. ASSUME NEW r \in Recorders, NEW k \in Checks, NEW v \in Verdicts,
             NEW n \in Environments, NEW ps \in Offers, Mint(r, k, v, n, ps)
      PROVE  TypeOK'
  <2>1. event' \in [Recorders -> SUBSET Event]
    BY <1>5, MintedTyped
  <2>. QED  BY <1>5, <2>1 DEF TypeOK, Mint, PCs, store
<1>6. ASSUME NEW r \in Recorders, MintRefused(r) PROVE TypeOK'
  BY <1>6, LeaveTyped DEF TypeOK, MintRefused, store
<1>7. ASSUME NEW r \in Recorders, NEW x \in Payloads, Absorb(r, x) PROVE TypeOK'
  BY <1>7 DEF TypeOK, Absorb, recorder
<1>8. ASSUME NEW r \in Recorders, NEW w \in Writes, AppendLine(r, w) PROVE TypeOK'
  <2>1. chain' \in Seq(Entry) /\ cached' \in [Recorders -> Heads]
    BY <1>8, AppendedTyped
  <2>. QED  BY <1>8, <2>1 DEF TypeOK, AppendLine, LineOf, Appended, PCs, Nothing
<1>9. ASSUME NEW r \in Recorders, WriteHead(r) PROVE TypeOK'
  <2>1. CASE session[r] = "verify"
    BY <1>9, <2>1 DEF TypeOK, WriteHead, PCs
  <2>2. CASE session[r] # "verify"
    BY <1>9, <2>2, LeaveTyped DEF TypeOK, WriteHead
  <2>. QED  BY <2>1, <2>2
<1>10. ASSUME NEW r \in Recorders, End(r) PROVE TypeOK'
  BY <1>10, LeaveTyped DEF TypeOK, End, store
<1>11. ASSUME NEW d \in Candidates, Select(d) PROVE TypeOK'
  BY <1>11 DEF TypeOK, Select, store, recorder
<1>12. ASSUME NEW x \in Payloads, Alter(x) PROVE TypeOK'
  BY <1>12 DEF TypeOK, Alter, recorder
<1>. QED  BY <1>1, <1>2, <1>3, <1>4, <1>5, <1>6, <1>7, <1>8, <1>9, <1>10, <1>11,
             <1>12 DEF Next, Record

\* Every state the store reaches is well formed, the lines written short and the
\* events under way included.
THEOREM StoreTyped == Spec => []TypeOK
BY TypeInit, TypeStep, PTL DEF Spec

(***************************************************************************)
(* The verified prefix.                                                     *)
(***************************************************************************)

\* What a gate could confirm before a step it can confirm after it, unless it was
\* the unended end of the file: appending is the only way the chain changes, and
\* confirming an ended line looks at no later one.
LEMMA PrefixStep ==
    ASSUME TypeOK, [Next]_vars, key' = key,
           NEW i \in Verified(Len(chain), key),
           ~(i = Len(chain) /\ chain[i].written = "open")
    PROVE  i \in Verified(Len(chain), key)'
<1>1. /\ Len(chain) \in Nat /\ Len(chain') \in Nat /\ Len(chain') >= Len(chain)
      /\ \A j \in 1 .. Len(chain) : chain'[j] = chain[j]
  BY ChainGrows
<1>2. i \in 1 .. Len(chain) /\ \A j \in 1 .. i : Confirmed(j, Len(chain), key)
  BY DEF Verified
<1>3. i \in 1 .. Len(chain')
  BY <1>1, <1>2
<1>4. ASSUME NEW j \in 1 .. i PROVE Confirmed(j, Len(chain), key)'
  <2>1. /\ j \in 1 .. Len(chain) /\ Confirmed(j, Len(chain), key)
        /\ j = Len(chain) => j = i
    BY <1>1, <1>2
  <2>2. chain[j].written = "line"
    BY <2>1 DEF Confirmed, Parses
  <2>3. /\ chain'[j] = chain[j]
        /\ j > 1 => chain'[j - 1].written = "line"
    BY <1>1, <2>1 DEF Confirmed, Parses
  <2>. QED  BY <2>1, <2>2, <2>3 DEF Confirmed, Parses
<1>. QED  BY <1>3, <1>4 DEF Verified

\* No result, crash, short write or second recorder takes an entry out of the
\* verified prefix while the key stays the same, but for a last one that lost its
\* newline.
THEOREM PrefixStands == Spec => PrefixKept
<1>1. TypeOK /\ [Next]_vars =>
         [key' = key =>
             \A i \in Verified(Len(chain), key) :
                 \/ i \in Verified(Len(chain), key)'
                 \/ i = Len(chain) /\ chain[i].written = "open"]_vars
  BY PrefixStep
<1>. QED  BY <1>1, StoreTyped, PTL DEF Spec, PrefixKept

(***************************************************************************)
(* The inductive invariant.                                                 *)
(***************************************************************************)

LEMMA LedgerInit == Init => LedgerInv
<1>. SUFFICES ASSUME Init PROVE LedgerInv
  OBVIOUS
<1>1. TypeOK
  BY TypeInit
<1>2. Len(chain) = 0 /\ \A r \in Recorders : pc[r] = "idle"
  BY DEF Init
<1>3. MarkInv /\ AloneInv
  BY <1>2 DEF MarkInv, AloneInv
<1>4. CitationsFiled
  BY <1>2 DEF CitationsFiled, Init
<1>5. head = LastLine
  BY <1>2 DEF Init, EMPTY, LastLine
<1>6. ChainInv
  BY <1>2, <1>5 DEF ChainInv
<1>. QED  BY <1>1, <1>3, <1>4, <1>6 DEF LedgerInv

\* The mark is written once and the key never removed.
LEMMA MarkStep == ASSUME TypeOK, MarkInv, [Next]_vars
                  PROVE  /\ MarkInv'
                         /\ mark = 2 => mark' = 2
                         /\ key # 0 => key' # 0
<1>1. CASE UNCHANGED vars
  BY <1>1 DEF MarkInv, vars, store, recorder
<1>2. ASSUME NEW r \in Recorders, NEW how \in Sessions, Open(r, how)
      PROVE  MarkInv' /\ mark' = 2 /\ key' = key
  BY <1>2 DEF TypeOK, MarkInv, Open
<1>3. ASSUME NEW r \in Recorders, WriteKey(r)
      PROVE  MarkInv' /\ mark' = mark /\ key' # 0
  BY <1>3 DEF TypeOK, MarkInv, WriteKey
<1>4. ASSUME NEW r \in Recorders, LoadHead(r)
      PROVE  MarkInv' /\ mark' = mark /\ key' = key
  BY <1>4 DEF TypeOK, MarkInv, LoadHead, store
<1>5. ASSUME NEW r \in Recorders, NEW k \in Checks, NEW v \in Verdicts,
             NEW n \in Environments, NEW ps \in Offers, Mint(r, k, v, n, ps)
      PROVE  MarkInv' /\ mark' = mark /\ key' = key
  BY <1>5 DEF TypeOK, MarkInv, Mint, store
<1>6. ASSUME NEW r \in Recorders, MintRefused(r)
      PROVE  MarkInv' /\ mark' = mark /\ key' = key
  BY <1>6 DEF TypeOK, MarkInv, MintRefused, Leave, store
<1>7. ASSUME NEW r \in Recorders, NEW x \in Payloads, Absorb(r, x)
      PROVE  MarkInv' /\ mark' = mark /\ key' = key
  BY <1>7 DEF TypeOK, MarkInv, Absorb, recorder
<1>8. ASSUME NEW r \in Recorders, NEW w \in Writes, AppendLine(r, w)
      PROVE  MarkInv' /\ mark' = mark /\ key' = key
  BY <1>8 DEF TypeOK, MarkInv, AppendLine, LineOf, Appended
<1>9. ASSUME NEW r \in Recorders, WriteHead(r)
      PROVE  MarkInv' /\ mark' = mark /\ key' = key
  BY <1>9 DEF TypeOK, MarkInv, WriteHead, Leave
<1>10. ASSUME NEW r \in Recorders, End(r)
       PROVE  MarkInv' /\ mark' = mark /\ key' = key
  BY <1>10 DEF TypeOK, MarkInv, End, Leave, store
<1>11. ASSUME NEW d \in Candidates, Select(d)
       PROVE  MarkInv' /\ mark' = mark /\ key' = key
  BY <1>11 DEF MarkInv, Select, store, recorder
<1>12. ASSUME NEW x \in Payloads, Alter(x)
       PROVE  MarkInv' /\ mark' = mark /\ key' = key
  BY <1>12 DEF MarkInv, Alter, recorder
<1>13. CASE \E r \in Recorders : Record(r)
  <2>. PICK r \in Recorders : Record(r)
    BY <1>13
  <2>. QED  BY <1>2, <1>3, <1>4, <1>5, <1>6, <1>7, <1>8, <1>9, <1>10 DEF Record
<1>. QED  BY <1>1, <1>11, <1>12, <1>13 DEF Next, vars, store

\* An object, once filed, stays filed.
LEMMA ObjectsStay ==
    ASSUME TypeOK, [Next]_vars, NEW x \in Payloads, objects[x] # "absent"
    PROVE  objects'[x] # "absent"
<1>1. CASE objects' = objects
  BY <1>1
<1>2. ASSUME NEW y \in Payloads,
             \/ objects' = [objects EXCEPT ![y] = "intact"]
             \/ objects' = [objects EXCEPT ![y] = "altered"]
      PROVE  objects'[x] # "absent"
  BY <1>2 DEF TypeOK
<1>3. ASSUME NEW r \in Recorders, Record(r)
      PROVE  \/ objects' = objects
             \/ \E y \in Payloads : objects' = [objects EXCEPT ![y] = "intact"]
  BY <1>3 DEF Record, Open, WriteKey, LoadHead, Mint, MintRefused, Absorb,
     AppendLine, LineOf, Appended, WriteHead, End, store
<1>4. CASE \E d \in Candidates : Select(d)
  BY <1>1, <1>4 DEF Select, store
<1>5. CASE \E y \in Payloads : Alter(y)
  BY <1>2, <1>5 DEF Alter
<1>6. CASE UNCHANGED vars
  BY <1>1, <1>6 DEF vars, store
<1>. QED  BY <1>1, <1>2, <1>3, <1>4, <1>5, <1>6 DEF Next

\* A step leaves the chain alone, or appends one line whose proofs are filed.
LEMMA ChainSteps ==
    ASSUME TypeOK, [Next]_vars
    PROVE  \/ chain' = chain
           \/ \E r \in Recorders, w \in Writes : AppendLine(r, w)
<1>1. ASSUME NEW r \in Recorders, Record(r)
      PROVE  chain' = chain \/ \E w \in Writes : AppendLine(r, w)
  BY <1>1 DEF Record, Open, WriteKey, LoadHead, Mint, MintRefused, Absorb, WriteHead,
     End, store
<1>2. ASSUME NEW d \in Candidates, Select(d) PROVE chain' = chain
  BY <1>2 DEF Select, store
<1>3. ASSUME NEW x \in Payloads, Alter(x) PROVE chain' = chain
  BY <1>3 DEF Alter
<1>4. CASE UNCHANGED vars
  BY <1>4 DEF vars, store
<1>. QED  BY <1>1, <1>2, <1>3, <1>4 DEF Next

LEMMA CitedStep == ASSUME TypeOK, MarkInv, CitationsFiled, [Next]_vars
                   PROVE  CitationsFiled'
<1>1. /\ \A x \in Payloads : objects[x] # "absent" => objects'[x] # "absent"
      /\ mark = 2 => mark' = 2
      /\ key # 0 => key' # 0
  BY ObjectsStay, MarkStep
<1>2. /\ chain \in Seq(Entry)
      /\ \A i \in 1 .. Len(chain) : chain[i].event.proofs \subseteq Payloads
  <2>1. chain \in Seq(Entry)
    BY DEF TypeOK
  <2>2. ASSUME NEW i \in 1 .. Len(chain) PROVE chain[i].event.proofs \subseteq Payloads
    <3>1. chain[i] \in Entry
      BY <2>1
    <3>2. chain[i].event \in Event
      BY <3>1 DEF Entry
    <3>. QED  BY <3>2 DEF Event
  <2>. QED  BY <2>1, <2>2
<1>3. CASE chain' = chain
  BY <1>1, <1>2, <1>3 DEF CitationsFiled
<1>4. ASSUME NEW r \in Recorders, NEW w \in Writes, AppendLine(r, w)
      PROVE  CitationsFiled'
  <2>1. PICK e \in event[r] : chain' = Append(chain,
            [sequence |-> cached[r].sequence + 1, previous |-> cached[r].link,
             signer |-> signer[r], written |-> w, event |-> e])
    BY <1>4, AppendedTyped
  <2>2. \A x \in e.proofs : objects[x] # "absent"
    BY <1>4, <2>1 DEF AppendLine, LineOf, Appended, Cited
  <2>3. mark = 2 /\ key # 0
    BY <1>4 DEF MarkInv, AppendLine, LineOf, Appended
  <2>4. objects' = objects /\ mark' = mark /\ key' = key
    BY <1>4 DEF AppendLine, LineOf, Appended
  <2>5. ASSUME NEW i \in 1 .. Len(chain')
        PROVE  \A x \in chain'[i].event.proofs : objects[x] # "absent"
    <3>1. CASE i \in 1 .. Len(chain)
      BY <1>2, <2>1, <3>1 DEF CitationsFiled
    <3>2. CASE i = Len(chain) + 1
      BY <1>2, <2>1, <2>2, <3>2
    <3>. QED  BY <1>2, <2>1, <3>1, <3>2
  <2>. QED  BY <2>3, <2>4, <2>5 DEF CitationsFiled
<1>. QED  BY <1>3, <1>4, ChainSteps

\* An undisturbed step is taken while every other recorder is closed.
LEMMA AloneStep == ASSUME TypeOK, AloneInv, [Next]_vars PROVE AloneInv'
<1>1. CASE UNCHANGED vars
  BY <1>1 DEF AloneInv, vars, recorder
<1>2. ASSUME NEW r \in Recorders, NEW how \in Sessions, Open(r, how) PROVE AloneInv'
  BY <1>2 DEF TypeOK, AloneInv, Open
<1>3. ASSUME NEW r \in Recorders, Record(r), ~\E how \in Sessions : Open(r, how)
      PROVE  AloneInv'
  <2>1. disturbed => disturbed'
    BY <1>3 DEF Record, WriteKey, LoadHead, Mint, MintRefused, Absorb, AppendLine, LineOf, Appended,
       WriteHead, End
  <2>2. pc[r] # "idle"
    BY <1>3 DEF Record, WriteKey, LoadHead, Mint, MintRefused, Absorb, AppendLine, LineOf, Appended,
       WriteHead, End
  <2>3. \A q \in Recorders : q # r => pc'[q] = pc[q]
    BY <1>3 DEF TypeOK, Record, WriteKey, LoadHead, Mint, MintRefused, Absorb,
       AppendLine, LineOf, Appended, WriteHead, End, Leave, recorder
  <2>. QED  BY <2>1, <2>2, <2>3 DEF AloneInv
<1>4. ASSUME NEW d \in Candidates, Select(d) PROVE AloneInv'
  BY <1>4 DEF AloneInv, Select, recorder
<1>5. ASSUME NEW x \in Payloads, Alter(x) PROVE AloneInv'
  BY <1>5 DEF AloneInv, Alter, recorder
<1>. QED  BY <1>1, <1>2, <1>3, <1>4, <1>5 DEF Next

\* While nothing disturbs the store, memory and files agree.  Only the recorder
\* that takes the step is open.
LEMMA ChainStep == ASSUME LedgerInv, [Next]_vars PROVE ChainInv'
<1>. SUFFICES ASSUME ~disturbed' PROVE ChainInv'
  BY DEF ChainInv
<1>t. TypeOK /\ MarkInv /\ CitationsFiled /\ AloneInv /\ ChainInv
  BY DEF LedgerInv
<1>l. chain \in Seq(Entry) /\ Len(chain) \in Nat
  BY <1>t DEF TypeOK
<1>1. CASE UNCHANGED vars
  BY <1>1, <1>t DEF ChainInv, LastLine, Confirmed, Parses, vars, store, recorder
<1>2. ASSUME NEW r \in Recorders, NEW how \in Sessions, Open(r, how) PROVE ChainInv'
  <2>1. ~disturbed /\ \A q \in Recorders : pc[q] = "idle"
    BY <1>2 DEF Open
  <2>2. chain' = chain /\ key' = key /\ head' = head /\ LastLine' = LastLine
    BY <1>2 DEF Open, LastLine
  <2>3. \A q \in Recorders : pc'[q] = "idle" \/ q = r
    BY <1>2, <2>1, <1>t DEF Open, TypeOK
  <2>4. (pc'[r] = "newkey" /\ key = 0) \/ (pc'[r] = "load" /\ signer'[r] = key)
    BY <1>2, <1>t DEF Open, TypeOK
  <2>. QED  BY <1>t, <2>1, <2>2, <2>3, <2>4 DEF ChainInv, Confirmed, Parses
<1>3. ASSUME NEW r \in Recorders, Record(r), ~\E how \in Sessions : Open(r, how)
      PROVE  ChainInv'
  <2>1. ~disturbed /\ pc[r] # "idle"
    <3>1. disturbed => disturbed'
      BY <1>3 DEF Record, WriteKey, LoadHead, Mint, MintRefused, Absorb, AppendLine, LineOf, Appended,
         WriteHead, End
    <3>2. pc[r] # "idle"
      BY <1>3 DEF Record, WriteKey, LoadHead, Mint, MintRefused, Absorb, AppendLine, LineOf, Appended,
         WriteHead, End
    <3>. QED  BY <3>1, <3>2
  <2>2. \A q \in Recorders : q # r => pc[q] = "idle"
    BY <1>t, <2>1 DEF AloneInv
  <2>3. \A q \in Recorders : q # r => pc'[q] = "idle"
    BY <1>3, <1>t, <2>2 DEF TypeOK, Record, WriteKey, LoadHead, Mint, MintRefused,
       Absorb, AppendLine, LineOf, Appended, WriteHead, End, Leave, recorder
  <2>4. CASE WriteKey(r)
    <3>1. chain = <<>> /\ chain' = chain /\ head' = head
      BY <1>t, <2>1, <2>4 DEF ChainInv, WriteKey, CitationsFiled
    <3>2. pc'[r] = "load" /\ signer'[r] = key'
      BY <2>4, <1>t DEF WriteKey, TypeOK
    <3>3. head = LastLine /\ LastLine' = LastLine
      BY <1>t, <2>1, <2>2, <2>4, <3>1 DEF ChainInv, WriteKey, LastLine
    <3>. QED  BY <2>3, <3>1, <3>2, <3>3 DEF ChainInv
  <2>5. CASE LoadHead(r)
    <3>1. head = LastLine
      BY <1>t, <2>1, <2>2, <2>5 DEF ChainInv, LoadHead
    <3>2. chain' = chain /\ head' = head /\ key' = key /\ LastLine' = LastLine
      BY <2>5 DEF LoadHead, store, LastLine
    <3>3. pc'[r] = "open" /\ signer'[r] = key /\ cached'[r] = head
      BY <1>t, <2>1, <2>5 DEF ChainInv, LoadHead, TypeOK
    <3>. QED  BY <1>t, <2>1, <2>3, <3>1, <3>2, <3>3 DEF ChainInv, Confirmed, Parses
  <2>6. ASSUME NEW k \in Checks, NEW v \in Verdicts, NEW n \in Environments,
               NEW ps \in Offers, Mint(r, k, v, n, ps)
        PROVE  ChainInv'
    <3>1. /\ chain' = chain /\ head' = head /\ key' = key /\ LastLine' = LastLine
          /\ pc[r] = "open" /\ pc'[r] = "absorb"
          /\ signer' = signer /\ cached' = cached
      BY <2>6, <1>t DEF Mint, store, LastLine, TypeOK
    <3>. QED  BY <1>t, <2>1, <2>2, <2>3, <3>1 DEF ChainInv, Confirmed, Parses
  <2>7. ASSUME NEW x \in Payloads, Absorb(r, x) PROVE ChainInv'
    <3>1. chain' = chain /\ head' = head /\ key' = key /\ LastLine' = LastLine
      BY <2>7 DEF Absorb, LastLine
    <3>. QED  BY <1>t, <2>1, <2>7, <3>1 DEF ChainInv, Confirmed, Parses, Absorb, recorder
  <2>8. ASSUME NEW w \in Writes, AppendLine(r, w) PROVE ChainInv'
    <3>1. PICK e \in event[r] : chain' = Append(chain,
              [sequence |-> cached[r].sequence + 1, previous |-> cached[r].link,
               signer |-> signer[r], written |-> w, event |-> e])
      BY <2>8, <1>t, AppendedTyped
    <3>2. cached[r] = LastLine /\ signer[r] = key /\ w = "line" /\ key' = key
      BY <2>8, <1>t, <2>1 DEF ChainInv, AppendLine, LineOf, Appended
    <3>3. cached[r].sequence = Len(chain) - 1 /\ cached[r].link = Len(chain)
      BY <3>2 DEF LastLine
    <3>4. Len(chain') = Len(chain) + 1
      BY <1>l, <3>1
    <3>5. ASSUME NEW i \in 1 .. Len(chain') 
             PROVE chain'[i].written = "line" /\ Confirmed(i, Len(chain), key)'
      <4>1. CASE i \in 1 .. Len(chain)
        <5>1. /\ chain'[i] = chain[i] /\ Confirmed(i, Len(chain), key)
              /\ i > 1 => chain'[i - 1] = chain[i - 1]
              /\ chain[i].written = "line"
          BY <1>l, <1>t, <2>1, <3>1, <4>1 DEF ChainInv
        <5>. QED  BY <3>2, <5>1 DEF Confirmed, Parses
      <4>2. CASE i = Len(chain) + 1
        <5>1. chain'[i] = [sequence |-> cached[r].sequence + 1,
                           previous |-> cached[r].link,
                           signer |-> signer[r], written |-> w, event |-> e]
          BY <1>l, <3>1, <4>2
        <5>2. i > 1 => chain'[i - 1] = chain[i - 1] /\ chain[i - 1].written = "line"
          BY <1>l, <1>t, <2>1, <3>1, <4>2 DEF ChainInv
        <5>. QED  BY <1>l, <3>2, <3>3, <4>2, <5>1, <5>2 DEF Confirmed, Parses
      <4>. QED  BY <1>l, <3>4, <4>1, <4>2
    <3>6. pc'[r] = "head" /\ signer'[r] = key
      BY <2>8, <1>t, <3>2 DEF AppendLine, LineOf, Appended, TypeOK
    <3>7. cached'[r] = [sequence |-> Len(chain), link |-> Len(chain) + 1]
      BY <2>8, <1>t, <1>l, <3>3 DEF AppendLine, LineOf, Appended, TypeOK
    <3>8. cached'[r] = LastLine'
      BY <1>l, <3>4, <3>7 DEF LastLine
    <3>. QED  BY <2>3, <3>2, <3>5, <3>6, <3>8 DEF ChainInv
  <2>9. CASE WriteHead(r)
    <3>1. /\ chain' = chain /\ key' = key /\ LastLine' = LastLine
          /\ cached[r] = LastLine /\ signer[r] = key /\ head' = LastLine
      BY <2>9, <1>t, <2>1 DEF WriteHead, LastLine, ChainInv
    <3>2. \/ pc'[r] = "open" /\ signer' = signer /\ cached' = cached
          \/ pc'[r] = "idle"
      BY <2>9, <1>t DEF WriteHead, Leave, TypeOK
    <3>. QED  BY <1>t, <2>1, <2>3, <3>1, <3>2 DEF ChainInv, Confirmed, Parses
  <2>10. CASE MintRefused(r) \/ End(r)
    <3>1. /\ chain' = chain /\ head' = head /\ key' = key /\ LastLine' = LastLine
          /\ pc[r] # "head" /\ pc'[r] = "idle"
      BY <2>10, <1>t DEF MintRefused, End, Leave, TypeOK, store, LastLine
    <3>. QED  BY <1>t, <2>1, <2>2, <2>3, <3>1 DEF ChainInv, Confirmed, Parses
  <2>. QED  BY <1>3, <2>4, <2>5, <2>6, <2>7, <2>8, <2>9, <2>10 DEF Record
<1>4. ASSUME NEW d \in Candidates, Select(d) PROVE ChainInv'
  BY <1>4, <1>t DEF ChainInv, LastLine, Confirmed, Parses, Select, store, recorder
<1>5. ASSUME NEW x \in Payloads, Alter(x) PROVE ChainInv'
  BY <1>5, <1>t DEF ChainInv, LastLine, Confirmed, Parses, Alter, recorder
<1>. QED  BY <1>1, <1>2, <1>3, <1>4, <1>5 DEF Next

\* The invariant the properties of the store rest on.
THEOREM LedgerInductive == Spec => []LedgerInv
<1>1. LedgerInv /\ [Next]_vars => LedgerInv'
  BY TypeStep, MarkStep, CitedStep, AloneStep, ChainStep DEF LedgerInv
<1>. QED  BY <1>1, LedgerInit, PTL DEF Spec

\* Wherever a recorder dies, no line cites an object that was not filed, and a
\* chain is never without its mark and its key.
THEOREM CitationsHold == Spec => []CitationsFiled
<1>1. LedgerInv => CitationsFiled
  BY DEF LedgerInv
<1>. QED  BY <1>1, LedgerInductive, PTL

\* Recorders that follow one another, with no line left without its head, leave a
\* chain that is confirmed to its last line.
THEOREM UndisturbedHolds == Spec => []UndisturbedIsIntact
<1>1. LedgerInv => UndisturbedIsIntact
  <2>. SUFFICES ASSUME LedgerInv, ~disturbed
                PROVE  /\ Verified(Len(chain), key) = 1 .. Len(chain)
                       /\ (\A r \in Recorders : pc[r] # "head")
                             => head.sequence = Len(chain) - 1 /\ head.link = Len(chain)
    BY DEF UndisturbedIsIntact
  <2>1. chain \in Seq(Entry) /\ Len(chain) \in Nat
    BY DEF LedgerInv, TypeOK
  <2>2. \A i \in 1 .. Len(chain) : Confirmed(i, Len(chain), key)
    BY DEF LedgerInv, ChainInv
  <2>3. \A i \in 1 .. Len(chain) : \A j \in 1 .. i : j \in 1 .. Len(chain)
    BY <2>1
  <2>. QED  BY <2>2, <2>3 DEF LedgerInv, ChainInv, LastLine, Verified
<1>. QED  BY <1>1, LedgerInductive, PTL

(***************************************************************************)
(* The readiness gate.                                                      *)
(***************************************************************************)

\* The gate takes no step of the store, and the store none of the gate.
LEMMA GateSteps ==
    ASSUME [GateNext]_allVars
    PROVE  /\ [Next]_vars
           /\ \/ ReadMark \/ FindKey \/ ReadLines \/ Tabulate
              \/ reader' = reader
BY DEF GateNext, allVars, ReadMark, FindKey, ReadLines, Tabulate

LEMMA MintedStep == ASSUME TypeOK, MintedInv, [Next]_vars PROVE MintedInv'
<1>c. chain \in Seq(Entry) /\ Len(chain) \in Nat
  BY DEF TypeOK
<1>1. \A r \in Recorders : \A e \in event'[r] : e.environment = Required[e.check]
  <2>1. ASSUME NEW q \in Recorders, Record(q)
        PROVE  \A r \in Recorders : \A e \in event'[r] : e.environment = Required[e.check]
    <3>1. ASSUME NEW k \in Checks, NEW v \in Verdicts, NEW n \in Environments,
                 NEW ps \in Offers, Mint(q, k, v, n, ps)
          PROVE  \A r \in Recorders : \A e \in event'[r] :
                     e.environment = Required[e.check]
      <4>1. n = Required[k]
        BY <3>1 DEF Mint, Acceptable, Witnessed
      <4>. QED  BY <3>1, <4>1 DEF Mint, MintedInv, TypeOK
    <3>2. CASE event' = event
      BY <3>2 DEF MintedInv
    <3>3. CASE event' = [event EXCEPT ![q] = Nothing]
      BY <3>3 DEF MintedInv, TypeOK, Nothing
    <3>4. \/ event' = event
          \/ event' = [event EXCEPT ![q] = Nothing]
          \/ \E k \in Checks, v \in Verdicts, n \in Environments, ps \in Offers :
                 Mint(q, k, v, n, ps)
      BY <2>1 DEF Record, Open, WriteKey, LoadHead, MintRefused, Absorb, AppendLine, LineOf, Appended,
         WriteHead, End, Leave, recorder
    <3>. QED  BY <3>1, <3>2, <3>3, <3>4
  <2>2. CASE event' = event
    BY <2>2 DEF MintedInv
  <2>3. event' = event \/ \E q \in Recorders : Record(q)
    BY DEF Next, Select, Alter, vars, recorder
  <2>. QED  BY <2>1, <2>2, <2>3
<1>2. \A i \in 1 .. Len(chain') :
          chain'[i].event.environment = Required[chain'[i].event.check]
  <2>1. CASE chain' = chain
    BY <2>1 DEF MintedInv
  <2>2. ASSUME NEW r \in Recorders, NEW w \in Writes, AppendLine(r, w),
               NEW i \in 1 .. Len(chain')
        PROVE  chain'[i].event.environment = Required[chain'[i].event.check]
    <3>1. PICK e \in event[r] : chain' = Append(chain,
              [sequence |-> cached[r].sequence + 1, previous |-> cached[r].link,
               signer |-> signer[r], written |-> w, event |-> e])
      BY <2>2, AppendedTyped
    <3>2. e.environment = Required[e.check]
      BY <3>1 DEF MintedInv
    <3>3. CASE i \in 1 .. Len(chain)
      BY <1>c, <3>1, <3>3 DEF MintedInv
    <3>4. CASE i = Len(chain) + 1
      BY <1>c, <3>1, <3>2, <3>4
    <3>. QED  BY <1>c, <3>1, <3>3, <3>4
  <2>. QED  BY <2>1, <2>2, ChainSteps
<1>. QED  BY <1>1, <1>2 DEF MintedInv

LEMMA ReaderStep ==
    ASSUME TypeOK, TypeOK', ReaderInv, [GateNext]_allVars PROVE ReaderInv'
<1>1. Len(chain) \in Nat /\ Len(chain') \in Nat /\ Len(chain') >= Len(chain)
  BY GateSteps, ChainGrows
<1>2. CASE reader' = reader
  BY <1>1, <1>2 DEF ReaderInv, Readings
<1>3. CASE ReadMark
  BY <1>1, <1>3 DEF ReadMark, Reading, ReaderInv, Readings, TypeOK
<1>4. CASE FindKey
  BY <1>1, <1>4 DEF FindKey, Reading, ReaderInv, Readings, TypeOK
<1>5. CASE ReadLines
  <2>1. chain' = chain /\ reader' = Reading("head", reader.candidate, TRUE, reader.keyed,
                                            Len(chain))
    BY <1>5 DEF ReadLines, vars, store
  <2>. QED  BY <1>1, <2>1 DEF Reading, ReaderInv, Readings
<1>6. CASE Tabulate
  BY <1>1, <1>6 DEF Tabulate, NoReading, Reading, ReaderInv, Readings
<1>. QED  BY <1>2, <1>3, <1>4, <1>5, <1>6, GateSteps

\* The invariant of the gate and the store together.
THEOREM GateInductive == GateSpec => []GateInv
<1>1. GateInit => GateInv
  <2>. SUFFICES ASSUME GateInit PROVE GateInv
    OBVIOUS
  <2>1. LedgerInv
    BY LedgerInit DEF GateInit
  <2>2. Len(chain) = 0 /\ \A r \in Recorders : event[r] = {}
    BY DEF GateInit, Init, Nothing
  <2>3. MintedInv
    BY <2>2 DEF MintedInv
  <2>4. ReaderInv
    BY <2>2 DEF GateInit, ReaderInv, NoReading, Reading, Readings
  <2>. QED  BY <2>1, <2>3, <2>4 DEF GateInv
<1>2. GateInv /\ [GateNext]_allVars => GateInv'
  <2>. SUFFICES ASSUME GateInv, [GateNext]_allVars PROVE GateInv'
    OBVIOUS
  <2>1. [Next]_vars
    BY GateSteps
  <2>2. LedgerInv'
    BY <2>1, TypeStep, MarkStep, CitedStep, AloneStep, ChainStep DEF GateInv, LedgerInv
  <2>3. MintedInv'
    BY <2>1, MintedStep DEF GateInv, LedgerInv
  <2>4. ReaderInv'
    BY <2>2, ReaderStep DEF GateInv, LedgerInv
  <2>. QED  BY <2>2, <2>3, <2>4 DEF GateInv
<1>. QED  BY <1>1, <1>2, PTL DEF GateSpec

\* A ready answer stands, for every check, on a passing line of the chain made for
\* the candidate that was read, in the required environment, with proof; and with
\* a successful exit no later line the gate read is about that check.
THEOREM ReadyHolds == GateSpec => []ReadyIsEarned
<1>1. GateInv => ReadyIsEarned
  <2>. SUFFICES ASSUME GateInv, NEW strict \in BOOLEAN, reader.at = "head",
                       Answer(strict).ready, NEW k \in Checks
                PROVE  \E i \in 1 .. reader.count :
                         /\ chain[i].event.check = k
                         /\ chain[i].event.verdict = "PASS"
                         /\ chain[i].event.candidate = reader.candidate
                         /\ chain[i].event.environment = Required[k]
                         /\ chain[i].event.proofs # {}
                         /\ chain[i].signer = reader.keyed
                         /\ Answer(strict).exit = 0 =>
                              \A j \in i + 1 .. reader.count : chain[j].event.check # k
    BY DEF ReadyIsEarned
  <2>c. reader.count \in Nat /\ Len(chain) \in Nat /\ reader.count <= Len(chain)
    BY DEF GateInv, LedgerInv, TypeOK, ReaderInv, Readings
  <2>1. Ready(Held, reader.candidate)
    BY DEF Answer
  <2>2. PICK x \in Resolved(k, Held) : /\ ~Faulty(k, x, reader.candidate)
                                       /\ x.verdict = "PASS"
                                       /\ ~x.imported
    BY <2>1 DEF Ready, Passing
  <2>3. Latest(k, Held) # {} /\ x \in Recorded(k, Held)
    BY <2>2 DEF Resolved, Imported
  <2>4. PICK i \in Latest(k, Held) :
            /\ x.verdict = chain[i].event.verdict
            /\ x.candidate = chain[i].event.candidate
            /\ x.count = Cardinality(chain[i].event.proofs)
    BY <2>3 DEF Recorded
  <2>5. /\ i \in 1 .. reader.count /\ Confirmed(i, reader.count, reader.keyed)
        /\ chain[i].event.check = k
        /\ \A j \in Held : chain[j].event.check = k => j <= i
    BY <2>4, <2>c DEF Latest, Held, Verified
  <2>6. x.candidate = reader.candidate /\ x.count # 0
    BY <2>2 DEF Faulty
  <2>7. chain[i].event.proofs # {}
    BY <2>4, <2>6, FS_EmptySet
  <2>8. chain[i].event.environment = Required[k]
    BY <2>5, <2>c DEF GateInv, MintedInv
  <2>9. ASSUME Answer(strict).exit = 0, NEW j \in i + 1 .. reader.count
        PROVE  chain[j].event.check # k
    <3>1. ~Faults(Held, reader.candidate, ChainFault)
      BY <2>9 DEF Answer
    <3>2. ~Broken(reader.count, reader.keyed, head)
      BY <3>1, <2>5, <2>c DEF Faults, ChainFault
    <3>3. Held = 1 .. reader.count
      BY <3>2 DEF Broken, Held
    <3>. QED  BY <2>5, <2>c, <3>3
  <2>. QED  BY <2>2, <2>4, <2>5, <2>6, <2>7, <2>8, <2>9 DEF Confirmed, Parses
<1>. QED  BY <1>1, GateInductive, PTL

(***************************************************************************)
(* The hooks.                                                               *)
(***************************************************************************)

\* A commit nobody judged, or without a fault that a working rule finds.
Sound(c) == c \in unjudged \/ CommitFaults(history, c) \subseteq broken

SoundLine(c) == \A k \in Line(history, c) : Sound(k)

\* What the commits refer to, and what a command in progress does, exists.
InRange ==
    /\ \A c \in 1..Len(history) : history[c].line \in SUBSET (1..Len(history))
    /\ doing.op = "push" => doing.local \in 0..Len(history) /\ doing.seen \in 0..Len(history)
    /\ doing.op = "commit" => doing.line \in SUBSET (1..Len(history))
    /\ doing.op = "install" => doing.left # <<>>

\* What a remote or a tracking branch holds, what the push under way read there, and
\* what the hook permitted: all of it sound.
AllSound ==
    /\ \A r \in Remotes : SoundLine(remote[r])
    /\ \A r \in Remotes : SoundLine(tracking[r])
    /\ doing.op = "push" => SoundLine(doing.seen) /\ (doing.judged => SoundLine(doing.local))

\* What the commit hooks have seen is at fault only where a rule finds nothing.
CheckedSound ==
    /\ \A c \in 1..Len(history) : history[c].checked => CommitFaults(history, c) \subseteq broken
    /\ doing.op = "commit" /\ doing.verify /\ Ours("pre-commit") /\ ~doing.restaged
          => TreeFindings(doing.tree) \subseteq broken

\* A commit descends from all that the commits it descends from do.
LinesClosed ==
    /\ \A c \in 1..Len(history) : \A k \in history[c].line : history[k].line \subseteq history[c].line
    /\ doing.op = "commit" => \A k \in doing.line : history[k].line \subseteq doing.line

HooksInv == HooksTypeOK /\ InRange /\ LinesClosed /\ AllSound /\ CheckedSound

-----------------------------------------------------------------------------
(* Every fault of a commit is one the rules look for: a file whose size is not        *)
(* refused is read.                                                                    *)
LEMMA FaultsAreFound ==
    ASSUME NEW h, NEW c, h[c].tree \in SUBSET Row
    PROVE  CommitFaults(h, c) \subseteq MessageFindings(h[c].message) \cup TreeFindings(h[c].tree)
<1> SUFFICES ASSUME NEW f \in CommitFaults(h, c)
             PROVE  f \in MessageFindings(h[c].message) \cup TreeFindings(h[c].tree)
    OBVIOUS
<1>1. CASE f \in MessageFindings(h[c].message)
    BY <1>1
<1>2. CASE \E row \in h[c].tree : f \in EntryFindings(row)
    BY <1>2 DEF TreeFindings
<1>3. CASE f = "key" /\ \E row \in h[c].tree :
              row.payload = "key" /\ row.mode = "file" /\ "size" \notin EntryFindings(row)
    <2>1. PICK row \in h[c].tree :
              row.payload = "key" /\ row.mode = "file" /\ "size" \notin EntryFindings(row)
        BY <1>3
    <2>2. row.size <= Limit
        BY <2>1 DEF EntryFindings, TooLarge, Row, Limit
    <2>3. row \in Readable(h[c].tree) /\ f \in ContentFindings(row)
        BY <1>3, <2>1, <2>2 DEF Readable, ContentFindings
    <2> QED BY <2>3 DEF TreeFindings
<1> QED BY <1>1, <1>2, <1>3 DEF CommitFaults

(* When the three Git checks pass, no rule whose fault a question names finds nothing. *)
LEMMA PassMeansAsked ==
    ASSUME proofs = Proven, proofs = [k \in GitChecks |-> "PASS"]
    PROVE  Asked \cap broken = {}
<1>1. /\ Verdict(PolicyQuestions) = "PASS"
      /\ Verdict(StageQuestions) = "PASS"
    <2>1. Proven["git.commit-policy"] = "PASS" /\ Proven["git.private-stage"] = "PASS"
        BY DEF GitChecks
    <2> QED BY <2>1 DEF Proven, GitChecks
<1>2. \A q \in PolicyQuestions \cup StageQuestions : Met(q)
    BY <1>1 DEF Verdict
<1>3. "message" \notin broken
    <2>1. Question(MessageFindings("malformed"), MessageFindings("malformed") \ broken)
              \in PolicyQuestions
        BY DEF PolicyQuestions, Messages
    <2>2. MessageFindings("malformed") = {"message"}
        BY DEF MessageFindings
    <2> QED BY <1>2, <2>1, <2>2 DEF Question, Met
<1>4. /\ Question({"document"}, TreeFindings({PrivateRow}) \ broken) \in StageQuestions
      /\ Question({"key"}, TreeFindings({KeyRow}) \ broken) \in StageQuestions
      /\ Question({"mode"}, TreeFindings({LinkRow}) \ broken) \in StageQuestions
    <2> DEFINE pairs == {<<{}, CleanRow>>, <<{"document"}, PrivateRow>>,
                         <<{"key"}, KeyRow>>, <<{"mode"}, LinkRow>>}
               Q(e) == Question(e[1], TreeFindings({e[2]}) \ broken)
    <2>1. StageQuestions = {Q(e) : e \in pairs}
        BY DEF StageQuestions
    <2>2. Q(<<{"document"}, PrivateRow>>) \in StageQuestions
        BY <2>1
    <2>3. Q(<<{"key"}, KeyRow>>) \in StageQuestions
        BY <2>1
    <2>4. Q(<<{"mode"}, LinkRow>>) \in StageQuestions
        BY <2>1
    <2> QED BY <2>2, <2>3, <2>4
<1>5. "document" \notin broken /\ "key" \notin broken /\ "mode" \notin broken
    BY <1>2, <1>4 DEF Question, Met
<1> QED BY <1>3, <1>5 DEF Asked

-----------------------------------------------------------------------------
(* A step that adds at most one commit, judges no less and breaks no rule keeps every *)
(* line that is sound.                                                                *)
LEMMA LinesStaySound ==
    ASSUME HooksTypeOK, InRange, NEW e \in Commit,
           history' \in {history, Append(history, e)},
           unjudged \subseteq unjudged', broken' = broken
    PROVE  /\ Len(history') >= Len(history)
           /\ \A c \in 1..Len(history) : history'[c] = history[c]
           /\ \A c \in 0..Len(history) : Line(history', c) = Line(history, c)
           /\ \A c \in 1..Len(history) : CommitFaults(history', c) = CommitFaults(history, c)
           /\ \A c \in 0..Len(history) : SoundLine(c) => SoundLine(c)'
<1>1. Len(history) \in Nat /\ Len(history') \in {Len(history), Len(history) + 1}
    BY DEF HooksTypeOK
<1>2. \A c \in 1..Len(history) : history'[c] = history[c]
    BY DEF HooksTypeOK
<1>3. \A c \in 0..Len(history) : Line(history', c) = Line(history, c)
    BY <1>1, <1>2 DEF Line
<1>4. \A c \in 1..Len(history) : CommitFaults(history', c) = CommitFaults(history, c)
    BY <1>2 DEF CommitFaults
<1>5. ASSUME NEW c \in 0..Len(history), SoundLine(c) PROVE SoundLine(c)'
    <2>1. Line(history, c) \subseteq 1..Len(history)
        BY <1>1 DEF Line, InRange
    <2> QED BY <1>3, <1>4, <1>5, <2>1 DEF SoundLine, Sound
<1> QED BY <1>1, <1>2, <1>3, <1>4, <1>5

-----------------------------------------------------------------------------
LEMMA InitInv == HooksInit => HooksInv
<1> SUFFICES ASSUME HooksInit PROVE HooksInv
    OBVIOUS
<1> USE HooksAssumption
<1>1. Len(history) = 1 /\ history[1] = RootCommit /\ RootCommit \in Commit
    BY DEF HooksInit, RootCommit, Commit, Messages
<1>2. HooksTypeOK
    <2>1. history \in Seq(Commit)
        BY <1>1 DEF HooksInit
    <2>2. broken \in SUBSET Rules
        BY DEF HooksInit, HooksAssumption
    <2>3. hooks \in [Kinds -> {"none", "ours", "foreign"}]
        BY DEF HooksInit
    <2> QED BY <1>1, <2>1, <2>2, <2>3 DEF HooksInit, HooksTypeOK, Doing
<1>3. InRange
    BY <1>1 DEF HooksInit, InRange, Idle, RootCommit
<1>8. LinesClosed
    BY <1>1 DEF HooksInit, LinesClosed, Idle, RootCommit
<1>4. CommitFaults(history, 1) = {}
    BY <1>1 DEF CommitFaults, MessageFindings, RootCommit
<1>5. \A c \in 1..Len(history) : CommitFaults(history, c) \subseteq broken
    BY <1>1, <1>4
<1>6. SoundLine(1)
    BY <1>1, <1>4 DEF SoundLine, Sound, Line, RootCommit
<1>7. AllSound /\ CheckedSound
    BY <1>5, <1>6 DEF HooksInit, AllSound, CheckedSound, Idle
<1> QED BY <1>2, <1>3, <1>7, <1>8 DEF HooksInv

(* What every step does to the commits: none is lost or changed, and one is added at   *)
(* most.                                                                               *)
LEMMA StepGrows ==
    ASSUME HooksTypeOK, InRange, HooksNext
    PROVE  /\ \E e \in Commit : history' \in {history, Append(history, e)}
           /\ unjudged \subseteq unjudged' /\ unjudged' \in SUBSET Nat
           /\ broken' = broken
<1>0. Len(history) \in Nat
    BY DEF HooksTypeOK
<1>1. RootCommit \in Commit
    BY DEF RootCommit, Commit, Messages
<1>2. CASE history' = history /\ unjudged' = unjudged /\ broken' = broken
    BY <1>1, <1>2 DEF HooksTypeOK
<1>3. CASE EndCommit
    <2>1. doing.line \in SUBSET (1..Len(history)) /\ doing.tree \in SUBSET Row
              /\ doing.message \in Messages /\ doing.verify \in BOOLEAN
              /\ doing.restaged \in BOOLEAN
        BY <1>3 DEF EndCommit, HooksTypeOK, InRange, Doing, Idle
    <2> DEFINE e == [line |-> doing.line \cup {Len(history) + 1}, tree |-> doing.tree,
                     message |-> doing.message,
                     checked |-> /\ doing.verify /\ Ours("pre-commit") /\ Ours("commit-msg")
                                 /\ ~doing.restaged]
    <2>2. e.checked \in BOOLEAN
        BY DEF Ours
    <2>3. e \in Commit
        BY <1>0, <2>1, <2>2 DEF Commit
    <2>4. history' = Append(history, e) /\ UNCHANGED <<unjudged, broken>>
        BY <1>3 DEF EndCommit
    <2> QED BY <2>3, <2>4 DEF HooksTypeOK
<1>4. CASE SendPush
    <2>1. Line(history, doing.local) \in SUBSET Nat
        BY <1>4 DEF SendPush, Line, InRange
    <2>2. history' = history /\ broken' = broken
              /\ unjudged' = unjudged \cup (IF doing.judged THEN {} ELSE Line(history, doing.local))
        BY <1>4 DEF SendPush
    <2>3. unjudged' \in SUBSET Nat
        BY <2>1, <2>2 DEF HooksTypeOK
    <2> QED BY <1>1, <2>2, <2>3
<1>5. ASSUME NEW r \in Remotes, NEW tree \in Trees, OthersPush(r, tree)
      PROVE  /\ \E e \in Commit : history' \in {history, Append(history, e)}
             /\ unjudged \subseteq unjudged' /\ unjudged' \in SUBSET Nat
             /\ broken' = broken
    <2>1. Line(history, remote[r]) \in SUBSET Nat /\ tree \in SUBSET Row
        BY HooksAssumption DEF Line, InRange, HooksTypeOK, Trees, HooksAssumption
    <2> DEFINE e == [line |-> Line(history, remote[r]) \cup {Len(history) + 1}, tree |-> tree,
                     message |-> "conventional", checked |-> FALSE]
    <2>2. e \in Commit
        BY <1>0, <2>1 DEF Commit, Messages
    <2>3. history' = Append(history, e) /\ broken' = broken
              /\ unjudged' = unjudged \cup {Len(history) + 1}
        BY <1>5 DEF OthersPush
    <2>4. unjudged \in SUBSET Nat /\ unjudged' = unjudged \cup {Len(history) + 1}
        BY <2>3 DEF HooksTypeOK
    <2>5. unjudged' \in SUBSET Nat
        <3>1. Len(history) + 1 \in Nat
            BY <1>0
        <3> QED BY <2>4, <3>1, Zenon
    <2> HIDE DEF e
    <2> QED BY <2>2, <2>3, <2>5
<1> QED BY <1>2, <1>3, <1>4, <1>5
        DEF HooksNext, Install, WriteHook, Abandon, MoveAside, BeginCommit, Restage, BeginPush,
            JudgePush, SkipJudging, Fetch, OthersRewind, ProveGit

LEMMA TypeNext ==
    ASSUME HooksTypeOK, InRange, HooksNext
    PROVE  HooksTypeOK'
<1>0. Len(history) \in Nat
    BY DEF HooksTypeOK
<1>1. PICK e \in Commit : history' \in {history, Append(history, e)}
    BY StepGrows
<1>2. broken' = broken /\ unjudged' \in SUBSET Nat
    BY StepGrows
<1>3. history' \in Seq(Commit) /\ Len(history') \in {Len(history), Len(history) + 1}
    <2>1. history \in Seq(Commit)
        BY DEF HooksTypeOK
    <2> QED BY <1>1, <2>1, AppendProperties
<1>4. broken' \in SUBSET Rules
    BY <1>2 DEF HooksTypeOK
<1>5. hooks' \in [Kinds -> {"none", "ours", "foreign"}]
    <2>1. CASE hooks' = hooks
        BY <2>1 DEF HooksTypeOK
    <2>2. CASE WriteHook
        BY <2>2 DEF WriteHook, HooksTypeOK
    <2>3. ASSUME NEW k \in Kinds, MoveAside(k)
          PROVE  hooks' \in [Kinds -> {"none", "ours", "foreign"}]
        BY <2>3 DEF MoveAside, HooksTypeOK
    <2> QED BY <2>1, <2>2, <2>3
            DEF HooksNext, Install, Abandon, BeginCommit, Restage, EndCommit, BeginPush,
                JudgePush, SkipJudging, SendPush, Fetch, OthersPush, OthersRewind, ProveGit
<1>6. doing' \in Doing
    <2>1. CASE doing' = doing \/ doing' = Idle
        BY <2>1 DEF HooksTypeOK, Doing
    <2>2. CASE Install
        BY <2>2 DEF Install, Doing, Order, Kinds
    <2>3. CASE WriteHook
        <3>1. doing.left \in Seq(Kinds) /\ doing \in [op : {"install"}, left : Seq(Kinds)]
            BY <2>3 DEF WriteHook, HooksTypeOK, Doing, Idle
        <3>2. CASE doing' = [doing EXCEPT !.left = Tail(@)]
            <4>1. Tail(doing.left) \in Seq(Kinds)
                BY <2>3, <3>1, HeadTailProperties DEF InRange
            <4> QED BY <3>1, <3>2, <4>1 DEF Doing
        <3> QED BY <2>1, <2>3, <3>2 DEF WriteHook
    <2>4. ASSUME NEW parent \in known, NEW tree \in Trees, NEW message \in Messages,
                 NEW verify \in BOOLEAN, BeginCommit(parent, tree, message, verify)
          PROVE  doing' \in Doing
        <3>1. Line(history, parent) \in SUBSET Nat /\ tree \in SUBSET Row
            BY HooksAssumption DEF Line, InRange, HooksTypeOK, Trees, HooksAssumption
        <3> QED BY <2>4, <3>1 DEF BeginCommit, Doing
    <2>5. ASSUME NEW tree \in Trees, Restage(tree) PROVE doing' \in Doing
        <3>1. tree \in SUBSET Row
            BY HooksAssumption DEF Trees, HooksAssumption
        <3> QED BY <2>5, <3>1 DEF Restage, HooksTypeOK, Doing, Idle
    <2>6. ASSUME NEW r \in Remotes, NEW local \in known \cup {0}, BeginPush(r, local)
          PROVE  doing' \in Doing
        BY <2>6, <1>0 DEF BeginPush, Doing, HooksTypeOK
    <2>7. CASE JudgePush \/ SkipJudging
        BY <2>7 DEF JudgePush, SkipJudging, HooksTypeOK, Doing, Idle
    <2> QED BY <2>1, <2>2, <2>3, <2>4, <2>5, <2>6, <2>7
            DEF HooksNext, Abandon, MoveAside, EndCommit, SendPush, Fetch, OthersPush,
                OthersRewind, ProveGit
<1>7. known' \in SUBSET (1..Len(history'))
    <2>1. CASE known' = known
        BY <2>1, <1>0, <1>3 DEF HooksTypeOK
    <2>2. CASE EndCommit
        <3>1. Len(history') = Len(history) + 1 /\ known' = known \cup {Len(history) + 1}
            BY <2>2 DEF EndCommit, HooksTypeOK
        <3>2. 1..Len(history) \subseteq 1..Len(history') /\ Len(history) + 1 \in 1..Len(history')
            BY <1>0, <3>1
        <3>3. known \subseteq 1..Len(history)
            BY DEF HooksTypeOK
        <3> QED BY <3>1, <3>2, <3>3, Zenon
    <2>3. ASSUME NEW r \in Remotes, NEW prune \in BOOLEAN, Fetch(r, prune)
          PROVE  known' \in SUBSET (1..Len(history'))
        <3>1. Line(history, remote[r]) \in SUBSET (1..Len(history))
            BY <1>0 DEF Line, InRange, HooksTypeOK
        <3>2. known \in SUBSET (1..Len(history)) /\ history' = history
                  /\ known' = known \cup Line(history, remote[r])
            BY <2>3 DEF Fetch, HooksTypeOK
        <3> QED BY <3>1, <3>2
    <2> QED BY <2>1, <2>2, <2>3
            DEF HooksNext, Install, WriteHook, Abandon, MoveAside, BeginCommit, Restage,
                BeginPush, JudgePush, SkipJudging, SendPush, OthersPush, OthersRewind, ProveGit
<1>8. remote' \in [Remotes -> 0..Len(history')] /\ tracking' \in [Remotes -> 0..Len(history')]
    <2>0. 0..Len(history) \subseteq 0..Len(history')
        BY <1>0, <1>3
    <2>1. CASE UNCHANGED <<remote, tracking>>
        BY <2>0, <2>1 DEF HooksTypeOK
    <2>2. CASE SendPush
        BY <2>0, <2>2 DEF SendPush, HooksTypeOK, InRange
    <2>3. ASSUME NEW r \in Remotes, NEW prune \in BOOLEAN, Fetch(r, prune)
          PROVE  /\ remote' \in [Remotes -> 0..Len(history')]
                 /\ tracking' \in [Remotes -> 0..Len(history')]
        BY <2>0, <2>3 DEF Fetch, HooksTypeOK
    <2>4. ASSUME NEW r \in Remotes, NEW tree \in Trees, OthersPush(r, tree)
          PROVE  /\ remote' \in [Remotes -> 0..Len(history')]
                 /\ tracking' \in [Remotes -> 0..Len(history')]
        <3>1. Len(history') = Len(history) + 1
            BY <2>4 DEF OthersPush, HooksTypeOK
        <3>2. Len(history) + 1 \in 0..Len(history')
            BY <1>0, <3>1
        <3>3. remote' = [remote EXCEPT ![r] = Len(history) + 1] /\ tracking' = tracking
            BY <2>4 DEF OthersPush
        <3> QED BY <2>0, <3>2, <3>3 DEF HooksTypeOK
    <2>5. ASSUME NEW r \in Remotes, NEW c \in Line(history, remote[r]) \cup {0},
                 OthersRewind(r, c)
          PROVE  /\ remote' \in [Remotes -> 0..Len(history')]
                 /\ tracking' \in [Remotes -> 0..Len(history')]
        <3>1. c \in 0..Len(history)
            BY <1>0 DEF Line, InRange, HooksTypeOK
        <3> QED BY <2>0, <2>5, <3>1 DEF OthersRewind, HooksTypeOK
    <2> QED BY <2>1, <2>2, <2>3, <2>4, <2>5
            DEF HooksNext, Install, WriteHook, Abandon, MoveAside, BeginCommit, Restage,
                EndCommit, BeginPush, JudgePush, SkipJudging, ProveGit
<1>9. proofs' \in {[k \in {} |-> "PASS"], Proven'}
    <2>1. Proven' = Proven
        BY <1>2 DEF Proven, Verdict, PolicyQuestions, StageQuestions, OutgoingQuestions, Pushed,
                    PushFindings, CommitFindings
    <2>2. CASE proofs' = proofs
        BY <2>1, <2>2 DEF HooksTypeOK
    <2>3. CASE ProveGit
        BY <2>1, <2>3 DEF ProveGit
    <2> QED BY <2>2, <2>3
            DEF HooksNext, Install, WriteHook, Abandon, MoveAside, BeginCommit, Restage, EndCommit,
                BeginPush, JudgePush, SkipJudging, SendPush, Fetch, OthersPush, OthersRewind
<1> QED BY <1>2, <1>3, <1>4, <1>5, <1>6, <1>7, <1>8, <1>9 DEF HooksTypeOK

LEMMA RangeNext ==
    ASSUME HooksTypeOK, InRange, HooksNext
    PROVE  InRange'
<1>0. Len(history) \in Nat
    BY DEF HooksTypeOK
<1>1. PICK e \in Commit : history' \in {history, Append(history, e)}
    BY StepGrows
<1>2. /\ 1..Len(history) \subseteq 1..Len(history')
      /\ 0..Len(history) \subseteq 0..Len(history')
      /\ \A c \in 1..Len(history) : history'[c] = history[c]
    <2>1. Len(history') >= Len(history) /\ Len(history') \in Nat
        BY <1>0, <1>1 DEF HooksTypeOK
    <2> QED BY <1>0, <2>1, <1>1, StepGrows, LinesStaySound
<1>3. \A c \in 1..Len(history') : history'[c].line \in SUBSET (1..Len(history'))
    <2>1. CASE history' = history
        BY <2>1 DEF InRange
    <2>2. CASE EndCommit
        <3>1. doing.line \in SUBSET (1..Len(history))
            BY <2>2 DEF EndCommit, InRange
        <3>2. /\ history'[Len(history) + 1].line = doing.line \cup {Len(history) + 1}
              /\ Len(history') = Len(history) + 1
            BY <2>2, <1>0 DEF EndCommit, HooksTypeOK
        <3>3. history'[Len(history) + 1].line \in SUBSET (1..Len(history'))
            BY <1>0, <3>1, <3>2
        <3>4. \A c \in 1..Len(history') : c \in 1..Len(history) \/ c = Len(history) + 1
            BY <1>0, <3>2
        <3> QED BY <1>2, <3>3, <3>4 DEF InRange
    <2>3. ASSUME NEW r \in Remotes, NEW tree \in Trees, OthersPush(r, tree)
          PROVE  \A c \in 1..Len(history') : history'[c].line \in SUBSET (1..Len(history'))
        <3>1. Line(history, remote[r]) \in SUBSET (1..Len(history))
            BY <1>0 DEF Line, InRange, HooksTypeOK
        <3>2. /\ history'[Len(history) + 1].line = Line(history, remote[r]) \cup {Len(history) + 1}
              /\ Len(history') = Len(history) + 1
            BY <2>3, <1>0 DEF OthersPush, HooksTypeOK
        <3>3. history'[Len(history) + 1].line \in SUBSET (1..Len(history'))
            BY <1>0, <3>1, <3>2
        <3>4. \A c \in 1..Len(history') : c \in 1..Len(history) \/ c = Len(history) + 1
            BY <1>0, <3>2
        <3> QED BY <1>2, <3>3, <3>4 DEF InRange
    <2> QED BY <2>1, <2>2, <2>3
            DEF HooksNext, Install, WriteHook, Abandon, MoveAside, BeginCommit, Restage, BeginPush,
                JudgePush, SkipJudging, SendPush, Fetch, OthersRewind, ProveGit
<1>4. /\ doing'.op = "push" => doing'.local \in 0..Len(history') /\ doing'.seen \in 0..Len(history')
      /\ doing'.op = "commit" => doing'.line \in SUBSET (1..Len(history'))
      /\ doing'.op = "install" => doing'.left # <<>>
    <2> DEFINE Fits ==
            /\ doing'.op = "push" =>
                  doing'.local \in 0..Len(history') /\ doing'.seen \in 0..Len(history')
            /\ doing'.op = "commit" => doing'.line \in SUBSET (1..Len(history'))
            /\ doing'.op = "install" => doing'.left # <<>>
    <2> SUFFICES Fits
        OBVIOUS
    <2>1. CASE doing' = doing
        BY <2>1, <1>2 DEF InRange
    <2>2. CASE doing' = Idle
        BY <2>2 DEF Idle
    <2>3. CASE Install
        BY <2>3 DEF Install, Order
    <2>4. CASE WriteHook /\ doing' # Idle
        <3>1. /\ doing.left \in Seq(Kinds) /\ doing.left # <<>> /\ Len(doing.left) # 1
              /\ doing \in [op : {"install"}, left : Seq(Kinds)]
              /\ doing' = [doing EXCEPT !.left = Tail(doing.left)]
            BY <2>4 DEF WriteHook, HooksTypeOK, Doing, Idle, InRange
        <3>2. Tail(doing.left) # <<>>
            <4>1. Len(doing.left) \in Nat /\ Len(doing.left) # 0
                BY <3>1, EmptySeq
            <4>2. Len(Tail(doing.left)) = Len(doing.left) - 1
                BY <3>1, HeadTailProperties
            <4>3. Len(Tail(doing.left)) # 0
                BY <3>1, <4>1, <4>2
            <4>4. Len(<<>>) = 0
                OBVIOUS
            <4> QED BY <4>3, <4>4
        <3> QED BY <3>1, <3>2
    <2>5. ASSUME NEW parent \in known, NEW tree \in Trees, NEW message \in Messages,
                 NEW verify \in BOOLEAN, BeginCommit(parent, tree, message, verify)
          PROVE  Fits
        BY <2>5, <1>0 DEF BeginCommit, Line, InRange, HooksTypeOK
    <2>6. ASSUME NEW tree \in Trees, Restage(tree)
          PROVE  Fits
        BY <2>6 DEF Restage, HooksTypeOK, Doing, Idle, InRange
    <2>7. ASSUME NEW r \in Remotes, NEW local \in known \cup {0}, BeginPush(r, local)
          PROVE  Fits
        BY <2>7, <1>0 DEF BeginPush, HooksTypeOK
    <2>8. CASE JudgePush \/ SkipJudging
        BY <2>8 DEF JudgePush, SkipJudging, HooksTypeOK, Doing, Idle, InRange
    <2>9. CASE Abandon \/ EndCommit \/ SendPush \/ ProveGit
        BY <2>1, <2>2, <2>9 DEF Abandon, EndCommit, SendPush, ProveGit
    <2>10. CASE WriteHook
        BY <2>2, <2>4, <2>10
    <2>11. ASSUME NEW k \in Kinds, MoveAside(k) PROVE Fits
        BY <2>1, <2>11 DEF MoveAside
    <2>12. ASSUME NEW r \in Remotes, NEW prune \in BOOLEAN, Fetch(r, prune) PROVE Fits
        BY <2>1, <2>12 DEF Fetch
    <2>13. ASSUME NEW r \in Remotes, NEW tree \in Trees, OthersPush(r, tree) PROVE Fits
        BY <2>1, <2>13 DEF OthersPush
    <2>14. ASSUME NEW r \in Remotes, NEW c \in Line(history, remote[r]) \cup {0},
                  OthersRewind(r, c)
           PROVE  Fits
        BY <2>1, <2>14 DEF OthersRewind
    <2> HIDE DEF Fits
    <2> QED BY <2>3, <2>5, <2>6, <2>7, <2>8, <2>9, <2>10, <2>11, <2>12, <2>13, <2>14 DEF HooksNext
<1> QED BY <1>3, <1>4 DEF InRange

(* What a step leaves of the commits there were, for the lemmas below.                 *)
LEMMA StepKeeps ==
    ASSUME HooksTypeOK, InRange, HooksNext
    PROVE  /\ Len(history) \in Nat /\ Len(history') \in Nat /\ Len(history') >= Len(history)
           /\ broken' = broken /\ unjudged \subseteq unjudged'
           /\ \A c \in 1..Len(history) : history'[c] = history[c]
           /\ \A c \in 0..Len(history) : Line(history', c) = Line(history, c)
           /\ \A c \in 1..Len(history) : CommitFaults(history', c) = CommitFaults(history, c)
           /\ \A c \in 0..Len(history) : SoundLine(c) => SoundLine(c)'
<1>1. PICK e \in Commit : history' \in {history, Append(history, e)}
    BY StepGrows
<1>2. Len(history) \in Nat /\ Len(history') \in Nat
    BY <1>1 DEF HooksTypeOK
<1> QED BY <1>1, <1>2, StepGrows, LinesStaySound

LEMMA ClosedNext ==
    ASSUME HooksTypeOK, InRange, LinesClosed, HooksNext
    PROVE  LinesClosed'
<1>0. /\ Len(history) \in Nat
      /\ \A c \in 1..Len(history) : history'[c] = history[c]
    BY StepKeeps
<1>1. ASSUME NEW line \in SUBSET (1..Len(history)), NEW new, new = Len(history) + 1,
             \A k \in line : history[k].line \subseteq line,
             Len(history') = new, history'[new].line = line \cup {new}
      PROVE  \A c \in 1..Len(history') : \A k \in history'[c].line :
                 history'[k].line \subseteq history'[c].line
    <2>1. \A c \in 1..Len(history') : c \in 1..Len(history) \/ c = new
        BY <1>0, <1>1
    <2>2. ASSUME NEW c \in 1..Len(history), NEW k \in history'[c].line
          PROVE  history'[k].line \subseteq history'[c].line
        <3>1. k \in history[c].line /\ k \in 1..Len(history)
            BY <1>0, <2>2 DEF InRange
        <3> QED BY <1>0, <2>2, <3>1 DEF LinesClosed
    <2>3. ASSUME NEW k \in history'[new].line
          PROVE  history'[k].line \subseteq history'[new].line
        <3>1. CASE k \in line
            <4>1. history'[k] = history[k]
                BY <1>0, <3>1
            <4> QED BY <1>1, <3>1, <4>1
        <3>2. CASE k = new
            BY <3>2
        <3> QED BY <1>1, <2>3, <3>1, <3>2
    <2> QED BY <2>1, <2>2, <2>3
<1>2. \A c \in 1..Len(history') : \A k \in history'[c].line :
          history'[k].line \subseteq history'[c].line
    <2>1. CASE history' = history
        BY <2>1 DEF LinesClosed
    <2>2. CASE EndCommit
        <3>1. /\ doing.line \in SUBSET (1..Len(history))
              /\ \A k \in doing.line : history[k].line \subseteq doing.line
            BY <2>2 DEF EndCommit, InRange, LinesClosed
        <3>2. /\ history'[Len(history) + 1].line = doing.line \cup {Len(history) + 1}
              /\ Len(history') = Len(history) + 1
            BY <2>2, <1>0 DEF EndCommit, HooksTypeOK
        <3> QED BY <1>1, <3>1, <3>2
    <2>3. ASSUME NEW r \in Remotes, NEW tree \in Trees, OthersPush(r, tree)
          PROVE  \A c \in 1..Len(history') : \A k \in history'[c].line :
                     history'[k].line \subseteq history'[c].line
        <3>1. /\ Line(history, remote[r]) \in SUBSET (1..Len(history))
              /\ \A k \in Line(history, remote[r]) :
                    history[k].line \subseteq Line(history, remote[r])
            BY <1>0 DEF Line, InRange, LinesClosed, HooksTypeOK
        <3>2. /\ history'[Len(history) + 1].line = Line(history, remote[r]) \cup {Len(history) + 1}
              /\ Len(history') = Len(history) + 1
            BY <2>3, <1>0 DEF OthersPush, HooksTypeOK
        <3> QED BY <1>1, <3>1, <3>2
    <2> QED BY <2>1, <2>2, <2>3
            DEF HooksNext, Install, WriteHook, Abandon, MoveAside, BeginCommit, Restage, BeginPush,
                JudgePush, SkipJudging, SendPush, Fetch, OthersRewind, ProveGit
<1>3. ASSUME doing'.op = "commit", NEW k \in doing'.line
      PROVE  history'[k].line \subseteq doing'.line
    <2>1. CASE doing' = doing
        <3>1. k \in 1..Len(history)
            BY <1>3, <2>1 DEF InRange
        <3> QED BY <1>0, <1>3, <2>1, <3>1 DEF LinesClosed
    <2>2. ASSUME NEW parent \in known, NEW tree \in Trees, NEW message \in Messages,
                 NEW verify \in BOOLEAN, BeginCommit(parent, tree, message, verify)
          PROVE  history'[k].line \subseteq doing'.line
        <3>1. doing'.line = history[parent].line /\ parent \in 1..Len(history)
            BY <2>2, <1>0 DEF BeginCommit, Line, HooksTypeOK
        <3>2. k \in 1..Len(history)
            BY <1>3, <3>1 DEF InRange
        <3> QED BY <1>0, <1>3, <3>1, <3>2 DEF LinesClosed
    <2>3. ASSUME NEW tree \in Trees, Restage(tree) PROVE history'[k].line \subseteq doing'.line
        <3>1. doing'.line = doing.line /\ doing.op = "commit"
            BY <2>3 DEF Restage, HooksTypeOK, Doing, Idle
        <3>2. k \in 1..Len(history)
            BY <1>3, <3>1 DEF InRange
        <3> QED BY <1>0, <1>3, <3>1, <3>2 DEF LinesClosed
    <2>4. CASE Install \/ WriteHook \/ JudgePush \/ SkipJudging
        <3>1. CASE Install
            BY <1>3, <3>1 DEF Install
        <3>2. CASE WriteHook
            BY <1>3, <3>2 DEF WriteHook, HooksTypeOK, Doing, Idle
        <3>3. CASE JudgePush \/ SkipJudging
            BY <1>3, <3>3 DEF JudgePush, SkipJudging, HooksTypeOK, Doing, Idle
        <3> QED BY <2>4, <3>1, <3>2, <3>3
    <2>5. ASSUME NEW r \in Remotes, NEW local \in known \cup {0}, BeginPush(r, local)
          PROVE  history'[k].line \subseteq doing'.line
        BY <1>3, <2>5 DEF BeginPush
    <2>6. CASE Abandon \/ EndCommit \/ SendPush
        BY <1>3, <2>6 DEF Abandon, EndCommit, SendPush, Idle
    <2>7. ASSUME NEW j \in Kinds, MoveAside(j) PROVE history'[k].line \subseteq doing'.line
        BY <2>1, <2>7 DEF MoveAside
    <2>8. ASSUME NEW r \in Remotes, NEW prune \in BOOLEAN, Fetch(r, prune)
          PROVE  history'[k].line \subseteq doing'.line
        BY <2>1, <2>8 DEF Fetch
    <2>9. ASSUME NEW r \in Remotes, NEW tree \in Trees, OthersPush(r, tree)
          PROVE  history'[k].line \subseteq doing'.line
        BY <2>1, <2>9 DEF OthersPush
    <2>10. ASSUME NEW r \in Remotes, NEW c \in Line(history, remote[r]) \cup {0},
                  OthersRewind(r, c)
           PROVE  history'[k].line \subseteq doing'.line
        BY <2>1, <2>10 DEF OthersRewind
    <2>11. CASE ProveGit
        BY <2>1, <2>11 DEF ProveGit
    <2> QED BY <2>2, <2>3, <2>4, <2>5, <2>6, <2>7, <2>8, <2>9, <2>10, <2>11 DEF HooksNext
<1> QED BY <1>2, <1>3 DEF LinesClosed

LEMMA SoundNext ==
    ASSUME HooksTypeOK, InRange, LinesClosed, AllSound, HooksNext
    PROVE  AllSound'
<1>0. /\ Len(history) \in Nat /\ unjudged \subseteq unjudged' /\ broken' = broken
      /\ \A c \in 0..Len(history) : Line(history', c) = Line(history, c)
      /\ \A c \in 0..Len(history) : SoundLine(c) => SoundLine(c)'
    BY StepKeeps
<1>1. \A r \in Remotes : remote[r] \in 0..Len(history) /\ tracking[r] \in 0..Len(history)
    BY DEF HooksTypeOK
<1>2. \A r \in Remotes : /\ \A k \in Line(history', remote[r]) : Sound(k)'
                         /\ \A k \in Line(history', tracking[r]) : Sound(k)'
    BY <1>0, <1>1 DEF AllSound, SoundLine
\* What a push sends is judged, or held already, or counted as unjudged.
<1>3. ASSUME SendPush PROVE \A k \in Line(history', doing.local) : Sound(k)'
    <2>1. doing.local \in 0..Len(history)
        BY <1>3 DEF SendPush, InRange
    <2>2. CASE doing.judged
        BY <1>0, <1>3, <2>1, <2>2 DEF SendPush, AllSound, SoundLine
    <2>3. CASE ~doing.judged
        <3>1. Line(history', doing.local) \subseteq unjudged'
            BY <1>0, <1>3, <2>1, <2>3 DEF SendPush
        <3> QED BY <3>1 DEF Sound
    <2> QED BY <2>2, <2>3
<1>4. \A r \in Remotes : \A k \in Line(history', remote'[r]) : Sound(k)'
    <2>1. CASE remote' = remote
        BY <1>2, <2>1
    <2>2. CASE SendPush
        <3>1. \A r \in Remotes : remote'[r] \in {remote[r], doing.local}
            BY <2>2 DEF SendPush, HooksTypeOK
        <3> QED BY <1>2, <1>3, <2>2, <3>1
    <2>3. ASSUME NEW s \in Remotes, NEW tree \in Trees, OthersPush(s, tree)
          PROVE  \A r \in Remotes : \A k \in Line(history', remote'[r]) : Sound(k)'
        <3> DEFINE new == Len(history) + 1
        <3>1. /\ \A r \in Remotes : remote'[r] \in {remote[r], new}
              /\ new \in unjudged'
              /\ history'[new].line = Line(history, remote[s]) \cup {new}
            BY <2>3, <1>0 DEF OthersPush, HooksTypeOK
        <3>2. new # 0
            BY <1>0
        <3>3. Line(history', new) = Line(history, remote[s]) \cup {new}
            BY <3>1, <3>2 DEF Line
        <3>4. \A k \in Line(history', new) : Sound(k)'
            BY <1>0, <1>1, <1>2, <3>1, <3>3 DEF Sound
        <3> QED BY <1>2, <3>1, <3>4
    <2>4. ASSUME NEW s \in Remotes, NEW c \in Line(history, remote[s]) \cup {0},
                 OthersRewind(s, c)
          PROVE  \A r \in Remotes : \A k \in Line(history', remote'[r]) : Sound(k)'
        <3>1. \A r \in Remotes : remote'[r] \in {remote[r], c}
            BY <2>4 DEF OthersRewind, HooksTypeOK
        <3>2. history' = history
            BY <2>4 DEF OthersRewind
        <3>3. Line(history, c) \subseteq Line(history, remote[s])
            <4>1. CASE c = 0
                BY <4>1 DEF Line
            <4>2. CASE c # 0
                <5>1. remote[s] \in 1..Len(history) /\ c \in history[remote[s]].line
                    BY <1>0, <1>1, <4>2 DEF Line
                <5> QED BY <4>2, <5>1 DEF LinesClosed, Line
            <4> QED BY <4>1, <4>2
        <3>4. \A k \in Line(history', c) : Sound(k)'
            BY <1>2, <3>2, <3>3
        <3> QED BY <1>2, <3>1, <3>4
    <2> QED BY <2>1, <2>2, <2>3, <2>4
            DEF HooksNext, Install, WriteHook, Abandon, MoveAside, BeginCommit, Restage,
                EndCommit, BeginPush, JudgePush, SkipJudging, Fetch, ProveGit
<1>5. \A r \in Remotes : \A k \in Line(history', tracking'[r]) : Sound(k)'
    <2>1. CASE tracking' = tracking
        BY <1>2, <2>1
    <2>2. CASE SendPush
        <3>1. \A r \in Remotes : tracking'[r] \in {tracking[r], doing.local}
            BY <2>2 DEF SendPush, HooksTypeOK
        <3> QED BY <1>2, <1>3, <2>2, <3>1
    <2>3. ASSUME NEW s \in Remotes, NEW prune \in BOOLEAN, Fetch(s, prune)
          PROVE  \A r \in Remotes : \A k \in Line(history', tracking'[r]) : Sound(k)'
        <3>1. \A r \in Remotes : tracking'[r] \in {tracking[r], remote[r]}
            BY <2>3 DEF Fetch, HooksTypeOK
        <3> QED BY <1>2, <3>1
    <2> QED BY <2>1, <2>2, <2>3
            DEF HooksNext, Install, WriteHook, Abandon, MoveAside, BeginCommit, Restage,
                EndCommit, BeginPush, JudgePush, SkipJudging, OthersPush, OthersRewind, ProveGit
<1>6. ASSUME doing'.op = "push"
      PROVE  /\ \A k \in Line(history', doing'.seen) : Sound(k)'
             /\ doing'.judged => \A k \in Line(history', doing'.local) : Sound(k)'
    <2> DEFINE Pushable == /\ \A k \in Line(history', doing'.seen) : Sound(k)'
                           /\ doing'.judged => \A k \in Line(history', doing'.local) : Sound(k)'
    <2> SUFFICES Pushable
        OBVIOUS
    <2>1. CASE doing' = doing
        <3>1. doing.local \in 0..Len(history) /\ doing.seen \in 0..Len(history)
            BY <1>6, <2>1 DEF InRange
        <3> QED BY <1>0, <1>6, <2>1, <3>1 DEF AllSound, SoundLine
    <2>2. ASSUME NEW r \in Remotes, NEW local \in known \cup {0}, BeginPush(r, local)
          PROVE  Pushable
        BY <1>2, <2>2 DEF BeginPush
    <2>3. CASE SkipJudging
        <3>1. /\ doing.op = "push" /\ doing'.seen = doing.seen /\ doing'.local = doing.local
              /\ doing'.judged = doing.judged
            BY <2>3 DEF SkipJudging, HooksTypeOK, Doing, Idle
        <3>2. doing.local \in 0..Len(history) /\ doing.seen \in 0..Len(history)
            BY <3>1 DEF InRange
        <3> QED BY <1>0, <3>1, <3>2 DEF AllSound, SoundLine
    <2>4. CASE JudgePush
        <3>1. /\ doing.op = "push" /\ doing'.seen = doing.seen /\ doing'.local = doing.local
              /\ PushFindings(history, known, Tracked(tracking), doing) = {}
            BY <2>4 DEF JudgePush, Permits, HooksTypeOK, Doing, Idle
        <3>2. doing.local \in 0..Len(history) /\ doing.seen \in 0..Len(history)
            BY <3>1 DEF InRange
        <3>3. SoundLine(doing.local)
            <4> SUFFICES ASSUME NEW k \in Line(history, doing.local) PROVE Sound(k)
                BY DEF SoundLine
            <4>0. k \in 1..Len(history) /\ doing.local # 0
                BY <1>0, <3>2 DEF Line, InRange
            <4>1. CASE k \in Line(history, doing.seen)
                BY <3>1, <4>1 DEF AllSound, SoundLine
            <4>2. CASE k \in Tracked(tracking)
                BY <4>2 DEF AllSound, SoundLine, Tracked
            <4>3. CASE k \notin Line(history, doing.seen) \cup Tracked(tracking)
                <5>1. k \in Outgoing(history, Tracked(tracking), doing)
                    BY <4>3 DEF Outgoing
                <5>2. CommitFindings(history, k) = {}
                    <6>1. {"not-fetched"} # {}
                        OBVIOUS
                    <6>2. UNION {CommitFindings(history, c) :
                                    c \in Outgoing(history, Tracked(tracking), doing)} = {}
                        BY <3>1, <4>0, <6>1, Zenon DEF PushFindings
                    <6> QED BY <5>1, <6>2, Zenon
                <5>3. history[k].tree \in SUBSET Row
                    <6>1. history[k] \in Commit
                        <7>1. history \in Seq(Commit)
                            BY DEF HooksTypeOK
                        <7> QED BY <4>0, <7>1, ElementOfSeq
                    <6> QED BY <6>1 DEF Commit
                <5>4. CommitFaults(history, k) \subseteq broken
                    <6>1. CommitFaults(history, k) \subseteq MessageFindings(history[k].message)
                                                        \cup TreeFindings(history[k].tree)
                        BY <5>3, FaultsAreFound
                    <6> QED BY <5>2, <6>1 DEF CommitFindings
                <5> QED BY <5>4 DEF Sound
            <4> QED BY <4>1, <4>2, <4>3
        <3> QED BY <1>0, <3>1, <3>2, <3>3 DEF AllSound, SoundLine
    <2>5. CASE Install \/ WriteHook \/ Abandon \/ EndCommit \/ SendPush
        <3>1. doing'.op # "push"
            BY <2>5 DEF Install, WriteHook, Abandon, EndCommit, SendPush, HooksTypeOK, Doing, Idle
        <3> QED BY <1>6, <3>1
    <2>6. ASSUME NEW parent \in known, NEW tree \in Trees, NEW message \in Messages,
                 NEW verify \in BOOLEAN, BeginCommit(parent, tree, message, verify)
          PROVE  Pushable
        BY <1>6, <2>6 DEF BeginCommit
    <2>7. ASSUME NEW tree \in Trees, Restage(tree) PROVE Pushable
        BY <1>6, <2>7 DEF Restage, HooksTypeOK, Doing, Idle
    <2>8. ASSUME NEW j \in Kinds, MoveAside(j) PROVE Pushable
        BY <2>1, <2>8 DEF MoveAside
    <2>9. ASSUME NEW r \in Remotes, NEW prune \in BOOLEAN, Fetch(r, prune) PROVE Pushable
        BY <2>1, <2>9 DEF Fetch
    <2>10. ASSUME NEW r \in Remotes, NEW tree \in Trees, OthersPush(r, tree) PROVE Pushable
        BY <2>1, <2>10 DEF OthersPush
    <2>11. ASSUME NEW r \in Remotes, NEW c \in Line(history, remote[r]) \cup {0},
                  OthersRewind(r, c)
           PROVE  Pushable
        BY <2>1, <2>11 DEF OthersRewind
    <2>12. CASE ProveGit
        BY <2>1, <2>12 DEF ProveGit
    <2> HIDE DEF Pushable
    <2> QED BY <2>2, <2>3, <2>4, <2>5, <2>6, <2>7, <2>8, <2>9, <2>10, <2>11, <2>12 DEF HooksNext
<1> QED BY <1>4, <1>5, <1>6 DEF AllSound, SoundLine

LEMMA CheckedNext ==
    ASSUME HooksTypeOK, InRange, CheckedSound, HooksNext
    PROVE  CheckedSound'
<1>0. /\ Len(history) \in Nat /\ broken' = broken
      /\ \A c \in 1..Len(history) : history'[c] = history[c]
      /\ \A c \in 1..Len(history) : CommitFaults(history', c) = CommitFaults(history, c)
    BY StepKeeps
<1>1. ASSUME NEW c \in 1..Len(history'), history'[c].checked
      PROVE  CommitFaults(history', c) \subseteq broken'
    <2>1. CASE c \in 1..Len(history)
        BY <1>0, <1>1, <2>1 DEF CheckedSound
    <2>2. CASE EndCommit /\ c = Len(history) + 1
        <3>1. /\ history'[c].tree = doing.tree /\ history'[c].message = doing.message
              /\ doing.verify /\ Ours("pre-commit") /\ Ours("commit-msg") /\ ~doing.restaged
            BY <1>0, <1>1, <2>2 DEF EndCommit, HooksTypeOK
        <3>2. /\ TreeFindings(doing.tree) \subseteq broken
              /\ MessageFindings(doing.message) \subseteq broken
            BY <2>2, <3>1 DEF EndCommit, Permits, CheckedSound
        <3>3. doing.tree \in SUBSET Row
            BY <2>2 DEF EndCommit, HooksTypeOK, Doing, Idle
        <3>4. CommitFaults(history', c) \subseteq MessageFindings(history'[c].message)
                                               \cup TreeFindings(history'[c].tree)
            BY <3>1, <3>3, FaultsAreFound
        <3> QED BY <1>0, <3>1, <3>2, <3>4
    <2>3. ASSUME NEW r \in Remotes, NEW tree \in Trees, OthersPush(r, tree),
                 c = Len(history) + 1
          PROVE  FALSE
        <3>1. history'[c].checked = FALSE
            BY <1>0, <2>3 DEF OthersPush, HooksTypeOK
        <3> QED BY <1>1, <3>1
    <2>4. c \in 1..Len(history) \/ (c = Len(history) + 1 /\ history' # history)
        <3>1. PICK e \in Commit : history' \in {history, Append(history, e)}
            BY StepGrows
        <3> QED BY <1>0, <3>1 DEF HooksTypeOK
    <2> QED BY <2>1, <2>2, <2>3, <2>4
            DEF HooksNext, Install, WriteHook, Abandon, MoveAside, BeginCommit, Restage, BeginPush,
                JudgePush, SkipJudging, SendPush, Fetch, OthersRewind, ProveGit
<1>2. ASSUME doing'.op = "commit", doing'.verify, Ours("pre-commit")', ~doing'.restaged
      PROVE  TreeFindings(doing'.tree) \subseteq broken'
    <2>1. CASE doing' = doing /\ hooks' = hooks
        BY <1>0, <1>2, <2>1 DEF CheckedSound, Ours
    <2>2. ASSUME NEW parent \in known, NEW tree \in Trees, NEW message \in Messages,
                 NEW verify \in BOOLEAN, BeginCommit(parent, tree, message, verify)
          PROVE  TreeFindings(doing'.tree) \subseteq broken'
        <3>1. doing'.tree = tree /\ doing'.verify = verify /\ hooks' = hooks
            BY <2>2 DEF BeginCommit
        <3> QED BY <1>0, <1>2, <2>2, <3>1 DEF BeginCommit, Permits, Ours
    <2>3. ASSUME NEW tree \in Trees, Restage(tree) PROVE FALSE
        BY <1>2, <2>3 DEF Restage, HooksTypeOK, Doing, Idle
    <2>4. CASE Install \/ WriteHook
        <3>1. CASE Install
            BY <1>2, <3>1 DEF Install
        <3>2. CASE WriteHook
            BY <1>2, <3>2 DEF WriteHook, HooksTypeOK, Doing, Idle
        <3> QED BY <2>4, <3>1, <3>2
    <2>5. CASE JudgePush \/ SkipJudging
        BY <1>2, <2>5 DEF JudgePush, SkipJudging, HooksTypeOK, Doing, Idle
    <2>6. CASE Abandon \/ EndCommit \/ SendPush
        BY <1>2, <2>6 DEF Abandon, EndCommit, SendPush, Idle
    <2>7. ASSUME NEW r \in Remotes, NEW local \in known \cup {0}, BeginPush(r, local) PROVE FALSE
        BY <1>2, <2>7 DEF BeginPush
    <2>8. ASSUME NEW j \in Kinds, MoveAside(j) PROVE FALSE
        BY <1>2, <2>8 DEF MoveAside, Idle
    <2>9. ASSUME NEW r \in Remotes, NEW prune \in BOOLEAN, Fetch(r, prune)
          PROVE  TreeFindings(doing'.tree) \subseteq broken'
        BY <2>1, <2>9 DEF Fetch
    <2>10. ASSUME NEW r \in Remotes, NEW tree \in Trees, OthersPush(r, tree)
           PROVE  TreeFindings(doing'.tree) \subseteq broken'
        BY <2>1, <2>10 DEF OthersPush
    <2>11. ASSUME NEW r \in Remotes, NEW c \in Line(history, remote[r]) \cup {0},
                  OthersRewind(r, c)
           PROVE  TreeFindings(doing'.tree) \subseteq broken'
        BY <2>1, <2>11 DEF OthersRewind
    <2>12. CASE ProveGit
        BY <2>1, <2>12 DEF ProveGit
    <2> QED BY <2>2, <2>3, <2>4, <2>5, <2>6, <2>7, <2>8, <2>9, <2>10, <2>11, <2>12 DEF HooksNext
<1> QED BY <1>1, <1>2 DEF CheckedSound

LEMMA StutterInv == HooksInv /\ UNCHANGED hookVars => HooksInv'
<1> SUFFICES ASSUME HooksInv, UNCHANGED hookVars PROVE HooksInv'
    OBVIOUS
<1> USE DEF hookVars
<1>1. Proven' = Proven
    BY DEF Proven, Verdict, PolicyQuestions, StageQuestions, OutgoingQuestions, Pushed,
           PushFindings, CommitFindings
<1>2. HooksTypeOK'
    BY <1>1 DEF HooksInv, HooksTypeOK
<1>3. InRange' /\ LinesClosed'
    BY DEF HooksInv, InRange, LinesClosed
<1>4. AllSound'
    BY DEF HooksInv, AllSound, SoundLine, Sound
<1>5. CheckedSound'
    BY DEF HooksInv, CheckedSound, Ours
<1> QED BY <1>2, <1>3, <1>4, <1>5 DEF HooksInv

THEOREM HooksInvariant == HooksSpec => []HooksInv
<1>1. HooksInit => HooksInv
    BY InitInv
<1>2. HooksInv /\ [HooksNext]_hookVars => HooksInv'
    BY TypeNext, RangeNext, ClosedNext, SoundNext, CheckedNext, StutterInv DEF HooksInv
<1> QED BY <1>1, <1>2, PTL DEF HooksSpec

(* Whatever remotes, commits, rewinds and fetches: a remote holds a commit at fault    *)
(* only when it was given one without the rules being asked, or when the rule for the  *)
(* fault finds nothing.                                                                *)
THEOREM PushesAreJudged == HooksSpec => []PushedIsJudged
<1>1. HooksInv => PushedIsJudged
    BY DEF HooksInv, AllSound, SoundLine, Sound, PushedIsJudged
<1> QED BY <1>1, HooksInvariant, PTL

(* Once the three Git checks have passed, no fault their questions name is in a commit *)
(* the hooks judged, or in one a judged push delivered.                                *)
THEOREM ProofsAreKept == HooksSpec => []ProofsHold
<1>1. HooksInv => ProofsHold
    <2> SUFFICES ASSUME HooksInv, proofs = [k \in GitChecks |-> "PASS"],
                        NEW c \in DOMAIN history,
                        \/ history[c].checked
                        \/ \E r \in Remotes : c \in Line(history, remote[r]) \ unjudged
                 PROVE  CommitFaults(history, c) \cap Asked = {}
        BY DEF ProofsHold
    <2>1. proofs = Proven
        <3>1. "git.commit-policy" \in DOMAIN proofs
            BY DEF GitChecks
        <3>2. proofs # [k \in {} |-> "PASS"]
            BY <3>1
        <3> QED BY <3>2 DEF HooksInv, HooksTypeOK
    <2>2. Asked \cap broken = {}
        BY <2>1, PassMeansAsked
    <2>3. CommitFaults(history, c) \subseteq broken
        <3>1. c \in 1..Len(history)
            BY DEF HooksInv, HooksTypeOK
        <3>2. CASE history[c].checked
            BY <3>1, <3>2 DEF HooksInv, CheckedSound
        <3>3. ASSUME NEW r \in Remotes, c \in Line(history, remote[r]) \ unjudged
              PROVE  CommitFaults(history, c) \subseteq broken
            BY <3>3 DEF HooksInv, AllSound, SoundLine, Sound
        <3> QED BY <3>2, <3>3
    <2> QED BY <2>2, <2>3
<1> QED BY <1>1, HooksInvariant, PTL

(***************************************************************************)
(* The gates together.                                                      *)
(***************************************************************************)

\* What the gates do together is what one of them does, while the other waits.
LEMMA GatesAreBoth == GatesSpec => GateSpec /\ HooksSpec
<1>1. GatesInit => GateInit /\ HooksInit
  BY DEF GatesInit
<1>2. [GatesNext]_<<gate, allVars, hookVars>> => [GateNext]_allVars /\ [HooksNext]_hookVars
  BY DEF GatesNext
<1>. QED  BY <1>1, <1>2, PTL DEF GatesSpec, GateSpec, HooksSpec

\* A ready answer is earned, whatever the hooks do (readiness.py).
THEOREM GatesReady == GatesSpec => []ReadyIsEarned
BY GatesAreBoth, ReadyHolds

\* Nothing with a fault that a working rule finds reaches a remote by a push that was
\* judged, whatever the readiness gate does (pre_push.py).
THEOREM GatesPushed == GatesSpec => []PushedIsJudged
BY GatesAreBoth, PushesAreJudged

\* What the Git checks prove of the hooks, they still prove beside the other gate.
THEOREM GatesProve == GatesSpec => []ProofsHold
BY GatesAreBoth, ProofsAreKept
=============================================================================
