-------------------------- MODULE CompactionProofs --------------------------
(* The builder's disk survives compaction: proofs for any number of commands,  *)
(* compactions and guest writes.                                               *)
EXTENDS Compaction, TLAPS

USE CompactionAssumption

\* A content is a number, whatever it stands for.
LEMMA ContentsAreNumbers == Contents \subseteq Int /\ Absent \in Contents
                            /\ 0 .. MaxWrites \subseteq Contents
                            /\ Partial \in Contents /\ Altered \in Contents
BY DEF Contents, Absent, Partial, Altered

\* A report stays a report whichever field is noted.
LEMMA ReportFields ==
    ASSUME NEW old \in Reports
    PROVE  /\ [old EXCEPT !.exists = TRUE] \in Reports
           /\ [old EXCEPT !.compared = TRUE] \in Reports
           /\ \A x \in {"none", "short of space", "other"} :
                 [old EXCEPT !.error = x] \in Reports
           /\ \A x \in Identities : [old EXCEPT !.before = x] \in Reports
           /\ \A x \in Contents : [old EXCEPT !.source = x] \in Reports
           /\ \A x \in Contents : [old EXCEPT !.compressed = x] \in Reports
           /\ \A x \in Replacements : [old EXCEPT !.replacement = x] \in Reports
<1>1. [old EXCEPT !.exists = TRUE] \in Reports /\ [old EXCEPT !.compared = TRUE] \in Reports
  BY DEF Reports
<1>2. \A x \in {"none", "short of space", "other"} : [old EXCEPT !.error = x] \in Reports
  BY DEF Reports
<1>3. \A x \in Identities : [old EXCEPT !.before = x] \in Reports
  BY DEF Reports
<1>4. \A x \in Contents : /\ [old EXCEPT !.source = x] \in Reports
                          /\ [old EXCEPT !.compressed = x] \in Reports
  BY DEF Reports
<1>5. \A x \in Replacements : [old EXCEPT !.replacement = x] \in Reports
  BY DEF Reports
<1>. QED  BY <1>1, <1>2, <1>3, <1>4, <1>5

\* Noting one field leaves the others as they were.
LEMMA OtherFields ==
    ASSUME NEW old \in Reports, NEW x
    PROVE  /\ LET new == [old EXCEPT !.exists = x]
              IN  /\ new.replacement = old.replacement /\ new.before = old.before
                  /\ new.source = old.source /\ new.compressed = old.compressed
           /\ LET new == [old EXCEPT !.error = x]
              IN  /\ new.replacement = old.replacement /\ new.before = old.before
                  /\ new.source = old.source /\ new.compressed = old.compressed
           /\ LET new == [old EXCEPT !.replacement = x]
              IN  /\ new.replacement = x /\ new.before = old.before
                  /\ new.source = old.source /\ new.compressed = old.compressed
           /\ [old EXCEPT !.before = x].replacement = old.replacement
           /\ [old EXCEPT !.source = x].replacement = old.replacement
           /\ [old EXCEPT !.compared = x].replacement = old.replacement
           /\ [old EXCEPT !.compressed = x].replacement = old.replacement
BY DEF Reports

\* What every step of a command keeps within its type.
LEMMA TypeNext == TypeOK /\ LockInv /\ [Next]_vars => TypeOK'
<1>. SUFFICES ASSUME TypeOK, LockInv, [Next]_vars PROVE TypeOK'
  OBVIOUS
<1>c. Contents \subseteq Int /\ Absent \in Contents /\ 0 .. MaxWrites \subseteq Contents
      /\ Partial \in Contents /\ Altered \in Contents
  BY ContentsAreNumbers
<1>i. Identity \in Identities /\ NoIdentity \in Identities
  BY <1>c DEF TypeOK, Identity, NoIdentity, Identities, Files
<1>1. ASSUME NEW c \in Compactors, Work(c) PROVE TypeOK'
  <2>t. target[c] \in Compactions
    BY <1>1 DEF Work, Goes, LockInv, Identify, Hash, Convert, Converted, Compared, Unchanged,
       Review, Rehash, Recompare, Untouched, Measured, Short, Fails, Swap, Replace, Complete
  <2>l. Leave(c) => /\ pc' \in [Compactors -> PCs]
                    /\ target' \in [Compactors -> Compactions \cup {"none"}]
                    /\ seen' \in [Compactors -> Identities]
                    /\ kept' \in [Compactors -> Contents]
                    /\ lock' \in Compactors \cup {"none"}
    BY <1>c, <1>i DEF Leave, TypeOK, PCs
  <2>r. ASSUME NEW reason \in {"short of space", "other"}, Refused(c, reason)
        PROVE  TypeOK'
    <3>1. report[target[c]] \in Reports
      BY <2>t DEF TypeOK
    <3>2. [report[target[c]] EXCEPT !.error = reason] \in Reports
      BY <2>r, <3>1, ReportFields
    <3>3. report' \in [Compactions -> Reports]
      BY <2>t, <2>r, <3>2 DEF Refused, Noted, TypeOK
    <3>. QED  BY <2>l, <2>r, <3>3 DEF Refused, TypeOK, files, guest, past
  <2>1. CASE Identify(c)
    <3>1. report' \in [Compactions -> Reports]
      BY <2>t, <1>i, <2>1, ReportFields DEF Identify, Noted, TypeOK
    <3>. QED  BY <1>i, <2>1, <3>1 DEF Identify, Goes, TypeOK, PCs, files, guest, past
  <2>2. CASE Hash(c) \/ Compared(c) \/ Unchanged(c)
    <3>2. report[target[c]] \in Reports /\ content[disk] \in Contents
          /\ content[target[c]] \in Contents
      BY <2>t DEF TypeOK, Files
    <3>3. /\ [report[target[c]] EXCEPT !.source = content[disk]] \in Reports
          /\ [report[target[c]] EXCEPT !.compared = TRUE] \in Reports
          /\ [report[target[c]] EXCEPT !.compressed = content[target[c]]] \in Reports
      BY <3>2, ReportFields
    <3>1. report' \in [Compactions -> Reports]
      BY <2>t, <2>2, <3>3 DEF Hash, Compared, Unchanged, Noted, TypeOK
    <3>. QED  BY <2>2, <3>1 DEF Hash, Compared, Unchanged, Goes, TypeOK, PCs, files, guest, past
  <2>3. CASE Convert(c) \/ Converted(c)
    BY <1>c, <2>3, <2>t DEF Convert, Converted, Goes, TypeOK, PCs, reports, guest, past, Files
  <2>4. CASE Review(c)
    BY <1>i, <2>t, <2>4 DEF Review, Goes, TypeOK, PCs, files, reports, guest, past, Files
  <2>5. CASE Rehash(c) \/ Recompare(c) \/ Untouched(c) \/ Measured(c)
    BY <2>5 DEF Rehash, Recompare, Untouched, Measured, Goes, TypeOK, PCs, files, reports,
       guest, past
  <2>6. CASE Short(c) \/ Fails(c)
    BY <2>6, <2>r DEF Short, Fails
  <2>n. ASSUME NEW new \in Replacements, Replacement(c, new)
        PROVE  report' \in [Compactions -> Reports] /\ finals' \in [Compactions -> Replacements]
    <3>1. report[target[c]] \in Reports
      BY <2>t DEF TypeOK
    <3>2. [report[target[c]] EXCEPT !.replacement = new] \in Reports
      BY <2>n, <3>1, ReportFields
    <3>. QED  BY <2>t, <2>n, <3>2 DEF Replacement, Noted, TypeOK
  <2>7. CASE Swap(c)
    <3>1. "PENDING" \in Replacements  BY DEF Replacements
    <3>. QED  BY <2>7, <2>n, <3>1 DEF Swap, Goes, TypeOK, PCs, files, guest, past
  <2>8. CASE Replace(c)
    BY <2>t, <2>8 DEF Replace, Goes, TypeOK, PCs, reports, guest, Files
  <2>9. CASE Complete(c)
    <3>1. "COMPLETE" \in Replacements  BY DEF Replacements
    <3>. QED  BY <2>9, <2>l, <2>n, <3>1 DEF Complete, TypeOK, files, guest, past
  <2>. QED  BY <1>1, <2>1, <2>2, <2>3, <2>4, <2>5, <2>6, <2>7, <2>8, <2>9 DEF Work
<1>2. ASSUME NEW c \in Compactors, Crash(c) PROVE TypeOK'
  BY <1>c, <1>i, <1>2 DEF Crash, Leave, TypeOK, PCs, files, reports, guest, past
<1>3. ASSUME NEW c \in Compactors, NEW k \in Compactions, Compact(c, k) PROVE TypeOK'
  <2>1. report' \in [Compactions -> Reports]
    <3>1. [report[k] EXCEPT !.exists = TRUE] \in Reports
      BY ReportFields DEF TypeOK
    <3>. QED  BY <1>3, <3>1 DEF Compact, TypeOK
  <2>. QED  BY <1>3, <2>1 DEF Compact, Goes, TypeOK, PCs, files, guest, past
<1>4. ASSUME NEW c \in Compactors, NEW k \in Compactions, Finalise(c, k) PROVE TypeOK'
  BY <1>4 DEF Finalise, Goes, TypeOK, PCs, Replacements, files, guest, past
<1>5. CASE MachineStarts \/ StrayOpens \/ MachineKilled \/ MachineExits
  BY <1>5 DEF MachineStarts, StrayOpens, MachineKilled, MachineExits, TypeOK, files, reports,
     command, past
<1>6. CASE GuestWrites
  <2>1. written + 1 \in 0 .. MaxWrites /\ opened \in Files
    BY <1>6 DEF GuestWrites, TypeOK
  <2>. QED  BY <1>c, <1>6, <2>1 DEF GuestWrites, TypeOK, reports, guest, command
<1>7. ASSUME NEW k \in Compactions, CopyAltered(k) PROVE TypeOK'
  BY <1>c, <1>7 DEF CopyAltered, TypeOK, reports, guest, command, past, Files
<1>8. CASE UNCHANGED vars
  BY <1>8 DEF vars, files, reports, guest, command, past, TypeOK
<1>. QED  BY <1>1, <1>2, <1>3, <1>4, <1>5, <1>6, <1>7, <1>8 DEF Next

\* Every step of one command is made under the lock.
LEMMA LockNext == TypeOK /\ LockInv /\ [Next]_vars => LockInv'
<1>. SUFFICES ASSUME TypeOK, LockInv, [Next]_vars PROVE LockInv'
  OBVIOUS
<1>1. ASSUME NEW c \in Compactors, Work(c) \/ Crash(c) PROVE LockInv'
  <2>1. machine' = machine /\ opened' = opened
    BY <1>1 DEF Work, Crash, Identify, Hash, Convert, Converted, Compared, Unchanged,
       Review, Rehash, Recompare, Untouched, Measured, Short, Fails, Refused, Swap, Replace,
       Complete, guest
  <2>2. pc[c] # "idle"
    BY <1>1 DEF Work, Crash, Goes, Identify, Hash, Convert, Converted, Compared, Unchanged,
       Review, Rehash, Recompare, Untouched, Measured, Short, Fails, Swap, Replace, Complete
  <2>3. machine # "leased"
    BY <2>2 DEF LockInv, TypeOK
  <2>4. \/ Leave(c)
        \/ /\ UNCHANGED <<lock, target>>
           /\ \E to \in PCs \ {"idle"} : pc' = [pc EXCEPT ![c] = to]
    BY <1>1 DEF Work, Crash, Goes, Identify, Hash, Convert, Converted, Compared, Unchanged,
       Review, Rehash, Recompare, Untouched, Measured, Short, Fails, Refused, Swap, Replace,
       Complete, PCs
  <2>. QED  BY <2>1, <2>2, <2>3, <2>4 DEF LockInv, Leave, TypeOK
<1>2. ASSUME NEW c \in Compactors, NEW k \in Compactions, Compact(c, k) \/ Finalise(c, k)
      PROVE  LockInv'
  <2>1. /\ lock = "none" /\ lock' = c
        /\ machine # "leased" /\ machine' = machine /\ opened' = opened
        /\ target' = [target EXCEPT ![c] = k]
    BY <1>2 DEF Compact, Finalise, guest
  <2>2. \E to \in PCs \ {"idle"} : pc' = [pc EXCEPT ![c] = to]
    BY <1>2 DEF Compact, Finalise, Goes, PCs
  <2>3. "none" \notin Compactors /\ "none" \notin Compactions
    BY CompactionAssumption
  <2>4. \A d \in Compactors : pc[d] = "idle" /\ target[d] = "none"
    BY <2>1, <2>3 DEF LockInv
  <2>5. \A d \in Compactors : d # c => pc'[d] = "idle" /\ target'[d] = "none"
    BY <2>1, <2>2, <2>4 DEF TypeOK
  <2>6. pc'[c] # "idle" /\ target'[c] = k
    BY <2>1, <2>2 DEF TypeOK
  <2>7. machine' # "leased" /\ (machine' = "none" => opened' = "none")
    BY <2>1 DEF LockInv
  <2>. QED  BY <2>1, <2>5, <2>6, <2>7 DEF LockInv
<1>3. CASE MachineStarts \/ StrayOpens \/ MachineKilled \/ MachineExits
  BY <1>3 DEF MachineStarts, StrayOpens, MachineKilled, MachineExits, LockInv, files, command
<1>4. CASE GuestWrites \/ \E k \in Compactions : CopyAltered(k)
  BY <1>4 DEF GuestWrites, CopyAltered, LockInv, guest, command
<1>5. CASE UNCHANGED vars
  BY <1>5 DEF vars, files, guest, command, LockInv
<1>. QED  BY <1>1, <1>2, <1>3, <1>4, <1>5 DEF Next

\* Two commands at work are the same command.
LEMMA Alone ==
    ASSUME TypeOK, LockInv, NEW c \in Compactors, NEW d \in Compactors,
           pc[c] # "idle", pc[d] # "idle"
    PROVE  c = d
BY DEF LockInv

\* A command writes only to the report of its own compaction, and never removes it.
LEMMA OwnReport ==
    ASSUME TypeOK, LockInv, NEW c \in Compactors, Work(c) \/ Crash(c)
    PROVE  /\ pc[c] # "idle" /\ target[c] \in Compactions
           /\ \A k \in Compactions : k # target[c] => report'[k] = report[k]
           /\ \A k \in Compactions : k # target[c] => finals'[k] = finals[k]
           /\ report'[target[c]].exists = report[target[c]].exists
<1>1. pc[c] # "idle" /\ target[c] \in Compactions
  <2>1. pc[c] # "idle"
    BY DEF Work, Crash, Goes, Identify, Hash, Convert, Converted, Compared, Unchanged,
       Review, Rehash, Recompare, Untouched, Measured, Short, Fails, Swap, Replace, Complete
  <2>. QED  BY <2>1 DEF LockInv
<1>4. report \in [Compactions -> Reports] /\ finals \in [Compactions -> Replacements]
  BY DEF TypeOK
<1>2. /\ \A k \in Compactions : k # target[c] => report'[k] = report[k]
      /\ report'[target[c]].exists = report[target[c]].exists
  <2>1. report[target[c]] \in Reports
    BY <1>1, <1>4
  <2>2. CASE Identify(c) \/ Hash(c) \/ Compared(c) \/ Unchanged(c)
    <3>1. CASE Identify(c)
      BY <1>1, <1>4, <2>1, <3>1 DEF Identify, Noted, Reports
    <3>2. CASE Hash(c)
      BY <1>1, <1>4, <2>1, <3>2 DEF Hash, Noted, Reports
    <3>3. CASE Compared(c)
      BY <1>1, <1>4, <2>1, <3>3 DEF Compared, Noted, Reports
    <3>4. CASE Unchanged(c)
      BY <1>1, <1>4, <2>1, <3>4 DEF Unchanged, Noted, Reports
    <3>. QED  BY <2>2, <3>1, <3>2, <3>3, <3>4
  <2>3. CASE Short(c) \/ Fails(c)
    <3>1. ASSUME NEW reason, Refused(c, reason)
          PROVE  /\ \A k \in Compactions : k # target[c] => report'[k] = report[k]
                 /\ report'[target[c]].exists = report[target[c]].exists
      <4>1. [report[target[c]] EXCEPT !.error = reason].exists = report[target[c]].exists
        BY <2>1 DEF Reports
      <4>2. \/ report' = report
            \/ report' = [report EXCEPT ![target[c]] =
                            [report[target[c]] EXCEPT !.error = reason]]
        BY <3>1 DEF Refused, Noted
      <4>. QED  BY <1>1, <1>4, <4>1, <4>2
    <3>. QED  BY <2>3, <3>1 DEF Short, Fails
  <2>4. CASE Swap(c) \/ Complete(c)
    <3>1. ASSUME NEW new, Replacement(c, new)
          PROVE  /\ \A k \in Compactions : k # target[c] => report'[k] = report[k]
                 /\ report'[target[c]].exists = report[target[c]].exists
      <4>1. [report[target[c]] EXCEPT !.replacement = new].exists = report[target[c]].exists
        BY <2>1 DEF Reports
      <4>2. \/ report' = report
            \/ report' = [report EXCEPT ![target[c]] =
                            [report[target[c]] EXCEPT !.replacement = new]]
        BY <3>1 DEF Replacement, Noted
      <4>. QED  BY <1>1, <1>4, <4>1, <4>2
    <3>. QED  BY <2>4, <3>1 DEF Swap, Complete
  <2>5. CASE Convert(c) \/ Converted(c) \/ Review(c) \/ Rehash(c) \/ Recompare(c)
             \/ Untouched(c) \/ Measured(c) \/ Replace(c) \/ Crash(c)
    BY <2>5 DEF Convert, Converted, Review, Rehash, Recompare, Untouched, Measured, Replace,
       Crash, reports
  <2>. QED  BY <2>2, <2>3, <2>4, <2>5 DEF Work
<1>3. finals' = finals \/ \E new : finals' = [finals EXCEPT ![target[c]] = new]
  BY DEF Work, Crash, Identify, Hash, Convert, Converted, Compared, Unchanged, Review, Rehash,
     Recompare, Untouched, Measured, Short, Fails, Refused, Swap, Replace, Complete,
     Replacement, reports
<1>. QED  BY <1>1, <1>2, <1>3, <1>4

\* Copies are swapped in once, by the command that made or kept them.
LEMMA SwapNext == TypeOK /\ LockInv /\ SwapInv /\ [Next]_vars => SwapInv'
<1>. SUFFICES ASSUME TypeOK, LockInv, SwapInv, [Next]_vars PROVE SwapInv'
  OBVIOUS
<1>1. ASSUME NEW c \in Compactors, Work(c) \/ Crash(c) PROVE SwapInv'
  <2>1. /\ pc[c] # "idle" /\ target[c] \in Compactions
        /\ \A k \in Compactions : k # target[c] => report'[k] = report[k]
        /\ report'[target[c]].exists = report[target[c]].exists
    BY <1>1, OwnReport
  <2>2. \A d \in Compactors \ {c} : pc[d] = "idle"
    BY <2>1, Alone
  <2>3. opened' = opened
    BY <1>1 DEF Work, Crash, Identify, Hash, Convert, Converted, Compared, Unchanged,
       Review, Rehash, Recompare, Untouched, Measured, Short, Fails, Refused, Swap, Replace,
       Complete, guest
  <2>4. \A k \in Compactions : k = target[c] => report'[k].exists
    BY <2>1 DEF SwapInv
  <2>5. CASE Replace(c)
    BY <2>1, <2>2, <2>3, <2>4, <2>5 DEF Replace, Goes, SwapInv, TypeOK
  <2>6. CASE ~Replace(c)
    <3>1. disk' = disk /\ swapped' = swapped
      BY <1>1, <2>6 DEF Work, Crash, Identify, Hash, Convert, Converted, Compared, Unchanged,
         Review, Rehash, Recompare, Untouched, Measured, Short, Fails, Refused, Swap,
         Complete, files, past
    <3>2. \/ Leave(c)
          \/ /\ target' = target
             /\ pc[c] \notin {"idle", "complete"}
             /\ \E to \in PCs \ {"idle", "complete"} : pc' = [pc EXCEPT ![c] = to]
      BY <1>1, <2>6 DEF Work, Crash, Goes, Identify, Hash, Convert, Converted, Compared,
         Unchanged, Review, Rehash, Recompare, Untouched, Measured, Short, Fails, Refused, Swap,
         Complete, PCs
    <3>3. \A d \in Compactors : /\ pc'[d] # "idle" => d = c /\ target' = target
                                /\ pc'[d] = "complete" => FALSE
                                /\ pc'[d] # "idle" => pc[c] # "complete"
      BY <2>2, <3>2 DEF Leave, TypeOK
    <3>. QED  BY <2>1, <2>2, <2>3, <2>4, <3>1, <3>3 DEF SwapInv
  <2>. QED  BY <2>5, <2>6
<1>2. ASSUME NEW c \in Compactors, NEW k \in Compactions, Compact(c, k)
      PROVE  SwapInv'
  <2>1. k \notin swapped /\ report[k] \in Reports
    BY <1>2 DEF Compact, SwapInv, TypeOK
  <2>2. report' = [report EXCEPT ![k] = [report[k] EXCEPT !.exists = TRUE]]
    BY <1>2 DEF Compact
  <2>3. \A j \in Compactions : /\ report'[j].error = report[j].error
                               /\ report'[j].compressed = report[j].compressed
                               /\ report[j].exists => report'[j].exists
                               /\ report'[k].exists
    BY <2>1, <2>2 DEF TypeOK, Reports
  <2>4. \A d \in Compactors \ {c} : pc[d] = "idle"
    BY <1>2 DEF Compact, LockInv, TypeOK
  <2>5. UNCHANGED <<disk, opened, swapped>> /\ target' = [target EXCEPT ![c] = k]
    BY <1>2 DEF Compact, files, guest, past
  <2>6. pc' = [pc EXCEPT ![c] = "identify"]
    BY <1>2 DEF Compact, Goes
  <2>7. /\ pc'[c] = "identify" /\ target'[c] = k
        /\ \A d \in Compactors \ {c} : pc'[d] = "idle" /\ target'[d] = target[d]
    BY <2>4, <2>5, <2>6 DEF TypeOK
  <2>8. \A j \in Compactions : j \in swapped' \/ report'[j].error = "short of space"
                               \/ report'[j].compressed # Absent => report'[j].exists
    BY <2>3, <2>5 DEF SwapInv
  <2>9. disk' \in swapped' \cup {"original"} /\ opened' \in swapped' \cup {"original", "none"}
    BY <2>5 DEF SwapInv
  <2>10. report'[k].exists /\ \A d \in Compactors : pc'[d] # "idle" => d = c
    BY <2>3, <2>7
  <2>11. \A d \in Compactors : pc'[d] # "idle" => target'[d] \notin swapped'
    BY <2>1, <2>5, <2>7, <2>10
  <2>12. \A d \in Compactors : pc'[d] # "idle" => report'[target'[d]].exists
    BY <2>7, <2>10
  <2>13. \A d \in Compactors : pc'[d] # "complete"
    BY <2>7, <2>10
  <2>. QED  BY <2>8, <2>9, <2>11, <2>12, <2>13 DEF SwapInv
<1>3. ASSUME NEW c \in Compactors, NEW k \in Compactions, Finalise(c, k)
      PROVE  SwapInv'
  <2>4. \A d \in Compactors \ {c} : pc[d] = "idle"
    BY <1>3 DEF Finalise, LockInv, TypeOK
  <2>. QED  BY <1>3, <2>4 DEF Finalise, Goes, Retained, SwapInv, TypeOK, files, guest, past
<1>4. CASE MachineStarts \/ StrayOpens \/ MachineKilled \/ MachineExits
  BY <1>4 DEF MachineStarts, StrayOpens, MachineKilled, MachineExits, SwapInv, files, reports,
     command, past
<1>5. CASE GuestWrites \/ \E k \in Compactions : CopyAltered(k)
  BY <1>5 DEF GuestWrites, CopyAltered, SwapInv, reports, guest, command, past
<1>6. CASE UNCHANGED vars
  BY <1>6 DEF vars, files, reports, guest, command, past, SwapInv
<1>. QED  BY <1>1, <1>2, <1>3, <1>4, <1>5, <1>6 DEF Next

\* No file holds a write that was not made.
LEMMA MonotoneNext == TypeOK /\ LockInv /\ MonotoneInv /\ [Next]_vars => MonotoneInv'
<1>. SUFFICES ASSUME TypeOK, LockInv, MonotoneInv, [Next]_vars PROVE MonotoneInv'
  OBVIOUS
<1>c. \A f \in Files : content[f] \in Int
  BY ContentsAreNumbers DEF TypeOK
<1>1. ASSUME NEW c \in Compactors, Convert(c) \/ Converted(c) PROVE MonotoneInv'
  BY <1>1, <1>c DEF Convert, Converted, past, MonotoneInv, TypeOK, Partial
<1>2. CASE GuestWrites
  BY <1>2, <1>c DEF GuestWrites, MonotoneInv, TypeOK
<1>3. ASSUME NEW k \in Compactions, CopyAltered(k) PROVE MonotoneInv'
  BY <1>3, <1>c DEF CopyAltered, MonotoneInv, TypeOK, Altered, past
<1>4. CASE content' = content /\ written' = written
  BY <1>4 DEF MonotoneInv
<1>5. ASSUME NEW c \in Compactors, Work(c) \/ Crash(c), ~Convert(c), ~Converted(c)
      PROVE  content' = content /\ written' = written
  BY <1>5 DEF Work, Crash, Identify, Hash, Compared, Unchanged, Review, Rehash, Recompare,
     Untouched, Measured, Short, Fails, Refused, Swap, Replace, Complete, files, past
<1>. QED  BY <1>1, <1>2, <1>3, <1>4, <1>5 DEF Next, Compact, Finalise, MachineStarts,
          StrayOpens, MachineKilled, MachineExits, vars, files, past

\* What a command works with while it is at work.
LEMMA AtWork ==
    ASSUME TypeOK, LockInv, SwapInv, NEW c \in Compactors, pc[c] # "idle"
    PROVE  /\ target[c] \in Compactions /\ report[target[c]] \in Reports
           /\ content[disk] \in Int /\ content[target[c]] \in Int
           /\ report[target[c]].source \in Int /\ report[target[c]].compressed \in Int
           /\ seen[c] \in Identities /\ seen[c].content \in Int
           /\ pc[c] # "complete" => target[c] # disk
           /\ \A d \in Compactors \ {c} : pc[d] = "idle"
<1>1. target[c] \in Compactions
  BY DEF LockInv
<1>2. report[target[c]] \in Reports /\ seen[c] \in Identities
  BY <1>1 DEF TypeOK
<1>3. report[target[c]].source \in Int /\ report[target[c]].compressed \in Int
      /\ seen[c].content \in Int
  BY <1>2, ContentsAreNumbers DEF Reports, Identities
<1>4. content[disk] \in Int /\ content[target[c]] \in Int
  BY <1>1, ContentsAreNumbers DEF TypeOK, Files
<1>5. pc[c] # "complete" => target[c] # disk
  BY <1>1 DEF SwapInv
<1>6. \A d \in Compactors \ {c} : pc[d] = "idle"
  BY Alone
<1>. QED  BY <1>1, <1>2, <1>3, <1>4, <1>5, <1>6

\* A command keeps what it knows from step to step.
LEMMA KnownWork ==
    ASSUME TypeOK, LockInv, SwapInv, KnownInv, NEW c \in Compactors, Work(c) \/ Crash(c)
    PROVE  KnownInv'
<1>1. pc[c] # "idle"
  BY OwnReport
<1>2. /\ target[c] \in Compactions /\ report[target[c]] \in Reports
      /\ content[disk] \in Int /\ content[target[c]] \in Int
      /\ report[target[c]].source \in Int /\ report[target[c]].compressed \in Int
      /\ seen[c] \in Identities /\ seen[c].content \in Int
      /\ pc[c] # "complete" => target[c] # disk
      /\ \A d \in Compactors \ {c} : pc[d] = "idle"
  BY <1>1, AtWork
<1>3. \A d \in Compactors \ {c} : pc'[d] = "idle"
  BY <1>2 DEF Work, Crash, Goes, Identify, Hash, Convert, Converted, Compared,
     Unchanged, Review, Rehash, Recompare, Untouched, Measured, Short, Fails, Refused, Swap,
     Replace, Complete, Leave, TypeOK
<1>4. Known(c)' => KnownInv'
  BY <1>3 DEF KnownInv, Known, Identified, Converting
<1>5. Known(c)
  BY DEF KnownInv
<1>l. Leave(c) => KnownInv'
  BY <1>4 DEF Leave, Known, Identified, Converting, TypeOK
<1>6. CASE Identify(c)
  <2>1. report'[target[c]] = [report[target[c]] EXCEPT !.before = Identity]
    BY <1>2, <1>6 DEF Identify, Noted, TypeOK
  <2>2. /\ report'[target[c]].error = report[target[c]].error
        /\ report'[target[c]].compressed = report[target[c]].compressed
        /\ report'[target[c]].before = Identity
    BY <1>2, <2>1 DEF Reports
  <2>3. /\ pc'[c] = "hash" /\ pc[c] = "identify" /\ seen'[c] = Identity
        /\ target' = target /\ disk' = disk /\ content' = content
    BY <1>6 DEF Identify, Goes, TypeOK, files
  <2>4. seen'[c].file = disk /\ seen'[c].content = content[disk]
    BY <2>3 DEF Identity
  <2>5. report[target[c]].error # "short of space" /\ report[target[c]].compressed = Absent
    BY <1>5, <2>3 DEF Known, Converting
  <2>7. seen'[c].file = disk' /\ seen'[c].content <= content'[disk']
    BY <1>2, <2>3, <2>4
  <2>8. /\ report'[target'[c]].error # "short of space"
        /\ report'[target'[c]].compressed = Absent
        /\ report'[target'[c]].before = seen'[c]
    BY <2>2, <2>3, <2>5, Zenon
  <2>6. Known(c)'
    BY <2>3, <2>7, <2>8 DEF Known, Identified, Converting
  <2>. QED  BY <1>4, <2>6
<1>7. CASE Hash(c)
  <2>1. report'[target[c]] = [report[target[c]] EXCEPT !.source = content[disk]]
    BY <1>2, <1>7 DEF Hash, Noted, TypeOK
  <2>2. /\ report'[target[c]].error = report[target[c]].error
        /\ report'[target[c]].compressed = report[target[c]].compressed
        /\ report'[target[c]].before = report[target[c]].before
        /\ report'[target[c]].source = content[disk]
    BY <1>2, <2>1 DEF Reports
  <2>3. pc'[c] = "convert" /\ pc[c] = "hash" /\ UNCHANGED <<target, seen, disk, content>>
    BY <1>7 DEF Hash, Goes, TypeOK, files
  <2>4. /\ seen[c].file = disk /\ seen[c].content <= content[disk]
        /\ report[target[c]].error # "short of space"
        /\ report[target[c]].compressed = Absent
        /\ report[target[c]].before = seen[c]
    BY <1>5, <2>3 DEF Known, Identified, Converting
  <2>8. /\ report'[target'[c]].source = content[disk] /\ content'[disk'] = content[disk]
        /\ seen'[c] = seen[c] /\ disk' = disk
    BY <2>2, <2>3, Zenon
  <2>9. seen[c].file = disk /\ seen[c].content <= content[disk]
    BY <2>4
  <2>5. /\ seen'[c].file = disk' /\ seen'[c].content <= content'[disk']
        /\ seen'[c].content <= report'[target'[c]].source
        /\ report'[target'[c]].source <= content'[disk']
    BY <1>2, <2>8, <2>9
  <2>7. /\ report'[target'[c]].error # "short of space"
        /\ report'[target'[c]].compressed = Absent
        /\ report'[target'[c]].before = seen'[c]
    BY <2>2, <2>3, <2>4, Zenon
  <2>6. Known(c)'
    BY <2>3, <2>5, <2>7 DEF Known, Identified, Converting
  <2>. QED  BY <1>4, <2>6
<1>8. CASE Convert(c) \/ Converted(c)
  <2>1. /\ pc[c] \in {"convert", "converting"} /\ pc'[c] \in {"converting", "compare"}
        /\ UNCHANGED <<target, seen, disk, report>> /\ content'[disk] = content[disk]
    BY <1>2, <1>8 DEF Convert, Converted, Goes, TypeOK, reports
  <2>. QED  BY <1>2, <1>4, <1>5, <2>1 DEF Known, Identified, Converting
<1>9. CASE Compared(c)
  <2>1. report'[target[c]] = [report[target[c]] EXCEPT !.compared = TRUE]
    BY <1>2, <1>9 DEF Compared, Noted, TypeOK
  <2>2. /\ report'[target[c]].error = report[target[c]].error
        /\ report'[target[c]].compressed = report[target[c]].compressed
        /\ report'[target[c]].before = report[target[c]].before
        /\ report'[target[c]].source = report[target[c]].source
    BY <1>2, <2>1 DEF Reports
  <2>3. /\ pc'[c] = "unchanged" /\ pc[c] = "compare" /\ content[target[c]] = content[disk]
        /\ UNCHANGED <<target, seen, disk, content>>
    BY <1>9 DEF Compared, Goes, TypeOK, files
  <2>4. /\ seen[c].file = disk /\ seen[c].content <= content[disk]
        /\ report[target[c]].error # "short of space"
        /\ report[target[c]].compressed = Absent
        /\ report[target[c]].before = seen[c]
        /\ seen[c].content <= report[target[c]].source
        /\ report[target[c]].source <= content[disk]
    BY <1>5, <2>3 DEF Known, Identified, Converting
  <2>7. /\ report'[target'[c]].error # "short of space"
        /\ report'[target'[c]].compressed = Absent
        /\ report'[target'[c]].before = seen'[c]
    BY <2>2, <2>3, <2>4, Zenon
  <2>8. /\ report'[target'[c]].source = report[target[c]].source
        /\ content'[disk'] = content[disk] /\ content'[target'[c]] = content[disk]
        /\ seen'[c] = seen[c] /\ disk' = disk
    BY <2>2, <2>3, Zenon
  <2>9. /\ seen[c].file = disk /\ seen[c].content <= content[disk]
        /\ seen[c].content <= report[target[c]].source
        /\ report[target[c]].source <= content[disk]
    BY <2>4
  <2>5. /\ seen'[c].file = disk' /\ seen'[c].content <= content'[disk']
        /\ seen'[c].content <= report'[target'[c]].source
        /\ report'[target'[c]].source <= content'[disk']
        /\ report'[target'[c]].source <= content'[target'[c]]
        /\ content'[target'[c]] <= content'[disk']
    BY <1>2, <2>8, <2>9
  <2>6. Known(c)'
    BY <2>3, <2>5, <2>7 DEF Known, Identified, Converting
  <2>. QED  BY <1>4, <2>6
<1>10. CASE Review(c)
  <2>1. /\ pc'[c] = "rehash" /\ seen'[c] = Identity
        /\ UNCHANGED <<target, disk, content>>
    BY <1>10 DEF Review, Goes, TypeOK, files
  <2>. QED  BY <1>2, <1>4, <2>1 DEF Known, Identified, Converting, Identity
<1>11. CASE Rehash(c) \/ Recompare(c)
  <2>1. /\ \/ pc[c] = "rehash" /\ pc'[c] = "recompare"
           \/ pc[c] = "recompare" /\ pc'[c] = "untouched" /\ content[target[c]] = content[disk]
        /\ UNCHANGED <<target, seen, disk, content>>
    BY <1>11 DEF Rehash, Recompare, Goes, TypeOK, files
  <2>2. seen[c].file = disk /\ seen[c].content <= content[disk]
    BY <1>5, <2>1 DEF Known, Identified
  <2>3. /\ seen'[c].file = disk' /\ seen'[c].content <= content'[disk']
        /\ pc'[c] = "untouched" => /\ seen'[c].content <= content'[target'[c]]
                                   /\ content'[target'[c]] <= content'[disk']
    BY <1>2, <2>1, <2>2
  <2>4. pc'[c] \in {"recompare", "untouched"}
    BY <2>1
  <2>5. Known(c)'
    BY <2>3, <2>4 DEF Known, Identified, Converting
  <2>. QED  BY <1>4, <2>5
<1>12. CASE Unchanged(c) \/ Untouched(c) \/ Measured(c) \/ Swap(c) \/ Replace(c)
  <2>1. pc'[c] \in {"measure", "swap", "replace", "complete"}
    BY <1>12 DEF Unchanged, Untouched, Measured, Swap, Replace, Goes, TypeOK
  <2>. QED  BY <1>4, <2>1 DEF Known, Identified, Converting
<1>13. CASE Short(c) \/ Fails(c) \/ Complete(c) \/ Crash(c)
  BY <1>13, <1>l DEF Short, Fails, Refused, Complete, Crash
<1>. QED  BY <1>6, <1>7, <1>8, <1>9, <1>10, <1>11, <1>12, <1>13 DEF Work

\* Neither do other commands, machines and altered copies take it away.
LEMMA KnownNext ==
    TypeOK /\ LockInv /\ SwapInv /\ MonotoneInv /\ KnownInv /\ [Next]_vars => KnownInv'
<1>. SUFFICES ASSUME TypeOK, LockInv, SwapInv, MonotoneInv, KnownInv, [Next]_vars
              PROVE  KnownInv'
  OBVIOUS
<1>1. ASSUME NEW c \in Compactors, Work(c) \/ Crash(c) PROVE KnownInv'
  BY <1>1, KnownWork
<1>2. ASSUME NEW c \in Compactors, NEW k \in Compactions, Compact(c, k) PROVE KnownInv'
  <2>1. report[k].error # "short of space" /\ report[k].compressed = Absent
    BY <1>2 DEF Compact, SwapInv
  <2>2. report'[k] = [report[k] EXCEPT !.exists = TRUE] /\ report[k] \in Reports
    BY <1>2 DEF Compact, TypeOK
  <2>3. report'[k].error # "short of space" /\ report'[k].compressed = Absent
    BY <2>1, <2>2 DEF Reports
  <2>4. \A d \in Compactors \ {c} : pc'[d] = "idle"
    BY <1>2 DEF Compact, Goes, LockInv, TypeOK
  <2>5. pc'[c] = "identify" /\ target'[c] = k
    BY <1>2 DEF Compact, Goes, TypeOK
  <2>6. Known(c)'
    BY <2>3, <2>5, Zenon DEF Known, Identified, Converting
  <2>7. \A d \in Compactors \ {c} : Known(d)'
    BY <2>4 DEF Known, Identified, Converting
  <2>. QED  BY <2>6, <2>7 DEF KnownInv
<1>3. ASSUME NEW c \in Compactors, NEW k \in Compactions, Finalise(c, k) PROVE KnownInv'
  <2>4. \A d \in Compactors : pc'[d] \in {"idle", "review"}
    BY <1>3 DEF Finalise, Goes, LockInv, TypeOK
  <2>. QED  BY <2>4 DEF KnownInv, Known, Identified, Converting
<1>4. CASE GuestWrites
  <2>. SUFFICES ASSUME NEW c \in Compactors PROVE Known(c)'
    BY DEF KnownInv
  <2>. UNCHANGED <<pc, target, seen, disk, report>>
    BY <1>4 DEF GuestWrites, command, reports
  <2>1. CASE pc[c] \in {"idle", "complete"}
    BY <2>1 DEF Known, Identified, Converting
  <2>2. CASE pc[c] \notin {"idle", "complete"}
    <3>1. /\ target[c] \in Compactions
          /\ content[disk] \in Int /\ content[target[c]] \in Int
          /\ report[target[c]].source \in Int /\ seen[c].content \in Int
      BY <2>2, AtWork
    <3>2. target[c] # opened /\ opened \in Files
      BY <1>4, <2>2, <3>1 DEF GuestWrites, SwapInv, TypeOK
    <3>3. content'[target[c]] = content[target[c]]
      BY <1>4, <3>1, <3>2 DEF GuestWrites, TypeOK, Files
    <3>4. content[disk] <= written /\ written \in Int
      BY DEF MonotoneInv, TypeOK
    <3>5. content'[disk] \in {content[disk], written + 1}
      BY <1>4, <3>2 DEF GuestWrites, TypeOK
    <3>6. content'[disk] \in Int /\ content[disk] <= content'[disk]
      BY <3>1, <3>4, <3>5
    <3>7. Known(c)
      BY DEF KnownInv
    <3>8. \A x \in Int : x <= content[disk] => x <= content'[disk]
      BY <3>1, <3>6
    <3>9. /\ pc'[c] = pc[c] /\ target'[c] = target[c] /\ seen'[c] = seen[c] /\ disk' = disk
          /\ report'[target'[c]] = report[target[c]]
      OBVIOUS
    <3>. QED  BY <3>1, <3>3, <3>7, <3>8, <3>9, Zenon DEF Known
  <2>. QED  BY <2>1, <2>2
<1>5. ASSUME NEW k \in Compactions, CopyAltered(k) PROVE KnownInv'
  <2>. SUFFICES ASSUME NEW c \in Compactors PROVE Known(c)'
    BY DEF KnownInv
  <2>. UNCHANGED <<pc, target, seen, disk, report>>
    BY <1>5 DEF CopyAltered, command, reports
  <2>1. content'[disk] = content[disk]
    BY <1>5 DEF CopyAltered, SwapInv, TypeOK
  <2>2. pc[c] # "idle" => content'[target[c]] = content[target[c]]
    BY <1>5 DEF CopyAltered, LockInv, TypeOK, Files
  <2>3. Known(c)
    BY DEF KnownInv
  <2>. QED  BY <2>1, <2>2, <2>3 DEF Known, Identified, Converting
<1>6. CASE UNCHANGED <<pc, target, seen, disk, content, report>>
  <2>. SUFFICES ASSUME NEW c \in Compactors PROVE Known(c)'
    BY DEF KnownInv
  <2>1. Known(c)
    BY DEF KnownInv
  <2>. QED  BY <1>6, <2>1 DEF Known
<1>7. MachineStarts \/ StrayOpens \/ MachineKilled \/ MachineExits \/ UNCHANGED vars
         => UNCHANGED <<pc, target, seen, disk, content, report>>
  BY DEF MachineStarts, StrayOpens, MachineKilled, MachineExits, vars, files, reports, command
<1>. QED  BY <1>1, <1>2, <1>3, <1>4, <1>5, <1>6, <1>7 DEF Next

\* The steps of a command that change neither what a disk holds nor its name.
LEMMA QuietWork ==
    ASSUME TypeOK, LockInv, SwapInv, NEW c \in Compactors, Work(c) \/ Crash(c)
    PROVE  /\ written' = written /\ strayed' = strayed
           /\ \A d \in Compactors \ {c} : pc'[d] = "idle"
           /\ ~Replace(c) => disk' = disk /\ swapped' = swapped /\ content'[disk] = content[disk]
           /\ \/ Convert(c) \/ Converted(c)
              \/ content' = content
<1>1. pc[c] # "idle"
  BY OwnReport
<1>2. /\ target[c] \in Compactions
      /\ pc[c] # "complete" => target[c] # disk
      /\ \A d \in Compactors \ {c} : pc[d] = "idle"
  BY <1>1, AtWork
<1>3. \A d \in Compactors \ {c} : pc'[d] = "idle"
  BY <1>2 DEF Work, Crash, Goes, Identify, Hash, Convert, Converted, Compared,
     Unchanged, Review, Rehash, Recompare, Untouched, Measured, Short, Fails, Refused, Swap,
     Replace, Complete, Leave, TypeOK
<1>4. Convert(c) \/ Converted(c) => content'[disk] = content[disk]
  BY <1>2 DEF Convert, Converted, Goes, TypeOK
<1>5. /\ written' = written /\ strayed' = strayed
      /\ ~Replace(c) => disk' = disk /\ swapped' = swapped
      /\ \/ Convert(c) \/ Converted(c)
         \/ content' = content
  BY DEF Work, Crash, Identify, Hash, Convert, Converted, Compared, Unchanged, Review, Rehash,
     Recompare, Untouched, Measured, Short, Fails, Refused, Swap, Replace, Complete, files, past
<1>. QED  BY <1>3, <1>4, <1>5

\* The last check leaves a copy of the disk, and only then is it renamed.
LEMMA KeptNext ==
    TypeOK /\ LockInv /\ SwapInv /\ KnownInv /\ CopyInv /\ BuilderKept /\ [Next]_vars
        => CopyInv' /\ BuilderKept'
<1>. SUFFICES ASSUME TypeOK, LockInv, SwapInv, KnownInv, CopyInv, BuilderKept, [Next]_vars
              PROVE  CopyInv' /\ BuilderKept'
  OBVIOUS
<1>1. ASSUME NEW c \in Compactors, Work(c) \/ Crash(c) PROVE CopyInv' /\ BuilderKept'
  <2>1. /\ written' = written /\ strayed' = strayed
        /\ \A d \in Compactors \ {c} : pc'[d] = "idle"
        /\ ~Replace(c) => disk' = disk /\ swapped' = swapped /\ content'[disk] = content[disk]
        /\ \/ Convert(c) \/ Converted(c)
           \/ content' = content
    BY <1>1, QuietWork
  <2>2. pc[c] # "idle"
    BY <1>1, OwnReport
  <2>3. /\ content[disk] \in Int /\ content[target[c]] \in Int
        /\ report[target[c]].source \in Int /\ seen[c].content \in Int
    BY <2>2, AtWork
  <2>4. Known(c)
    BY DEF KnownInv
  <2>5. CASE Replace(c)
    <3>1. /\ pc[c] = "replace" /\ pc'[c] = "complete" /\ disk' = target[c]
          /\ content' = content
      BY <2>5 DEF Replace, Goes, TypeOK
    <3>2. CopyInv'
      BY <2>1, <3>1 DEF CopyInv, Checked
    <3>3. ~strayed => content[target[c]] = content[disk]
      BY <3>1 DEF CopyInv, Checked
    <3>. QED  BY <2>1, <3>1, <3>2, <3>3 DEF BuilderKept
  <2>6. CASE ~Replace(c)
    <3>1. BuilderKept'
      BY <2>1, <2>6 DEF BuilderKept
    <3>2. CASE Unchanged(c) \/ Untouched(c)
      <4>1. /\ pc[c] \in {"unchanged", "untouched"} /\ seen[c] = Identity
            /\ content' = content /\ target' = target /\ disk' = disk
        BY <3>2 DEF Unchanged, Untouched, Goes, files
      <4>2. seen[c].content = content[disk]
        BY <4>1 DEF Identity
      <4>3. seen[c].content <= content[target[c]] /\ content[target[c]] <= content[disk]
        <5>1. CASE pc[c] = "unchanged"
          <6>1. /\ seen[c].content <= report[target[c]].source
                /\ report[target[c]].source <= content[target[c]]
                /\ content[target[c]] <= content[disk]
            BY <2>4, <5>1 DEF Known
          <6>. QED  BY <2>3, <6>1
        <5>2. CASE pc[c] = "untouched"
          BY <2>4, <5>2 DEF Known
        <5>. QED  BY <4>1, <5>1, <5>2
      <4>4. content[target[c]] = content[disk]
        BY <2>3, <4>2, <4>3
      <4>5. content'[target'[c]] = content'[disk']
        BY <4>1, <4>4, Zenon
      <4>. QED  BY <2>1, <3>1, <4>5 DEF CopyInv, Checked
    <3>3. CASE Measured(c) \/ Swap(c)
      <4>1. /\ pc[c] \in Checked
            /\ content' = content /\ target' = target /\ disk' = disk
        BY <3>3 DEF Measured, Swap, Goes, files, Checked
      <4>. QED  BY <2>1, <3>1, <4>1 DEF CopyInv, Checked
    <3>4. CASE ~(Unchanged(c) \/ Untouched(c) \/ Measured(c) \/ Swap(c))
      <4>1. pc'[c] \notin Checked
        BY <1>1, <2>6, <3>4 DEF Work, Crash, Goes, Identify, Hash, Convert, Converted, Compared,
           Review, Rehash, Recompare, Short, Fails, Refused, Complete, Leave, TypeOK, Checked
      <4>. QED  BY <2>1, <3>1, <4>1 DEF CopyInv, Checked
    <3>. QED  BY <3>2, <3>3, <3>4
  <2>. QED  BY <2>5, <2>6
<1>2. ASSUME NEW c \in Compactors, NEW k \in Compactions, Compact(c, k) \/ Finalise(c, k)
      PROVE  CopyInv' /\ BuilderKept'
  <2>1. \A d \in Compactors : pc'[d] \in {"idle", "identify", "review"}
    BY <1>2 DEF Compact, Finalise, Goes, LockInv, TypeOK
  <2>2. UNCHANGED <<disk, content, written, strayed>>
    BY <1>2 DEF Compact, Finalise, files, past
  <2>. QED  BY <2>1, <2>2 DEF CopyInv, BuilderKept, Checked
<1>3. CASE GuestWrites
  <2>. SUFFICES ASSUME ~strayed' PROVE CopyInv' /\ BuilderKept'
    BY DEF CopyInv, BuilderKept
  <2>1. opened = disk /\ \A c \in Compactors : pc[c] \notin Checked
    <3>1. CASE machine = "stray"
      BY <1>3, <3>1 DEF GuestWrites
    <3>2. CASE machine = "leased"
      BY <3>2 DEF LockInv, Checked
    <3>. QED  BY <1>3, <3>1, <3>2 DEF GuestWrites, LockInv, TypeOK
  <2>. QED  BY <1>3, <2>1 DEF GuestWrites, CopyInv, BuilderKept, TypeOK, command
<1>4. ASSUME NEW k \in Compactions, CopyAltered(k) PROVE CopyInv' /\ BuilderKept'
  <2>. UNCHANGED <<pc, target, disk, written, strayed>>
    BY <1>4 DEF CopyAltered, command, past
  <2>1. content'[disk] = content[disk]
    BY <1>4 DEF CopyAltered, SwapInv, TypeOK
  <2>2. \A c \in Compactors : pc[c] # "idle" => content'[target[c]] = content[target[c]]
    BY <1>4 DEF CopyAltered, LockInv, TypeOK, Files
  <2>. QED  BY <2>1, <2>2 DEF CopyInv, BuilderKept, Checked
<1>5. CASE UNCHANGED <<pc, target, disk, content, written, strayed>>
  BY <1>5 DEF CopyInv, BuilderKept
<1>6. MachineStarts \/ StrayOpens \/ MachineKilled \/ MachineExits \/ UNCHANGED vars
         => UNCHANGED <<pc, target, disk, content, written, strayed>>
  BY DEF MachineStarts, StrayOpens, MachineKilled, MachineExits, vars, files, command, past
<1>. QED  BY <1>1, <1>2, <1>3, <1>4, <1>5, <1>6 DEF Next

\* The fields of a report that tell what was compared are written once.
LEMMA NotedNext ==
    TypeOK /\ LockInv /\ SwapInv /\ KnownInv /\ NotedInv /\ [Next]_vars => NotedInv'
<1>. SUFFICES ASSUME TypeOK, LockInv, SwapInv, KnownInv, NotedInv, [Next]_vars PROVE NotedInv'
  OBVIOUS
<1>1. ASSUME NEW c \in Compactors, Work(c) \/ Crash(c) PROVE NotedInv'
  <2>1. /\ pc[c] # "idle" /\ target[c] \in Compactions
        /\ \A k \in Compactions : k # target[c] => report'[k] = report[k]
    BY <1>1, OwnReport
  <2>2. /\ report[target[c]] \in Reports
        /\ content[disk] \in Int /\ content[target[c]] \in Int
        /\ report[target[c]].source \in Int /\ seen[c].content \in Int
    BY <2>1, AtWork
  <2>3. Known(c)
    BY DEF KnownInv
  <2>4. ASSUME NEW k \in Compactions, k # target[c]
        PROVE  content'[k] = content[k] /\ (k \in swapped => k \in swapped')
    BY <1>1, <2>1, <2>4 DEF Work, Crash, Identify, Hash, Convert, Converted, Compared,
       Unchanged, Review, Rehash, Recompare, Untouched, Measured, Short, Fails, Refused, Swap,
       Replace, Complete, files, past, TypeOK, Files
  <2>5. ASSUME NEW k \in Compactions, k # target[c], report'[k].compressed # Absent
        PROVE  /\ k \notin swapped' => content'[k] \in {report'[k].compressed, Altered}
               /\ report'[k].compressed = report'[k].before.content
               /\ report'[k].compressed = report'[k].source
    <3>1. report'[k] = report[k]
      BY <2>1, <2>5
    <3>2. content'[k] = content[k] /\ (k \in swapped => k \in swapped')
      BY <2>4, <2>5
    <3>. QED  BY <2>5, <3>1, <3>2, Zenon DEF NotedInv
  <2>6. report'[target[c]].compressed # Absent =>
            /\ target[c] \notin swapped' =>
                  content'[target[c]] \in {report'[target[c]].compressed, Altered}
            /\ report'[target[c]].compressed = report'[target[c]].before.content
            /\ report'[target[c]].compressed = report'[target[c]].source
    <3>1. CASE Identify(c) \/ Hash(c) \/ Compared(c)
      <4>1. pc[c] \in Converting
        BY <3>1 DEF Identify, Hash, Compared, Goes, Converting
      <4>2. report[target[c]].compressed = Absent
        BY <2>3, <4>1 DEF Known
      <4>3. report'[target[c]].compressed = report[target[c]].compressed
        <5>1. CASE Identify(c)
          BY <2>1, <2>2, <5>1 DEF Identify, Noted, TypeOK, Reports
        <5>2. CASE Hash(c)
          BY <2>1, <2>2, <5>2 DEF Hash, Noted, TypeOK, Reports
        <5>3. CASE Compared(c)
          BY <2>1, <2>2, <5>3 DEF Compared, Noted, TypeOK, Reports
        <5>. QED  BY <3>1, <5>1, <5>2, <5>3
      <4>. QED  BY <4>2, <4>3
    <3>2. CASE Convert(c) \/ Converted(c)
      <4>1. pc[c] \in Converting /\ report' = report
        BY <3>2 DEF Convert, Converted, Goes, Converting, reports
      <4>. QED  BY <2>3, <4>1 DEF Known
    <3>3. CASE Unchanged(c)
      <4>1. /\ pc[c] = "unchanged" /\ seen[c] = Identity /\ content' = content
            /\ report' = [report EXCEPT ![target[c]] =
                             [report[target[c]] EXCEPT !.compressed = content[target[c]]]]
        BY <3>3 DEF Unchanged, Goes, Noted, files
      <4>2. /\ report'[target[c]].compressed = content[target[c]]
            /\ report'[target[c]].before = report[target[c]].before
            /\ report'[target[c]].source = report[target[c]].source
        BY <2>1, <2>2, <4>1 DEF TypeOK, Reports
      <4>3. /\ seen[c].content <= report[target[c]].source
            /\ report[target[c]].source <= content[target[c]]
            /\ content[target[c]] <= content[disk]
            /\ report[target[c]].before = seen[c]
        BY <2>3, <4>1 DEF Known, Converting, Identified
      <4>4. seen[c].content = content[disk]
        BY <4>1 DEF Identity
      <4>5. /\ content[target[c]] = report[target[c]].source
            /\ content[target[c]] = seen[c].content
        <5>1. /\ seen[c].content <= report[target[c]].source
              /\ report[target[c]].source <= content[target[c]]
              /\ content[target[c]] <= content[disk]
          BY <4>3
        <5>. QED  BY <2>2, <4>4, <5>1
      <4>6. report[target[c]].before = seen[c]
        BY <4>3
      <4>. QED  BY <4>1, <4>2, <4>5, <4>6, Zenon
    <3>4. CASE ~(Identify(c) \/ Hash(c) \/ Compared(c) \/ Convert(c) \/ Converted(c)
                 \/ Unchanged(c))
      <4>1. content' = content /\ (target[c] \in swapped => target[c] \in swapped')
        BY <1>1, <3>4 DEF Work, Crash, Review, Rehash, Recompare, Untouched, Measured, Short,
           Fails, Refused, Swap, Replace, Complete, files, past
      <4>2. /\ report'[target[c]].compressed = report[target[c]].compressed
            /\ report'[target[c]].before = report[target[c]].before
            /\ report'[target[c]].source = report[target[c]].source
        <5>1. ASSUME NEW reason, Refused(c, reason)
              PROVE  /\ report'[target[c]].compressed = report[target[c]].compressed
                     /\ report'[target[c]].before = report[target[c]].before
                     /\ report'[target[c]].source = report[target[c]].source
          <6>1. \/ report'[target[c]] = report[target[c]]
                \/ report'[target[c]] = [report[target[c]] EXCEPT !.error = reason]
            BY <2>1, <5>1 DEF Refused, Noted, TypeOK
          <6>2. CASE report'[target[c]] = [report[target[c]] EXCEPT !.error = reason]
            BY <2>2, <6>2, OtherFields
          <6>. QED  BY <6>1, <6>2
        <5>2. ASSUME NEW new, Replacement(c, new)
              PROVE  /\ report'[target[c]].compressed = report[target[c]].compressed
                     /\ report'[target[c]].before = report[target[c]].before
                     /\ report'[target[c]].source = report[target[c]].source
          <6>1. \/ report'[target[c]] = report[target[c]]
                \/ report'[target[c]] = [report[target[c]] EXCEPT !.replacement = new]
            BY <2>1, <5>2 DEF Replacement, Noted, TypeOK
          <6>2. CASE report'[target[c]] = [report[target[c]] EXCEPT !.replacement = new]
            BY <2>2, <6>2, OtherFields
          <6>. QED  BY <6>1, <6>2
        <5>3. CASE report' = report
          BY <5>3
        <5>. QED  BY <1>1, <3>4, <5>1, <5>2, <5>3 DEF Work, Crash, Review, Rehash, Recompare,
                  Untouched, Measured, Short, Fails, Swap, Replace, Complete, reports
      <4>3. report[target[c]].compressed # Absent =>
              /\ target[c] \notin swapped => content[target[c]] \in {report[target[c]].compressed,
                                                                     Altered}
              /\ report[target[c]].compressed = report[target[c]].before.content
              /\ report[target[c]].compressed = report[target[c]].source
        BY <2>1 DEF NotedInv
      <4>. QED  BY <4>1, <4>2, <4>3, Zenon
    <3>. QED  BY <3>1, <3>2, <3>3, <3>4
  <2>. QED  BY <2>5, <2>6, Zenon DEF NotedInv
<1>2. ASSUME NEW c \in Compactors, NEW k \in Compactions, Compact(c, k) PROVE NotedInv'
  <2>1. report' = [report EXCEPT ![k] = [report[k] EXCEPT !.exists = TRUE]]
    BY <1>2 DEF Compact
  <2>2. \A j \in Compactions : /\ report'[j].compressed = report[j].compressed
                               /\ report'[j].before = report[j].before
                               /\ report'[j].source = report[j].source
    <3>1. report \in [Compactions -> Reports]
      BY DEF TypeOK
    <3>2. \A j \in Compactions : j # k => report'[j] = report[j]
      BY <2>1, <3>1
    <3>3. report'[k] = [report[k] EXCEPT !.exists = TRUE] /\ report[k] \in Reports
      BY <2>1, <3>1
    <3>4. /\ report'[k].replacement = report[k].replacement
          /\ report'[k].before = report[k].before
          /\ report'[k].source = report[k].source
          /\ report'[k].compressed = report[k].compressed
      BY <3>3, OtherFields
    <3>. QED  BY <3>2, <3>4, Zenon
  <2>3. content' = content /\ swapped' = swapped
    BY <1>2 DEF Compact, files, past
  <2>. QED  BY <2>2, <2>3, Zenon DEF NotedInv
<1>3. CASE GuestWrites
  <2>1. \A k \in Compactions : k \notin swapped => content'[k] = content[k]
    BY <1>3 DEF GuestWrites, SwapInv, TypeOK, Files
  <2>2. report' = report /\ swapped' = swapped
    BY <1>3 DEF GuestWrites, reports
  <2>. QED  BY <2>1, <2>2, Zenon DEF NotedInv
<1>4. ASSUME NEW k \in Compactions, CopyAltered(k) PROVE NotedInv'
  <2>1. \A j \in Compactions : content'[j] \in {content[j], Altered}
    BY <1>4 DEF CopyAltered, TypeOK, Files
  <2>2. report' = report /\ swapped' = swapped
    BY <1>4 DEF CopyAltered, reports, past
  <2>. QED  BY <2>1, <2>2, Zenon DEF NotedInv
<1>5. CASE UNCHANGED <<content, report, swapped>>
  BY <1>5, Zenon DEF NotedInv
<1>6. MachineStarts \/ StrayOpens \/ MachineKilled \/ MachineExits \/ UNCHANGED vars
         => UNCHANGED <<content, report, swapped>>
  BY DEF MachineStarts, StrayOpens, MachineKilled, MachineExits, vars, files, reports, past
<1>7. ASSUME NEW c \in Compactors, NEW k \in Compactions, Finalise(c, k) PROVE NotedInv'
  BY <1>5, <1>7 DEF Finalise, files, past
<1>. QED  BY <1>1, <1>2, <1>3, <1>4, <1>5, <1>6, <1>7 DEF Next

\* A rename follows its announcement, and its completion follows the rename.
LEMMA HonestNext ==
    TypeOK /\ LockInv /\ SwapInv /\ AnnouncedInv /\ ReportsHonest /\ [Next]_vars
        => AnnouncedInv' /\ ReportsHonest'
<1>. SUFFICES ASSUME TypeOK, LockInv, SwapInv, AnnouncedInv, ReportsHonest, [Next]_vars
              PROVE  AnnouncedInv' /\ ReportsHonest'
  OBVIOUS
<1>1. ASSUME NEW c \in Compactors, Work(c) \/ Crash(c) PROVE AnnouncedInv' /\ ReportsHonest'
  <2>1. /\ pc[c] # "idle" /\ target[c] \in Compactions
        /\ \A k \in Compactions : k # target[c] => report'[k] = report[k] /\ finals'[k] = finals[k]
    BY <1>1, OwnReport
  <2>2. \A d \in Compactors \ {c} : pc'[d] = "idle"
    BY <1>1, QuietWork
  <2>3. report[target[c]] \in Reports
    BY <2>1 DEF TypeOK
  <2>4. ASSUME NEW new, Replacement(c, new)
        PROVE  new \in {report'[target[c]].replacement, finals'[target[c]]}
               /\ \A x \in {report'[target[c]].replacement, finals'[target[c]]} :
                     x \in {new, report[target[c]].replacement, finals[target[c]]}
    <3>1. CASE Finalising(c)
      BY <2>1, <2>4, <3>1 DEF Replacement, TypeOK
    <3>2. CASE ~Finalising(c)
      <4>1. report'[target[c]] = [report[target[c]] EXCEPT !.replacement = new]
            /\ finals' = finals
        BY <2>1, <2>4, <3>2 DEF Replacement, Noted, TypeOK
      <4>2. report'[target[c]].replacement = new
        BY <2>3, <4>1, OtherFields
      <4>. QED  BY <4>1, <4>2
    <3>. QED  BY <3>1, <3>2
  <2>5. CASE Swap(c)
    <3>1. Replacement(c, "PENDING") /\ target' = target /\ swapped' = swapped
          /\ pc[c] = "swap"
      BY <2>5 DEF Swap, Goes, past
    <3>2. "PENDING" \in {report'[target[c]].replacement, finals'[target[c]]}
      BY <2>4, <3>1
    <3>3. target[c] \notin swapped
      BY <3>1 DEF SwapInv
    <3>4. "COMPLETE" \notin {report[target[c]].replacement, finals[target[c]]}
      BY <2>1, <3>3 DEF ReportsHonest
    <3>5. "COMPLETE" \notin {report'[target[c]].replacement, finals'[target[c]]}
      BY <2>4, <3>1, <3>4
    <3>6. ReportsHonest'
      BY <2>1, <3>1, <3>3, <3>5 DEF ReportsHonest
    <3>. QED  BY <2>2, <3>1, <3>2, <3>6 DEF AnnouncedInv
  <2>6. CASE Complete(c)
    <3>1. Replacement(c, "COMPLETE") /\ swapped' = swapped /\ pc[c] = "complete" /\ Leave(c)
      BY <2>6 DEF Complete, past
    <3>2. "COMPLETE" \in {report'[target[c]].replacement, finals'[target[c]]}
      BY <2>4, <3>1
    <3>3. target[c] \in swapped
      BY <3>1 DEF SwapInv
    <3>4. pc'[c] = "idle"
      BY <3>1 DEF Leave, TypeOK
    <3>6. ReportsHonest'
      BY <2>1, <3>1, <3>2, <3>3 DEF ReportsHonest
    <3>. QED  BY <2>2, <3>4, <3>6 DEF AnnouncedInv
  <2>7. CASE Replace(c)
    <3>1. /\ pc[c] = "replace" /\ pc'[c] = "complete" /\ swapped' = swapped \cup {target[c]}
          /\ report' = report /\ finals' = finals
      BY <2>7 DEF Replace, Goes, TypeOK, reports
    <3>2. "PENDING" \in {finals[target[c]], report[target[c]].replacement}
      BY <3>1 DEF AnnouncedInv
    <3>3. ReportsHonest'
      BY <2>1, <3>1, <3>2 DEF ReportsHonest
    <3>. QED  BY <2>2, <3>1, <3>3 DEF AnnouncedInv
  <2>8. CASE ~(Swap(c) \/ Complete(c) \/ Replace(c))
    <3>1. swapped' = swapped /\ finals' = finals
      BY <1>1, <2>8 DEF Work, Crash, Identify, Hash, Convert, Converted, Compared, Unchanged,
         Review, Rehash, Recompare, Untouched, Measured, Short, Fails, Refused, reports, past
    <3>2. pc'[c] # "replace"
      BY <1>1, <2>8 DEF Work, Crash, Goes, Identify, Hash, Convert, Converted, Compared,
         Unchanged, Review, Rehash, Recompare, Untouched, Measured, Short, Fails, Refused,
         Leave, TypeOK
    <3>3. report'[target[c]].replacement = report[target[c]].replacement
      <4>1. CASE Identify(c)
        <5>1. report'[target[c]] = [report[target[c]] EXCEPT !.before = Identity]
          BY <2>1, <4>1 DEF Identify, Noted, TypeOK
        <5>. QED  BY <2>3, <5>1, OtherFields
      <4>2. CASE Hash(c)
        <5>1. report'[target[c]] = [report[target[c]] EXCEPT !.source = content[disk]]
          BY <2>1, <4>2 DEF Hash, Noted, TypeOK
        <5>. QED  BY <2>3, <5>1, OtherFields
      <4>5. CASE Compared(c)
        <5>1. report'[target[c]] = [report[target[c]] EXCEPT !.compared = TRUE]
          BY <2>1, <4>5 DEF Compared, Noted, TypeOK
        <5>. QED  BY <2>3, <5>1, OtherFields
      <4>6. CASE Unchanged(c)
        <5>1. report'[target[c]] = [report[target[c]] EXCEPT !.compressed = content[target[c]]]
          BY <2>1, <4>6 DEF Unchanged, Noted, TypeOK
        <5>. QED  BY <2>3, <5>1, OtherFields
      <4>3. ASSUME NEW reason, Refused(c, reason)
            PROVE  report'[target[c]].replacement = report[target[c]].replacement
        <5>1. \/ report'[target[c]] = report[target[c]]
              \/ report'[target[c]] = [report[target[c]] EXCEPT !.error = reason]
          BY <2>1, <4>3 DEF Refused, Noted, TypeOK
        <5>2. CASE report'[target[c]] = [report[target[c]] EXCEPT !.error = reason]
          BY <2>3, <5>2, OtherFields
        <5>. QED  BY <5>1, <5>2
      <4>4. CASE report' = report
        BY <4>4
      <4>. QED  BY <1>1, <2>8, <4>1, <4>2, <4>3, <4>4, <4>5, <4>6 DEF Work, Crash, Convert, Converted,
                Review, Rehash, Recompare, Untouched, Measured, Short, Fails, reports
    <3>4. ReportsHonest'
      BY <2>1, <3>1, <3>3 DEF ReportsHonest
    <3>. QED  BY <2>2, <3>2, <3>4 DEF AnnouncedInv
  <2>. QED  BY <2>5, <2>6, <2>7, <2>8
<1>2. ASSUME NEW c \in Compactors, NEW k \in Compactions, Compact(c, k)
      PROVE  AnnouncedInv' /\ ReportsHonest'
  <2>1. report' = [report EXCEPT ![k] = [report[k] EXCEPT !.exists = TRUE]]
    BY <1>2 DEF Compact
  <2>2. \A j \in Compactions : report'[j].replacement = report[j].replacement
    <3>1. report \in [Compactions -> Reports]
      BY DEF TypeOK
    <3>2. \A j \in Compactions : j # k => report'[j] = report[j]
      BY <2>1, <3>1
    <3>3. report'[k] = [report[k] EXCEPT !.exists = TRUE] /\ report[k] \in Reports
      BY <2>1, <3>1
    <3>4. /\ report'[k].replacement = report[k].replacement
          /\ report'[k].before = report[k].before
          /\ report'[k].source = report[k].source
          /\ report'[k].compressed = report[k].compressed
      BY <3>3, OtherFields
    <3>. QED  BY <3>2, <3>4, Zenon
  <2>3. finals' = finals /\ swapped' = swapped
    BY <1>2 DEF Compact, past
  <2>4. \A d \in Compactors : pc'[d] # "replace"
    BY <1>2 DEF Compact, Goes, LockInv, TypeOK
  <2>. QED  BY <2>2, <2>3, <2>4 DEF AnnouncedInv, ReportsHonest
<1>3. ASSUME NEW c \in Compactors, NEW k \in Compactions, Finalise(c, k)
      PROVE  AnnouncedInv' /\ ReportsHonest'
  <2>1. k \notin swapped /\ report' = report /\ swapped' = swapped
        /\ finals' = [finals EXCEPT ![k] = "NOT PERFORMED"]
    BY <1>3 DEF Finalise, Retained, past
  <2>2. \A d \in Compactors : pc'[d] # "replace"
    BY <1>3 DEF Finalise, Goes, LockInv, TypeOK
  <2>. QED  BY <2>1, <2>2 DEF AnnouncedInv, ReportsHonest, TypeOK
<1>4. CASE UNCHANGED <<pc, target, report, finals, swapped>>
  BY <1>4 DEF AnnouncedInv, ReportsHonest
<1>5. MachineStarts \/ StrayOpens \/ MachineKilled \/ MachineExits \/ GuestWrites
      \/ UNCHANGED vars
         => UNCHANGED <<pc, target, report, finals, swapped>>
  BY DEF MachineStarts, StrayOpens, MachineKilled, MachineExits, GuestWrites, vars, reports,
     command, past
<1>6. ASSUME NEW k \in Compactions, CopyAltered(k) PROVE AnnouncedInv' /\ ReportsHonest'
  BY <1>4, <1>6 DEF CopyAltered, reports, command, past
<1>. QED  BY <1>1, <1>2, <1>3, <1>4, <1>5, <1>6 DEF Next

\* The invariant holds at first.
LEMMA CompactInit == Init => CompactInv
<1>. SUFFICES ASSUME Init PROVE CompactInv
  OBVIOUS
<1>1. TypeOK
  <2>1. NoIdentity \in Identities
    BY ContentsAreNumbers DEF NoIdentity, Identities, Files
  <2>2. NoReport(NoIdentity) \in Reports
    BY <2>1, ContentsAreNumbers DEF NoReport, Reports, Replacements
  <2>0. 0 \in Contents /\ Absent \in Contents
    BY ContentsAreNumbers
  <2>3. content \in [Files -> Contents]
    BY <2>0 DEF Init
  <2>4. report \in [Compactions -> Reports]
    BY <2>2 DEF Init
  <2>5. kept \in [Compactors -> Contents] /\ seen \in [Compactors -> Identities]
    BY <2>0, <2>1 DEF Init
  <2>6. disk \in Files /\ finals \in [Compactions -> Replacements]
    BY DEF Init, Files, Replacements
  <2>7. "idle" \in PCs
    BY DEF PCs
  <2>8. pc \in [Compactors -> PCs]
    BY <2>7 DEF Init
  <2>9. written = 0
    BY DEF Init
  <2>10. MaxWrites \in Nat
    BY CompactionAssumption
  <2>11. written \in 0 .. MaxWrites
    BY <2>9, <2>10
  <2>. QED  BY <2>3, <2>4, <2>5, <2>6, <2>8, <2>11 DEF Init, TypeOK
<1>2. LockInv /\ SwapInv /\ MonotoneInv
  <2>1. LockInv
    BY DEF Init, LockInv
  <2>0. Absent <= 0 /\ 0 <= 0
    BY DEF Absent
  <2>4. \A f \in Files : content[f] \in {0, Absent}
    BY DEF Init
  <2>3. MonotoneInv
    BY <2>0, <2>4 DEF Init, MonotoneInv
  <2>2. \A k \in Compactions : /\ report[k].error = "none" /\ report[k].compressed = Absent
                               /\ ~report[k].exists
    BY DEF Init, NoReport
  <2>. QED  BY <2>1, <2>2, <2>3 DEF Init, SwapInv
<1>3. KnownInv /\ CopyInv /\ AnnouncedInv
  BY DEF Init, KnownInv, Known, CopyInv, AnnouncedInv, Identified, Converting, Checked
<1>4. NotedInv /\ BuilderKept /\ ReportsHonest
  BY DEF Init, NotedInv, BuilderKept, ReportsHonest, NoReport, Files
<1>. QED  BY <1>1, <1>2, <1>3, <1>4 DEF CompactInv

\* CompactInv is inductive: what commands know, what their reports say and what the
\* files hold stay in step however compactions, finalisations, crashes and machines
\* interleave.
THEOREM CompactInductive == Spec => []CompactInv
<1>1. CompactInv /\ [Next]_vars => CompactInv'
  BY TypeNext, LockNext, SwapNext, MonotoneNext, KnownNext, KeptNext, NotedNext, HonestNext
     DEF CompactInv
<1>. QED  BY <1>1, CompactInit, PTL DEF Spec

\* The builder's disk keeps everything its guests wrote (compacting.py: the copy is
\* "swapped in only after every check").
THEOREM BuilderSurvives == Spec => []BuilderKept
<1>1. CompactInv => BuilderKept
  BY DEF CompactInv
<1>. QED  BY <1>1, CompactInductive, PTL

\* The reports never deny a swap that took place nor claim one that did not.
THEOREM ReportsTrue == Spec => []ReportsHonest
<1>1. CompactInv => ReportsHonest
  BY DEF CompactInv
<1>. QED  BY <1>1, CompactInductive, PTL

\* What _retained accepts is a copy that was compared in full with the source named.
THEOREM RetainedSound == Spec => []RetainedWasCompared
<1>1. CompactInv => RetainedWasCompared
  BY DEF CompactInv, NotedInv, RetainedWasCompared, Retained
<1>. QED  BY <1>1, CompactInductive, PTL
=============================================================================
