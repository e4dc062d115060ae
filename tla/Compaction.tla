----------------------------- MODULE Compaction -----------------------------
(* `apex machine compact`, and `compact --resume` which finalises a copy that  *)
(* was kept: the builder's disk replaced by a compressed copy of itself.       *)
(*                                                                             *)
(* A compaction holds the MACHINE lock, so no machine gets a lease meanwhile;  *)
(* but `current` sees only leased machines, and a machine whose start was      *)
(* interrupted, or which was killed and is not yet gone, may have the disk     *)
(* open or open it at any time.  Every command may die between two steps, and  *)
(* its report is all that a later finalisation knows of it.                    *)
(*                                                                             *)
(* A file is named by its inode.  Its content is the number of guest writes it *)
(* holds; the size and modification time of its identity, and its digest,      *)
(* change with every write and are therefore that number too.                  *)
EXTENDS Integers

CONSTANTS
    Compactors,     \* processes running the command
    Compactions,    \* run identifiers of compactions
    MaxWrites       \* bound: guest writes in one behaviour

ASSUME CompactionAssumption ==
    /\ "none" \notin Compactors \cup Compactions
    /\ "original" \notin Compactions
    /\ MaxWrites \in Nat

Files == Compactions \cup {"original"}

\* A command that has made its last check and has not renamed the copy.
Checked == {"measure", "swap", "replace"}

\* What else a file may hold: nothing, part of a conversion, or foreign bytes.
Absent  == -1
Partial == -2
Altered == -3

Contents   == Absent .. MaxWrites \cup {Partial, Altered}
Identities == [file : Files, content : Contents]

Replacements == {"NOT PERFORMED", "PENDING", "COMPLETE"}

\* result.json of a compaction; `exists` stands for its directory.
Reports == [exists : BOOLEAN, replacement : Replacements,
            error : {"none", "short of space", "other"},
            before : Identities, source : Contents, compressed : Contents,
            compared : BOOLEAN]

NoReport(now) == [exists |-> FALSE, replacement |-> "NOT PERFORMED", error |-> "none",
                  before |-> now, source |-> Absent, compressed |-> Absent,
                  compared |-> FALSE]

VARIABLES
    \* the runtime root
    lock,       \* holder of the MACHINE lock
    disk,       \* the file at the builder's path
    content,    \* the content of every file
    report,     \* the report of every compaction
    finals,     \* the replacement its finalisation reports
    \* the builder's machine
    machine,    \* "none", "leased", or "stray" when it runs without a lease
    opened,     \* the file it has open
    \* the commands
    pc, target, seen, kept,
    \* history
    written,    \* guest writes so far
    swapped,    \* compactions whose copy was renamed over the builder's disk
    strayed     \* a stray machine wrote to the disk after the last check before a
                \* rename, or to the file that was renamed over

files    == <<disk, content>>
reports  == <<report, finals>>
guest    == <<machine, opened>>
command  == <<pc, target, seen, kept>>
past     == <<written, swapped, strayed>>
vars     == <<lock, files, reports, guest, command, past>>

PCs == {"idle", "identify", "hash", "convert", "converting", "compare", "unchanged",
        "review", "rehash", "recompare", "untouched",
        "measure", "swap", "replace", "complete"}

TypeOK ==
    /\ lock \in Compactors \cup {"none"}
    /\ disk \in Files
    /\ content \in [Files -> Contents]
    /\ report \in [Compactions -> Reports]
    /\ finals \in [Compactions -> Replacements]
    /\ machine \in {"none", "leased", "stray"}
    /\ opened \in Files \cup {"none"}
    /\ pc \in [Compactors -> PCs]
    /\ target \in [Compactors -> Compactions \cup {"none"}]
    /\ seen \in [Compactors -> Identities]
    /\ kept \in [Compactors -> Contents]
    /\ written \in 0 .. MaxWrites
    /\ swapped \subseteq Compactions
    /\ strayed \in BOOLEAN

\* The identity of the file at the builder's path.
Identity == [file |-> disk, content |-> content[disk]]

NoIdentity == [file |-> "original", content |-> Absent]

Init ==
    /\ lock = "none" /\ disk = "original"
    /\ content = [f \in Files |-> IF f = "original" THEN 0 ELSE Absent]
    /\ report = [k \in Compactions |-> NoReport(NoIdentity)]
    /\ finals = [k \in Compactions |-> "NOT PERFORMED"]
    /\ machine = "none" /\ opened = "none"
    /\ pc = [c \in Compactors |-> "idle"]
    /\ target = [c \in Compactors |-> "none"]
    /\ seen = [c \in Compactors |-> NoIdentity]
    /\ kept = [c \in Compactors |-> Absent]
    /\ written = 0 /\ swapped = {} /\ strayed = FALSE

(***************************************************************************)
(* Steps both commands are made of.                                         *)
(***************************************************************************)

Leave(c) ==
    /\ pc' = [pc EXCEPT ![c] = "idle"]
    /\ target' = [target EXCEPT ![c] = "none"]
    /\ seen' = [seen EXCEPT ![c] = NoIdentity]
    /\ kept' = [kept EXCEPT ![c] = Absent]
    /\ lock' = IF lock = c THEN "none" ELSE lock

Goes(c, from, to) == pc[c] = from /\ pc' = [pc EXCEPT ![c] = to]

\* The image tools refuse a file a machine has open.
Readable == opened # disk

\* note: a field of the report of the compaction a command works on.
Noted(c, new) == report' = [report EXCEPT ![target[c]] = new]

\* Whether a command works on a retained copy: it is not the copy's own compaction.
Finalising(c) == report[target[c]].error = "short of space"

\* refuse: the reason is written to the report and the command ends.
Refused(c, reason) ==
    /\ IF Finalising(c)
       THEN report' = report
       ELSE Noted(c, [report[target[c]] EXCEPT !.error = reason])
    /\ Leave(c)
    /\ UNCHANGED <<files, finals, guest, past>>

(***************************************************************************)
(* Compacting.                                                              *)
(***************************************************************************)

\* compact with _guarded_source: the lock, no machine that has a lease, and a
\* directory of its own for the report and the copy.
Compact(c, k) ==
    /\ Goes(c, "idle", "identify")
    /\ lock = "none" /\ lock' = c
    /\ machine # "leased"
    /\ ~report[k].exists
    /\ target' = [target EXCEPT ![c] = k]
    /\ report' = [report EXCEPT ![k].exists = TRUE]
    /\ UNCHANGED <<files, finals, guest, seen, kept, past>>

\* The chain is plain, its identities are noted and there is room for a copy.
Identify(c) ==
    /\ Goes(c, "identify", "hash")
    /\ Readable
    /\ seen' = [seen EXCEPT ![c] = Identity]
    /\ Noted(c, [report[target[c]] EXCEPT !.before = Identity])
    /\ UNCHANGED <<lock, files, finals, guest, target, kept, past>>

\* Every link is checked and the source hashed; the hash asks no image tool.
Hash(c) ==
    /\ Goes(c, "hash", "convert")
    /\ Noted(c, [report[target[c]] EXCEPT !.source = content[disk]])
    /\ UNCHANGED <<lock, files, finals, guest, target, seen, kept, past>>

\* The conversion writes the copy as it goes ...
Convert(c) ==
    /\ Goes(c, "convert", "converting")
    /\ Readable
    /\ content' = [content EXCEPT ![target[c]] = Partial]
    /\ UNCHANGED <<lock, disk, reports, guest, target, seen, kept, past>>

\* ... of a source nobody can open for writing meanwhile.
Converted(c) ==
    /\ Goes(c, "converting", "compare")
    /\ content' = [content EXCEPT ![target[c]] = content[disk]]
    /\ UNCHANGED <<lock, disk, reports, guest, target, seen, kept, past>>

\* The copy stands alone, is well formed and holds every byte of the source.
Compared(c) ==
    /\ Goes(c, "compare", "unchanged")
    /\ Readable
    /\ content[target[c]] = content[disk]
    /\ Noted(c, [report[target[c]] EXCEPT !.compared = TRUE])
    /\ UNCHANGED <<lock, files, finals, guest, target, seen, kept, past>>

\* Mutant of Unchanged: the identities are not looked at again.
UnchangedMachine(c) ==
    /\ Goes(c, "unchanged", "measure")
    /\ machine # "leased"
    /\ Noted(c, [report[target[c]] EXCEPT !.compressed = content[target[c]]])
    /\ UNCHANGED <<lock, files, finals, guest, target, seen, kept, past>>

\* _require_unchanged, then the digest of the copy.
Unchanged(c) ==
    /\ Goes(c, "unchanged", "measure")
    /\ machine # "leased"
    /\ seen[c] = Identity
    /\ Noted(c, [report[target[c]] EXCEPT !.compressed = content[target[c]]])
    /\ UNCHANGED <<lock, files, finals, guest, target, seen, kept, past>>

\* _projected: the swap frees enough, or the copy is kept and the report says so.
Measured(c) ==
    /\ Goes(c, "measure", "swap")
    /\ UNCHANGED <<lock, files, reports, guest, target, seen, kept, past>>

Short(c) ==
    /\ pc[c] = "measure"
    /\ Refused(c, "short of space")

\* An image tool fails, a condition does not hold or there is no room.
Fails(c) ==
    /\ pc[c] \notin {"idle", "measure", "swap", "replace", "complete"}
    /\ Refused(c, "other")

(***************************************************************************)
(* _swap, of either command.                                                *)
(***************************************************************************)

\* The report of the command that swaps: the compaction's, or the finalisation's.
Replacement(c, new) ==
    IF Finalising(c)
    THEN finals' = [finals EXCEPT ![target[c]] = new] /\ report' = report
    ELSE Noted(c, [report[target[c]] EXCEPT !.replacement = new]) /\ finals' = finals

\* Mutant of Swap: the rename is not announced.
SwapUnannounced(c) ==
    /\ Goes(c, "swap", "replace")
    /\ UNCHANGED <<lock, files, reports, guest, target, seen, kept, past>>

\* The report announces the rename before it happens.
Swap(c) ==
    /\ Goes(c, "swap", "replace")
    /\ Replacement(c, "PENDING")
    /\ UNCHANGED <<lock, files, guest, target, seen, kept, past>>

\* One rename; whoever has the old file open keeps it.
Replace(c) ==
    /\ Goes(c, "replace", "complete")
    /\ disk' = target[c]
    /\ swapped' = swapped \cup {target[c]}
    /\ UNCHANGED <<lock, content, reports, guest, target, seen, kept, written, strayed>>

Complete(c) ==
    /\ pc[c] = "complete"
    /\ Replacement(c, "COMPLETE")
    /\ Leave(c)
    /\ UNCHANGED <<files, guest, past>>

(***************************************************************************)
(* Finalising.                                                              *)
(***************************************************************************)

\* _retained: the report of a fully compared copy that was short of space.
Retained(k) ==
    /\ report[k].replacement = "NOT PERFORMED"
    /\ report[k].error = "short of space"
    /\ report[k].source # Absent /\ report[k].compressed # Absent
    /\ report[k].compared
    /\ k \notin swapped /\ content[k] # Absent

\* finalise: the lock and the same guard, then a report of its own.
Finalise(c, k) ==
    /\ Goes(c, "idle", "review")
    /\ lock = "none" /\ lock' = c
    /\ machine # "leased"
    /\ Retained(k)
    /\ target' = [target EXCEPT ![c] = k]
    /\ finals' = [finals EXCEPT ![k] = "NOT PERFORMED"]
    /\ UNCHANGED <<files, report, guest, seen, kept, past>>

\* The builder's chain is the one the compaction began with.
Review(c) ==
    /\ Goes(c, "review", "rehash")
    /\ Readable
    /\ report[target[c]].before = Identity
    /\ seen' = [seen EXCEPT ![c] = Identity]
    /\ kept' = [kept EXCEPT ![c] = content[target[c]]]
    /\ UNCHANGED <<lock, files, reports, guest, target, past>>

\* Both files have the digests the compaction noted.
Rehash(c) ==
    /\ Goes(c, "rehash", "recompare")
    /\ content[disk] = report[target[c]].source
    /\ content[target[c]] = report[target[c]].compressed
    /\ UNCHANGED <<lock, files, reports, guest, target, seen, kept, past>>

Recompare(c) ==
    /\ Goes(c, "recompare", "untouched")
    /\ Readable
    /\ content[target[c]] = content[disk]
    /\ UNCHANGED <<lock, files, reports, guest, target, seen, kept, past>>

\* _require_unchanged, and the same of the copy.
Untouched(c) ==
    /\ Goes(c, "untouched", "measure")
    /\ machine # "leased"
    /\ seen[c] = Identity
    /\ kept[c] = content[target[c]]
    /\ UNCHANGED <<lock, files, reports, guest, target, seen, kept, past>>

(***************************************************************************)
(* What no compaction decides.                                              *)
(***************************************************************************)

\* A start takes the lock for its own time.  One that is interrupted leaves a
\* machine without a lease, which may not have opened its disk yet.
MachineStarts ==
    /\ machine = "none" /\ lock = "none"
    /\ \/ machine' = "leased" /\ opened' = disk
       \/ machine' = "stray" /\ opened' \in {disk, "none"}
    /\ UNCHANGED <<lock, files, reports, command, past>>

\* A file is opened for writing when no image tool is reading it.
StrayOpens ==
    /\ machine = "stray" /\ opened = "none"
    /\ \A c \in Compactors : pc[c] # "converting"
    /\ opened' = disk
    /\ UNCHANGED <<lock, files, reports, machine, command, past>>

GuestWrites ==
    /\ opened # "none"
    /\ written < MaxWrites
    /\ written' = written + 1
    /\ content' = [content EXCEPT ![opened] = written + 1]
    /\ strayed' = \/ strayed
                  \/ /\ machine = "stray"
                     /\ opened # disk \/ \E c \in Compactors : pc[c] \in Checked
    /\ UNCHANGED <<lock, disk, reports, guest, command, swapped>>

\* A kill releases the lease before the process is gone.
MachineKilled ==
    /\ machine = "leased" /\ lock = "none"
    /\ machine' = "stray"
    /\ UNCHANGED <<lock, files, reports, opened, command, past>>

MachineExits ==
    /\ machine # "none"
    /\ machine' = "none" /\ opened' = "none"
    /\ UNCHANGED <<lock, files, reports, command, past>>

\* A copy at rest is changed by something else.
CopyAltered(k) ==
    /\ k \notin swapped /\ content[k] \notin {Absent, Altered}
    /\ \A c \in Compactors : target[c] # k
    /\ content' = [content EXCEPT ![k] = Altered]
    /\ UNCHANGED <<lock, disk, reports, guest, command, past>>

Crash(c) ==
    /\ pc[c] # "idle"
    /\ Leave(c)
    /\ UNCHANGED <<files, reports, guest, past>>

(***************************************************************************)
(* The specification.                                                       *)
(***************************************************************************)

Work(c) ==
    \/ Identify(c) \/ Hash(c) \/ Convert(c) \/ Converted(c) \/ Compared(c) \/ Unchanged(c)
    \/ Review(c) \/ Rehash(c) \/ Recompare(c) \/ Untouched(c)
    \/ Measured(c) \/ Short(c) \/ Fails(c)
    \/ Swap(c) \/ Replace(c) \/ Complete(c)

Next ==
    \/ \E c \in Compactors : Work(c) \/ Crash(c)
                             \/ \E k \in Compactions : Compact(c, k) \/ Finalise(c, k)
    \/ MachineStarts \/ StrayOpens \/ GuestWrites \/ MachineKilled \/ MachineExits
    \/ \E k \in Compactions : CopyAltered(k)

Spec == Init /\ [][Next]_vars

(***************************************************************************)
(* Properties.                                                              *)
(***************************************************************************)

\* However compactions, finalisations of copies kept earlier, crashes and machines
\* follow one another, the builder's disk holds everything its guests wrote; the
\* one exception is what a machine without a lease writes between the last check
\* and the rename, or afterwards to the file it still has open.
BuilderKept == ~strayed => content[disk] = written

\* The reports tell which copy is the builder's disk now: a swap that took place
\* was announced by a report, even when the command died before it could note the
\* end, and a report that says COMPLETE is of a swap that took place.
ReportsHonest ==
    \A k \in Compactions :
        /\ k \in swapped => "NOT PERFORMED" # report[k].replacement
                            \/ "NOT PERFORMED" # finals[k]
        /\ "COMPLETE" \in {report[k].replacement, finals[k]} => k \in swapped

\* "only a fully compared copy that was short of space can be finalised": a copy a
\* finalisation would accept was compared in full with the source it names, and is
\* still that copy unless something else changed it.
RetainedWasCompared ==
    \A k \in Compactions : Retained(k) =>
        /\ content[k] \in {report[k].compressed, Altered}
        /\ report[k].compressed = report[k].before.content
        /\ report[k].compressed = report[k].source

(***************************************************************************)
(* Why the properties hold: the inductive invariant of the proofs.          *)
(***************************************************************************)

\* One command at a time, on a copy of its own; no leased machine beside it.
LockInv ==
    /\ \A c \in Compactors : pc[c] # "idle" => lock = c /\ target[c] \in Compactions
    /\ \A c \in Compactors : pc[c] = "idle" => target[c] = "none"
    /\ machine = "leased" => lock = "none" /\ opened = disk
    /\ machine = "none" => opened = "none"

\* The disk is the original or a copy swapped in, and machines open no other file.
SwapInv ==
    /\ disk \in swapped \cup {"original"}
    /\ opened \in swapped \cup {"original", "none"}
    /\ \A k \in Compactions : k \in swapped \/ report[k].error = "short of space"
                              \/ report[k].compressed # Absent => report[k].exists
    /\ \A c \in Compactors : pc[c] # "idle" => report[target[c]].exists
    /\ \A c \in Compactors : pc[c] \notin {"idle", "complete"} => target[c] \notin swapped
    /\ \A c \in Compactors : pc[c] = "complete" => target[c] \in swapped

\* A file never goes back to an earlier write.
MonotoneInv == \A f \in Files : content[f] <= written

Converting == {"identify", "hash", "convert", "converting", "compare", "unchanged"}
Identified == {"hash", "convert", "converting", "compare", "unchanged",
               "rehash", "recompare", "untouched"}

\* What a command knows of the source, in the order it learnt it.
Known(c) ==
    /\ pc[c] \in Identified => seen[c].file = disk /\ seen[c].content <= content[disk]
    /\ pc[c] \in Converting => /\ report[target[c]].error # "short of space"
                               /\ report[target[c]].compressed = Absent
    /\ pc[c] \in Converting \cap Identified => report[target[c]].before = seen[c]
    /\ pc[c] \in {"convert", "converting", "compare", "unchanged"} =>
          /\ seen[c].content <= report[target[c]].source
          /\ report[target[c]].source <= content[disk]
    /\ pc[c] = "unchanged" => /\ report[target[c]].source <= content[target[c]]
                              /\ content[target[c]] <= content[disk]
    /\ pc[c] = "untouched" => /\ seen[c].content <= content[target[c]]
                              /\ content[target[c]] <= content[disk]

KnownInv == \A c \in Compactors : Known(c)

\* Past its last check a command holds a copy of the disk.
CopyInv ==
    \A c \in Compactors : pc[c] \in Checked /\ ~strayed => content[target[c]] = content[disk]

\* A copy whose digest was noted is a copy of the source that was noted.
NotedInv ==
    \A k \in Compactions : report[k].compressed # Absent =>
        /\ k \notin swapped => content[k] \in {report[k].compressed, Altered}
        /\ report[k].compressed = report[k].before.content
        /\ report[k].compressed = report[k].source

\* A rename was announced, by the report of the command that makes it.
AnnouncedInv ==
    \A c \in Compactors : pc[c] = "replace" =>
        "PENDING" \in {finals[target[c]], report[target[c]].replacement}

CompactInv == /\ TypeOK /\ LockInv /\ SwapInv /\ MonotoneInv /\ KnownInv /\ CopyInv
              /\ NotedInv /\ AnnouncedInv /\ BuilderKept /\ ReportsHonest
=============================================================================
