-------------------------------- MODULE Hooks --------------------------------
(* The local Git hooks that answer to the repository rules, and the Git checks that  *)
(* prove them: `apex hooks` installs commit-msg, pre-commit and pre-push, each a      *)
(* script that hands the decision to `apex git-hook`, while an operator commits,      *)
(* pushes and fetches, and others push to the same remotes.  Git is external: it is   *)
(* modelled by what it does around a hook, the index it reads again after pre-commit  *)
(* and the remote branch it moves only if nobody moved it since it was read.          *)
EXTENDS Naturals, Sequences, FiniteSets

CONSTANTS
    Remotes,        \* the remotes of the checkout, one branch each
    Rows,           \* the rows a tree may add to the clean ones
    Defects,        \* the sets of rules that may find nothing
    MaxCommits      \* bound: the commits that are ever made

Kinds == {"commit-msg", "pre-commit", "pre-push"}

\* The order they are written in.
Order == <<"commit-msg", "pre-commit", "pre-push">>
Rules == {"document", "passphrase", "mode", "size", "key", "message"}
GitChecks == {"git.commit-policy", "git.private-stage", "git.outgoing-history"}

\* The size past which a file is refused without being read.
Limit == 2

\* A row of a tree or of the index: where it is, its mode, its size, its content.
Row == [path : {"source", "document", "passphrase"}, mode : {"file", "link"},
        size : 1..(Limit + 1), payload : {"text", "key"}]

Commits == 1..MaxCommits
Messages == {"conventional", "malformed"}

ASSUME HooksAssumption ==
    /\ Rows \subseteq Row
    /\ \A d \in Defects : d \subseteq Rules
    /\ MaxCommits \in Nat \ {0}

VARIABLES
    broken,     \* the rules that find nothing, a defect of the code
    hooks,      \* per kind, the script in the hooks directory
    doing,      \* the command the operator is running
    history,    \* the commits made, here and elsewhere, with all they descend from
    known,      \* those in the object database of this checkout
    remote,     \* per remote, the commit of its branch, 0 when there is none
    tracking,   \* per remote, what the last fetch or push left in refs/remotes
    unjudged,   \* the commits some remote was given without the rules being asked
    proofs      \* the verdict each Git check has been recorded with

hookVars == <<broken, hooks, doing, history, known, remote, tracking, unjudged, proofs>>

-----------------------------------------------------------------------------
(* What the rules refuse, and what the hooks ask them.                        *)

\* The rules on an entry.  Git is asked for the size of a row that carries a blob only.
PrivateName(row) == {row.path} \ {"source"}
NotRegular(row) == {f \in {"mode"} : row.mode # "file"}
TooLarge(row) == {f \in {"size"} : row.mode = "file" /\ row.size > Limit}

\* judge_entry: what the rules find in a row's path, mode and size.
EntryFindings(row) == PrivateName(row) \cup NotRegular(row) \cup TooLarge(row)

ContentFindings(row) == {f \in {"key"} : row.payload = "key"}

\* The rows whose bytes are read: the blobs the size rule would not refuse anyway.
Readable(tree) == {row \in tree : row.mode = "file" /\ row.size <= Limit}

\* judge_rows with the registered rules, of which some may find nothing.
TreeFindings(tree) ==
    (UNION {EntryFindings(row) : row \in tree})
        \cup (UNION {ContentFindings(row) : row \in Readable(tree)})

MessageFindings(message) == {f \in {"message"} : message = "malformed"}

\* What is wrong with a commit, asked without the hooks: a private key is at fault in
\* any file that is not refused for its size alone.
CommitFaults(h, c) ==
    MessageFindings(h[c].message)
        \cup (UNION {EntryFindings(row) : row \in h[c].tree})
        \cup {f \in {"key"} : \E row \in h[c].tree :
                  row.payload = "key" /\ row.mode = "file" /\ "size" \notin EntryFindings(row)}

\* The pre-push hook's judgement of a commit.
CommitFindings(h, c) == (MessageFindings(h[c].message) \cup TreeFindings(h[c].tree)) \ broken

\* run: a hook permits what no rule finds anything in.
Permits(findings) == findings = {}

\* What a commit descends from, itself included.
Line(h, c) == IF c = 0 THEN {} ELSE h[c].line

\* The tip of the branch, for all that the push sends.
OutgoingTip(h, held, update) == {update.local} \ (Line(h, update.seen) \cup held)

\* The commits an update would add that no remote already holds.
Outgoing(h, held, update) ==
    (Line(h, update.local) \ Line(h, update.seen)) \ held

\* A deletion sends nothing; a remote commit that is not in the database is refused
\* by name, since nothing could be subtracted; a commit found at fault is named.
PushFindings(h, here, held, update) ==
    IF update.local = 0 THEN {}
    ELSE IF update.seen # 0 /\ update.seen \notin here THEN {"not-fetched"}
    ELSE UNION {CommitFindings(h, c) : c \in Outgoing(h, held, update)}

Tracked(t) == UNION {Line(history, t[r]) : r \in Remotes}

-----------------------------------------------------------------------------
(* Proving the hooks: questions whose answers are known, put to the hooks over *)
(* disposable repositories.                                                    *)

Question(expected, found) == [expected |-> expected, found |-> found]

Met(q) == IF q.expected = {} THEN q.found = {} ELSE q.expected \subseteq q.found

\* One question answered for the lot.
VerdictOfAny(questions) == IF \E q \in questions : Met(q) THEN "PASS" ELSE "FAIL"

Verdict(questions) == IF \A q \in questions : Met(q) THEN "PASS" ELSE "FAIL"

CleanRow == [path |-> "source", mode |-> "file", size |-> 1, payload |-> "text"]
PrivateRow == [CleanRow EXCEPT !.path = "document"]
KeyRow == [CleanRow EXCEPT !.payload = "key"]
LinkRow == [CleanRow EXCEPT !.mode = "link"]

\* commit_policy: the messages of the policy, handed to the commit-msg hook.
PolicyQuestions ==
    {Question(MessageFindings(m), MessageFindings(m) \ broken) : m \in Messages}

\* private_stage: each entry judged alone in the index.
StageQuestions ==
    {Question(expected[1], TreeFindings({expected[2]}) \ broken) :
        expected \in {<<{}, CleanRow>>, <<{"document"}, PrivateRow>>,
                      <<{"key"}, KeyRow>>, <<{"mode"}, LinkRow>>}}

\* A clean commit, a malformed subject, a private file, and the file removed.
Bench == << [line |-> {1}, tree |-> {CleanRow}, message |-> "conventional"],
            [line |-> 1..2, tree |-> {CleanRow}, message |-> "malformed"],
            [line |-> 1..3, tree |-> {PrivateRow}, message |-> "conventional"],
            [line |-> 1..4, tree |-> {CleanRow}, message |-> "conventional"] >>

\* outgoing_history: what the pre-push hook says of four updates.  The bench has no
\* remote, and its database lacks the fifth commit.
Pushed(local, seen) == PushFindings(Bench, 1..4, {}, [local |-> local, seen |-> seen])

OutgoingQuestions ==
    {Question({"message", "document"}, Pushed(4, 1)), Question({}, Pushed(1, 0)),
     Question({}, Pushed(0, 4)), Question({"not-fetched"}, Pushed(4, 5))}

Proven == [k \in GitChecks |->
              Verdict(CASE k = "git.commit-policy" -> PolicyQuestions
                        [] k = "git.private-stage" -> StageQuestions
                        [] OTHER -> OutgoingQuestions)]

\* The faults the questions name.
Asked == {"message", "document", "key", "mode"}

-----------------------------------------------------------------------------
Idle == [op |-> "idle"]

RootCommit == [line |-> {1}, tree |-> {}, message |-> "conventional", checked |-> TRUE]

HooksInit ==
    /\ broken \in Defects
    /\ hooks \in {[k \in Kinds |-> "none"],
                 [k \in Kinds |-> IF k = "pre-push" THEN "foreign" ELSE "none"]}
    /\ doing = Idle
    /\ history = <<RootCommit>>
    /\ known = {1}
    /\ remote = [r \in Remotes |-> 1]
    /\ tracking = remote
    /\ unjudged = {}
    /\ proofs = [k \in {} |-> "PASS"]

Trees == {{}} \cup {{row} : row \in Rows}

Ours(kind) == hooks[kind] = "ours"

Commit == [line : SUBSET Nat, tree : SUBSET Row, message : Messages, checked : BOOLEAN]

Doing ==
    {Idle} \cup [op : {"install"}, left : Seq(Kinds)]
        \cup [op : {"commit"}, line : SUBSET Nat, tree : SUBSET Row, message : Messages,
              verify : BOOLEAN, restaged : BOOLEAN]
        \cup [op : {"push"}, remote : Remotes, local : Nat, seen : Nat,
              at : {"advertised", "permitted"}, judged : BOOLEAN]

HooksTypeOK ==
    /\ broken \in SUBSET Rules
    /\ hooks \in [Kinds -> {"none", "ours", "foreign"}]
    /\ doing \in Doing
    /\ history \in Seq(Commit)
    /\ known \in SUBSET (1..Len(history))
    /\ remote \in [Remotes -> 0..Len(history)]
    /\ tracking \in [Remotes -> 0..Len(history)]
    /\ unjudged \in SUBSET Nat
    /\ proofs \in {[k \in {} |-> "PASS"], Proven}

(* apex hooks: nothing is written while one of the three is somebody else's; then one *)
(* script after the other, and a crash or a failed write leaves those already there.  *)
Install ==
    /\ doing = Idle
    /\ \A k \in Kinds : hooks[k] # "foreign"
    /\ doing' = [op |-> "install", left |-> Order]
    /\ UNCHANGED <<broken, hooks, history, known, remote, tracking, unjudged, proofs>>

WriteHook ==
    /\ doing.op = "install"
    /\ hooks' = [hooks EXCEPT ![Head(doing.left)] = "ours"]
    /\ doing' = IF Len(doing.left) = 1 THEN Idle ELSE [doing EXCEPT !.left = Tail(@)]
    /\ UNCHANGED <<broken, history, known, remote, tracking, unjudged, proofs>>

\* The command ends before its last step: a crash, a failed write, a hook that refuses
\* or a git it could not read, an operator who gives up.
Abandon ==
    /\ doing # Idle
    /\ doing' = Idle
    /\ UNCHANGED <<broken, hooks, history, known, remote, tracking, unjudged, proofs>>

\* The operator moves a hook that is not ours aside.
MoveAside(k) ==
    /\ doing = Idle
    /\ hooks[k] = "foreign"
    /\ hooks' = [hooks EXCEPT ![k] = "none"]
    /\ UNCHANGED <<broken, doing, history, known, remote, tracking, unjudged, proofs>>

(* git commit, on any commit of the checkout, with any index.  pre-commit judges the  *)
(* rows of the index; Git reads the index again after it, and asks commit-msg last.   *)
(* verify is false with --no-verify, and for the merges Git makes without pre-commit. *)
BeginCommit(parent, tree, message, verify) ==
    /\ doing = Idle
    /\ Len(history) < MaxCommits
    /\ verify /\ Ours("pre-commit") => Permits(TreeFindings(tree) \ broken)
    /\ doing' = [op |-> "commit", line |-> Line(history, parent), tree |-> tree,
                 message |-> message, verify |-> verify, restaged |-> FALSE]
    /\ UNCHANGED <<broken, hooks, history, known, remote, tracking, unjudged, proofs>>

\* Another terminal stages something while the hook runs.
Restage(tree) ==
    /\ doing.op = "commit"
    /\ tree # doing.tree
    /\ doing' = [doing EXCEPT !.tree = tree, !.restaged = TRUE]
    /\ UNCHANGED <<broken, hooks, history, known, remote, tracking, unjudged, proofs>>

EndCommit ==
    /\ doing.op = "commit"
    /\ Len(history) < MaxCommits
    /\ doing.verify /\ Ours("commit-msg") => Permits(MessageFindings(doing.message) \ broken)
    /\ LET new == Len(history) + 1 IN
         /\ history' = Append(history,
                [line |-> doing.line \cup {new}, tree |-> doing.tree, message |-> doing.message,
                 checked |-> /\ doing.verify /\ Ours("pre-commit") /\ Ours("commit-msg")
                             /\ ~doing.restaged])
         /\ known' = known \cup {new}
    /\ doing' = Idle
    /\ UNCHANGED <<broken, hooks, remote, tracking, unjudged, proofs>>

(* git push, of any commit of the checkout or of a deletion: Git reads the branch of  *)
(* the remote, hands the pair to pre-push, and moves the branch if it is still there. *)
BeginPush(r, local) ==
    /\ doing = Idle
    /\ local # remote[r]
    /\ doing' = [op |-> "push", remote |-> r, local |-> local, seen |-> remote[r],
                 at |-> "advertised", judged |-> FALSE]
    /\ UNCHANGED <<broken, hooks, history, known, remote, tracking, unjudged, proofs>>

JudgePush ==
    /\ doing.op = "push" /\ doing.at = "advertised"
    /\ Ours("pre-push")
    /\ Permits(PushFindings(history, known, Tracked(tracking), doing))
    /\ doing' = [doing EXCEPT !.at = "permitted", !.judged = TRUE]
    /\ UNCHANGED <<broken, hooks, history, known, remote, tracking, unjudged, proofs>>

\* --no-verify, or no hook of ours.
SkipJudging ==
    /\ doing.op = "push" /\ doing.at = "advertised"
    /\ doing' = [doing EXCEPT !.at = "permitted"]
    /\ UNCHANGED <<broken, hooks, history, known, remote, tracking, unjudged, proofs>>

SendPush ==
    /\ doing.op = "push" /\ doing.at = "permitted"
    /\ remote[doing.remote] = doing.seen
    /\ remote' = [remote EXCEPT ![doing.remote] = doing.local]
    /\ tracking' = [tracking EXCEPT ![doing.remote] = doing.local]
    /\ unjudged' = unjudged \cup (IF doing.judged THEN {} ELSE Line(history, doing.local))
    /\ doing' = Idle
    /\ UNCHANGED <<broken, hooks, history, known, proofs>>

\* git fetch keeps a branch its remote no longer has, unless it is told to prune.
Fetch(r, prune) ==
    /\ tracking' = [tracking EXCEPT ![r] = IF remote[r] = 0 /\ ~prune THEN @ ELSE remote[r]]
    /\ known' = known \cup Line(history, remote[r])
    /\ UNCHANGED <<broken, hooks, doing, history, remote, unjudged, proofs>>

\* Others push a commit of their own, or move the branch back or away.
OthersPush(r, tree) ==
    /\ Len(history) < MaxCommits
    /\ LET new == Len(history) + 1 IN
         /\ history' = Append(history, [line |-> Line(history, remote[r]) \cup {new},
                                        tree |-> tree, message |-> "conventional",
                                        checked |-> FALSE])
         /\ remote' = [remote EXCEPT ![r] = new]
         /\ unjudged' = unjudged \cup {new}
    /\ UNCHANGED <<broken, hooks, doing, known, tracking, proofs>>

OthersRewind(r, c) ==
    /\ remote' = [remote EXCEPT ![r] = c]
    /\ UNCHANGED <<broken, hooks, doing, history, known, tracking, unjudged, proofs>>

\* apex prove git: the three checks, over disposable repositories, with the hook kinds
\* of the code and whatever is installed here.
ProveGit ==
    /\ proofs' = Proven
    /\ UNCHANGED <<broken, hooks, doing, history, known, remote, tracking, unjudged>>

HooksNext ==
    \/ Install \/ WriteHook \/ Abandon \/ \E k \in Kinds : MoveAside(k)
    \/ \E parent \in known, tree \in Trees, message \in Messages, verify \in BOOLEAN :
           BeginCommit(parent, tree, message, verify)
    \/ \E tree \in Trees : Restage(tree)
    \/ EndCommit
    \/ \E r \in Remotes, local \in known \cup {0} : BeginPush(r, local)
    \/ JudgePush \/ SkipJudging \/ SendPush
    \/ \E r \in Remotes, prune \in BOOLEAN : Fetch(r, prune)
    \/ \E r \in Remotes, tree \in Trees : OthersPush(r, tree)
    \/ \E r \in Remotes : \E c \in Line(history, remote[r]) \cup {0} : OthersRewind(r, c)
    \/ ProveGit

HooksSpec == HooksInit /\ [][HooksNext]_hookVars

-----------------------------------------------------------------------------
(* A remote holds no commit at fault, unless somebody gave it one without the rules   *)
(* being asked or the rule for that fault finds nothing.  outgoing_commits judges      *)
(* only what no remote-tracking branch holds, after a branch was read that may move    *)
(* before the push, so this rests on what those branches ever held.                    *)
PushedIsJudged ==
    \A r \in Remotes : \A c \in Line(history, remote[r]) :
        c \in unjudged \/ CommitFaults(history, c) \subseteq broken

(* Once the three Git checks are recorded PASS, neither a commit the hooks judged nor  *)
(* one a judged push delivered has a fault the questions name: the questions of         *)
(* hookproving reach every path from a rule to a refusal.                               *)
ProofsHold ==
    (proofs = [k \in GitChecks |-> "PASS"]) =>
        \A c \in DOMAIN history :
            (\/ history[c].checked
             \/ \E r \in Remotes : c \in Line(history, remote[r]) \ unjudged)
            => CommitFaults(history, c) \cap Asked = {}
=============================================================================
