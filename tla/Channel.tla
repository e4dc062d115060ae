------------------------------ MODULE Channel ------------------------------
(* The guest's agent asked over ssh or over the serial console: one request in,   *)
(* one framed reply out, or a refusal or failure.  Host commands share the serial *)
(* console's lock; the guest's units share the guest's build lock; a deadline      *)
(* ends the host's wait and not the guest's work; the machine reboots or is        *)
(* replaced by another at the same port under whoever is asking.                   *)
EXTENDS Naturals, SequencesExt

CONSTANTS
    Clients,        \* the host commands that ask
    \* Bounds: the requests made, the machines started, the reboots.
    MaxAsks, MaxMachines, MaxReboots,
    NoOne

ASSUME ChannelAssumption ==
    /\ MaxAsks \in Nat /\ MaxMachines \in Nat \ {0} /\ MaxReboots \in Nat
    /\ NoOne \notin Clients

VARIABLES
    lease,      \* each command: the machine it found, 0 before it begins, and its way there
    ask,        \* each request: the command that asks, under the guest's lock or not
    state,      \* each request as its host sees it
    work,       \* each request's unit as the guest sees it
    code,       \* the exit of each unit that ended
    from,       \* the machine that ran it, 0 until one does
    got,        \* the payload the host accepted
    console,    \* who holds the serial console's lock, and the machine its socket reaches
    input,      \* what is typed at the guest's console and not read yet
    shell,      \* the request whose command the console's shell runs, 0 for none
    ready,      \* does the expected user's shell read the console?
    stream,     \* what the console printed since its socket was connected
    lock,       \* the requests that hold the guest's build lock
    pin,        \* the machine whose host key is known, 0 for none
    machine,    \* the machine that runs
    reboots     \* its reboots

vars == <<lease, ask, state, work, code, from, got, console, input, shell, ready, stream,
          lock, pin, machine, reboots>>

Requests == 1..MaxAsks
Machines == 1..MaxMachines
Waiting  == {"handshake", "typed"}
Settled  == {"answered", "refused", "failed"}

NoAsk   == [by |-> NoOne, locked |-> FALSE]
NoLease == [machine |-> 0, via |-> "none"]
NoConsole == [by |-> NoOne, machine |-> 0]

\* The exit codes that a unit's end is told by.
ExitOk == 0
ExitError == 1
ExitRefusal == 3

Init ==
    /\ lease = [c \in Clients |-> NoLease]
    /\ ask = [r \in Requests |-> NoAsk]
    /\ state = [r \in Requests |-> "new"]
    /\ work = [r \in Requests |-> "none"]
    /\ code = [r \in Requests |-> ExitOk]
    /\ from = [r \in Requests |-> 0]
    /\ got = [r \in Requests |-> <<>>]
    /\ console = NoConsole /\ input = <<>> /\ shell = 0 /\ ready = TRUE /\ stream = <<>>
    /\ lock = {} /\ pin \in {0, 1} /\ machine = 1 /\ reboots = 0

(***************************************************************************)
(* Frames.  A reply of two chunks, closed by their count and digest.        *)
(***************************************************************************)

Line(mark, r, index, data) == [mark |-> mark, request |-> r, index |-> index, data |-> data]

\* The payload of a request's reply, in the chunks it is sent in.
Payload(r) == <<2 * r, 2 * r + 1>>

Encode(r) ==
    [i \in 1..Len(Payload(r)) |-> Line("chunk", r, i - 1, <<Payload(r)[i]>>)]
        \o <<Line("trailer", r, Len(Payload(r)), Payload(r))>>

Damaged == <<0>>

\* Mutant of Whole: the chunks are counted and not compared with the digest.
Counted(line, chunks) == line.index = Len(chunks) /\ line.index # 0

\* Does a trailer close the chunks that arrived?
Whole(line, chunks) ==
    line.index = Len(chunks) /\ line.index # 0 /\ line.data = chunks

\* One line fed to the decoder: noise and the lines of another request are passed
\* over, a chunk out of order or a trailer that does not close them is refused, and
\* after the payload nothing is read.
Consume(r, held, line) ==
    IF held.ends # "open" \/ line.request # r \/ line.mark \notin {"chunk", "trailer"}
    THEN held
    ELSE IF line.mark = "chunk"
    THEN IF line.index = Len(held.chunks)
         THEN [held EXCEPT !.chunks = @ \o line.data] ELSE [held EXCEPT !.ends = "refused"]
    ELSE [held EXCEPT !.ends = IF Whole(line, held.chunks) THEN "whole" ELSE "refused"]

\* The chunks a stream's lines carry for a request, and how they end: "whole",
\* "refused", or "open" when no trailer arrived.
Decode(r, lines) ==
    LET held[i \in 0..Len(lines)] ==
            IF i = 0 THEN [chunks |-> <<>>, ends |-> "open"] ELSE Consume(r, held[i - 1], lines[i])
    IN  held[Len(lines)]

\* What the console makes of printed lines: one lost, one damaged or one repeated.
Noisy(lines) ==
    {lines}
        \cup {RemoveAt(lines, i) : i \in DOMAIN lines}
        \cup {[lines EXCEPT ![i].data = Damaged] : i \in {j \in DOMAIN lines :
                                                           lines[j].mark \in {"chunk", "trailer"}}}
        \cup {InsertAt(lines, i, lines[i]) : i \in DOMAIN lines}

(***************************************************************************)
(* The host.                                                                *)
(***************************************************************************)

Via(r)  == lease[ask[r].by].via

\* Can the unit begin: has it no need of the build lock, or is the lock free?
Free(r) == ask[r].locked => lock = {}

\* A command finds the machine that runs and how it will reach its guest.
Find(c) ==
    /\ lease[c] = NoLease
    /\ \E via \in {"ssh", "serial"} : lease' = [lease EXCEPT ![c] = [machine |-> machine, via |-> via]]
    /\ UNCHANGED <<ask, state, work, code, from, got, console, input, shell, ready, stream,
                   lock, pin, machine, reboots>>

\* A command asks again only after an answer: a refusal or a failure ends it.
NextRequest(c, r) ==
    /\ lease[c] # NoLease
    /\ state[r] = "new" /\ \A q \in Requests : q < r => state[q] # "new"
    /\ \A q \in Requests : ask[q].by = c => state[q] = "answered"

\* Mutant of PeerIsLeased: whoever serves the socket is taken for the machine.
PeerUnchecked(c) == TRUE

\* Is the process behind the console's socket the machine the lease names?
PeerIsLeased(c) == lease[c].machine = machine

\* One console at a time; the expected user's shell must print the token back first.
AskSerial(c, r) ==
    /\ NextRequest(c, r) /\ lease[c].via = "serial"
    /\ \E locked \in BOOLEAN : ask' = [ask EXCEPT ![r] = [by |-> c, locked |-> locked]]
    /\ IF console = NoConsole /\ PeerIsLeased(c)
       THEN /\ state' = [state EXCEPT ![r] = "handshake"]
            /\ console' = [by |-> c, machine |-> machine] /\ stream' = <<>>
            /\ input' = Append(input, Line("probe", r, 0, <<>>))
       ELSE /\ state' = [state EXCEPT ![r] = "failed"]
            /\ UNCHANGED <<console, stream, input>>
    /\ UNCHANGED <<lease, work, code, from, got, shell, ready, lock, pin, machine, reboots>>

\* The first host key seen is kept, and no other is accepted afterwards.
AskSsh(c, r) ==
    /\ NextRequest(c, r) /\ lease[c].via = "ssh"
    /\ \E locked \in BOOLEAN : ask' = [ask EXCEPT ![r] = [by |-> c, locked |-> locked]]
    /\ IF pin \in {0, machine}
       THEN state' = [state EXCEPT ![r] = "typed"] /\ pin' = machine
       ELSE state' = [state EXCEPT ![r] = "failed"] /\ UNCHANGED pin
    /\ UNCHANGED <<lease, work, code, from, got, console, input, shell, ready, stream, lock,
                   machine, reboots>>

\* Where a marker that carries the request's token was printed.
Printed(mark, r) == {i \in DOMAIN stream : stream[i].mark = mark /\ stream[i].request = r}

\* The token came back: the command is typed, with what is to be read after it.
Type(r) ==
    /\ state[r] = "handshake" /\ Printed("ready", r) # {}
    /\ console.machine = machine
    /\ state' = [state EXCEPT ![r] = "typed"]
    /\ input' = Append(input, Line("command", r, 0, <<>>))
    /\ stream' = <<>>
    /\ UNCHANGED <<lease, ask, work, code, from, got, console, shell, ready, lock, pin,
                   machine, reboots>>

\* What the host makes of a unit's exit and of what it wrote.
Settle(r, exit, held) ==
    IF exit = ExitRefusal THEN state' = [state EXCEPT ![r] = "refused"] /\ UNCHANGED got
    ELSE IF exit # ExitOk THEN state' = [state EXCEPT ![r] = "failed"] /\ UNCHANGED got
    ELSE IF held.ends # "whole" THEN state' = [state EXCEPT ![r] = "refused"] /\ UNCHANGED got
    ELSE /\ state' = [state EXCEPT ![r] = "answered"]
         /\ got' = [got EXCEPT ![r] = held.chunks]

ReadSerial(r) ==
    /\ state[r] = "typed" /\ Via(r) = "serial" /\ Printed("done", r) # {}
    /\ LET done == CHOOSE i \in Printed("done", r) : \A j \in Printed("done", r) : i <= j
       IN  IF Printed("out", r) = {}
           THEN state' = [state EXCEPT ![r] = "failed"] /\ UNCHANGED got
           ELSE Settle(r, stream[done].index, Decode(r, SubSeq(stream, 1, done)))
    /\ console' = NoConsole /\ stream' = <<>>
    /\ UNCHANGED <<lease, ask, work, code, from, input, shell, ready, lock, pin, machine,
                   reboots>>

ReadSsh(r) ==
    /\ state[r] = "typed" /\ Via(r) = "ssh" /\ work[r] \in {"done", "denied"}
    /\ Settle(r, code[r], Decode(r, Encode(r)))
    /\ UNCHANGED <<lease, ask, work, code, from, console, input, shell, ready, stream, lock,
                   pin, machine, reboots>>

\* Mutant of GiveUp: the lock file stays open.
LockKept(r) ==
    /\ state[r] \in Waiting
    /\ state' = [state EXCEPT ![r] = "failed"]
    /\ UNCHANGED <<lease, ask, work, code, from, got, console, input, shell, ready, stream,
                   lock, pin, machine, reboots>>

\* Mutant of GiveUp: at the deadline of the answer the command is typed once more.
TypedAgain(r) ==
    /\ state[r] \in Waiting
    /\ state' = [state EXCEPT ![r] = "typed"]
    /\ input' = Append(input, Line("command", r, 0, <<>>))
    /\ UNCHANGED <<lease, ask, work, code, from, got, console, shell, ready, stream, lock, pin,
                   machine, reboots>>

\* The deadline, a closed channel, too long an answer, the end of the command itself:
\* the host waits no more, whatever the guest goes on with.
GiveUp(r) ==
    /\ state[r] \in Waiting
    /\ state' = [state EXCEPT ![r] = "failed"]
    /\ IF Via(r) = "serial" THEN console' = NoConsole /\ stream' = <<>>
                            ELSE UNCHANGED <<console, stream>>
    /\ UNCHANGED <<lease, ask, work, code, from, got, input, shell, ready, lock, pin, machine,
                   reboots>>

(***************************************************************************)
(* The guest.                                                               *)
(***************************************************************************)

\* What the console prints reaches whoever is connected to this machine.
Prints(lines) ==
    stream' = IF console.machine = machine THEN stream \o lines ELSE stream

\* The console's shell, idle, reads the next thing typed.
ReadProbe ==
    /\ shell = 0 /\ ready /\ input # <<>> /\ Head(input).mark = "probe"
    /\ input' = Tail(input)
    /\ Prints(<<Line("ready", Head(input).request, 0, <<>>)>>)
    /\ UNCHANGED <<lease, ask, state, work, code, from, got, console, shell, ready, lock, pin,
                   machine, reboots>>

\* A unit under the lock begins when it gets the lock at once.
BeginUnit(r) ==
    /\ work' = [work EXCEPT ![r] = "begun"]
    /\ from' = [from EXCEPT ![r] = machine]
    /\ lock' = IF ask[r].locked THEN {r} ELSE lock
    /\ UNCHANGED code

DenyUnit(r) ==
    /\ work' = [work EXCEPT ![r] = "denied"]
    /\ code' = [code EXCEPT ![r] = ExitError]
    /\ UNCHANGED <<from, lock>>

ReadCommand ==
    /\ shell = 0 /\ ready /\ input # <<>> /\ Head(input).mark = "command"
    /\ input' = Tail(input)
    /\ LET r   == Head(input).request
           out == Line("out", r, 0, <<>>)
       IN  IF Free(r)
           THEN BeginUnit(r) /\ shell' = r /\ Prints(<<out>>)
           ELSE /\ DenyUnit(r) /\ UNCHANGED shell
                /\ Prints(<<out, Line("done", r, ExitError, <<>>)>>)
    /\ UNCHANGED <<lease, ask, state, got, console, ready, pin, machine, reboots>>

\* Nobody reads the console as the expected user: what is typed is lost.
Swallow ==
    /\ ~ready /\ input # <<>>
    /\ input' = Tail(input)
    /\ UNCHANGED <<lease, ask, state, work, code, from, got, console, shell, ready, stream,
                   lock, pin, machine, reboots>>

StartSsh(r) ==
    /\ state[r] = "typed" /\ Via(r) = "ssh" /\ work[r] = "none"
    /\ IF Free(r) THEN BeginUnit(r) ELSE DenyUnit(r)
    /\ UNCHANGED <<lease, ask, state, got, console, input, shell, ready, stream, pin, machine,
                   reboots>>

\* The unit ends; over the console its frame and its exit are printed.
FinishUnit(r) ==
    /\ work[r] = "begun"
    /\ work' = [work EXCEPT ![r] = "done"]
    /\ lock' = lock \ {r}
    /\ \E exit \in {ExitOk, ExitError, ExitRefusal} :
          /\ code' = [code EXCEPT ![r] = exit]
          /\ IF shell = r
             THEN \E lines \in Noisy((IF exit = ExitOk THEN Encode(r) ELSE <<>>)
                                       \o <<Line("done", r, exit, <<>>)>>) :
                     shell' = 0 /\ Prints(lines)
             ELSE UNCHANGED <<shell, stream>>
    /\ UNCHANGED <<lease, ask, state, from, got, console, input, ready, pin, machine, reboots>>

\* What the guest has begun or been told when it goes down.
Lost ==
    {r \in Requests :
        \/ work[r] = "begun"
        \/ work[r] = "none" /\ state[r] = "typed" /\ Via(r) = "ssh"
        \/ work[r] = "none" /\ \E i \in DOMAIN input :
                                   input[i].mark = "command" /\ input[i].request = r}

GoesDown ==
    /\ work' = [r \in Requests |-> IF r \in Lost THEN "cut" ELSE work[r]]
    /\ lock' = {} /\ shell' = 0 /\ input' = <<>> /\ ready' = FALSE
    /\ UNCHANGED <<lease, ask, state, code, from, got, console, stream, pin>>

Reboot ==
    /\ reboots < MaxReboots /\ reboots' = reboots + 1
    /\ GoesDown
    /\ UNCHANGED machine

\* Another machine is started at the same port, with a host key of its own.
Replace ==
    /\ machine < MaxMachines /\ machine' = machine + 1
    /\ GoesDown
    /\ UNCHANGED reboots

\* The rescue shell of the expected user comes up.
Ready ==
    /\ ~ready /\ ready' = TRUE
    /\ UNCHANGED <<lease, ask, state, work, code, from, got, console, input, shell, stream,
                   lock, pin, machine, reboots>>

HostStep(r) == Type(r) \/ ReadSerial(r) \/ ReadSsh(r) \/ GiveUp(r)
GuestStep == ReadProbe \/ ReadCommand \/ Swallow \/ Reboot \/ Replace \/ Ready

Next ==
    \/ \E c \in Clients : Find(c) \/ \E r \in Requests : AskSerial(c, r) \/ AskSsh(c, r)
    \/ \E r \in Requests : HostStep(r) \/ StartSsh(r) \/ FinishUnit(r)
    \/ GuestStep

Spec == Init /\ [][Next]_vars

\* Every wait of the host has a deadline, and every program a unit runs has one.
Fairness == \A r \in Requests : WF_vars(GiveUp(r)) /\ WF_vars(FinishUnit(r))

FairSpec == Spec /\ Fairness

(***************************************************************************)
(* Properties.                                                              *)
(***************************************************************************)

\* An answer is the whole payload of the unit that ran for this very request and exited
\* with zero, never what a command given up before left on the console, nor what noise
\* made of it (serialframe's decoder, the tokens of real_serialshell).
OwnAnswer ==
    \A r \in Requests : state[r] = "answered" =>
        got[r] = Payload(r) /\ work[r] = "done" /\ code[r] = ExitOk

\* What one command is answered comes from one machine, also when the machine is
\* replaced between its requests; over the console, from the machine of its lease
\* (_require_peer, the known hosts file).
OneGuest ==
    \A q, r \in Requests :
        state[q] = "answered" /\ state[r] = "answered" /\ ask[q].by = ask[r].by =>
            /\ from[q] = from[r]
            /\ Via(r) = "serial" => from[r] = lease[ask[r].by].machine

\* Every request the host makes is settled, and when it is the console's lock is no
\* longer its command's: no command waits forever, nor keeps the next from asking by
\* having given up (the deadlines of run_unit, the session's finally).
Settles ==
    \A r \in Requests :
        state[r] \in Waiting ~> state[r] \in Settled /\ console.by # ask[r].by

\* Asking as it is promised, of a detail it does not know: the host's two steps are
\* one open request.
Promise == INSTANCE Asking WITH
    settled <- [r \in Requests |-> IF state[r] \in Waiting THEN "open" ELSE state[r]],
    holder  <- lock

\* The channel keeps the promise: no step of the host, of the guest or of whoever
\* restarts it goes beyond Asking.
KeepsPromise == Promise!Spec

(***************************************************************************)
(* Why the promise is kept: the inductive invariant of the proofs.          *)
(***************************************************************************)

Marks == {"probe", "command", "ready", "out", "done", "chunk", "trailer"}
Lines == [mark : Marks, request : Requests, index : Nat, data : Seq(Nat)]

ChannelTypes ==
    /\ lease \in [Clients -> [machine : Nat, via : {"none", "ssh", "serial"}]]
    /\ ask \in [Requests -> [by : Clients \cup {NoOne}, locked : BOOLEAN]]
    /\ state \in [Requests -> {"new"} \cup Waiting \cup Settled]
    /\ work \in [Requests -> {"none", "begun", "done", "denied", "cut"}]
    /\ code \in [Requests -> {ExitOk, ExitError, ExitRefusal}]
    /\ from \in [Requests -> Nat]
    /\ console \in [by : Clients \cup {NoOne}, machine : Nat]
    /\ input \in Seq(Lines) /\ stream \in Seq(Lines)
    /\ shell \in Requests \cup {0} /\ lock \subseteq Requests
    /\ pin \in Nat /\ machine \in Nat \ {0}

\* Whoever asks has found a machine, and waits for one answer at a time.
AskInv ==
    /\ \A c \in Clients : lease[c] # NoLease => lease[c].via # "none"
    /\ \A r \in Requests :
          IF state[r] = "new" THEN ask[r] = NoAsk /\ work[r] = "none"
          ELSE ask[r].by \in Clients /\ lease[ask[r].by] # NoLease
    /\ \A q, r \in Requests :
          state[q] \in Waiting /\ state[r] \in Waiting /\ ask[q].by = ask[r].by => q = r

\* The machine a request over the console is meant for.
Meant(r) == lease[ask[r].by].machine

\* Who waits at the console holds it, connected to the machine that is meant.
ConsoleInv ==
    \A r \in Requests :
        /\ state[r] \in Waiting /\ Via(r) = "serial" =>
               console = [by |-> ask[r].by, machine |-> Meant(r)]
        /\ state[r] = "handshake" => Via(r) = "serial" /\ work[r] = "none"

\* A typed command is of a request not yet begun, on the machine that was meant, and
\* is typed once.
TypedInv ==
    \A i \in DOMAIN input : input[i].mark = "command" =>
        LET r == input[i].request
        IN  /\ state[r] \notin {"new", "handshake"} /\ Via(r) = "serial"
            /\ work[r] = "none" /\ Meant(r) = machine
            /\ \A j \in DOMAIN input : input[j].mark = "command" /\ input[j].request = r => i = j

\* Units run on the machine that was meant, over ssh the one whose key is known.
PlaceInv ==
    \A r \in Requests :
        /\ state[r] # "new" /\ Via(r) = "ssh" => pin # 0
        /\ state[r] = "typed" /\ Via(r) = "ssh" /\ work[r] = "none" => pin = machine
        /\ work[r] \in {"begun", "done"} => from[r] = IF Via(r) = "ssh" THEN pin ELSE Meant(r)

\* An end that is printed, and an answer, are of a unit that ended so.
EndInv ==
    /\ \A r \in Requests : work[r] = "denied" => code[r] = ExitError
    /\ \A i \in DOMAIN stream : stream[i].mark = "done" /\ stream[i].index # ExitError =>
          work[stream[i].request] = "done" /\ code[stream[i].request] = stream[i].index
    /\ \A r \in Requests : state[r] = "answered" => work[r] = "done" /\ code[r] = ExitOk

\* A printed trailer closes the payload of its request, unless it is damaged, and an
\* answer is the payload.
FrameInv ==
    /\ got \in [Requests -> Seq(Nat)]
    /\ \A i \in DOMAIN stream : stream[i].mark = "trailer" =>
          /\ stream[i].index = Len(Payload(stream[i].request))
          /\ stream[i].data \in {Payload(stream[i].request), Damaged}
    /\ \A r \in Requests : state[r] = "answered" => got[r] = Payload(r)

ChannelInv ==
    ChannelTypes /\ AskInv /\ ConsoleInv /\ TypedInv /\ PlaceInv /\ EndInv /\ FrameInv
=============================================================================
