---------------------------- MODULE ChannelProofs ----------------------------
(* Proofs about Channel, for any number of host commands, requests, machines and *)
(* reboots: that asking keeps its promise, whatever is printed at the console and  *)
(* whichever machine is restarted, and that a command's answers come from one guest. *)
EXTENDS Channel, SequenceTheorems, WellFoundedInduction, TLAPS

(***************************************************************************)
(* Lines.                                                                   *)
(***************************************************************************)

LEMMA Bounds ==
    /\ Requests \subseteq Nat /\ 0 \notin Requests
    /\ NoOne \notin Clients
    /\ ExitOk \in Nat /\ ExitError \in Nat /\ ExitRefusal \in Nat
    /\ ExitOk # ExitError /\ ExitOk # ExitRefusal /\ ExitError # ExitRefusal
BY ChannelAssumption DEF Requests, ExitOk, ExitError, ExitRefusal

LEMMA LineType ==
    ASSUME NEW mark \in Marks, NEW r \in Requests, NEW index \in Nat, NEW d \in Seq(Nat)
    PROVE  /\ Line(mark, r, index, d) \in Lines
           /\ Line(mark, r, index, d).mark = mark
           /\ Line(mark, r, index, d).request = r
           /\ Line(mark, r, index, d).index = index
BY DEF Line, Lines

\* The elements of one sequence are among those of another.
Among(a, b) == \A i \in DOMAIN a : \E j \in DOMAIN b : a[i] = b[j]

\* Two sequences joined hold the elements of either.
LEMMA Joined ==
    ASSUME NEW S, NEW a \in Seq(S), NEW b \in Seq(S)
    PROVE  /\ a \o b \in Seq(S)
           /\ \A i \in DOMAIN (a \o b) : \/ \E j \in DOMAIN a : (a \o b)[i] = a[j]
                                         \/ \E j \in DOMAIN b : (a \o b)[i] = b[j]
<1> DEFINE c == a \o b
<1>1. /\ c \in Seq(S) /\ Len(c) = Len(a) + Len(b)
      /\ \A i \in 1..(Len(a) + Len(b)) : c[i] = IF i <= Len(a) THEN a[i] ELSE b[i - Len(a)]
  BY ConcatProperties
<1>2. /\ Len(a) \in Nat /\ Len(b) \in Nat
      /\ DOMAIN a = 1..Len(a) /\ DOMAIN b = 1..Len(b) /\ DOMAIN c = 1..Len(c)
  BY <1>1, LenProperties
<1> HIDE DEF c
<1>3. ASSUME NEW i \in DOMAIN c
      PROVE  \/ \E j \in DOMAIN a : c[i] = a[j]
             \/ \E j \in DOMAIN b : c[i] = b[j]
  <2>1. i \in 1..(Len(a) + Len(b))
    BY <1>1, <1>2, <1>3
  <2>2. CASE i <= Len(a)
    <3>1. i \in DOMAIN a /\ c[i] = a[i]
      BY <1>1, <1>2, <2>1, <2>2
    <3>. QED  BY <3>1
  <2>3. CASE ~ (i <= Len(a))
    <3>1. i - Len(a) \in DOMAIN b /\ c[i] = b[i - Len(a)]
      BY <1>1, <1>2, <2>1, <2>3
    <3>. QED  BY <3>1
  <2>. QED  BY <2>2, <2>3
<1>. QED  BY <1>1, <1>3 DEF c

\* A part of a sequence holds elements of it.
LEMMA Part ==
    ASSUME NEW S, NEW s \in Seq(S), NEW m \in 1..(Len(s) + 1), NEW n \in 0..Len(s)
    PROVE  SubSeq(s, m, n) \in Seq(S) /\ Among(SubSeq(s, m, n), s)
<1> DEFINE c == SubSeq(s, m, n)
<1>1. Len(s) \in Nat /\ DOMAIN s = 1..Len(s) /\ m \in Int /\ n \in Int
  BY LenProperties
<1>2. \A i \in m..n : s[i] \in S
  BY <1>1, ElementOfSeq
<1>3. /\ c \in Seq(S) /\ Len(c) = IF m <= n THEN n - m + 1 ELSE 0
      /\ \A i \in 1..(n - m + 1) : c[i] = s[m + i - 1]
  BY <1>1, <1>2, SubSeqProperties
<1>4. DOMAIN c = 1..Len(c)
  BY <1>3, LenProperties
<1> HIDE DEF c
<1>5. ASSUME NEW i \in DOMAIN c PROVE \E j \in DOMAIN s : c[i] = s[j]
  <2>1. i \in 1..(n - m + 1) /\ m + i - 1 \in DOMAIN s
    BY <1>1, <1>3, <1>4, <1>5
  <2>. QED  BY <1>3, <2>1
<1>. QED  BY <1>3, <1>5 DEF c, Among

LEMMA AmongBoth ==
    ASSUME NEW S, NEW a \in Seq(S), NEW b \in Seq(S), NEW s, Among(a, s), Among(b, s)
    PROVE  a \o b \in Seq(S) /\ Among(a \o b, s)
BY Joined DEF Among

LEMMA One ==
    ASSUME NEW S, NEW e \in S
    PROVE  <<e>> \in Seq(S) /\ Len(<<e>>) = 1 /\ DOMAIN <<e>> = {1} /\ <<e>>[1] = e
OBVIOUS

\* A reply's frame holds no end of a unit, and its trailer closes the payload.
LEMMA EncodeType ==
    ASSUME NEW r \in Requests
    PROVE  /\ Encode(r) \in Seq(Lines)
           /\ \A i \in DOMAIN Encode(r) :
                 /\ Encode(r)[i].mark # "done"
                 /\ Encode(r)[i].mark = "trailer" => Encode(r)[i] = Line("trailer", r, Len(Payload(r)), Payload(r))
<1>1. Payload(r) \in Seq(Nat) /\ Len(Payload(r)) = 2
  BY Bounds DEF Payload
<1>2. Payload(r)[1] \in Nat /\ Payload(r)[2] \in Nat
  BY Bounds DEF Payload
<1>m. "chunk" \in Marks /\ "trailer" \in Marks
  BY DEF Marks
<1>3. ASSUME NEW i \in 1..2
      PROVE  /\ Line("chunk", r, i - 1, <<Payload(r)[i]>>) \in Lines
             /\ Line("chunk", r, i - 1, <<Payload(r)[i]>>).mark = "chunk"
  <2>1. i - 1 \in Nat /\ <<Payload(r)[i]>> \in Seq(Nat)
    BY <1>2
  <2>. QED  BY <1>m, <2>1 DEF Line, Lines
<1> DEFINE c == [i \in 1..2 |-> Line("chunk", r, i - 1, <<Payload(r)[i]>>)]
           t == Line("trailer", r, Len(Payload(r)), Payload(r))
<1>4. t \in Lines /\ t.mark = "trailer"
  BY <1>1, <1>m, LineType
<1>5. c \in Seq(Lines) /\ DOMAIN c = 1..2 /\ \A i \in DOMAIN c : c[i].mark = "chunk"
  BY <1>3
<1>6. Encode(r) = c \o <<t>>
  BY <1>1 DEF Encode
<1> HIDE DEF c, t
<1>7. <<t>> \in Seq(Lines) /\ \A i \in DOMAIN <<t>> : <<t>>[i] = t
  BY <1>4, One
<1>8. /\ c \o <<t>> \in Seq(Lines)
      /\ \A i \in DOMAIN (c \o <<t>>) : \/ \E j \in DOMAIN c : (c \o <<t>>)[i] = c[j]
                                        \/ \E j \in DOMAIN <<t>> : (c \o <<t>>)[i] = <<t>>[j]
  BY <1>5, <1>7, Joined
<1>. QED  BY <1>4, <1>5, <1>6, <1>7, <1>8 DEF t

\* Noise makes no mark: what is heard has the mark, the request and the index of a
\* line that was printed, and its data when it is not damaged.
Like(a, b) ==
    a.mark = b.mark /\ a.request = b.request /\ a.index = b.index /\ a.data \in {b.data, Damaged}

\* A trailer of a request closes its payload, unless it is damaged.
Closes(line) ==
    /\ line.index = Len(Payload(line.request))
    /\ line.data \in {Payload(line.request), Damaged}

LEMMA NoisyLines ==
    ASSUME NEW lines \in Seq(Lines), NEW heard \in Noisy(lines)
    PROVE  /\ heard \in Seq(Lines)
           /\ \A i \in DOMAIN heard : \E j \in DOMAIN lines : Like(heard[i], lines[j])
<1>d. Len(lines) \in Nat /\ DOMAIN lines = 1..Len(lines)
  BY LenProperties
<1>1. CASE heard = lines
  BY <1>1 DEF Like
<1>2. ASSUME NEW i \in DOMAIN lines, heard = RemoveAt(lines, i)
      PROVE  heard \in Seq(Lines) /\ Among(heard, lines)
  <2>1. heard = SubSeq(lines, 1, i - 1) \o SubSeq(lines, i + 1, Len(lines))
    BY <1>2 DEF RemoveAt
  <2>2. /\ 1 \in 1..(Len(lines) + 1) /\ i - 1 \in 0..Len(lines)
        /\ i + 1 \in 1..(Len(lines) + 1) /\ Len(lines) \in 0..Len(lines)
    BY <1>d
  <2>. QED  BY <2>1, <2>2, Part, AmongBoth
<1>3. ASSUME NEW i \in DOMAIN lines, heard = [lines EXCEPT ![i].data = Damaged]
      PROVE  /\ heard \in Seq(Lines)
             /\ \A k \in DOMAIN heard : k \in DOMAIN lines /\ Like(heard[k], lines[k])
  <2> DEFINE e == [lines[i] EXCEPT !.data = Damaged]
  <2>1. lines[i] \in Lines /\ Damaged \in Seq(Nat)
    BY <1>d, ElementOfSeq DEF Damaged
  <2>2. e \in Lines /\ Like(e, lines[i])
    BY <2>1 DEF Lines, Like
  <2>3. heard = [lines EXCEPT ![i] = e]
    BY <1>3
  <2> HIDE DEF e
  <2>4. /\ heard \in Seq(Lines) /\ Len(heard) = Len(lines)
        /\ \A j \in 1..Len(lines) : heard[j] = IF j = i THEN e ELSE lines[j]
    BY <1>d, <2>2, <2>3, ExceptSeq
  <2>5. DOMAIN heard = 1..Len(lines)
    BY <2>4, LenProperties
  <2>6. ASSUME NEW k \in DOMAIN heard PROVE k \in DOMAIN lines /\ Like(heard[k], lines[k])
    BY <1>d, <2>2, <2>4, <2>5 DEF Like
  <2>. QED  BY <2>4, <2>6
<1>4. ASSUME NEW i \in DOMAIN lines, heard = InsertAt(lines, i, lines[i])
      PROVE  heard \in Seq(Lines) /\ Among(heard, lines)
  <2> DEFINE w == <<lines[i]>>
  <2>1. heard = (SubSeq(lines, 1, i - 1) \o w) \o SubSeq(lines, i, Len(lines))
    BY <1>4 DEF InsertAt
  <2>2. /\ 1 \in 1..(Len(lines) + 1) /\ i - 1 \in 0..Len(lines)
        /\ i \in 1..(Len(lines) + 1) /\ Len(lines) \in 0..Len(lines)
    BY <1>d
  <2>3. w \in Seq(Lines) /\ Among(w, lines)
    BY <1>d, ElementOfSeq, One DEF Among
  <2>. HIDE DEF w
  <2>4. /\ SubSeq(lines, 1, i - 1) \o w \in Seq(Lines)
        /\ Among(SubSeq(lines, 1, i - 1) \o w, lines)
    BY <2>2, <2>3, Part, AmongBoth
  <2>. QED  BY <2>1, <2>2, <2>4, Part, AmongBoth
<1>. QED  BY <1>1, <1>2, <1>3, <1>4 DEF Noisy, Like, Among

LEMMA Printing ==
    ASSUME stream \in Seq(Lines), NEW lines \in Seq(Lines), Prints(lines)
    PROVE  /\ stream' \in Seq(Lines)
           /\ \A i \in DOMAIN stream' : \/ \E j \in DOMAIN stream : stream'[i] = stream[j]
                                        \/ \E j \in DOMAIN lines : stream'[i] = lines[j]
<1>1. CASE stream' = stream
  BY <1>1
<1>2. CASE stream' = stream \o lines
  <2> DEFINE c == stream \o lines
  <2>1. /\ c \in Seq(Lines)
        /\ \A i \in DOMAIN c : \/ \E j \in DOMAIN stream : c[i] = stream[j]
                              \/ \E j \in DOMAIN lines : c[i] = lines[j]
    BY Joined
  <2>2. stream' = c
    BY <1>2
  <2> HIDE DEF c
  <2>. QED  BY <2>1, <2>2
<1>. QED  BY <1>1, <1>2 DEF Prints

(***************************************************************************)
(* Types.                                                                   *)
(***************************************************************************)

\* One more thing typed at the console is a line like the others.
LEMMA Typing ==
    ASSUME input \in Seq(Lines), NEW mark \in Marks, NEW r \in Requests,
           input' = Append(input, Line(mark, r, 0, <<>>))
    PROVE  /\ input' \in Seq(Lines)
           /\ \A i \in DOMAIN input' : \/ i \in DOMAIN input /\ input'[i] = input[i]
                                       \/ input'[i] = Line(mark, r, 0, <<>>)
           /\ \A i, j \in DOMAIN input' : i # j => i \in DOMAIN input \/ j \in DOMAIN input
<1> DEFINE e == Line(mark, r, 0, <<>>)
           c == Append(input, e)
<1>1. e \in Lines
  BY EmptySeq, LineType
<1> HIDE DEF e
<1>2. /\ c \in Seq(Lines) /\ Len(c) = Len(input) + 1
      /\ \A i \in 1..Len(input) : c[i] = input[i]
      /\ c[Len(input) + 1] = e
  BY <1>1, AppendProperties
<1>3. DOMAIN c = 1..(Len(input) + 1) /\ DOMAIN input = 1..Len(input) /\ Len(input) \in Nat
  BY <1>2, LenProperties
<1>4. \A i \in DOMAIN c : i \in DOMAIN input \/ i = Len(input) + 1
  BY <1>3
<1>5. input' = c
  BY DEF e
<1> HIDE DEF c
<1>6. \A i \in DOMAIN c : (i \in DOMAIN input /\ c[i] = input[i]) \/ c[i] = e
  BY <1>2, <1>3, <1>4
<1>. QED  BY <1>2, <1>4, <1>5, <1>6 DEF e

\* What is left when the first thing typed is read.
LEMMA Reading ==
    ASSUME input \in Seq(Lines), input # <<>>, input' = Tail(input)
    PROVE  /\ Head(input) \in Lines /\ 1 \in DOMAIN input /\ Head(input) = input[1]
           /\ input' \in Seq(Lines)
           /\ \A i \in DOMAIN input' :
                 i \in Nat /\ i + 1 \in DOMAIN input /\ i + 1 # 1 /\ input'[i] = input[i + 1]
<1>1. /\ Head(input) \in Lines /\ Tail(input) \in Seq(Lines)
      /\ Len(Tail(input)) = Len(input) - 1
      /\ \A i \in 1..Len(Tail(input)) : Tail(input)[i] = input[i + 1]
  BY HeadTailProperties
<1>2. /\ Len(input) \in Nat \ {0} /\ DOMAIN input = 1..Len(input)
      /\ DOMAIN Tail(input) = 1..Len(Tail(input))
  BY <1>1, EmptySeq, LenProperties
<1>3. 1 \in DOMAIN input /\ Head(input) = input[1]
  BY <1>2
<1> DEFINE t == Tail(input)
<1>4. input' = t
  OBVIOUS
<1>5. t \in Seq(Lines) /\ DOMAIN t = 1..(Len(input) - 1) /\ \A i \in DOMAIN t : t[i] = input[i + 1]
  BY <1>1, <1>2
<1> HIDE DEF t
<1>6. \A i \in DOMAIN t : i \in Nat /\ i + 1 \in DOMAIN input /\ i + 1 # 1
  BY <1>2, <1>5
<1>. QED  BY <1>1, <1>3, <1>4, <1>5, <1>6

\* What FinishUnit prints, before the noise.
Reported(r, exit) == (IF exit = ExitOk THEN Encode(r) ELSE <<>>) \o <<Line("done", r, exit, <<>>)>>

LEMMA Reports ==
    ASSUME NEW r \in Requests, NEW exit \in {ExitOk, ExitError, ExitRefusal},
           NEW heard \in Noisy(Reported(r, exit))
    PROVE  /\ heard \in Seq(Lines)
           /\ \A i \in DOMAIN heard :
                 /\ heard[i].mark = "done" => heard[i].request = r /\ heard[i].index = exit
                 /\ heard[i].mark = "trailer" => Closes(heard[i])
<1> DEFINE e == Line("done", r, exit, <<>>)
           p == IF exit = ExitOk THEN Encode(r) ELSE <<>>
<1>1. exit \in Nat /\ "done" \in Marks /\ <<>> \in Seq(Nat)
  BY Bounds, EmptySeq DEF Marks
<1>2. e \in Lines /\ e.mark = "done" /\ e.request = r /\ e.index = exit
  BY <1>1 DEF Line, Lines
<1>3. /\ p \in Seq(Lines)
      /\ \A i \in DOMAIN p : /\ p[i].mark # "done"
                             /\ p[i].mark = "trailer" => p[i].request = r /\ p[i].index = Len(Payload(r))
                                                        /\ p[i].data = Payload(r)
  <2>1. CASE exit = ExitOk
    BY <2>1, EncodeType DEF Line
  <2>2. CASE exit # ExitOk
    <3>1. p = <<>>
      BY <2>2
    <3>2. <<>> \in Seq(Lines) /\ DOMAIN <<>> = {}
      OBVIOUS
    <3> HIDE DEF p
    <3>. QED  BY <3>1, <3>2
  <2>. QED  BY <2>1, <2>2
<1>4. Reported(r, exit) = p \o <<e>>
  BY DEF Reported
<1> HIDE DEF e, p
<1>5. <<e>> \in Seq(Lines) /\ \A j \in DOMAIN <<e>> : <<e>>[j] = e
  BY <1>2, One
<1> DEFINE c == p \o <<e>>
<1>6. /\ c \in Seq(Lines)
      /\ \A i \in DOMAIN c : \/ \E j \in DOMAIN p : c[i] = p[j]
                             \/ \E j \in DOMAIN <<e>> : c[i] = <<e>>[j]
  BY <1>3, <1>5, Joined
<1> HIDE DEF c
<1>7. \A i \in DOMAIN c : /\ c[i].mark = "done" => c[i] = e
                          /\ c[i].mark = "trailer" => c[i].request = r /\ c[i].index = Len(Payload(r))
                                                     /\ c[i].data = Payload(r)
  BY <1>2, <1>3, <1>5, <1>6
<1>8. Reported(r, exit) = c
  BY <1>4 DEF c
<1>9. /\ heard \in Seq(Lines)
      /\ \A i \in DOMAIN heard : \E j \in DOMAIN c : Like(heard[i], c[j])
  BY <1>6, <1>8, NoisyLines
<1>. QED  BY <1>2, <1>7, <1>9 DEF Like, Closes

LEMMA TypesInductive ==
    ASSUME ChannelTypes, AskInv, [Next]_vars
    PROVE  ChannelTypes'
<1> USE DEF ChannelTypes
<1>b. /\ 0 \in Nat /\ ExitOk \in Nat /\ ExitError \in Nat /\ NoConsole \in [by : Clients \cup {NoOne}, machine : Nat]
      /\ <<>> \in Seq(Lines)
  BY Bounds, EmptySeq DEF NoConsole
<1>m. /\ "probe" \in Marks /\ "command" \in Marks /\ "ready" \in Marks
      /\ "out" \in Marks /\ "done" \in Marks /\ <<>> \in Seq(Nat)
  BY EmptySeq DEF Marks
<1>1. ASSUME NEW c \in Clients, Find(c) PROVE ChannelTypes'
  BY <1>1 DEF Find
<1>2. ASSUME NEW c \in Clients, NEW r \in Requests, AskSerial(c, r) PROVE ChannelTypes'
  <2>1. input' \in Seq(Lines)
    BY <1>2, <1>m, Typing DEF AskSerial
  <2>2. stream' \in Seq(Lines) /\ console' \in [by : Clients \cup {NoOne}, machine : Nat]
    <3>1. [by |-> c, machine |-> machine] \in [by : Clients \cup {NoOne}, machine : Nat]
      OBVIOUS
    <3>. QED  BY <1>2, <1>b, <3>1, Zenon DEF AskSerial
  <2>3. ask' \in [Requests -> [by : Clients \cup {NoOne}, locked : BOOLEAN]]
    BY <1>2 DEF AskSerial
  <2>4. state' \in [Requests -> {"new"} \cup Waiting \cup Settled]
    <3>1. \/ state' = [state EXCEPT ![r] = "handshake"]
          \/ state' = [state EXCEPT ![r] = "failed"]
      BY <1>2, Zenon DEF AskSerial
    <3>. QED  BY <3>1 DEF Waiting, Settled
  <2>. QED  BY <1>2, <2>1, <2>2, <2>3, <2>4 DEF AskSerial
<1>3. ASSUME NEW c \in Clients, NEW r \in Requests, AskSsh(c, r) PROVE ChannelTypes'
  <2>1. ask' \in [Requests -> [by : Clients \cup {NoOne}, locked : BOOLEAN]]
    BY <1>3 DEF AskSsh
  <2>2. \/ state' = [state EXCEPT ![r] = "typed"] /\ pin' = machine
        \/ state' = [state EXCEPT ![r] = "failed"] /\ pin' = pin
    BY <1>3, Zenon DEF AskSsh
  <2>3. state' \in [Requests -> {"new"} \cup Waiting \cup Settled] /\ pin' \in Nat
    BY <2>2 DEF Waiting, Settled
  <2>. QED  BY <1>3, <2>1, <2>3 DEF AskSsh
<1>4. ASSUME NEW r \in Requests, Type(r) PROVE ChannelTypes'
  <2>1. input' \in Seq(Lines)
    BY <1>4, <1>m, Typing DEF Type
  <2>2. state' \in [Requests -> {"new"} \cup Waiting \cup Settled]
    BY <1>4 DEF Type, Waiting
  <2>. QED  BY <1>4, <1>b, <2>1, <2>2 DEF Type
<1>5. ASSUME NEW r \in Requests, ReadSerial(r) PROVE ChannelTypes'
  <2>1. state' \in [Requests -> {"new"} \cup Waiting \cup Settled]
    BY <1>5 DEF ReadSerial, Settle, Settled
  <2>. QED  BY <1>5, <1>b, <2>1 DEF ReadSerial
<1>6. ASSUME NEW r \in Requests, ReadSsh(r) PROVE ChannelTypes'
  <2>1. state' \in [Requests -> {"new"} \cup Waiting \cup Settled]
    BY <1>6 DEF ReadSsh, Settle, Settled
  <2>. QED  BY <1>6, <2>1 DEF ReadSsh
<1>7. ASSUME NEW r \in Requests, GiveUp(r) PROVE ChannelTypes'
  <2>1. state' \in [Requests -> {"new"} \cup Waiting \cup Settled]
    BY <1>7 DEF GiveUp, Settled
  <2>2. stream' \in Seq(Lines) /\ console' \in [by : Clients \cup {NoOne}, machine : Nat]
    BY <1>7, <1>b DEF GiveUp
  <2>. QED  BY <1>7, <2>1, <2>2 DEF GiveUp
<1>8. ASSUME NEW r \in Requests, BeginUnit(r)
      PROVE  /\ work' \in [Requests -> {"none", "begun", "done", "denied", "cut"}]
             /\ from' \in [Requests -> Nat] /\ lock' \subseteq Requests
             /\ code' \in [Requests -> {ExitOk, ExitError, ExitRefusal}]
  BY <1>8 DEF BeginUnit
<1>9. ASSUME NEW r \in Requests, DenyUnit(r)
      PROVE  /\ work' \in [Requests -> {"none", "begun", "done", "denied", "cut"}]
             /\ from' \in [Requests -> Nat] /\ lock' \subseteq Requests
             /\ code' \in [Requests -> {ExitOk, ExitError, ExitRefusal}]
  BY <1>9 DEF DenyUnit
<1>10. CASE ReadProbe
  <2>1. Head(input) \in Lines /\ input' \in Seq(Lines)
    BY <1>10, Reading DEF ReadProbe
  <2>2. Head(input).request \in Requests
    BY <2>1 DEF Lines
  <2>3. Line("ready", Head(input).request, 0, <<>>) \in Lines
    BY <1>b, <1>m, <2>2, LineType
  <2>4. stream' \in Seq(Lines)
    BY <1>10, <2>3, One, Printing DEF ReadProbe
  <2>. QED  BY <1>10, <2>1, <2>4 DEF ReadProbe
<1>11. CASE ReadCommand
  <2> DEFINE r == Head(input).request
             out == Line("out", r, 0, <<>>)
             done == Line("done", r, ExitError, <<>>)
  <2>1. Head(input) \in Lines /\ input' \in Seq(Lines)
    BY <1>11, Reading DEF ReadCommand
  <2>2. r \in Requests
    BY <2>1 DEF Lines
  <2>3. out \in Lines /\ done \in Lines
    BY <1>b, <1>m, <2>2, LineType
  <2>4. <<out>> \in Seq(Lines) /\ <<out, done>> \in Seq(Lines)
    BY <2>3
  <2>5. /\ input' = Tail(input)
        /\ \/ BeginUnit(r) /\ shell' = r /\ Prints(<<out>>)
           \/ DenyUnit(r) /\ shell' = shell /\ Prints(<<out, done>>)
        /\ UNCHANGED <<lease, ask, state, got, console, ready, pin, machine, reboots>>
    BY <1>11 DEF ReadCommand
  <2> HIDE DEF r, out, done
  <2>6. stream' \in Seq(Lines) /\ shell' \in Requests \cup {0}
    BY <2>2, <2>4, <2>5, Printing
  <2>. QED  BY <1>8, <1>9, <2>1, <2>2, <2>5, <2>6
<1>12. CASE Swallow
  <2>1. input' \in Seq(Lines)
    BY <1>12, Reading DEF Swallow
  <2>. QED  BY <1>12, <2>1 DEF Swallow
<1>13. ASSUME NEW r \in Requests, StartSsh(r) PROVE ChannelTypes'
  BY <1>13, <1>8, <1>9 DEF StartSsh
<1>14. ASSUME NEW r \in Requests, FinishUnit(r) PROVE ChannelTypes'
  <2>1. PICK exit \in {ExitOk, ExitError, ExitRefusal} :
          /\ code' = [code EXCEPT ![r] = exit]
          /\ IF shell = r
             THEN \E lines \in Noisy(Reported(r, exit)) : shell' = 0 /\ Prints(lines)
             ELSE UNCHANGED <<shell, stream>>
    BY <1>14 DEF FinishUnit, Reported
  <2>2. stream' \in Seq(Lines) /\ shell' \in Requests \cup {0}
    BY <2>1, Reports, Printing
  <2>3. /\ work' \in [Requests -> {"none", "begun", "done", "denied", "cut"}]
        /\ code' \in [Requests -> {ExitOk, ExitError, ExitRefusal}]
        /\ lock' \subseteq Requests
    BY <1>14, <2>1 DEF FinishUnit
  <2>. QED  BY <1>14, <2>2, <2>3 DEF FinishUnit
<1>15. ASSUME GoesDown, machine' \in Nat \ {0} PROVE ChannelTypes'
  BY <1>15, <1>b DEF GoesDown
<1>16. CASE Reboot
  BY <1>15, <1>16 DEF Reboot
<1>17. CASE Replace
  BY <1>15, <1>17 DEF Replace
<1>18. CASE Ready
  BY <1>18 DEF Ready
<1>19. CASE UNCHANGED vars
  BY <1>19 DEF vars
<1>. QED  BY <1>1, <1>2, <1>3, <1>4, <1>5, <1>6, <1>7, <1>10, <1>11, <1>12, <1>13, <1>14,
             <1>16, <1>17, <1>18, <1>19 DEF Next, HostStep, GuestStep

(***************************************************************************)
(* Who asks.                                                                *)
(***************************************************************************)

\* Found and asked, nobody's way to the guest changes.
LEMMA Stable ==
    ASSUME ChannelTypes, AskInv, [Next]_vars, NEW r \in Requests, state[r] # "new"
    PROVE  /\ state'[r] # "new" /\ ask'[r] = ask[r]
           /\ lease'[ask[r].by] = lease[ask[r].by]
           /\ Via(r)' = Via(r) /\ Meant(r)' = Meant(r)
<1> DEFINE Same == state'[r] # "new" /\ ask'[r] = ask[r] /\ lease'[ask[r].by] = lease[ask[r].by]
<1>1. Same
  <2> USE DEF ChannelTypes
  <2>1. lease[ask[r].by] # NoLease
    BY DEF AskInv
  <2>2. ASSUME NEW c \in Clients, Find(c) PROVE Same
    <3>1. lease[c] = NoLease
      BY <2>2 DEF Find
    <3>. QED  BY <2>1, <2>2, <3>1 DEF Find
  <2>3. ASSUME NEW c \in Clients, NEW q \in Requests, AskSerial(c, q) PROVE Same
    <3>1. state[q] = "new" /\ lease' = lease
      BY <2>3 DEF AskSerial, NextRequest
    <3>2. state' = [state EXCEPT ![q] = "handshake"] \/ state' = [state EXCEPT ![q] = "failed"]
      BY <2>3, Zenon DEF AskSerial
    <3>3. \E locked \in BOOLEAN : ask' = [ask EXCEPT ![q] = [by |-> c, locked |-> locked]]
      BY <2>3 DEF AskSerial
    <3>. QED  BY <3>1, <3>2, <3>3
  <2>4. ASSUME NEW c \in Clients, NEW q \in Requests, AskSsh(c, q) PROVE Same
    <3>1. state[q] = "new" /\ lease' = lease
      BY <2>4 DEF AskSsh, NextRequest
    <3>2. state' = [state EXCEPT ![q] = "typed"] \/ state' = [state EXCEPT ![q] = "failed"]
      BY <2>4, Zenon DEF AskSsh
    <3>3. \E locked \in BOOLEAN : ask' = [ask EXCEPT ![q] = [by |-> c, locked |-> locked]]
      BY <2>4 DEF AskSsh
    <3>. QED  BY <3>1, <3>2, <3>3
  <2>5. ASSUME NEW q \in Requests, HostStep(q) PROVE Same
    BY <2>5 DEF HostStep, Type, ReadSerial, ReadSsh, GiveUp, Settle
  <2>6. ASSUME NEW q \in Requests, StartSsh(q) \/ FinishUnit(q) PROVE Same
    BY <2>6 DEF StartSsh, FinishUnit
  <2>7. CASE GuestStep
    BY <2>7 DEF GuestStep, ReadProbe, ReadCommand, Swallow, Reboot, Replace, Ready, GoesDown
  <2>8. CASE UNCHANGED vars
    BY <2>8 DEF vars
  <2>. QED  BY <2>2, <2>3, <2>4, <2>5, <2>6, <2>7, <2>8 DEF Next
<1>. QED  BY <1>1 DEF Via, Meant

\* A request is new until its host asks, when every earlier one of the host's is answered.
LEMMA Asked ==
    ASSUME ChannelTypes, NEW c \in Clients, NEW r \in Requests, AskSerial(c, r) \/ AskSsh(c, r)
    PROVE  /\ state[r] = "new" /\ lease[c] # NoLease /\ UNCHANGED <<lease, work, from, code, machine>>
           /\ \A q \in Requests : ask[q].by = c => state[q] = "answered"
           /\ ask'[r].by = c /\ \A q \in Requests : q # r => ask'[q] = ask[q]
           /\ state'[r] \in {"handshake", "typed", "failed"}
           /\ \A q \in Requests : q # r => state'[q] = state[q]
<1> USE DEF ChannelTypes
<1>1. /\ state[r] = "new" /\ lease[c] # NoLease /\ UNCHANGED <<lease, work, from, code, machine>>
      /\ \A q \in Requests : ask[q].by = c => state[q] = "answered"
  BY Zenon DEF AskSerial, AskSsh, NextRequest
<1>2. \E locked \in BOOLEAN : ask' = [ask EXCEPT ![r] = [by |-> c, locked |-> locked]]
  BY Zenon DEF AskSerial, AskSsh
<1>3. \E s \in {"handshake", "typed", "failed"} : state' = [state EXCEPT ![r] = s]
  BY Zenon DEF AskSerial, AskSsh
<1>. QED  BY <1>1, <1>2, <1>3

\* Afterwards a request only settles, or its command is typed.
LEMMA Going ==
    ASSUME ChannelTypes, NEW r \in Requests, HostStep(r)
    PROVE  /\ state[r] \in Waiting
           /\ \/ state'[r] \in Settled
              \/ Type(r) /\ state[r] = "handshake" /\ state'[r] = "typed"
           /\ \A q \in Requests : q # r => state'[q] = state[q]
           /\ UNCHANGED <<lease, ask, work, from, code, lock, pin, machine>>
<1> USE DEF ChannelTypes
<1>1. CASE Type(r)
  BY <1>1 DEF Type, Waiting
<1>2. CASE ReadSerial(r) \/ ReadSsh(r)
  <2>1. /\ state[r] = "typed" /\ UNCHANGED <<lease, ask, work, from, code, lock, pin, machine>>
        /\ \E s \in Settled : state' = [state EXCEPT ![r] = s]
    BY <1>2 DEF ReadSerial, ReadSsh, Settle, Settled
  <2>. QED  BY <2>1 DEF Waiting
<1>3. CASE GiveUp(r)
  BY <1>3 DEF GiveUp, Settled
<1>. QED  BY <1>1, <1>2, <1>3 DEF HostStep

\* What the guest does to a unit: nothing to one whose request is new.
LEMMA Serving ==
    ASSUME ChannelTypes, AskInv, TypedInv,
           GuestStep \/ \E r \in Requests : StartSsh(r) \/ FinishUnit(r)
    PROVE  /\ UNCHANGED <<lease, ask, state, got, console, pin>>
           /\ \A r \in Requests : work'[r] # work[r] => state[r] \notin {"new", "handshake"} \/ work[r] = "begun"
           /\ \A r \in Requests : state[r] = "new" => work'[r] = work[r]
<1> USE DEF ChannelTypes
<1> DEFINE Quiet == UNCHANGED <<lease, ask, state, got, console, pin>>
           Told == \A r \in Requests : work'[r] # work[r] =>
                       state[r] \notin {"new", "handshake"} \/ work[r] = "begun"
<1>1. ASSUME ReadProbe \/ Swallow \/ Ready PROVE Quiet /\ Told
  BY <1>1 DEF ReadProbe, Swallow, Ready
<1>2. ASSUME ReadCommand PROVE Quiet /\ Told
  <2>1. 1 \in DOMAIN input /\ input[1].mark = "command" /\ Head(input) = input[1]
    BY <1>2, Reading DEF ReadCommand
  <2>2. state[Head(input).request] \notin {"new", "handshake"}
    BY <2>1 DEF TypedInv
  <2>3. \E s \in {"begun", "denied"} : work' = [work EXCEPT ![Head(input).request] = s]
    BY <1>2, Zenon DEF ReadCommand, BeginUnit, DenyUnit
  <2>4. Quiet
    BY <1>2 DEF ReadCommand
  <2>. QED  BY <2>2, <2>3, <2>4
<1>3. ASSUME NEW r \in Requests, StartSsh(r) PROVE Quiet /\ Told /\ state[r] = "typed"
  <2>1. \E s \in {"begun", "denied"} : work' = [work EXCEPT ![r] = s]
    BY <1>3, Zenon DEF StartSsh, BeginUnit, DenyUnit
  <2>. QED  BY <1>3, <2>1 DEF StartSsh
<1>4. ASSUME NEW r \in Requests, FinishUnit(r) PROVE Quiet /\ Told
  BY <1>4 DEF FinishUnit
<1>5. ASSUME Reboot \/ Replace PROVE Quiet /\ Told
  <2>1. GoesDown
    BY <1>5 DEF Reboot, Replace
  <2>2. \A r \in Lost : state[r] \notin {"new", "handshake"} \/ work[r] = "begun"
    BY DEF Lost, TypedInv
  <2>. QED  BY <2>1, <2>2 DEF GoesDown
<1>6. Quiet /\ Told
  BY <1>1, <1>2, <1>3, <1>4, <1>5 DEF GuestStep
<1>7. \A r \in Requests : state[r] = "new" => work[r] = "none"
  BY DEF AskInv
<1>. QED  BY <1>6, <1>7

LEMMA AskInductive ==
    ASSUME ChannelTypes, AskInv, TypedInv, [Next]_vars
    PROVE  AskInv'
<1>1. \A c \in Clients : lease'[c] # NoLease => lease'[c].via # "none"
  <2>1. CASE lease' = lease
    BY <2>1 DEF AskInv
  <2>2. ASSUME NEW c \in Clients, Find(c) PROVE <1>1
    BY <2>2 DEF Find, ChannelTypes, AskInv
  <2>3. lease' = lease \/ \E c \in Clients : Find(c)
    BY DEF Next, HostStep, GuestStep, AskSerial, AskSsh, Type, ReadSerial, ReadSsh, GiveUp,
           StartSsh, FinishUnit, ReadProbe, ReadCommand, Swallow, Reboot, Replace, Ready, GoesDown, vars
  <2>. QED  BY <2>1, <2>2, <2>3
<1>2. ASSUME NEW r \in Requests, state'[r] = "new" PROVE ask'[r] = NoAsk /\ work'[r] = "none"
  <2>1. state[r] = "new" /\ ask[r] = NoAsk /\ work[r] = "none"
    BY <1>2, Stable DEF AskInv
  <2>2. ASSUME NEW c \in Clients, NEW q \in Requests, AskSerial(c, q) \/ AskSsh(c, q)
        PROVE  ask'[r] = NoAsk /\ work'[r] = "none"
    BY <1>2, <2>1, <2>2, Asked
  <2>3. ASSUME NEW q \in Requests, HostStep(q) PROVE ask'[r] = NoAsk /\ work'[r] = "none"
    BY <2>1, <2>3, Going
  <2>4. CASE GuestStep \/ \E q \in Requests : StartSsh(q) \/ FinishUnit(q)
    BY <2>1, <2>4, Serving
  <2>5. ASSUME NEW c \in Clients, Find(c) PROVE ask'[r] = NoAsk /\ work'[r] = "none"
    BY <2>1, <2>5 DEF Find
  <2>6. CASE UNCHANGED vars
    BY <2>1, <2>6 DEF vars
  <2>. QED  BY <2>2, <2>3, <2>4, <2>5, <2>6 DEF Next
<1>3. ASSUME NEW r \in Requests, state'[r] # "new"
      PROVE  ask'[r].by \in Clients /\ lease'[ask'[r].by] # NoLease
  <2>1. CASE state[r] # "new"
    BY <2>1, Stable DEF AskInv
  <2>2. CASE state[r] = "new"
    <3>1. ASSUME NEW c \in Clients, NEW q \in Requests, AskSerial(c, q) \/ AskSsh(c, q)
          PROVE  ask'[r].by \in Clients /\ lease'[ask'[r].by] # NoLease
      BY <1>3, <2>2, <3>1, Asked
    <3>2. ASSUME NEW q \in Requests, HostStep(q) PROVE FALSE
      <4>1. state[q] \in Waiting
        BY <3>2, Going
      <4>2. q # r
        BY <2>2, <4>1 DEF Waiting
      <4>. QED  BY <1>3, <2>2, <3>2, <4>2, Going
    <3>3. \/ \E c \in Clients, q \in Requests : AskSerial(c, q) \/ AskSsh(c, q)
          \/ \E q \in Requests : HostStep(q)
          \/ state' = state
      BY DEF Next, GuestStep, Find, StartSsh, FinishUnit, ReadProbe, ReadCommand, Swallow, Reboot,
             Replace, Ready, GoesDown, vars
    <3>. QED  BY <1>3, <2>2, <3>1, <3>2, <3>3
  <2>. QED  BY <2>1, <2>2
<1>4. ASSUME NEW q \in Requests, NEW r \in Requests, state'[q] \in Waiting, state'[r] \in Waiting,
             ask'[q].by = ask'[r].by
      PROVE  q = r
  <2>1. ASSUME NEW c \in Clients, NEW p \in Requests, AskSerial(c, p) \/ AskSsh(c, p) PROVE q = r
    <3>1. \A z \in Requests : z # p /\ state'[z] \in Waiting => ask'[z].by # c
      BY <2>1, Asked DEF Waiting
    <3>2. ask'[p].by = c /\ \A z \in Requests : z # p => ask'[z] = ask[z] /\ state'[z] = state[z]
      BY <2>1, Asked
    <3>. QED  BY <1>4, <3>1, <3>2 DEF AskInv
  <2>2. ASSUME NEW p \in Requests, HostStep(p) PROVE q = r
    <3>1. \A z \in Requests : state'[z] \in Waiting => state[z] \in Waiting
      BY <2>2, Going
    <3>2. ask' = ask
      BY <2>2, Going
    <3>. QED  BY <1>4, <3>1, <3>2 DEF AskInv
  <2>3. CASE GuestStep \/ \E p \in Requests : StartSsh(p) \/ FinishUnit(p)
    BY <1>4, <2>3, Serving DEF AskInv
  <2>4. ASSUME NEW c \in Clients, Find(c) PROVE q = r
    BY <1>4, <2>4 DEF Find, AskInv
  <2>5. CASE UNCHANGED vars
    BY <1>4, <2>5 DEF vars, AskInv
  <2>. QED  BY <2>1, <2>2, <2>3, <2>4, <2>5 DEF Next
<1>. QED  BY <1>1, <1>2, <1>3, <1>4 DEF AskInv

(***************************************************************************)
(* The console: one host at a time, connected to the machine it means.      *)
(***************************************************************************)

LEMMA ConsoleInductive ==
    ASSUME ChannelTypes, AskInv, ConsoleInv, TypedInv, [Next]_vars
    PROVE  ConsoleInv'
<1> DEFINE Held(q) == console = [by |-> ask[q].by, machine |-> Meant(q)]
           Waits(q) == state[q] \in Waiting /\ Via(q) = "serial"
           Fresh(q) == state[q] = "handshake" => Via(q) = "serial" /\ work[q] = "none"
<1>1. \A q \in Requests : (Waits(q) => Held(q)) /\ Fresh(q)
  BY DEF ConsoleInv
\* A request that waited before the step and is not touched by it.
<1>2. ASSUME NEW q \in Requests, state'[q] = state[q], console' = console, work'[q] = work[q],
             state[q] # "new"
      PROVE  (Waits(q) => Held(q))' /\ Fresh(q)'
  BY <1>1, <1>2, Stable
<1>3. ASSUME NEW q \in Requests, state'[q] \notin Waiting PROVE (Waits(q) => Held(q))' /\ Fresh(q)'
  BY <1>3 DEF Waiting
<1>4. ASSUME NEW q \in Requests PROVE (Waits(q) => Held(q))' /\ Fresh(q)'
  <2>1. ASSUME NEW c \in Clients, NEW r \in Requests, AskSerial(c, r)
        PROVE  (Waits(q) => Held(q))' /\ Fresh(q)'
    <3>1. CASE q = r
      <4>1. /\ ask'[r].by = c /\ lease' = lease /\ lease[c].via = "serial" /\ work'[r] = "none"
        BY <2>1, Asked DEF AskInv, AskSerial
      <4>2. \/ state' = [state EXCEPT ![r] = "failed"]
            \/ /\ console' = [by |-> c, machine |-> machine] /\ lease[c].machine = machine
        BY <2>1, Zenon DEF AskSerial, PeerIsLeased
      <4>3. CASE state' = [state EXCEPT ![r] = "failed"]
        BY <1>3, <3>1, <4>3 DEF ChannelTypes, Waiting
      <4>4. CASE console' = [by |-> c, machine |-> machine] /\ lease[c].machine = machine
        BY <3>1, <4>1, <4>4 DEF Via, Meant
      <4>. QED  BY <4>2, <4>3, <4>4
    <3>2. CASE q # r
      <4>1. state'[q] = state[q] /\ work' = work
        BY <2>1, <3>2, Asked
      <4>2. CASE console' = console
        BY <1>2, <1>3, <4>1, <4>2 DEF Waiting
      <4>3. CASE console = NoConsole
        <5>1. ~ Waits(q)
          <6>1. Waits(q) => ask[q].by \in Clients /\ ask[q].by = console.by
            BY <1>1 DEF AskInv, Waiting
          <6>. QED  BY <4>3, <6>1, Bounds DEF NoConsole
        <5>2. state'[q] \in Waiting => Via(q)' = Via(q)
          BY <4>1, Stable DEF Waiting
        <5>. QED  BY <1>1, <4>1, <5>1, <5>2 DEF Waiting
      <4>. QED  BY <2>1, <4>2, <4>3 DEF AskSerial
    <3>. QED  BY <3>1, <3>2
  <2>2. ASSUME NEW c \in Clients, NEW r \in Requests, AskSsh(c, r)
        PROVE  (Waits(q) => Held(q))' /\ Fresh(q)'
    <3>1. console' = console /\ lease[c].via = "ssh"
      BY <2>2 DEF AskSsh
    <3>2. CASE q = r
      <4>1. ask'[r].by = c /\ lease' = lease
        BY <2>2, Asked
      <4>2. state'[r] # "handshake"
        <5>1. \E s \in {"typed", "failed"} : state' = [state EXCEPT ![r] = s]
          BY <2>2, Zenon DEF AskSsh
        <5>. QED  BY <5>1 DEF ChannelTypes
      <4>. QED  BY <3>1, <3>2, <4>1, <4>2 DEF Via
    <3>3. CASE q # r
      BY <1>2, <1>3, <2>2, <3>1, <3>3, Asked DEF Waiting
    <3>. QED  BY <3>2, <3>3
  <2>3. ASSUME NEW r \in Requests, Type(r) PROVE (Waits(q) => Held(q))' /\ Fresh(q)'
    <3>1. state[r] = "handshake" /\ state'[r] = "typed" /\ work' = work /\ console' = console
      BY <2>3 DEF Type, ChannelTypes
    <3>2. CASE q = r
      BY <1>1, <3>1, <3>2, Stable DEF Waiting
    <3>3. CASE q # r
      BY <1>2, <1>3, <2>3, <3>1, <3>3, Going DEF HostStep, Waiting
    <3>. QED  BY <3>2, <3>3
  <2>4. ASSUME NEW r \in Requests, HostStep(r), ~ Type(r) PROVE (Waits(q) => Held(q))' /\ Fresh(q)'
    <3>1. state[r] \in Waiting /\ state'[r] \in Settled /\ work' = work /\ ask' = ask
      BY <2>4, Going
    <3>2. console' = console \/ Via(r) = "serial"
      BY <2>4 DEF HostStep, ReadSerial, ReadSsh, GiveUp
    <3>3. CASE q = r
      BY <1>3, <3>1, <3>3 DEF Waiting, Settled
    <3>4. CASE q # r /\ console' = console
      BY <1>2, <1>3, <2>4, <3>1, <3>4, Going DEF Waiting
    <3>5. CASE q # r /\ Via(r) = "serial"
      <4>1. Waits(r) /\ Held(r)
        BY <1>1, <3>1, <3>5
      <4>2. state'[q] = state[q] /\ work' = work
        BY <2>4, <3>5, Going
      <4>3. ~ Waits(q)
        <5>1. Waits(q) => ask[q].by = ask[r].by
          BY <1>1, <4>1
        <5>. QED  BY <3>1, <3>5, <5>1 DEF AskInv
      <4>4. state[q] \in Waiting => Via(q)' = Via(q)
        BY Stable DEF Waiting
      <4>. QED  BY <1>1, <4>2, <4>3, <4>4 DEF Waiting
    <3>. QED  BY <3>2, <3>3, <3>4, <3>5
  <2>5. CASE GuestStep \/ \E r \in Requests : StartSsh(r) \/ FinishUnit(r)
    <3>1. state' = state /\ console' = console
      BY <2>5, Serving
    <3>2. state[q] = "handshake" => work'[q] = work[q]
      BY <1>1, <2>5, Serving
    <3>3. CASE state[q] \notin Waiting
      BY <1>3, <3>1, <3>3
    <3>4. CASE state[q] \in Waiting
      BY <1>1, <3>1, <3>2, <3>4, Stable DEF Waiting
    <3>. QED  BY <3>3, <3>4
  <2>6. ASSUME NEW c \in Clients, Find(c) PROVE (Waits(q) => Held(q))' /\ Fresh(q)'
    BY <1>2, <1>3, <2>6 DEF Find, Waiting
  <2>7. CASE UNCHANGED vars
    BY <1>2, <1>3, <2>7 DEF vars, Waiting
  <2>. QED  BY <2>1, <2>2, <2>3, <2>4, <2>5, <2>6, <2>7 DEF Next, HostStep
<1>. QED  BY <1>4 DEF ConsoleInv

(***************************************************************************)
(* What is typed, and not read yet.                                         *)
(***************************************************************************)

LEMMA TypedInductive ==
    ASSUME ChannelTypes, AskInv, ConsoleInv, TypedInv, [Next]_vars
    PROVE  TypedInv'
<1> DEFINE Told(r) == /\ state[r] \notin {"new", "handshake"} /\ work[r] = "none"
                      /\ lease[ask[r].by].via = "serial" /\ lease[ask[r].by].machine = machine
           StillTold(r) == /\ state'[r] \notin {"new", "handshake"} /\ work'[r] = "none"
                       /\ lease'[ask'[r].by].via = "serial" /\ lease'[ask'[r].by].machine = machine'
           Fine(i) == /\ StillTold(input'[i].request)
                      /\ \A j \in DOMAIN input' :
                             input'[j].mark = "command" /\ input'[j].request = input'[i].request => i = j
           Command(i) == input[i].mark = "command"
           Once(i) == \A j \in DOMAIN input : Command(j) /\ input[j].request = input[i].request => i = j
<1>1. \A i \in DOMAIN input : input[i].request \in Requests
  <2>1. input \in Seq(Lines)
    BY DEF ChannelTypes
  <2>2. \A i \in DOMAIN input : input[i] \in Lines
    BY <2>1, ElementOfSeq, LenProperties
  <2>. QED  BY <2>2 DEF Lines
<1>2. \A i \in DOMAIN input : Command(i) => Told(input[i].request) /\ Once(i)
  BY DEF TypedInv, Via, Meant
<1>t. (\A i \in DOMAIN input' : input'[i].mark = "command" => Fine(i)) => TypedInv'
  BY DEF TypedInv, Via, Meant
<1>3. ASSUME NEW r \in Requests, Told(r), machine' = machine, work'[r] = work[r] PROVE StillTold(r)
  <2>1. state'[r] \notin {"new", "handshake"}
    <3>1. ASSUME NEW c \in Clients, NEW q \in Requests, AskSerial(c, q) \/ AskSsh(c, q)
          PROVE  state'[r] = state[r]
      BY <1>3, <3>1, Asked
    <3>2. ASSUME NEW q \in Requests, HostStep(q) PROVE state'[r] = state[r] \/ state'[r] \in Settled
      BY <1>3, <3>2, Going
    <3>3. CASE GuestStep \/ \E q \in Requests : StartSsh(q) \/ FinishUnit(q)
      BY <1>3, <3>3, Serving
    <3>4. ASSUME NEW c \in Clients, Find(c) PROVE state' = state
      BY <3>4 DEF Find
    <3>. QED  BY <1>3, <3>1, <3>2, <3>3, <3>4 DEF Next, Settled, vars
  <2>. QED  BY <1>3, <2>1, Stable
<1>4. ASSUME input' = input, machine' = machine,
             \A r \in Requests : Told(r) => work'[r] = work[r]
      PROVE  TypedInv'
  <2>1. ASSUME NEW i \in DOMAIN input, Command(i) PROVE StillTold(input[i].request)
    BY <1>1, <1>2, <1>3, <1>4, <2>1
  <2>. QED  BY <1>2, <1>4, <1>t, <2>1
<1>5. ASSUME input # <<>>, input' = Tail(input), machine' = machine,
             \A r \in Requests : Told(r) /\ work'[r] # work[r] => Command(1) /\ input[1].request = r
      PROVE  TypedInv'
  <2>1. /\ 1 \in DOMAIN input
        /\ \A i \in DOMAIN input' :
              i \in Nat /\ i + 1 \in DOMAIN input /\ i + 1 # 1 /\ input'[i] = input[i + 1]
    BY <1>5, Reading DEF ChannelTypes
  <2>2. ASSUME NEW i \in DOMAIN input', input'[i].mark = "command"
        PROVE  StillTold(input'[i].request)
    <3>1. /\ i + 1 \in DOMAIN input /\ i + 1 # 1 /\ Command(i + 1)
          /\ input'[i].request = input[i + 1].request
      BY <2>1, <2>2
    <3>2. Told(input[i + 1].request) /\ Once(i + 1) /\ input[i + 1].request \in Requests
      BY <1>1, <1>2, <3>1
    <3>3. work'[input[i + 1].request] = work[input[i + 1].request]
      BY <1>5, <2>1, <3>1, <3>2
    <3>4. StillTold(input[i + 1].request)
      BY <1>3, <1>5, <3>2, <3>3
    <3>5. PICK r \in Requests : r = input[i + 1].request
      BY <3>2
    <3>. QED  BY <1>3, <1>5, <3>1, <3>2, <3>3, <3>5
  <2>3. ASSUME NEW i \in DOMAIN input', NEW j \in DOMAIN input',
               input'[i].mark = "command", input'[j].mark = "command",
               input'[j].request = input'[i].request
        PROVE  i = j
    <3>1. /\ i \in Nat /\ j \in Nat /\ i + 1 \in DOMAIN input /\ j + 1 \in DOMAIN input
          /\ Command(i + 1) /\ Command(j + 1) /\ input[j + 1].request = input[i + 1].request
      BY <2>1, <2>3
    <3>2. i + 1 = j + 1
      BY <1>2, <3>1
    <3>. QED  BY <3>1, <3>2
  <2>. QED  BY <1>t, <2>2, <2>3
<1>6. ASSUME NEW mark \in {"probe", "command"}, NEW r \in Requests,
             input' = Append(input, Line(mark, r, 0, <<>>)), machine' = machine, work' = work,
             mark = "command" => ~ Told(r) /\ StillTold(r)
      PROVE  TypedInv'
  <2> DEFINE e == Line(mark, r, 0, <<>>)
  <2>1. /\ \A i \in DOMAIN input' : (i \in DOMAIN input /\ input'[i] = input[i]) \/ input'[i] = e
        /\ \A i, j \in DOMAIN input' : i # j => i \in DOMAIN input \/ j \in DOMAIN input
        /\ \A i \in DOMAIN input : i \in DOMAIN input' /\ input'[i] = input[i]
    <3>1. mark \in Marks /\ input \in Seq(Lines)
      BY DEF Marks, ChannelTypes
    <3>2. \A i \in DOMAIN input : i \in DOMAIN input' /\ input'[i] = input[i]
      <4>1. e \in Lines
        BY <3>1, EmptySeq, Bounds, LineType
      <4> HIDE DEF e
      <4>2. /\ Append(input, e) \in Seq(Lines) /\ Len(Append(input, e)) = Len(input) + 1
            /\ \A i \in 1..Len(input) : Append(input, e)[i] = input[i]
        BY <3>1, <4>1, AppendProperties
      <4>3. /\ DOMAIN Append(input, e) = 1..(Len(input) + 1) /\ DOMAIN input = 1..Len(input)
            /\ Len(input) \in Nat
        BY <3>1, <4>2, LenProperties
      <4>4. input' = Append(input, e)
        BY <1>6 DEF e
      <4>. QED  BY <4>2, <4>3, <4>4
    <3>. QED  BY <1>6, <3>1, <3>2, Typing
  <2>2. e.mark = mark /\ e.request = r
    BY DEF Line
  <2> HIDE DEF e
  <2>3. ASSUME NEW i \in DOMAIN input', input'[i].mark = "command"
        PROVE  StillTold(input'[i].request)
    <3>1. CASE i \in DOMAIN input
      <4>1. /\ Command(i) /\ input'[i].request = input[i].request
            /\ Told(input[i].request) /\ input[i].request \in Requests
        BY <1>1, <1>2, <2>1, <2>3, <3>1
      <4>2. PICK p \in Requests : p = input[i].request
        BY <4>1
      <4>. QED  BY <1>3, <1>6, <4>1, <4>2
    <3>2. CASE input'[i] = e
      BY <1>6, <2>2, <2>3, <3>2
    <3>. QED  BY <2>1, <3>1, <3>2
  <2>4. ASSUME NEW i \in DOMAIN input', NEW j \in DOMAIN input, i # j,
               input'[i].mark = "command", Command(j), input[j].request = input'[i].request
        PROVE  FALSE
    <3>1. CASE i \in DOMAIN input
      BY <1>2, <2>1, <2>4, <3>1
    <3>2. CASE i \notin DOMAIN input
      <4>1. input[j].request = r /\ mark = "command"
        BY <2>1, <2>2, <2>4, <3>2
      <4>. QED  BY <1>2, <1>6, <2>4, <4>1
    <3>. QED  BY <3>1, <3>2
  <2>5. ASSUME NEW i \in DOMAIN input', NEW j \in DOMAIN input',
               input'[i].mark = "command", input'[j].mark = "command",
               input'[j].request = input'[i].request, i # j
        PROVE  FALSE
    <3>1. CASE j \in DOMAIN input
      BY <2>1, <2>4, <2>5, <3>1
    <3>2. CASE i \in DOMAIN input
      BY <2>1, <2>4, <2>5, <3>2
    <3>. QED  BY <2>1, <2>5, <3>1, <3>2
  <2>. QED  BY <1>t, <2>3, <2>5
<1>7. ASSUME NEW c \in Clients, Find(c) PROVE TypedInv'
  BY <1>4, <1>7 DEF Find
<1>8. ASSUME NEW c \in Clients, NEW r \in Requests, AskSerial(c, r) PROVE TypedInv'
  <2>1. input' = input \/ input' = Append(input, Line("probe", r, 0, <<>>))
    BY <1>8, Zenon DEF AskSerial
  <2>2. machine' = machine /\ work' = work
    BY <1>8 DEF AskSerial
  <2>. QED  BY <1>4, <1>6, <2>1, <2>2
<1>9. ASSUME NEW c \in Clients, NEW r \in Requests, AskSsh(c, r) PROVE TypedInv'
  BY <1>4, <1>9 DEF AskSsh
<1>10. ASSUME NEW r \in Requests, Type(r) PROVE TypedInv'
  <2>1. /\ state[r] = "handshake" /\ console.machine = machine /\ machine' = machine
        /\ state'[r] = "typed" /\ work' = work
        /\ input' = Append(input, Line("command", r, 0, <<>>))
    BY <1>10 DEF Type, ChannelTypes
  <2>2. Via(r) = "serial" /\ work[r] = "none" /\ Meant(r) = machine
    BY <2>1 DEF ConsoleInv, Waiting
  <2>3. StillTold(r) /\ ~ Told(r)
    BY <2>1, <2>2, Stable DEF Via, Meant
  <2>. QED  BY <1>6, <2>1, <2>3
<1>11. ASSUME NEW r \in Requests, HostStep(r), ~ Type(r) PROVE TypedInv'
  <2>1. input' = input /\ machine' = machine /\ work' = work
    BY <1>11 DEF HostStep, ReadSerial, ReadSsh, GiveUp
  <2>. QED  BY <1>4, <2>1
<1>12. CASE ReadProbe \/ Swallow
  <2>1. input # <<>> /\ input' = Tail(input) /\ machine' = machine /\ work' = work
    BY <1>12 DEF ReadProbe, Swallow
  <2>. QED  BY <1>5, <2>1
<1>13. CASE ReadCommand
  <2>1. /\ input # <<>> /\ input' = Tail(input) /\ machine' = machine /\ Head(input).mark = "command"
        /\ \E s \in {"begun", "denied"} : work' = [work EXCEPT ![Head(input).request] = s]
    BY <1>13, Zenon DEF ReadCommand, BeginUnit, DenyUnit
  <2>2. Head(input) = input[1]
    BY <2>1, Reading DEF ChannelTypes
  <2>3. \A r \in Requests : work'[r] # work[r] => r = Head(input).request
    BY <2>1 DEF ChannelTypes
  <2>. QED  BY <1>5, <2>1, <2>2, <2>3
<1>14. ASSUME NEW r \in Requests, StartSsh(r) PROVE TypedInv'
  <2>1. /\ input' = input /\ machine' = machine /\ Via(r) = "ssh"
        /\ \E s \in {"begun", "denied"} : work' = [work EXCEPT ![r] = s]
    BY <1>14, Zenon DEF StartSsh, BeginUnit, DenyUnit
  <2>2. \A q \in Requests : work'[q] # work[q] => q = r
    BY <2>1 DEF ChannelTypes
  <2>. QED  BY <1>4, <2>1, <2>2 DEF Via
<1>15. ASSUME NEW r \in Requests, FinishUnit(r) PROVE TypedInv'
  <2>1. input' = input /\ machine' = machine /\ work[r] = "begun" /\ work' = [work EXCEPT ![r] = "done"]
    BY <1>15 DEF FinishUnit
  <2>2. \A q \in Requests : work'[q] # work[q] => q = r
    BY <2>1 DEF ChannelTypes
  <2>. QED  BY <1>4, <2>1, <2>2
<1>16. CASE Reboot \/ Replace
  BY <1>16 DEF Reboot, Replace, GoesDown, TypedInv
<1>17. CASE Ready
  BY <1>4, <1>17 DEF Ready
<1>18. CASE UNCHANGED vars
  BY <1>4, <1>18 DEF vars
<1>. QED  BY <1>7, <1>8, <1>9, <1>10, <1>11, <1>12, <1>13, <1>14, <1>15, <1>16, <1>17, <1>18
          DEF Next, HostStep, GuestStep

(***************************************************************************)
(* Where units run, and how they end.                                       *)
(***************************************************************************)

\* What a unit's step, and the guest going down, do to the other units.
LEMMA Working ==
    ASSUME ChannelTypes, TypedInv, NEW q \in Requests, NEW r \in Requests, q # r,
           \/ StartSsh(r) \/ FinishUnit(r)
           \/ ReadCommand /\ Head(input).request = r
    PROVE  UNCHANGED <<state[q], work[q], from[q], code[q]>>
<1>1. \E s \in {"begun", "denied", "done"} : work' = [work EXCEPT ![r] = s]
  BY Zenon DEF StartSsh, FinishUnit, ReadCommand, BeginUnit, DenyUnit
<1>2. from' = from \/ from' = [from EXCEPT ![r] = machine]
  BY Zenon DEF StartSsh, FinishUnit, ReadCommand, BeginUnit, DenyUnit
<1>3. code' = code \/ \E e \in {ExitOk, ExitError, ExitRefusal} : code' = [code EXCEPT ![r] = e]
  <2>1. CASE FinishUnit(r)
    BY <2>1 DEF FinishUnit
  <2>2. CASE code' = code \/ code' = [code EXCEPT ![r] = ExitError]
    BY <2>2
  <2>. QED  BY <2>1, <2>2, Zenon DEF StartSsh, ReadCommand, BeginUnit, DenyUnit
<1>4. state' = state
  BY DEF StartSsh, FinishUnit, ReadCommand
<1>. QED  BY <1>1, <1>2, <1>3, <1>4 DEF ChannelTypes

\* The command the console's shell reads next.
LEMMA NextCommand ==
    ASSUME ChannelTypes, TypedInv, ReadCommand
    PROVE  /\ Head(input).request \in Requests
           /\ state[Head(input).request] \notin {"new", "handshake"}
           /\ Via(Head(input).request) = "serial" /\ work[Head(input).request] = "none"
           /\ Meant(Head(input).request) = machine
<1>1. Head(input) \in Lines /\ 1 \in DOMAIN input /\ Head(input) = input[1] /\ input[1].mark = "command"
  BY Reading DEF ReadCommand, ChannelTypes
<1>. QED  BY <1>1 DEF TypedInv, Lines

LEMMA PlaceInductive ==
    ASSUME ChannelTypes, AskInv, ConsoleInv, TypedInv, PlaceInv, [Next]_vars
    PROVE  PlaceInv'
<1> DEFINE way(q) == lease[ask[q].by].via
           meant(q) == lease[ask[q].by].machine
           Placed(q) == /\ state[q] # "new" /\ way(q) = "ssh" => pin # 0
                        /\ state[q] = "typed" /\ way(q) = "ssh" /\ work[q] = "none" => pin = machine
                        /\ work[q] \in {"begun", "done"} =>
                               from[q] = IF way(q) = "ssh" THEN pin ELSE meant(q)
<1>1. \A q \in Requests : Placed(q)
  BY DEF PlaceInv, Via, Meant
<1>2. (\A q \in Requests : Placed(q)') => PlaceInv'
  BY DEF PlaceInv, Via, Meant
<1>3. ASSUME NEW q \in Requests, state[q] # "new",
             state'[q] = state[q] \/ state'[q] \in Settled,
             UNCHANGED <<work[q], from[q], machine>>, way(q) = "ssh" => pin' = pin
      PROVE  Placed(q)'
  <2>1. ask'[q] = ask[q] /\ lease'[ask[q].by] = lease[ask[q].by]
    BY <1>3, Stable
  <2>2. (state'[q] # "new" /\ way(q)' = "ssh" => pin' # 0)
    BY <1>1, <1>3, <2>1
  <2>3. (state'[q] = "typed" /\ way(q)' = "ssh" /\ work'[q] = "none" => pin' = machine')
    BY <1>1, <1>3, <2>1 DEF Settled
  <2>4. (work'[q] \in {"begun", "done"} => from'[q] = IF way(q)' = "ssh" THEN pin' ELSE meant(q)')
    BY <1>1, <1>3, <2>1
  <2>. QED  BY <2>2, <2>3, <2>4
<1>4. ASSUME NEW q \in Requests, state[q] = "new", state'[q] = "new", work' = work PROVE Placed(q)'
  BY <1>4 DEF AskInv
<1>5. ASSUME NEW q \in Requests PROVE Placed(q)'
  <2>1. ASSUME NEW c \in Clients, Find(c) PROVE Placed(q)'
    BY <1>3, <1>4, <2>1 DEF Find
  <2>2. ASSUME NEW c \in Clients, NEW r \in Requests, AskSerial(c, r) PROVE Placed(q)'
    <3>1. CASE q = r
      <4>1. ask'[q].by = c /\ lease' = lease /\ work'[q] = "none" /\ lease[c].via = "serial"
        BY <2>2, <3>1, Asked DEF AskInv, AskSerial
      <4>. QED  BY <4>1
    <3>2. CASE q # r
      <4>1. state'[q] = state[q] /\ work' = work /\ from' = from /\ machine' = machine
        BY <2>2, <3>2, Asked
      <4>2. pin' = pin
        BY <2>2 DEF AskSerial
      <4>. QED  BY <1>3, <1>4, <4>1, <4>2
    <3>. QED  BY <3>1, <3>2
  <2>3. ASSUME NEW c \in Clients, NEW r \in Requests, AskSsh(c, r) PROVE Placed(q)'
    <3>1. CASE q = r
      <4>1. ask'[q].by = c /\ lease' = lease /\ work'[q] = "none" /\ machine' = machine
        BY <2>3, <3>1, Asked DEF AskInv
      <4>2. \/ pin' = machine
            \/ pin \notin {0, machine} /\ pin' = pin /\ state' = [state EXCEPT ![r] = "failed"]
        BY <2>3, Zenon DEF AskSsh
      <4>3. machine # 0
        BY DEF ChannelTypes
      <4>4. CASE pin' = machine
        BY <4>1, <4>3, <4>4
      <4>5. CASE pin \notin {0, machine} /\ pin' = pin /\ state' = [state EXCEPT ![r] = "failed"]
        <5>1. state'[q] = "failed"
          BY <3>1, <4>5 DEF ChannelTypes
        <5>. QED  BY <4>1, <4>5, <5>1
      <4>. QED  BY <4>2, <4>4, <4>5
    <3>2. CASE q # r
      <4>1. state'[q] = state[q] /\ work' = work /\ from' = from /\ machine' = machine
        BY <2>3, <3>2, Asked
      <4>2. pin' = pin \/ (pin' = machine /\ pin \in {0, machine})
        BY <2>3, Zenon DEF AskSsh
      <4>3. state[q] # "new" /\ way(q) = "ssh" => pin' = pin
        BY <1>1, <4>2
      <4>. QED  BY <1>3, <1>4, <4>1, <4>3
    <3>. QED  BY <3>1, <3>2
  <2>4. ASSUME NEW r \in Requests, HostStep(r) PROVE Placed(q)'
    <3>1. UNCHANGED <<lease, ask, work, from, pin, machine>> /\ state[r] \in Waiting
      BY <2>4, Going
    <3>2. CASE q # r
      BY <1>3, <1>4, <2>4, <3>1, <3>2, Going
    <3>3. CASE q = r /\ state'[r] \in Settled
      BY <1>3, <3>1, <3>3 DEF Waiting
    <3>4. CASE q = r /\ Type(r)
      <4>1. state[r] = "handshake"
        BY <3>4 DEF Type
      <4>2. way(r) = "serial" /\ work[r] = "none"
        BY <4>1 DEF ConsoleInv, Via
      <4>. QED  BY <3>1, <3>4, <4>2
    <3>. QED  BY <2>4, <3>2, <3>3, <3>4, Going
  <2>5. CASE ReadProbe \/ Swallow \/ Ready
    <3>1. UNCHANGED <<state, work, from, pin, machine>>
      BY <2>5 DEF ReadProbe, Swallow, Ready
    <3>. QED  BY <1>3, <1>4, <3>1
  <2>6. CASE ReadCommand
    <3> DEFINE r == Head(input).request
    <3>1. r \in Requests /\ way(r) = "serial" /\ meant(r) = machine
      BY <2>6, NextCommand DEF Via, Meant
    <3>2. /\ UNCHANGED <<lease, ask, state, pin, machine>>
          /\ \/ work' = [work EXCEPT ![r] = "begun"] /\ from' = [from EXCEPT ![r] = machine]
             \/ work' = [work EXCEPT ![r] = "denied"]
      BY <2>6, Zenon DEF ReadCommand, BeginUnit, DenyUnit
    <3>3. CASE q # r
      <4>1. UNCHANGED <<state[q], work[q], from[q]>>
        BY <2>6, <3>1, <3>3, Working
      <4>. QED  BY <1>1, <3>2, <4>1
    <3>4. CASE q = r
      <4> HIDE DEF r
      <4>1. \/ work'[q] = "begun" /\ from'[q] = machine
            \/ work'[q] = "denied"
        BY <3>2, <3>4 DEF ChannelTypes
      <4>2. way(q) = "serial" /\ meant(q) = machine
        BY <3>1, <3>4
      <4>. QED  BY <3>2, <4>1, <4>2
    <3>. QED  BY <3>3, <3>4
  <2>7. ASSUME NEW r \in Requests, StartSsh(r) PROVE Placed(q)'
    <3>1. /\ UNCHANGED <<lease, ask, state, pin, machine>> /\ way(r) = "ssh"
          /\ state[r] = "typed" /\ work[r] = "none"
          /\ \/ work' = [work EXCEPT ![r] = "begun"] /\ from' = [from EXCEPT ![r] = machine]
             \/ work' = [work EXCEPT ![r] = "denied"]
      BY <2>7, Zenon DEF StartSsh, BeginUnit, DenyUnit, Via
    <3>2. CASE q # r
      <4>1. UNCHANGED <<state[q], work[q], from[q]>>
        BY <2>7, <3>2, Working
      <4>. QED  BY <1>1, <3>1, <4>1
    <3>3. CASE q = r
      <4>1. \/ work'[q] = "begun" /\ from'[q] = machine
            \/ work'[q] = "denied"
        BY <3>1, <3>3 DEF ChannelTypes
      <4>2. way(q) = "ssh" /\ pin = machine /\ pin # 0
        BY <1>1, <3>1, <3>3
      <4>. QED  BY <3>1, <4>1, <4>2
    <3>. QED  BY <3>2, <3>3
  <2>8. ASSUME NEW r \in Requests, FinishUnit(r) PROVE Placed(q)'
    <3>1. /\ UNCHANGED <<lease, ask, state, from, pin, machine>> /\ work[r] = "begun"
          /\ work' = [work EXCEPT ![r] = "done"]
      BY <2>8 DEF FinishUnit
    <3>2. work'[q] = work[q] \/ (work[q] = "begun" /\ work'[q] = "done")
      BY <3>1 DEF ChannelTypes
    <3>. QED  BY <1>1, <3>1, <3>2
  <2>9. CASE Reboot \/ Replace
    <3>1. /\ UNCHANGED <<lease, ask, state, from, pin>>
          /\ work' = [r \in Requests |-> IF r \in Lost THEN "cut" ELSE work[r]]
      BY <2>9 DEF Reboot, Replace, GoesDown
    <3>2. /\ work'[q] \in {"begun", "done"} => work[q] = "done" /\ work'[q] = "done"
          /\ state[q] = "typed" /\ way(q) = "ssh" => work'[q] # "none"
      BY <3>1 DEF Lost, Via
    <3>. QED  BY <1>1, <3>1, <3>2
  <2>10. CASE UNCHANGED vars
    BY <1>3, <1>4, <2>10 DEF vars
  <2>. QED  BY <2>1, <2>2, <2>3, <2>4, <2>5, <2>6, <2>7, <2>8, <2>9, <2>10 DEF Next, GuestStep
<1>. QED  BY <1>2, <1>5

\* Of some numbers one is the smallest.
LEMMA Smallest ==
    ASSUME NEW T, T \subseteq Nat, T # {}
    PROVE  \E x \in T : \A y \in T : x <= y
<1> DEFINE R == {p \in Nat \X Nat : p[1] < p[2]}
<1>1. IsWellFoundedOn(R, Nat)
  BY NatLessThanWellFounded DEF OpToRel
<1>2. PICK x \in T : \A y \in T : ~ (<<y, x>> \in R)
  BY <1>1, WFMin
<1>3. ASSUME NEW y \in T PROVE x <= y
  <2>1. x \in Nat /\ y \in Nat
    BY <1>3
  <2>2. y < x => <<y, x>> \in R
    BY <2>1
  <2> HIDE DEF R
  <2>. QED  BY <1>2, <2>1, <2>2
<1>. QED  BY <1>3

\* Who answers or refuses has seen the unit's own end, and an answer the end with zero.
LEMMA Settling ==
    ASSUME ChannelTypes, EndInv, NEW r \in Requests, ReadSerial(r) \/ ReadSsh(r)
    PROVE  /\ state[r] = "typed"
           /\ \E how \in Settled :
                 /\ state' = [state EXCEPT ![r] = how]
                 /\ how # "failed" => work[r] = "done"
                 /\ how = "answered" => code[r] = ExitOk
<1>s. ASSUME NEW exit \in Nat, NEW held, Settle(r, exit, held),
             exit \in {ExitOk, ExitRefusal} => work[r] = "done" /\ code[r] = exit
      PROVE  \E how \in Settled : /\ state' = [state EXCEPT ![r] = how]
                                  /\ how # "failed" => work[r] = "done"
                                  /\ how = "answered" => code[r] = ExitOk
  <2>1. \/ exit = ExitRefusal /\ state' = [state EXCEPT ![r] = "refused"]
        \/ state' = [state EXCEPT ![r] = "failed"]
        \/ exit = ExitOk /\ state' = [state EXCEPT ![r] = "refused"]
        \/ exit = ExitOk /\ state' = [state EXCEPT ![r] = "answered"]
    BY <1>s, Zenon DEF Settle
  <2>. QED  BY <1>s, <2>1 DEF Settled
<1>1. CASE ReadSsh(r)
  <2>1. state[r] = "typed" /\ work[r] \in {"done", "denied"} /\ Settle(r, code[r], Decode(r, Encode(r)))
    BY <1>1 DEF ReadSsh
  <2>2. code[r] \in Nat /\ (work[r] = "denied" => code[r] = ExitError)
    BY Bounds DEF ChannelTypes, EndInv
  <2>. QED  BY <1>s, <2>1, <2>2, Bounds
<1>2. CASE ReadSerial(r)
  <2> DEFINE P == Printed("done", r)
             done == CHOOSE i \in P : \A j \in P : i <= j
  <2>1. /\ state[r] = "typed" /\ P # {}
        /\ \/ state' = [state EXCEPT ![r] = "failed"]
           \/ Settle(r, stream[done].index, Decode(r, SubSeq(stream, 1, done)))
    BY <1>2 DEF ReadSerial
  <2>2. P \subseteq DOMAIN stream /\ DOMAIN stream \subseteq Nat
    BY LenProperties DEF Printed, ChannelTypes
  <2>3. done \in P
    <3> HIDE DEF P
    <3>1. \E i \in P : \A j \in P : i <= j
      BY <2>1, <2>2, Smallest
    <3>. QED  BY <3>1
  <2> HIDE DEF done
  <2>4. done \in DOMAIN stream /\ stream[done].mark = "done" /\ stream[done].request = r
    BY <2>3 DEF Printed
  <2>5. stream[done].index \in Nat
    <3>1. stream[done] \in Lines
      BY <2>4, ElementOfSeq, LenProperties DEF ChannelTypes
    <3>. QED  BY <3>1 DEF Lines
  <2>6. stream[done].index # ExitError => work[r] = "done" /\ code[r] = stream[done].index
    BY <2>4 DEF EndInv
  <2>. QED  BY <1>s, <2>1, <2>5, <2>6, Bounds DEF Settled
<1>. QED  BY <1>1, <1>2

\* The end of a unit is told once and for all.
LEMMA Ended ==
    ASSUME ChannelTypes, AskInv, TypedInv, [Next]_vars, NEW q \in Requests, work[q] \in {"done", "denied"}
    PROVE  work'[q] = work[q] /\ code'[q] = code[q]
<1>1. ASSUME NEW c \in Clients, Find(c) \/ \E r \in Requests : AskSerial(c, r) \/ AskSsh(c, r)
      PROVE  work' = work /\ code' = code
  BY <1>1, Zenon DEF Find, AskSerial, AskSsh
<1>2. ASSUME NEW r \in Requests, HostStep(r) PROVE work' = work /\ code' = code
  BY <1>2, Going
<1>3. ASSUME NEW r \in Requests, StartSsh(r) \/ FinishUnit(r)
      PROVE  work'[q] = work[q] /\ code'[q] = code[q]
  <2>1. r # q
    BY <1>3 DEF StartSsh, FinishUnit
  <2>. QED  BY <1>3, <2>1, Working
<1>4. CASE ReadCommand
  <2>1. Head(input).request \in Requests /\ Head(input).request # q
    BY <1>4, NextCommand
  <2>. QED  BY <1>4, <2>1, Working
<1>5. CASE Reboot \/ Replace
  <2>1. GoesDown /\ q \notin Lost
    BY <1>5 DEF Reboot, Replace, Lost
  <2>. QED  BY <2>1 DEF GoesDown
<1>6. CASE ReadProbe \/ Swallow \/ Ready \/ UNCHANGED vars
  BY <1>6 DEF ReadProbe, Swallow, Ready, vars
<1>. QED  BY <1>1, <1>2, <1>3, <1>4, <1>5, <1>6 DEF Next, GuestStep

\* What the console may print for a step: the answer to a probe, that a command is
\* read, that its unit is not begun, or the frame and the end of a unit.
Heard(line) ==
    \/ line.mark \in {"ready", "out"}
    \/ line.mark = "done" /\ line.index = ExitError
    \/ \E r \in Requests : /\ FinishUnit(r)
                           /\ line.mark = "done" => line.request = r /\ line.index = code'[r]
                           /\ line.mark = "trailer" => Closes(line)

LEMMA NewLines ==
    ASSUME ChannelTypes, TypedInv, [Next]_vars
    PROVE  \A i \in DOMAIN stream' : \/ \E j \in DOMAIN stream : stream'[i] = stream[j]
                                     \/ Heard(stream'[i])
<1> DEFINE Grown == \A i \in DOMAIN stream' : \/ \E j \in DOMAIN stream : stream'[i] = stream[j]
                                              \/ Heard(stream'[i])
<1>1. ASSUME stream' = stream \/ stream' = <<>> PROVE Grown
  BY <1>1
<1>2. ASSUME NEW lines \in Seq(Lines), Prints(lines), \A i \in DOMAIN lines : Heard(lines[i])
      PROVE  Grown
  <2>1. \A i \in DOMAIN stream' : \/ \E j \in DOMAIN stream : stream'[i] = stream[j]
                                  \/ \E j \in DOMAIN lines : stream'[i] = lines[j]
    BY <1>2, Printing DEF ChannelTypes
  <2>. QED  BY <1>2, <2>1
<1>3. CASE ReadProbe
  <2> DEFINE e == Line("ready", Head(input).request, 0, <<>>)
  <2>1. Head(input) \in Lines
    BY <1>3, Reading DEF ReadProbe, ChannelTypes
  <2>2. e \in Lines /\ e.mark = "ready"
    BY <2>1, EmptySeq DEF Line, Lines, Marks
  <2>3. Prints(<<e>>)
    BY <1>3 DEF ReadProbe
  <2> HIDE DEF e
  <2>4. <<e>> \in Seq(Lines) /\ \A i \in DOMAIN <<e>> : <<e>>[i] = e
    BY <2>2, One
  <2>. QED  BY <1>2, <2>2, <2>3, <2>4 DEF Heard
<1>4. CASE ReadCommand
  <2> DEFINE e == Line("out", Head(input).request, 0, <<>>)
             d == Line("done", Head(input).request, ExitError, <<>>)
  <2>1. Head(input).request \in Requests
    BY <1>4, NextCommand
  <2>2. e \in Lines /\ d \in Lines /\ e.mark = "out" /\ d.mark = "done" /\ d.index = ExitError
    BY <2>1, EmptySeq, Bounds DEF Line, Lines, Marks
  <2>3. Prints(<<e>>) \/ Prints(<<e, d>>)
    BY <1>4, Zenon DEF ReadCommand
  <2> HIDE DEF e, d
  <2>4. /\ <<e, d>> \in Seq(Lines)
        /\ \A i \in DOMAIN <<e, d>> : <<e, d>>[i] = e \/ <<e, d>>[i] = d
    BY <2>2
  <2>5. ASSUME Prints(<<e>>) PROVE Grown
    <3>1. <<e>> \in Seq(Lines) /\ \A i \in DOMAIN <<e>> : <<e>>[i] = e
      BY <2>2, One
    <3>. QED  BY <1>2, <2>2, <2>5, <3>1 DEF Heard
  <2>6. ASSUME Prints(<<e, d>>) PROVE Grown
    BY <1>2, <2>2, <2>4, <2>6 DEF Heard
  <2>. QED  BY <2>3, <2>5, <2>6
<1>5. ASSUME NEW r \in Requests, FinishUnit(r) PROVE Grown
  <2>1. PICK exit \in {ExitOk, ExitError, ExitRefusal} :
          /\ code' = [code EXCEPT ![r] = exit]
          /\ IF shell = r
             THEN \E lines \in Noisy(Reported(r, exit)) : shell' = 0 /\ Prints(lines)
             ELSE UNCHANGED <<shell, stream>>
    BY <1>5 DEF FinishUnit, Reported
  <2>2. code'[r] = exit
    BY <2>1 DEF ChannelTypes
  <2>3. ASSUME NEW heard \in Noisy(Reported(r, exit)), Prints(heard) PROVE Grown
    <3>1. /\ heard \in Seq(Lines)
          /\ \A i \in DOMAIN heard :
                /\ heard[i].mark = "done" => heard[i].request = r /\ heard[i].index = exit
                /\ heard[i].mark = "trailer" => Closes(heard[i])
      BY Reports
    <3>. QED  BY <1>2, <1>5, <2>2, <2>3, <3>1 DEF Heard
  <2>. QED  BY <1>1, <2>1, <2>3
<1>6. ASSUME NEW c \in Clients, NEW r \in Requests, AskSerial(c, r) \/ AskSsh(c, r) PROVE Grown
  <2>1. stream' = stream \/ stream' = <<>>
    BY <1>6, Zenon DEF AskSerial, AskSsh
  <2>. QED  BY <1>1, <2>1
<1>7. ASSUME NEW r \in Requests, HostStep(r) PROVE Grown
  <2>1. stream' = stream \/ stream' = <<>>
    BY <1>7, Zenon DEF HostStep, Type, ReadSerial, ReadSsh, GiveUp
  <2>. QED  BY <1>1, <2>1
<1>8. ASSUME NEW c \in Clients, Find(c) PROVE Grown
  BY <1>1, <1>8 DEF Find
<1>9. ASSUME NEW r \in Requests, StartSsh(r) PROVE Grown
  BY <1>1, <1>9 DEF StartSsh
<1>10. CASE Swallow \/ Reboot \/ Replace \/ Ready \/ UNCHANGED vars
  BY <1>1, <1>10 DEF Swallow, Reboot, Replace, GoesDown, Ready, vars
<1>. QED  BY <1>3, <1>4, <1>5, <1>6, <1>7, <1>8, <1>9, <1>10 DEF Next, GuestStep

LEMMA EndInductive ==
    ASSUME ChannelTypes, AskInv, TypedInv, EndInv, [Next]_vars
    PROVE  EndInv'
<1> DEFINE Told(line) == work[line.request] = "done" /\ code[line.request] = line.index
           End(line) == line.mark = "done" /\ line.index # ExitError
           StillTold(line) == work'[line.request] = "done" /\ code'[line.request] = line.index
<1>1. \A i \in DOMAIN stream : stream[i].request \in Requests /\ (End(stream[i]) => Told(stream[i]))
  <2>1. \A i \in DOMAIN stream : stream[i] \in Lines
    BY ElementOfSeq, LenProperties DEF ChannelTypes
  <2>. QED  BY <2>1 DEF EndInv, Lines
\* What was printed before the step is as true after it.
<1>2. \A i \in DOMAIN stream : End(stream[i]) => StillTold(stream[i])
  BY <1>1, Ended
<1>3. ASSUME NEW q \in Requests, work'[q] = "denied" PROVE code'[q] = ExitError
  <2>1. CASE work[q] = "denied"
    BY <1>3, <2>1, Ended DEF EndInv
  <2>2. CASE work[q] # "denied"
    <3>1. ASSUME NEW r \in Requests, DenyUnit(r) PROVE code'[q] = ExitError
      <4>1. q = r
        BY <1>3, <2>2, <3>1 DEF DenyUnit, ChannelTypes
      <4>. QED  BY <3>1, <4>1 DEF DenyUnit, ChannelTypes
    <3>2. ASSUME NEW r \in Requests, BeginUnit(r) PROVE FALSE
      BY <1>3, <2>2, <3>2 DEF BeginUnit, ChannelTypes
    <3>3. ASSUME NEW r \in Requests, FinishUnit(r) PROVE FALSE
      BY <1>3, <2>2, <3>3 DEF FinishUnit, ChannelTypes
    <3>4. ~ GoesDown
      BY <1>3, <2>2 DEF GoesDown
    <3>5. work' # work
      BY <1>3, <2>2
    <3>6. ASSUME NEW c \in Clients, Find(c) \/ \E r \in Requests : AskSerial(c, r) \/ AskSsh(c, r) PROVE FALSE
      BY <3>5, <3>6, Zenon DEF Find, AskSerial, AskSsh
    <3>7. ASSUME NEW r \in Requests, HostStep(r) PROVE FALSE
      BY <3>5, <3>7, Going
    <3>8. ASSUME NEW r \in Requests, StartSsh(r) PROVE BeginUnit(r) \/ DenyUnit(r)
      BY <3>8, Zenon DEF StartSsh
    <3>9. ASSUME ReadCommand PROVE \E r \in Requests : BeginUnit(r) \/ DenyUnit(r)
      <4>1. BeginUnit(Head(input).request) \/ DenyUnit(Head(input).request)
        BY <3>9, Zenon DEF ReadCommand
      <4>. QED  BY <3>9, <4>1, NextCommand
    <3>10. ~ ReadProbe /\ ~ Swallow /\ ~ Ready /\ ~ UNCHANGED vars
      BY <3>5 DEF ReadProbe, Swallow, Ready, vars
    <3>11. ~ Reboot /\ ~ Replace
      BY <3>4 DEF Reboot, Replace
    <3>. QED  BY <3>1, <3>2, <3>3, <3>6, <3>7, <3>8, <3>9, <3>10, <3>11 DEF Next, GuestStep
  <2>. QED  BY <2>1, <2>2
<1>4. \A i \in DOMAIN stream' : End(stream'[i]) => StillTold(stream'[i])
  <2>1. ASSUME NEW r \in Requests, FinishUnit(r) PROVE work'[r] = "done"
    BY <2>1 DEF FinishUnit, ChannelTypes
  <2>. QED  BY <1>2, <2>1, NewLines DEF Heard
<1>5. ASSUME NEW q \in Requests, state'[q] = "answered" PROVE work'[q] = "done" /\ code'[q] = ExitOk
  <2>1. CASE state[q] = "answered"
    BY <2>1, Ended DEF EndInv
  <2>2. CASE state[q] # "answered"
    <3>1. ASSUME NEW r \in Requests, ReadSerial(r) \/ ReadSsh(r) PROVE work'[q] = "done" /\ code'[q] = ExitOk
      <4>1. PICK how \in Settled : /\ state' = [state EXCEPT ![r] = how]
                                   /\ how # "failed" => work[r] = "done"
                                   /\ how = "answered" => code[r] = ExitOk
        BY <3>1, Settling
      <4>2. q = r /\ how = "answered"
        BY <1>5, <2>2, <4>1 DEF ChannelTypes
      <4>. QED  BY <4>1, <4>2, Ended
    <3>2. ASSUME NEW r \in Requests, Type(r) \/ GiveUp(r) PROVE FALSE
      BY <1>5, <2>2, <3>2 DEF Type, GiveUp, ChannelTypes
    <3>3. ASSUME NEW c \in Clients, NEW r \in Requests, AskSerial(c, r) \/ AskSsh(c, r) PROVE FALSE
      BY <1>5, <2>2, <3>3, Asked
    <3>4. state' # state
      BY <1>5, <2>2
    <3>5. ~ GuestStep /\ ~ \E r \in Requests : StartSsh(r) \/ FinishUnit(r)
      BY <3>4, Serving
    <3>6. ASSUME NEW c \in Clients, Find(c) PROVE FALSE
      BY <3>4, <3>6 DEF Find
    <3>. QED  BY <3>1, <3>2, <3>3, <3>4, <3>5, <3>6 DEF Next, HostStep, vars
  <2>. QED  BY <2>1, <2>2
<1>. QED  BY <1>3, <1>4, <1>5 DEF EndInv

(***************************************************************************)
(* Decoding.  The decoder's run over the lines is proved about by the first  *)
(* line at which it would go wrong.                                          *)
(***************************************************************************)

Opened == [chunks |-> <<>>, ends |-> "open"]

\* The decoder's run over the first n lines.
Run(r, lines, n, g) ==
    g = [i \in 0..n |-> IF i = 0 THEN Opened ELSE Consume(r, g[i - 1], lines[i])]

LEMMA RunExists ==
    ASSUME NEW r, NEW lines, NEW n \in Nat
    PROVE  \E g : Run(r, lines, n, g)
<1> DEFINE T == {m \in Nat : ~ \E g : Run(r, lines, m, g)}
<1>1. SUFFICES T = {}
  OBVIOUS
<1>2. SUFFICES ASSUME T # {} PROVE FALSE
  OBVIOUS
<1>3. PICK m \in T : \A k \in T : m <= k
  BY <1>2, Smallest
<1>4. m \in Nat /\ ~ \E g : Run(r, lines, m, g)
  OBVIOUS
<1>5. CASE m = 0
  <2> DEFINE g == [i \in 0..0 |-> Opened]
  <2>1. g = [i \in 0..0 |-> IF i = 0 THEN Opened ELSE Consume(r, g[i - 1], lines[i])]
    OBVIOUS
  <2>2. Run(r, lines, 0, g)
    BY <2>1 DEF Run
  <2>. QED  BY <1>4, <1>5, <2>2
<1>6. CASE m # 0
  <2>1. m - 1 \in Nat /\ m - 1 \notin T
    <3>1. m - 1 \in Nat /\ ~ (m <= m - 1)
      BY <1>4, <1>6
    <3> HIDE DEF T
    <3>. QED  BY <1>3, <3>1
  <2>2. PICK g : Run(r, lines, m - 1, g)
    BY <2>1
  <2> DEFINE next == Consume(r, g[m - 1], lines[m])
             h == [i \in 0..m |-> IF i = m THEN next ELSE g[i]]
  <2>3. \A i \in 0..(m - 1) : h[i] = g[i] /\ g[i] = IF i = 0 THEN Opened ELSE Consume(r, g[i - 1], lines[i])
    <3>1. g = [i \in 0..(m - 1) |-> IF i = 0 THEN Opened ELSE Consume(r, g[i - 1], lines[i])]
      BY <2>2 DEF Run
    <3>2. ASSUME NEW i \in 0..(m - 1)
          PROVE  g[i] = IF i = 0 THEN Opened ELSE Consume(r, g[i - 1], lines[i])
      BY <3>1, Zenon
    <3>3. ASSUME NEW i \in 0..(m - 1) PROVE i \in 0..m /\ i # m
      BY <1>4, <1>6
    <3> HIDE DEF next
    <3>. QED  BY <3>2, <3>3
  <2>4. h[m] = next /\ h[m - 1] = g[m - 1]
    BY <1>4, <1>6
  <2>5. ASSUME NEW i \in 0..m
        PROVE  h[i] = IF i = 0 THEN Opened ELSE Consume(r, h[i - 1], lines[i])
    <3> HIDE DEF h
    <3>1. CASE i = m
      BY <1>6, <2>4, <3>1
    <3>2. CASE i # m /\ i # 0
      <4>1. i \in 0..(m - 1) /\ i - 1 \in 0..(m - 1)
        BY <1>4, <3>2
      <4>. QED  BY <2>3, <3>2, <4>1
    <3>3. CASE i # m /\ i = 0
      <4>1. i \in 0..(m - 1)
        BY <1>4, <3>3
      <4>. QED  BY <2>3, <3>3, <4>1
    <3>. QED  BY <3>1, <3>2, <3>3
  <2>6. h = [i \in 0..m |-> h[i]]
    OBVIOUS
  <2>7. Run(r, lines, m, h)
    <3> HIDE DEF h
    <3>. QED  BY <2>5, <2>6, Zenon DEF Run
  <2>. QED  BY <1>4, <2>7
<1>. QED  BY <1>5, <1>6

\* What Decode returns is the last state of the decoder's run.
LEMMA Decoding ==
    ASSUME NEW r, NEW lines \in Seq(Lines)
    PROVE  \E g : Run(r, lines, Len(lines), g) /\ Decode(r, lines) = g[Len(lines)]
<1> DEFINE g == CHOOSE h : h = [i \in 0..Len(lines) |->
                                   IF i = 0 THEN [chunks |-> <<>>, ends |-> "open"]
                                   ELSE Consume(r, h[i - 1], lines[i])]
<1>1. Len(lines) \in Nat
  BY LenProperties
<1>2. Decode(r, lines) = g[Len(lines)]
  BY DEF Decode
<1>3. \E h : Run(r, lines, Len(lines), h)
  BY <1>1, RunExists
<1>4. Run(r, lines, Len(lines), g)
  BY <1>3 DEF Run, Opened
<1>. QED  BY <1>2, <1>4

\* What the decoder holds.
Held == [chunks : Seq(Nat), ends : {"open", "whole", "refused"}]

\* One line makes a payload whole only as the trailer of this request that closes it.
LEMMA Consuming ==
    ASSUME NEW r, NEW held \in Held, NEW line \in Lines
    PROVE  /\ Consume(r, held, line) \in Held
           /\ Consume(r, held, line).ends = "whole" =>
                 \/ Consume(r, held, line) = held
                 \/ /\ line.mark = "trailer" /\ line.request = r
                    /\ Whole(line, Consume(r, held, line).chunks)
<1> DEFINE next == Consume(r, held, line)
<1>1. held.chunks \in Seq(Nat) /\ line.data \in Seq(Nat)
  BY DEF Held, Lines
<1>2. held.chunks \o line.data \in Seq(Nat)
  BY <1>1, Joined
<1>3. \/ next = held
      \/ next = [held EXCEPT !.chunks = held.chunks \o line.data] /\ held.ends = "open"
      \/ next = [held EXCEPT !.ends = "refused"]
      \/ /\ next = [held EXCEPT !.ends = "whole"] /\ Whole(line, held.chunks)
         /\ line.mark = "trailer" /\ line.request = r
  BY Zenon DEF Consume
<1> HIDE DEF next
<1>4. CASE next = held
  BY <1>4 DEF next
<1>5. CASE next = [held EXCEPT !.chunks = held.chunks \o line.data] /\ held.ends = "open"
  BY <1>2, <1>5 DEF next, Held
<1>6. CASE next = [held EXCEPT !.ends = "refused"]
  BY <1>6 DEF next, Held
<1>7. CASE /\ next = [held EXCEPT !.ends = "whole"] /\ Whole(line, held.chunks)
           /\ line.mark = "trailer" /\ line.request = r
  <2>1. next \in Held /\ next.chunks = held.chunks
    BY <1>7 DEF Held
  <2>. QED  BY <1>7, <2>1 DEF next
<1>. QED  BY <1>3, <1>4, <1>5, <1>6, <1>7

\* A whole payload is the one that a trailer of this very request closes.
LEMMA WholeIsClosed ==
    ASSUME NEW r, NEW lines \in Seq(Lines)
    PROVE  /\ Decode(r, lines) \in Held
           /\ Decode(r, lines).ends = "whole" =>
                 \E j \in DOMAIN lines : /\ lines[j].mark = "trailer" /\ lines[j].request = r
                                         /\ Whole(lines[j], Decode(r, lines).chunks)
<1> DEFINE Closed(held) == \E j \in DOMAIN lines : /\ lines[j].mark = "trailer" /\ lines[j].request = r
                                                   /\ Whole(lines[j], held.chunks)
           Fine(held) == held \in Held /\ (held.ends = "whole" => Closed(held))
<1>1. Len(lines) \in Nat /\ DOMAIN lines = 1..Len(lines)
  BY LenProperties
<1>2. PICK g : Run(r, lines, Len(lines), g) /\ Decode(r, lines) = g[Len(lines)]
  BY Decoding
<1>3. \A i \in 0..Len(lines) : g[i] = IF i = 0 THEN Opened ELSE Consume(r, g[i - 1], lines[i])
  <2>1. g = [i \in 0..Len(lines) |-> IF i = 0 THEN Opened ELSE Consume(r, g[i - 1], lines[i])]
    BY <1>2 DEF Run
  <2>. QED  BY <2>1, Zenon
<1> DEFINE T == {i \in 0..Len(lines) : ~ Fine(g[i])}
<1>4. T = {}
  <2> SUFFICES ASSUME T # {} PROVE FALSE
    OBVIOUS
  <2>1. T \subseteq Nat
    BY <1>1
  <2> HIDE DEF T
  <2>2. PICK m \in T : \A k \in T : m <= k
    BY <2>1, Smallest
  <2>3. m \in 0..Len(lines) /\ ~ Fine(g[m])
    BY DEF T
  <2>4. Fine(Opened)
    <3>1. <<>> \in Seq(Nat)
      BY EmptySeq
    <3>. QED  BY <3>1 DEF Opened, Held
  <2>5. m # 0
    BY <1>1, <1>3, <2>3, <2>4
  <2>6. m - 1 \in 0..Len(lines) /\ ~ (m <= m - 1) /\ m \in 1..Len(lines)
    BY <1>1, <2>3, <2>5
  <2>7. Fine(g[m - 1])
    <3>1. m - 1 \notin T
      BY <2>2, <2>6
    <3>. QED  BY <2>6, <3>1 DEF T
  <2>8. g[m] = Consume(r, g[m - 1], lines[m])
    BY <1>3, <2>3, <2>5
  <2>9. lines[m] \in Lines /\ m \in DOMAIN lines
    BY <1>1, <2>6, ElementOfSeq
  <2>10. Fine(g[m])
    <3>1. g[m - 1] \in Held
      BY <2>7
    <3>2. /\ g[m] \in Held
          /\ g[m].ends = "whole" => \/ g[m] = g[m - 1]
                                    \/ /\ lines[m].mark = "trailer" /\ lines[m].request = r
                                       /\ Whole(lines[m], g[m].chunks)
      BY <2>8, <2>9, <3>1, Consuming
    <3>. QED  BY <2>7, <2>9, <3>2
  <2>. QED  BY <2>3, <2>10
<1>5. Fine(g[Len(lines)])
  <2>1. Len(lines) \in 0..Len(lines)
    BY <1>1
  <2>. QED  BY <1>4, <2>1
<1>. QED  BY <1>2, <1>5

\* Of lines whose trailers close what they should, what is whole is the payload.
LEMMA WholeIsPayload ==
    ASSUME NEW r \in Requests, NEW lines \in Seq(Lines),
           \A i \in DOMAIN lines : lines[i].mark = "trailer" => Closes(lines[i]),
           Decode(r, lines).ends = "whole"
    PROVE  Decode(r, lines).chunks = Payload(r)
<1>1. PICK j \in DOMAIN lines : /\ lines[j].mark = "trailer" /\ lines[j].request = r
                                /\ Whole(lines[j], Decode(r, lines).chunks)
  BY WholeIsClosed
<1>2. Len(Payload(r)) = 2 /\ Len(Damaged) = 1
  BY DEF Payload, Damaged
<1> DEFINE chunks == Decode(r, lines).chunks
<1>3. lines[j].index = Len(chunks) /\ lines[j].data = chunks
  BY <1>1 DEF Whole
<1>4. lines[j].index = Len(Payload(r)) /\ lines[j].data \in {Payload(r), Damaged}
  BY <1>1 DEF Closes
<1> HIDE DEF chunks
<1>5. ASSUME chunks = Damaged PROVE FALSE
  <2>1. Len(chunks) = Len(Damaged) /\ Len(chunks) = Len(Payload(r))
    BY <1>3, <1>4, <1>5, Zenon
  <2>2. 1 # 2
    OBVIOUS
  <2>. QED  BY <1>2, <2>1, <2>2, Zenon
<1>6. chunks = Payload(r)
  BY <1>3, <1>4, <1>5
<1>. QED  BY <1>6 DEF chunks

\* What is read as the answer is the payload of the request.
LEMMA Answering ==
    ASSUME ChannelTypes, FrameInv, NEW r \in Requests, ReadSerial(r) \/ ReadSsh(r)
    PROVE  \/ got' = got /\ state'[r] # "answered"
           \/ got' = [got EXCEPT ![r] = Payload(r)]
<1>1. ASSUME NEW exit, NEW lines \in Seq(Lines), Settle(r, exit, Decode(r, lines)),
             \A i \in DOMAIN lines : lines[i].mark = "trailer" => Closes(lines[i])
      PROVE  \/ got' = got /\ state'[r] # "answered"
             \/ got' = [got EXCEPT ![r] = Payload(r)]
  <2>1. \/ got' = got /\ state' = [state EXCEPT ![r] = "refused"]
        \/ got' = got /\ state' = [state EXCEPT ![r] = "failed"]
        \/ got' = [got EXCEPT ![r] = Decode(r, lines).chunks] /\ Decode(r, lines).ends = "whole"
    BY <1>1, Zenon DEF Settle
  <2>. QED  BY <1>1, <2>1, WholeIsPayload DEF ChannelTypes
<1>2. CASE ReadSsh(r)
  <2>1. /\ Encode(r) \in Seq(Lines)
        /\ \A i \in DOMAIN Encode(r) : Encode(r)[i].mark = "trailer" => Closes(Encode(r)[i])
    BY EncodeType DEF Line, Closes
  <2>. QED  BY <1>1, <1>2, <2>1 DEF ReadSsh
<1>3. CASE ReadSerial(r)
  <2> DEFINE P == Printed("done", r)
             done == CHOOSE i \in P : \A j \in P : i <= j
  <2>1. /\ P # {}
        /\ \/ got' = got /\ state' = [state EXCEPT ![r] = "failed"]
           \/ Settle(r, stream[done].index, Decode(r, SubSeq(stream, 1, done)))
    BY <1>3 DEF ReadSerial
  <2>2. /\ stream \in Seq(Lines) /\ Len(stream) \in Nat /\ DOMAIN stream = 1..Len(stream)
    BY LenProperties DEF ChannelTypes
  <2>3. P \subseteq DOMAIN stream /\ P \subseteq Nat
    BY <2>2 DEF Printed
  <2>4. done \in P
    <3> HIDE DEF P
    <3>1. \E i \in P : \A j \in P : i <= j
      BY <2>1, <2>3, Smallest
    <3>. QED  BY <3>1
  <2> HIDE DEF P, done
  <2>5. 1 \in 1..(Len(stream) + 1) /\ done \in 0..Len(stream)
    BY <2>2, <2>3, <2>4
  <2>6. SubSeq(stream, 1, done) \in Seq(Lines) /\ Among(SubSeq(stream, 1, done), stream)
    BY <2>2, <2>5, Part
  <2>7. \A i \in DOMAIN stream : stream[i].mark = "trailer" => Closes(stream[i])
    BY DEF FrameInv, Closes
  <2>8. \A i \in DOMAIN SubSeq(stream, 1, done) :
           SubSeq(stream, 1, done)[i].mark = "trailer" => Closes(SubSeq(stream, 1, done)[i])
    BY <2>6, <2>7 DEF Among
  <2>9. CASE got' = got /\ state' = [state EXCEPT ![r] = "failed"]
    BY <2>9 DEF ChannelTypes
  <2>. QED  BY <1>1, <2>1, <2>6, <2>8, <2>9
<1>. QED  BY <1>2, <1>3

LEMMA FrameInductive ==
    ASSUME ChannelTypes, AskInv, TypedInv, FrameInv, [Next]_vars
    PROVE  FrameInv'
<1>1. \A i \in DOMAIN stream' : stream'[i].mark = "trailer" => Closes(stream'[i])
  <2>1. \A i \in DOMAIN stream : stream[i].mark = "trailer" => Closes(stream[i])
    BY DEF FrameInv, Closes
  <2>. QED  BY <2>1, NewLines DEF Heard
<1>2. got \in [Requests -> Seq(Nat)] /\ \A r \in Requests : state[r] = "answered" => got[r] = Payload(r)
  BY DEF FrameInv
<1>3. /\ got' \in [Requests -> Seq(Nat)]
      /\ \A r \in Requests : state'[r] = "answered" => got'[r] = Payload(r)
  <2>1. ASSUME NEW r \in Requests, ReadSerial(r) \/ ReadSsh(r) PROVE <1>3
    <3>1. Payload(r) \in Seq(Nat)
      BY Bounds DEF Payload
    <3>2. \/ got' = got /\ state'[r] # "answered"
          \/ got' = [got EXCEPT ![r] = Payload(r)]
      BY <2>1, Answering
    <3>3. \A q \in Requests : q # r => state'[q] = state[q]
      BY <2>1, Going DEF HostStep
    <3>. QED  BY <1>2, <3>1, <3>2, <3>3
  <2>2. ASSUME got' = got, \A r \in Requests : state'[r] = "answered" => state[r] = "answered" PROVE <1>3
    BY <1>2, <2>2
  <2>3. ASSUME NEW r \in Requests, Type(r) \/ GiveUp(r) PROVE <1>3
    BY <2>2, <2>3 DEF Type, GiveUp, ChannelTypes
  <2>4. ASSUME NEW c \in Clients, NEW r \in Requests, AskSerial(c, r) \/ AskSsh(c, r) PROVE <1>3
    <3>1. got' = got
      BY <2>4, Zenon DEF AskSerial, AskSsh
    <3>2. \A q \in Requests : state'[q] = "answered" => state[q] = "answered"
      BY <2>4, Asked
    <3>. QED  BY <2>2, <3>1, <3>2
  <2>5. CASE GuestStep \/ \E r \in Requests : StartSsh(r) \/ FinishUnit(r)
    BY <2>2, <2>5, Serving
  <2>6. ASSUME NEW c \in Clients, Find(c) PROVE <1>3
    BY <2>2, <2>6 DEF Find
  <2>7. CASE UNCHANGED vars
    BY <2>2, <2>7 DEF vars
  <2>. QED  BY <2>1, <2>3, <2>4, <2>5, <2>6, <2>7 DEF Next, HostStep
<1>. QED  BY <1>1, <1>3 DEF FrameInv, Closes

(***************************************************************************)
(* The invariant.                                                           *)
(***************************************************************************)

LEMMA ChannelInit == Init => ChannelInv
<1> SUFFICES ASSUME Init PROVE ChannelInv
  OBVIOUS
<1>1. ChannelTypes
  <2>1. <<>> \in Seq(Lines)
    BY EmptySeq
  <2>. QED  BY <2>1, Bounds DEF Init, ChannelTypes, NoLease, NoAsk, NoConsole
<1>2. AskInv
  BY DEF Init, AskInv, NoLease, Waiting
<1>3. ConsoleInv
  BY DEF Init, ConsoleInv, Waiting
<1>4. TypedInv
  BY DEF Init, TypedInv
<1>5. PlaceInv
  BY DEF Init, PlaceInv
<1>6. EndInv
  BY DEF Init, EndInv
<1>7. FrameInv
  <2>1. <<>> \in Seq(Nat)
    BY EmptySeq
  <2>. QED  BY <2>1 DEF Init, FrameInv
<1>. QED  BY <1>1, <1>2, <1>3, <1>4, <1>5, <1>6, <1>7 DEF ChannelInv

\* What the channel is always in: one command at the console, what is typed meant for
\* the machine that reads it, every end told by the unit that ended.
THEOREM ChannelInductive == Spec => []ChannelInv
<1>1. ChannelInv /\ [Next]_vars => ChannelInv'
  BY TypesInductive, AskInductive, ConsoleInductive, TypedInductive, PlaceInductive, EndInductive,
     FrameInductive DEF ChannelInv
<1>. QED  BY ChannelInit, <1>1, PTL DEF Spec

\* An answer is the whole payload of the unit that ran for this very request and exited
\* with zero, whatever was lost, damaged or repeated on the console and whatever an
\* earlier command left there (serialframe's decoder, the tokens of real_serialshell).
THEOREM AnswersAreOwn == Spec => []OwnAnswer
<1>1. ChannelInv => OwnAnswer
  BY DEF ChannelInv, FrameInv, EndInv, OwnAnswer
<1>. QED  BY ChannelInductive, <1>1, PTL

\* What one command is answered comes from one machine, also when the machine is
\* replaced between its requests (_require_peer, the known hosts file).
THEOREM AnswersFromOneGuest == Spec => []OneGuest
<1>1. ChannelInv => OneGuest
  <2> SUFFICES ASSUME ChannelInv, NEW q \in Requests, NEW r \in Requests,
                      state[q] = "answered", state[r] = "answered", ask[q].by = ask[r].by
               PROVE  from[q] = from[r] /\ (Via(r) = "serial" => from[r] = lease[ask[r].by].machine)
    BY DEF OneGuest
  <2>1. work[q] = "done" /\ work[r] = "done"
    BY DEF ChannelInv, EndInv
  <2>2. /\ from[q] = IF Via(q) = "ssh" THEN pin ELSE Meant(q)
        /\ from[r] = IF Via(r) = "ssh" THEN pin ELSE Meant(r)
    BY <2>1 DEF ChannelInv, PlaceInv
  <2>. QED  BY <2>2 DEF Via, Meant
<1>. QED  BY ChannelInductive, <1>1, PTL

(***************************************************************************)
(* Asking, as it is promised.                                               *)
(***************************************************************************)

\* A request as whoever asked sees it: the host's two waits are one.
Seen(r) == IF state[r] \in Waiting THEN "open" ELSE state[r]

LEMMA Outside ==
    ASSUME ChannelTypes, NEW r \in Requests, NEW s \in {"new"} \cup Waiting \cup Settled,
           state' = [state EXCEPT ![r] = s]
    PROVE  /\ (IF s \in Waiting THEN "open" ELSE s) = Seen(r) =>
                 [q \in Requests |-> Seen(q)]' = [q \in Requests |-> Seen(q)]
           /\ [q \in Requests |-> Seen(q)]' =
                 [[q \in Requests |-> Seen(q)] EXCEPT ![r] = IF s \in Waiting THEN "open" ELSE s]
BY DEF ChannelTypes, Seen

LEMMA PromiseSteps ==
    ASSUME NEW r \in Requests, UNCHANGED <<work, lock>>
    PROVE  /\ /\ Seen(r) = "new"
              /\ [q \in Requests |-> Seen(q)]' = [[q \in Requests |-> Seen(q)] EXCEPT ![r] = "open"]
              => Promise!Open(r)
           /\ \A how \in {"answered", "refused", "failed"} :
                 /\ Seen(r) \in (IF how = "failed" THEN {"new", "open"} ELSE {"open"})
                 /\ how \in {"answered", "refused"} => work[r] = "done"
                 /\ [q \in Requests |-> Seen(q)]' = [[q \in Requests |-> Seen(q)] EXCEPT ![r] = how]
                 => Promise!Settle(r, how)
BY DEF Promise!Open, Promise!Settle, Seen

\* Every step of the channel is a step that is promised, or none.
LEMMA PromiseStep ==
    ASSUME ChannelInv, [Next]_vars
    PROVE  [Promise!Next]_(Promise!promised)
<1> DEFINE seen == [q \in Requests |-> Seen(q)]
<1>t. /\ ChannelTypes /\ AskInv /\ TypedInv /\ EndInv
      /\ "new" \notin Waiting /\ "new" \notin Settled /\ "open" \notin Settled
      /\ "handshake" \in Waiting /\ "typed" \in Waiting
  BY DEF ChannelInv, Waiting, Settled
\* A step that changes nothing of what is promised.
<1>0. ASSUME UNCHANGED <<state, work, lock>> PROVE UNCHANGED Promise!promised
  BY <1>0 DEF Promise!promised
<1>1. ASSUME NEW c \in Clients, Find(c) PROVE UNCHANGED Promise!promised
  BY <1>0, <1>1 DEF Find
<1>2. ASSUME NEW c \in Clients, NEW r \in Requests, AskSerial(c, r) \/ AskSsh(c, r) PROVE Promise!Next
  <2>1. /\ state[r] = "new" /\ UNCHANGED <<work, lock>>
        /\ \E s \in {"handshake", "typed", "failed"} : state' = [state EXCEPT ![r] = s]
    BY <1>2, Zenon DEF AskSerial, AskSsh, NextRequest
  <2>2. PICK s \in {"handshake", "typed", "failed"} : state' = [state EXCEPT ![r] = s]
    BY <2>1
  <2>3. Seen(r) = "new"
    BY <1>t, <2>1 DEF Seen
  <2>4. seen' = [seen EXCEPT ![r] = IF s \in Waiting THEN "open" ELSE s]
    BY <1>t, <2>2, Outside DEF Settled, Waiting
  <2>5. CASE s \in Waiting
    <3>1. Promise!Open(r)
      BY <2>1, <2>3, <2>4, <2>5, PromiseSteps
    <3>. QED  BY <3>1 DEF Promise!Next
  <2>6. CASE s = "failed"
    <3>1. Promise!Settle(r, "failed")
      BY <2>1, <2>3, <2>4, <2>6, PromiseSteps DEF Waiting
    <3>. QED  BY <3>1 DEF Promise!Next
  <2>. QED  BY <2>5, <2>6 DEF Waiting
<1>3. ASSUME NEW r \in Requests, Type(r) PROVE UNCHANGED Promise!promised
  <2>1. state[r] = "handshake" /\ state' = [state EXCEPT ![r] = "typed"] /\ UNCHANGED <<work, lock>>
    BY <1>3 DEF Type
  <2>2. seen' = seen
    BY <1>t, <2>1, Outside DEF Seen
  <2>. QED  BY <2>1, <2>2 DEF Promise!promised, Seen
<1>4. ASSUME NEW r \in Requests, NEW how \in Settled, state[r] \in Waiting, UNCHANGED <<work, lock>>,
             state' = [state EXCEPT ![r] = how], how # "failed" => work[r] = "done"
      PROVE  Promise!Next
  <2>1. Seen(r) = "open" /\ seen' = [seen EXCEPT ![r] = how]
    BY <1>t, <1>4, Outside DEF Seen, Settled, Waiting
  <2>2. Promise!Settle(r, how)
    BY <1>4, <2>1, PromiseSteps DEF Settled
  <2>. QED  BY <2>2 DEF Promise!Next, Settled
<1>5. ASSUME NEW r \in Requests, ReadSerial(r) \/ ReadSsh(r) PROVE Promise!Next
  <2>1. UNCHANGED <<work, lock>>
    BY <1>5 DEF ReadSerial, ReadSsh
  <2>. QED  BY <1>t, <1>4, <1>5, <2>1, Settling
<1>6. ASSUME NEW r \in Requests, GiveUp(r) PROVE Promise!Next
  <2>1. state[r] \in Waiting /\ UNCHANGED <<work, lock>> /\ state' = [state EXCEPT ![r] = "failed"]
    BY <1>6 DEF GiveUp
  <2>. QED  BY <1>4, <2>1 DEF Settled
<1>7. ASSUME NEW r \in Requests, state[r] # "new", work[r] = "none", state' = state,
             IF Free(r) THEN BeginUnit(r) ELSE DenyUnit(r)
      PROVE  Promise!Next
  <2>1. Seen(r) # "new" /\ seen' = seen /\ ask[r].locked \in BOOLEAN
    BY <1>t, <1>7 DEF Seen, ChannelTypes
  <2>2. CASE Free(r)
    <3>1. Promise!Begin(r, ask[r].locked)
      BY <1>7, <2>1, <2>2 DEF Promise!Begin, BeginUnit, Free, Seen
    <3>. QED  BY <2>1, <3>1 DEF Promise!Next
  <2>3. CASE ~ Free(r)
    <3>1. Promise!Deny(r)
      BY <1>7, <2>1, <2>3 DEF Promise!Deny, DenyUnit, Free, Seen
    <3>. QED  BY <3>1 DEF Promise!Next
  <2>. QED  BY <2>2, <2>3
<1>8. CASE ReadCommand
  <2>1. /\ state' = state
        /\ IF Free(Head(input).request) THEN BeginUnit(Head(input).request)
                                        ELSE DenyUnit(Head(input).request)
    BY <1>8, Zenon DEF ReadCommand
  <2>. QED  BY <1>t, <1>7, <1>8, <2>1, NextCommand
<1>9. ASSUME NEW r \in Requests, StartSsh(r) PROVE Promise!Next
  <2>1. state[r] # "new" /\ work[r] = "none" /\ state' = state
    BY <1>9 DEF StartSsh
  <2>. QED  BY <1>7, <1>9, <2>1 DEF StartSsh
<1>10. ASSUME NEW r \in Requests, FinishUnit(r) PROVE Promise!Next
  <2>1. Promise!End(r)
    BY <1>10 DEF FinishUnit, Promise!End
  <2>. QED  BY <2>1 DEF Promise!Next
<1>11. CASE Reboot \/ Replace
  <2> DEFINE lost == {r \in Requests : work[r] = "none" /\ r \in Lost}
  <2>1. GoesDown /\ state' = state
    BY <1>11 DEF Reboot, Replace, GoesDown
  <2>2. \A r \in lost : state[r] # "new"
    BY <1>t DEF Lost, TypedInv
  <2>3. work' = [r \in Requests |-> IF work[r] = "begun" \/ r \in lost THEN "cut" ELSE work[r]]
    BY <2>1 DEF GoesDown, Lost
  <2>4. \A r \in lost : Seen(r) # "new"
    BY <1>t, <2>2 DEF Seen
  <2> HIDE DEF lost
  <2>5. lost \subseteq {r \in Requests : Seen(r) # "new" /\ work[r] = "none"}
    BY <2>4 DEF lost
  <2>6. Promise!Cut(lost)
    BY <2>1, <2>3, <2>5 DEF Promise!Cut, GoesDown, Seen
  <2>7. lost \in SUBSET Requests
    BY DEF lost
  <2>. QED  BY <2>6, <2>7 DEF Promise!Next
<1>12. CASE ReadProbe \/ Swallow \/ Ready \/ UNCHANGED vars
  BY <1>0, <1>12 DEF ReadProbe, Swallow, Ready, vars
<1>. QED  BY <1>1, <1>2, <1>3, <1>5, <1>6, <1>8, <1>9, <1>10, <1>11, <1>12
          DEF Next, HostStep, GuestStep

\* The channel implements Asking: no step of the host, of the guest or of whoever
\* restarts it goes beyond what asking the guest agent promises.
THEOREM ChannelKeepsPromise == Spec => KeepsPromise
<1>1. Init => Promise!Init
  BY DEF Init, Promise!Init, Waiting
<1>2. ChannelInv /\ [Next]_vars => [Promise!Next]_(Promise!promised)
  BY PromiseStep
<1>. QED  BY ChannelInductive, <1>1, <1>2, PTL DEF Spec, KeepsPromise, Promise!Spec
=============================================================================
