------------------------- MODULE SignalIntakeProofs -------------------------
(***************************************************************************)
(* Proofs about SignalIntake, for any number of senders, lines, requests   *)
(* to /raw and restarts.  One invariant carries all of them: a signal is   *)
(* where its request says, and a request is where its sender says.         *)
(***************************************************************************)
EXTENDS SignalIntake, SequenceFacts

Told     == {"nothing", "queued", "counted", "error"}
Requests == {"none", "arrived", "pushed", "ended"}

\* TypeOK says what the arrays hold; here they are functions, and a sender that
\* waits has a line.
TypeInv == /\ TypeOK
           /\ line \in [Senders -> Nat]
           /\ told = [s \in Senders |-> told[s]]
           /\ request = [s \in Senders |-> request[s]]
           /\ \A s \in Senders : at[s] = "waiting" => line[s] \in Lines(s)

\* Every signal pushed so far.
Pushed == Elements(Stream) \cup dropped

\* A line that is not sent yet has no request and no outcome; one whose request is
\* still open although the sender has gone on was given up on.
RequestInv == \A s \in Senders : \A i \in Lines(s) :
    /\ i > line[s] \/ (i = line[s] /\ at[s] = "next") => request[s][i] = "none"
    /\ i >= line[s] => told[s][i] = "nothing"
    /\ i < line[s] /\ request[s][i] \in {"arrived", "pushed"} => told[s][i] = "error"

\* A signal is pushed by its own request, and by nothing else.
PushedInv == /\ \A s \in Senders : \A i \in Lines(s) :
                   /\ Signal(s, i) \in Pushed => request[s][i] \in {"pushed", "ended"}
                   /\ request[s][i] = "pushed" => Signal(s, i) \in Pushed
             /\ \A i \in 1 .. MaxRaw : Raw(i) \in Pushed => i <= raw

\* EachOnce without the cardinality.
OnceInv == /\ \A i, j \in 1 .. Len(Stream) : Stream[i] = Stream[j] => i = j
           /\ Elements(Stream) \cap dropped = {}

\* InOrder, and the signals of /raw, which nobody gives up on, in order too.
OrderInv == /\ InOrder
            /\ \A i, j \in 1 .. Len(Stream) :
                  i < j /\ Stream[i].from = "raw" /\ Stream[j].from = "raw"
                     => Stream[i].line < Stream[j].line

IntakeInv == /\ TypeInv
             /\ RequestInv
             /\ PushedInv
             /\ OnceInv
             /\ OrderInv
             /\ CountedIsPushed

-----------------------------------------------------------------------------
\* A signal is a line of a sender or a request to /raw, and not both.
LEMMA SignalKinds ==
    /\ \A s \in Senders : \A i \in Lines(s) :
          Signal(s, i) \in Signals /\ Signal(s, i).from = s /\ Signal(s, i).line = i
    /\ \A i \in 1 .. MaxRaw :
          Raw(i) \in Signals /\ Raw(i).from = "raw" /\ Raw(i).line = i
    /\ \A x \in Signals : \/ \E s \in Senders : \E i \in Lines(s) : x = Signal(s, i)
                          \/ \E i \in 1 .. MaxRaw : x = Raw(i)
    /\ \A s \in Senders : \A i \in Lines(s) : \A j \in 1 .. MaxRaw : Signal(s, i) # Raw(j)
    /\ \A s, t \in Senders : \A i \in Lines(s) : \A j \in Lines(t) :
          Signal(s, i) = Signal(t, j) => s = t /\ i = j
    /\ \A i, j \in 1 .. MaxRaw : Raw(i) = Raw(j) => i = j
  <1>1. \A s \in Senders : \A i \in Lines(s) : Signal(s, i) \in Signals
    <2>1. SUFFICES ASSUME NEW s \in Senders, NEW i \in Lines(s) PROVE Signal(s, i) \in Signals
      OBVIOUS
    <2>2. Signal(s, i) \in {Signal(s, j) : j \in Lines(s)}
      OBVIOUS
    <2>3. {Signal(s, j) : j \in Lines(s)} \in {{Signal(q, j) : j \in Lines(q)} : q \in Senders}
      OBVIOUS
    <2>4. QED BY <2>2, <2>3, Zenon DEF Signals
  <1>2. \A i \in 1 .. MaxRaw : Raw(i) \in Signals
    BY Zenon DEF Signals
  <1>3. \A x \in Signals : \/ \E s \in Senders : \E i \in Lines(s) : x = Signal(s, i)
                           \/ \E i \in 1 .. MaxRaw : x = Raw(i)
    BY Zenon DEF Signals
  <1>4. \A s \in Senders : s # "raw"
    BY IntakeAssumption
  <1>5. \A s, i : Signal(s, i).from = s /\ Signal(s, i).line = i
    BY DEF Signal
  <1>6. \A i : Raw(i).from = "raw" /\ Raw(i).line = i
    BY DEF Raw
  <1>7. \A s \in Senders : \A i \in Lines(s) : \A j \in 1 .. MaxRaw : Signal(s, i) # Raw(j)
    BY <1>4 DEF Signal, Raw
  <1>8. \A s, t, i, j : Signal(s, i) = Signal(t, j) => s = t /\ i = j
    BY DEF Signal
  <1>9. \A i, j : Raw(i) = Raw(j) => i = j
    BY DEF Raw
  <1>10. QED BY <1>1, <1>2, <1>3, <1>5, <1>6, <1>7, <1>8, <1>9

\* A table of the senders' lines in which one entry changes.
LEMMA RowsKept ==
    ASSUME NEW T, NEW f, f = [s \in Senders |-> f[s]],
           \A s \in Senders : f[s] \in [Lines(s) -> T],
           NEW s \in Senders, NEW i \in Lines(s), NEW v \in T,
           NEW g, g = [f EXCEPT ![s][i] = v]
    PROVE  /\ g = [q \in Senders |-> g[q]]
           /\ \A q \in Senders : g[q] \in [Lines(q) -> T]
           /\ g[s][i] = v
           /\ \A q \in Senders : \A j \in Lines(q) :
                 g[q][j] = f[q][j] \/ (q = s /\ j = i)
  <1>1. DOMAIN f = Senders
    OBVIOUS
  <1>2. g = [q \in Senders |-> IF q = s THEN [f[s] EXCEPT ![i] = v] ELSE f[q]]
    BY <1>1
  <1>3. \A q \in Senders : g[q] = IF q = s THEN [f[s] EXCEPT ![i] = v] ELSE f[q]
    BY <1>2
  <1>4. [f[s] EXCEPT ![i] = v] \in [Lines(s) -> T]
    OBVIOUS
  <1>5. QED BY <1>2, <1>3, <1>4

\* What is printed of a line changes nothing else.
LEMMA ToldTypes ==
    ASSUME TypeInv, NEW s \in Senders, NEW i \in Lines(s), NEW v \in Told,
           told' = [told EXCEPT ![s][i] = v]
    PROVE  /\ told' = [q \in Senders |-> told'[q]]
           /\ \A q \in Senders : told'[q] \in [Lines(q) -> Told]
           /\ told'[s][i] = v
           /\ \A q \in Senders : \A j \in Lines(q) :
                 told'[q][j] = told[q][j] \/ (q = s /\ j = i)
  <1>1. /\ told = [q \in Senders |-> told[q]]
        /\ \A q \in Senders : told[q] \in [Lines(q) -> Told]
    BY DEF TypeInv, TypeOK, Told
  <1>2. QED BY <1>1, RowsKept

\* What is printed of a line is printed once, and the sender goes on.
LEMMA PrintedTypes ==
    ASSUME TypeInv, NEW s \in Senders, line[s] \in Lines(s),
           NEW outcome \in Told, Printed(s, outcome)
    PROVE  /\ line' \in [Senders -> Nat]
           /\ line'[s] = line[s] + 1
           /\ \A q \in Senders : line'[q] \in 1 .. MaxLines[q] + 1
           /\ \A q \in Senders \ {s} : line'[q] = line[q] /\ at'[q] = at[q]
           /\ at' \in [Senders -> {"next", "waiting", "done"}]
           /\ at'[s] # "waiting"
           /\ told' = [q \in Senders |-> told'[q]]
           /\ \A q \in Senders : told'[q] \in [Lines(q) -> Told]
           /\ told'[s][line[s]] = outcome
           /\ \A q \in Senders : \A j \in Lines(q) :
                 told'[q][j] = told[q][j] \/ (q = s /\ j = line[s])
  <1> USE IntakeAssumption
  <1>1. line' = [line EXCEPT ![s] = line[s] + 1] /\ line \in [Senders -> Nat]
    BY DEF Printed, TypeInv
  <1>2. /\ line' \in [Senders -> Nat] /\ line'[s] = line[s] + 1
        /\ \A q \in Senders \ {s} : line'[q] = line[q]
    BY <1>1
  <1>3. \A q \in Senders : line'[q] \in 1 .. MaxLines[q] + 1
    <2>1. \A q \in Senders : line[q] \in 1 .. MaxLines[q] + 1
      BY DEF TypeInv, TypeOK
    <2>2. line[s] + 1 \in 1 .. MaxLines[s] + 1
      BY DEF Lines
    <2>3. QED BY <1>2, <2>1, <2>2
  <1>4. /\ at' \in [Senders -> {"next", "waiting", "done"}]
        /\ at'[s] # "waiting"
        /\ \A q \in Senders \ {s} : at'[q] = at[q]
    BY DEF Printed, TypeInv, TypeOK
  <1>5. told' = [told EXCEPT ![s][line[s]] = outcome]
    BY DEF Printed
  <1>6. /\ told' = [q \in Senders |-> told'[q]]
        /\ \A q \in Senders : told'[q] \in [Lines(q) -> Told]
        /\ told'[s][line[s]] = outcome
        /\ \A q \in Senders : \A j \in Lines(q) :
              told'[q][j] = told[q][j] \/ (q = s /\ j = line[s])
    BY <1>5, ToldTypes
  <1>7. QED BY <1>2, <1>3, <1>4, <1>6

\* A request moves on alone.
LEMMA RequestTypes ==
    ASSUME TypeInv, NEW s \in Senders, NEW i \in Lines(s), NEW v \in Requests,
           request' = [request EXCEPT ![s][i] = v]
    PROVE  /\ request' = [q \in Senders |-> request'[q]]
           /\ \A q \in Senders : request'[q] \in [Lines(q) -> Requests]
           /\ request'[s][i] = v
           /\ \A q \in Senders : \A j \in Lines(q) :
                 request'[q][j] = request[q][j] \/ (q = s /\ j = i)
  <1>1. /\ request = [q \in Senders |-> request[q]]
        /\ \A q \in Senders : request[q] \in [Lines(q) -> Requests]
    BY DEF TypeInv, TypeOK, Requests
  <1>2. QED BY <1>1, RowsKept

\* A handler's answer is printed if it is still awaited, and is lost otherwise.
LEMMA AnsweredTypes ==
    ASSUME TypeInv, NEW s \in Senders, NEW i \in Lines(s), NEW size \in Nat,
           Answered(s, i, size)
    PROVE  /\ line' \in [Senders -> Nat]
           /\ \A q \in Senders : line'[q] \in 1 .. MaxLines[q] + 1
           /\ at' \in [Senders -> {"next", "waiting", "done"}]
           /\ told' = [q \in Senders |-> told'[q]]
           /\ \A q \in Senders : told'[q] \in [Lines(q) -> Told]
           /\ \/ UNCHANGED sender
              \/ /\ line[s] = i /\ line'[s] = i + 1
                 /\ at[s] = "waiting" /\ at'[s] # "waiting"
                 /\ told'[s][i] = IF size = 0 THEN "queued" ELSE "counted"
                 /\ \A q \in Senders \ {s} : line'[q] = line[q] /\ at'[q] = at[q]
                 /\ \A q \in Senders : \A j \in Lines(q) :
                       told'[q][j] = told[q][j] \/ (q = s /\ j = i)
  <1>1. CASE ~Awaits(s, i)
    <2>1. UNCHANGED sender
      BY <1>1 DEF Answered
    <2>2. QED BY <2>1 DEF sender, TypeInv, TypeOK, Told
  <1>2. CASE Awaits(s, i)
    <2> DEFINE outcome == IF size = 0 THEN "queued" ELSE "counted"
    <2>1. line[s] = i /\ line[s] \in Lines(s) /\ at[s] = "waiting"
      BY <1>2 DEF Awaits
    <2>2. outcome \in Told /\ Printed(s, outcome)
      BY <1>2 DEF Answered, Told
    <2> HIDE DEF outcome
    <2>3. QED BY <2>1, <2>2, PrintedTypes DEF outcome
  <1>3. QED BY <1>1, <1>2

\* The stream is the taken signals followed by the queued ones.
LEMMA StreamTypes ==
    ASSUME taken \in Seq(Signals), queue \in Seq(Signals)
    PROVE  /\ Stream \in Seq(Signals)
           /\ Len(Stream) = Len(taken) + Len(queue)
           /\ Len(taken) \in Nat /\ Len(queue) \in Nat
           /\ \A i \in 1 .. Len(taken) : Stream[i] = taken[i]
           /\ \A i \in 1 .. Len(queue) : Stream[Len(taken) + i] = queue[i]
           /\ \A i \in 1 .. Len(Stream) : Stream[i] \in Signals
           /\ Elements(Stream) = Elements(taken) \cup Elements(queue)
  <1>1. /\ Stream \in Seq(Signals)
        /\ Len(Stream) = Len(taken) + Len(queue)
        /\ \A i \in 1 .. Len(taken) + Len(queue) :
              Stream[i] = IF i <= Len(taken) THEN taken[i] ELSE queue[i - Len(taken)]
    BY ConcatProperties DEF Stream
  <1>2. Len(taken) \in Nat /\ Len(queue) \in Nat
    BY LenProperties
  <1>3. \A i \in 1 .. Len(taken) : Stream[i] = taken[i]
    BY <1>1, <1>2
  <1>4. \A i \in 1 .. Len(queue) : Stream[Len(taken) + i] = queue[i]
    BY <1>1, <1>2
  <1>5. \A i \in 1 .. Len(Stream) : Stream[i] \in Signals
    BY <1>1, ElementOfSeq
  <1>6. Elements(Stream) \subseteq Elements(taken) \cup Elements(queue)
    BY <1>1, <1>2 DEF Elements
  <1>7. ASSUME NEW x \in Elements(taken) \cup Elements(queue) PROVE x \in Elements(Stream)
    <2>1. CASE x \in Elements(taken)
      BY <1>1, <1>2, <1>3, <2>1 DEF Elements
    <2>2. CASE x \in Elements(queue)
      <3>1. PICK i \in 1 .. Len(queue) : x = queue[i]
        BY <2>2 DEF Elements
      <3>2. Len(taken) + i \in 1 .. Len(Stream) /\ Stream[Len(taken) + i] = x
        BY <1>1, <1>2, <1>4, <3>1
      <3>3. QED BY <3>2 DEF Elements
    <2>3. QED BY <2>1, <2>2
  <1>8. QED BY <1>1, <1>2, <1>3, <1>4, <1>5, <1>6, <1>7

\* A push puts the signal at the end of the stream.
LEMMA AppendStream ==
    ASSUME taken \in Seq(Signals), queue \in Seq(Signals), NEW x \in Signals,
           queue' = Append(queue, x), taken' = taken, dropped' = dropped
    PROVE  /\ queue' \in Seq(Signals)
           /\ Len(Stream) \in Nat /\ Len(Stream') = Len(Stream) + 1
           /\ \A i \in 1 .. Len(Stream) : Stream'[i] = Stream[i]
           /\ Stream'[Len(Stream) + 1] = x
           /\ Elements(Stream') = Elements(Stream) \cup {x}
           /\ Pushed' = Pushed \cup {x}
  <1>1. queue' \in Seq(Signals) /\ queue' = queue \o <<x>> /\ <<x>> \in Seq(Signals)
    BY AppendProperties, AppendIsConcat
  <1>2. Stream' = Stream \o <<x>>
    BY <1>1, ConcatAssociative DEF Stream
  <1>3. Stream \in Seq(Signals) /\ Len(Stream) \in Nat
    BY StreamTypes
  <1>4. Stream' = Append(Stream, x)
    BY <1>2, <1>3, AppendIsConcat
  <1>5. /\ Len(Stream') = Len(Stream) + 1
        /\ \A i \in 1 .. Len(Stream) : Stream'[i] = Stream[i]
        /\ Stream'[Len(Stream) + 1] = x
    BY <1>3, <1>4, AppendProperties
  <1>6. Elements(Stream') \subseteq Elements(Stream) \cup {x}
    BY <1>3, <1>5 DEF Elements
  <1>7. \A i \in 1 .. Len(Stream) : Stream[i] \in Elements(Stream')
    BY <1>3, <1>5 DEF Elements
  <1>8. x \in Elements(Stream')
    <2>1. Len(Stream) + 1 \in 1 .. Len(Stream')
      BY <1>3, <1>5
    <2>2. QED BY <1>5, <2>1 DEF Elements
  <1>9. Elements(Stream') = Elements(Stream) \cup {x}
    BY <1>6, <1>7, <1>8 DEF Elements
  <1>10. QED BY <1>1, <1>3, <1>5, <1>9 DEF Pushed

\* Pop and Drain move signals along the stream and leave it as it is.
LEMMA PopKeepsStream ==
    ASSUME taken \in Seq(Signals), queue \in Seq(Signals), Pop
    PROVE  /\ Stream' = Stream
           /\ taken' \in Seq(Signals) /\ queue' \in Seq(Signals)
  <1>1. /\ Head(queue) \in Signals /\ Tail(queue) \in Seq(Signals)
        /\ Len(Tail(queue)) = Len(queue) - 1
        /\ \A i \in 1 .. Len(Tail(queue)) : Tail(queue)[i] = queue[i + 1]
        /\ Head(queue) = queue[1]
    BY HeadTailProperties DEF Pop
  <1>2. /\ taken' \in Seq(Signals) /\ Len(taken') = Len(taken) + 1
        /\ \A i \in 1 .. Len(taken) : taken'[i] = taken[i]
        /\ taken'[Len(taken) + 1] = Head(queue)
    BY <1>1, AppendProperties DEF Pop
  <1>3. queue' = Tail(queue)
    BY DEF Pop
  <1>4. /\ Stream \in Seq(Signals)
        /\ Len(Stream) = Len(taken) + Len(queue)
        /\ \A i \in 1 .. Len(taken) + Len(queue) :
              Stream[i] = IF i <= Len(taken) THEN taken[i] ELSE queue[i - Len(taken)]
    BY ConcatProperties DEF Stream
  <1>5. /\ Stream' \in Seq(Signals)
        /\ Len(Stream') = Len(taken') + Len(queue')
        /\ \A i \in 1 .. Len(taken') + Len(queue') :
              Stream'[i] = IF i <= Len(taken') THEN taken'[i] ELSE queue'[i - Len(taken')]
    BY <1>1, <1>2, <1>3, ConcatProperties DEF Stream
  <1>6. Len(taken) \in Nat /\ Len(queue) \in Nat
    BY LenProperties
  <1>7. Len(Stream') = Len(Stream)
    BY <1>1, <1>2, <1>3, <1>4, <1>5, <1>6
  <1>8. ASSUME NEW i \in 1 .. Len(Stream') PROVE Stream'[i] = Stream[i]
    <2>1. CASE i <= Len(taken)
      BY <1>2, <1>4, <1>5, <1>6, <1>7, <2>1
    <2>2. CASE i = Len(taken) + 1
      <3>1. i \in 1 .. Len(taken) + Len(queue) /\ i - Len(taken) = 1 /\ ~(i <= Len(taken))
        BY <1>4, <1>6, <1>7, <2>2
      <3>2. i \in 1 .. Len(taken') + Len(queue') /\ i <= Len(taken')
        BY <1>2, <1>5, <1>6, <2>2
      <3>3. Stream[i] = queue[1]
        BY <1>4, <3>1
      <3>4. Stream'[i] = Head(queue)
        BY <1>2, <1>5, <2>2, <3>2
      <3>5. QED BY <1>1, <3>3, <3>4
    <2>3. CASE i > Len(taken) + 1
      <3>1. i - Len(taken') \in 1 .. Len(Tail(queue)) /\ i - Len(taken') + 1 = i - Len(taken)
        BY <1>1, <1>2, <1>4, <1>6, <1>7, <2>3
      <3>2. Stream'[i] = Tail(queue)[i - Len(taken')]
        <4>1. ~(i <= Len(taken')) /\ i \in 1 .. Len(taken') + Len(queue')
          BY <1>2, <1>5, <1>6, <2>3
        <4>2. QED BY <1>3, <1>5, <4>1
      <3>3. QED BY <1>1, <1>4, <1>6, <1>7, <2>3, <3>1, <3>2
    <2>4. QED BY <1>4, <1>6, <1>7, <2>1, <2>2, <2>3
  <1>9. QED BY <1>1, <1>2, <1>3, <1>4, <1>5, <1>7, <1>8, SeqEqual

\* Draining moves the queue to the end of what was taken, in its order.
LEMMA DrainKeepsStream ==
    ASSUME taken \in Seq(Signals), queue \in Seq(Signals), Drain
    PROVE  /\ Stream' = Stream
           /\ taken' \in Seq(Signals) /\ queue' \in Seq(Signals)
  <1>1. taken' = taken \o queue /\ queue' = <<>>
    BY DEF Drain
  <1>2. taken' \in Seq(Signals)
    BY <1>1, ConcatProperties
  <1>3. Stream' = taken'
    BY <1>1, <1>2, ConcatEmptySeq DEF Stream
  <1>4. QED BY <1>1, <1>2, <1>3, EmptySeq DEF Stream

-----------------------------------------------------------------------------
\* A step that pushes and drops nothing leaves every signal in its place and in
\* its order.
LEMMA QuietStep ==
    ASSUME IntakeInv, Stream' = Stream, dropped' = dropped,
           \A s \in Senders : \A i \in Lines(s) :
              told[s][i] = "error" => told'[s][i] = "error"
    PROVE  Pushed' = Pushed /\ OnceInv' /\ OrderInv'
  <1>1. Pushed' = Pushed /\ OnceInv'
    BY DEF Pushed, IntakeInv, OnceInv
  <1>2. ASSUME NEW i \in 1 .. Len(Stream), NEW j \in 1 .. Len(Stream), i < j,
               Stream[i].from = Stream[j].from, Stream[i].line > Stream[j].line
        PROVE  told'[Stream[j].from][Stream[j].line] = "error"
    <2>1. told[Stream[j].from][Stream[j].line] = "error"
      BY <1>2 DEF IntakeInv, OrderInv, InOrder
    <2>2. Stream[i] \in Signals /\ Stream[j] \in Signals
      BY StreamTypes DEF IntakeInv, TypeInv, TypeOK
    <2>3. CASE \E s \in Senders : \E l \in Lines(s) : Stream[j] = Signal(s, l)
      BY <2>1, <2>3, SignalKinds
    <2>4. CASE \E l \in 1 .. MaxRaw : Stream[j] = Raw(l)
      <3>1. Stream[j].from = "raw" /\ Stream[j].line \in Nat
        BY <2>4, SignalKinds
      <3>2. Stream[i].line \in Nat
        <4>1. \E l \in 1 .. MaxRaw : Stream[i] = Raw(l)
          BY <1>2, <2>2, <3>1, SignalKinds, IntakeAssumption
        <4>2. QED BY <4>1, SignalKinds
      <3>3. Stream[i].line < Stream[j].line
        BY <1>2, <3>1 DEF IntakeInv, OrderInv
      <3>4. QED BY <1>2, <3>1, <3>2, <3>3
    <2>5. QED BY <2>2, <2>3, <2>4, SignalKinds
  <1>3. InOrder'
    BY <1>2 DEF InOrder
  <1>4. QED BY <1>1, <1>3 DEF IntakeInv, OrderInv

\* A push of a signal that was not pushed before, behind whatever its sender had
\* got through before it.
LEMMA PushStep ==
    ASSUME IntakeInv, NEW x \in Signals, x \notin Pushed,
           queue' = Append(queue, x), UNCHANGED <<taken, dropped, told>>,
           \A k \in 1 .. Len(Stream) :
              Stream[k].from = x.from /\ Stream[k].line > x.line
                 => told[x.from][x.line] = "error",
           x.from = "raw" => \A k \in 1 .. Len(Stream) :
                                Stream[k].from = "raw" => Stream[k].line < x.line
    PROVE  /\ Pushed' = Pushed \cup {x}
           /\ queue' \in Seq(Signals)
           /\ OnceInv' /\ OrderInv'
  <1>1. /\ queue' \in Seq(Signals)
        /\ Len(Stream) \in Nat /\ Len(Stream') = Len(Stream) + 1
        /\ \A i \in 1 .. Len(Stream) : Stream'[i] = Stream[i]
        /\ Stream'[Len(Stream) + 1] = x
        /\ Elements(Stream') = Elements(Stream) \cup {x}
        /\ Pushed' = Pushed \cup {x}
    BY AppendStream DEF IntakeInv, TypeInv, TypeOK
  <1>2. \A i \in 1 .. Len(Stream) : Stream[i] # x
    BY DEF Pushed, Elements
  <1>3. 1 .. Len(Stream') = 1 .. Len(Stream) \cup {Len(Stream) + 1}
    BY <1>1
  <1>4. \A i, j \in 1 .. Len(Stream') : Stream'[i] = Stream'[j] => i = j
    BY <1>1, <1>2, <1>3 DEF IntakeInv, OnceInv
  <1>5. Elements(Stream') \cap dropped' = {}
    BY <1>1 DEF Pushed, IntakeInv, OnceInv
  <1>6. InOrder'
    <2>1. ASSUME NEW i \in 1 .. Len(Stream'), NEW j \in 1 .. Len(Stream'), i < j,
                 Stream'[i].from = Stream'[j].from, Stream'[i].line > Stream'[j].line
          PROVE  told[Stream'[j].from][Stream'[j].line] = "error"
      <3>1. i \in 1 .. Len(Stream) /\ Stream'[i] = Stream[i]
        BY <1>1, <1>3, <2>1
      <3>2. CASE j \in 1 .. Len(Stream)
        BY <1>1, <2>1, <3>1, <3>2 DEF IntakeInv, OrderInv, InOrder
      <3>3. CASE j = Len(Stream) + 1
        BY <1>1, <2>1, <3>1, <3>3
      <3>4. QED BY <1>3, <3>2, <3>3
    <2>2. QED BY <2>1 DEF InOrder
  <1>7. ASSUME NEW i \in 1 .. Len(Stream'), NEW j \in 1 .. Len(Stream'), i < j,
               Stream'[i].from = "raw", Stream'[j].from = "raw"
        PROVE  Stream'[i].line < Stream'[j].line
    <2>1. i \in 1 .. Len(Stream) /\ Stream'[i] = Stream[i]
      BY <1>1, <1>3, <1>7
    <2>2. CASE j \in 1 .. Len(Stream)
      BY <1>1, <1>7, <2>1, <2>2 DEF IntakeInv, OrderInv
    <2>3. CASE j = Len(Stream) + 1
      BY <1>1, <1>7, <2>1, <2>3
    <2>4. QED BY <1>3, <2>2, <2>3
  <1>8. QED BY <1>1, <1>4, <1>5, <1>6, <1>7 DEF OnceInv, OrderInv

\* The queued signals are dropped together.
LEMMA DropStep ==
    ASSUME IntakeInv, queue' = <<>>, taken' = taken,
           dropped' = dropped \cup Elements(queue), UNCHANGED told
    PROVE  /\ Pushed' = Pushed
           /\ queue' \in Seq(Signals) /\ dropped' \subseteq Signals
           /\ OnceInv' /\ OrderInv'
  <1>t. taken \in Seq(Signals) /\ queue \in Seq(Signals) /\ dropped \subseteq Signals
    BY DEF IntakeInv, TypeInv, TypeOK
  <1>1. Stream' = taken
    BY <1>t, ConcatEmptySeq DEF Stream
  <1>2. /\ Len(Stream) = Len(taken) + Len(queue)
        /\ Len(taken) \in Nat /\ Len(queue) \in Nat
        /\ \A i \in 1 .. Len(taken) : Stream[i] = taken[i]
        /\ \A i \in 1 .. Len(queue) : Stream[Len(taken) + i] = queue[i]
        /\ Elements(Stream) = Elements(taken) \cup Elements(queue)
    BY <1>t, StreamTypes
  <1>3. 1 .. Len(taken) \subseteq 1 .. Len(Stream)
    BY <1>2
  <1>4. Elements(taken) \cap Elements(queue) = {}
    <2>1. SUFFICES ASSUME NEW i \in 1 .. Len(taken), NEW j \in 1 .. Len(queue),
                          taken[i] = queue[j]
                   PROVE  FALSE
      BY DEF Elements
    <2>2. i \in 1 .. Len(Stream) /\ Len(taken) + j \in 1 .. Len(Stream) /\ i # Len(taken) + j
      BY <1>2
    <2>3. Stream[i] = Stream[Len(taken) + j]
      BY <1>2, <2>1
    <2>4. QED BY <2>2, <2>3 DEF IntakeInv, OnceInv
  <1>5. OnceInv'
    BY <1>1, <1>2, <1>3, <1>4 DEF IntakeInv, OnceInv
  <1>6. OrderInv'
    <2>1. \A i \in 1 .. Len(taken) : Stream'[i] = Stream[i] /\ i \in 1 .. Len(Stream)
      BY <1>1, <1>2, <1>3
    <2>2. InOrder'
      BY <1>1, <2>1 DEF IntakeInv, OrderInv, InOrder
    <2>3. QED BY <1>1, <2>1, <2>2 DEF IntakeInv, OrderInv
  <1>7. Elements(queue) \subseteq Signals
    BY <1>t, ElementOfSeq DEF Elements
  <1>8. QED BY <1>t, <1>1, <1>2, <1>5, <1>6, <1>7, EmptySeq DEF Pushed

-----------------------------------------------------------------------------
\* A step of a sender, or of a handler that pushes nothing, keeps the types if its
\* tables do.
LEMMA TablesTypes ==
    ASSUME TypeInv, UNCHANGED <<bridge, queue, raw, restarts, taken, dropped>>,
           line' \in [Senders -> Nat],
           \A q \in Senders : line'[q] \in 1 .. MaxLines[q] + 1,
           at' \in [Senders -> {"next", "waiting", "done"}],
           \A q \in Senders : at'[q] = "waiting" => line'[q] \in Lines(q),
           told' = [q \in Senders |-> told'[q]],
           \A q \in Senders : told'[q] \in [Lines(q) -> Told],
           request' = [q \in Senders |-> request'[q]],
           \A q \in Senders : request'[q] \in [Lines(q) -> Requests]
    PROVE  TypeInv'
  BY DEF TypeInv, TypeOK, Told, Requests

\* Such a step that changes the requests and outcomes of one sender only in a way
\* its line allows keeps the whole invariant.
LEMMA TablesStep ==
    ASSUME IntakeInv, TypeInv', UNCHANGED <<queue, raw, taken, dropped>>, RequestInv',
           \A s \in Senders : \A i \in Lines(s) :
              /\ told[s][i] = "error" => told'[s][i] = "error"
              /\ told'[s][i] = "counted" => told[s][i] = "counted" \/ request[s][i] = "pushed"
              /\ request[s][i] \in {"pushed", "ended"} => request'[s][i] \in {"pushed", "ended"}
              /\ request'[s][i] = "pushed" => request[s][i] = "pushed"
    PROVE  IntakeInv'
  <1>1. Stream' = Stream
    BY DEF Stream
  <1>2. Pushed' = Pushed /\ OnceInv' /\ OrderInv'
    BY <1>1, QuietStep
  <1>3. PushedInv'
    BY <1>2 DEF IntakeInv, PushedInv
  <1>4. CountedIsPushed'
    BY <1>1, <1>2 DEF IntakeInv, PushedInv, CountedIsPushed, Pushed
  <1>5. QED BY <1>2, <1>3, <1>4 DEF IntakeInv

\* The sender has printed something of its line: the request of that line, open or
\* not, is behind it.
LEMMA PrintedStep ==
    ASSUME IntakeInv, NEW s \in Senders, at[s] # "done", line[s] \in Lines(s),
           NEW outcome \in Told, Printed(s, outcome),
           outcome = "counted" => request[s][line[s]] = "pushed",
           UNCHANGED <<bridge, queue, raw, restarts, taken, dropped>>,
           \/ request' = request
           \/ request' = [request EXCEPT ![s][line[s]] = "ended"]
              /\ request[s][line[s]] # "none",
           outcome = "error" \/ request'[s][line[s]] \in {"none", "ended"},
           at[s] = "next" => request' = request
    PROVE  IntakeInv'
  <1> DEFINE i == line[s]
  <1>1. /\ line' \in [Senders -> Nat]
        /\ line'[s] = i + 1
        /\ \A q \in Senders : line'[q] \in 1 .. MaxLines[q] + 1
        /\ \A q \in Senders \ {s} : line'[q] = line[q] /\ at'[q] = at[q]
        /\ at' \in [Senders -> {"next", "waiting", "done"}]
        /\ at'[s] # "waiting"
        /\ told' = [q \in Senders |-> told'[q]]
        /\ \A q \in Senders : told'[q] \in [Lines(q) -> Told]
        /\ told'[s][i] = outcome
        /\ \A q \in Senders : \A j \in Lines(q) :
              told'[q][j] = told[q][j] \/ (q = s /\ j = i)
    BY PrintedTypes DEF IntakeInv
  <1>2. /\ request' = [q \in Senders |-> request'[q]]
        /\ \A q \in Senders : request'[q] \in [Lines(q) -> Requests]
        /\ \A q \in Senders : \A j \in Lines(q) :
              request'[q][j] = request[q][j] \/ (q = s /\ j = i)
        /\ request'[s][i] = request[s][i] \/ request'[s][i] = "ended"
    <2>1. CASE request' = request
      BY <2>1 DEF IntakeInv, TypeInv, TypeOK, Requests
    <2>2. CASE request' = [request EXCEPT ![s][i] = "ended"]
      <3>1. TypeInv /\ "ended" \in Requests /\ i \in Lines(s)
        BY DEF IntakeInv, Requests
      <3>2. QED BY <2>2, <3>1, RequestTypes
    <2>3. QED BY <2>1, <2>2
  <1>3. TypeInv'
    <2>1. \A q \in Senders : at'[q] = "waiting" => line'[q] \in Lines(q)
      BY <1>1 DEF IntakeInv, TypeInv
    <2>2. QED BY <1>1, <1>2, <2>1, TablesTypes DEF IntakeInv
  <1>4. RequestInv'
    <2> SUFFICES ASSUME NEW q \in Senders, NEW j \in Lines(q)
                 PROVE  /\ j > line'[q] \/ (j = line'[q] /\ at'[q] = "next")
                              => request'[q][j] = "none"
                        /\ j >= line'[q] => told'[q][j] = "nothing"
                        /\ j < line'[q] /\ request'[q][j] \in {"arrived", "pushed"}
                              => told'[q][j] = "error"
      BY DEF RequestInv
    <2>t. j \in Nat /\ line[q] \in Nat /\ i \in Nat
      BY DEF Lines, IntakeInv, TypeInv
    <2>1. CASE q # s
      BY <1>1, <1>2, <2>1 DEF IntakeInv, RequestInv
    <2>2. CASE q = s /\ j = i
      BY <1>1, <1>2, <2>t, <2>2
    <2>3. CASE q = s /\ j # i
      <3>1. /\ request'[q][j] = request[q][j] /\ told'[q][j] = told[q][j]
            /\ line'[q] = i + 1 /\ line[q] = i
        BY <1>1, <1>2, <2>3
      <3>2. /\ j > line[q] => request[q][j] = "none"
            /\ j >= line[q] => told[q][j] = "nothing"
            /\ j < line[q] /\ request[q][j] \in {"arrived", "pushed"} => told[q][j] = "error"
        BY DEF IntakeInv, RequestInv
      <3> HIDE DEF i
      <3>3. QED BY <2>t, <2>3, <3>1, <3>2
    <2>4. QED BY <2>1, <2>2, <2>3
  <1>5. told[s][i] = "nothing"
    <2>1. i >= i /\ i \in Lines(s)
      BY DEF IntakeInv, TypeInv
    <2>2. QED BY <2>1 DEF IntakeInv, RequestInv
  <1>6. request[s][i] = "none" => request' = request
    OBVIOUS
  <1>7. ASSUME NEW q \in Senders, NEW j \in Lines(q)
        PROVE  /\ told[q][j] = "error" => told'[q][j] = "error"
               /\ told'[q][j] = "counted" => told[q][j] = "counted" \/ request[q][j] = "pushed"
               /\ request[q][j] \in {"pushed", "ended"} => request'[q][j] \in {"pushed", "ended"}
               /\ request'[q][j] = "pushed" => request[q][j] = "pushed"
    BY <1>1, <1>2, <1>5
  <1>8. QED BY <1>3, <1>4, <1>7, TablesStep

\* Every step keeps IntakeInv.
LEMMA IntakeStep == IntakeInv /\ [Next]_vars => IntakeInv'
  <1> SUFFICES ASSUME IntakeInv, [Next]_vars PROVE IntakeInv'
    OBVIOUS
  <1>t. /\ TypeInv /\ TypeOK
        /\ line \in [Senders -> Nat]
        /\ at \in [Senders -> {"next", "waiting", "done"}]
        /\ request = [q \in Senders |-> request[q]]
        /\ \A q \in Senders : request[q] \in [Lines(q) -> Requests]
        /\ told = [q \in Senders |-> told[q]]
        /\ \A q \in Senders : told[q] \in [Lines(q) -> Told]
        /\ \A q \in Senders : line[q] \in 1 .. MaxLines[q] + 1
        /\ taken \in Seq(Signals) /\ queue \in Seq(Signals)
    BY DEF IntakeInv, TypeInv, TypeOK, Told, Requests
  <1>1. ASSUME NEW s \in Senders, EndOfFile(s) PROVE IntakeInv'
    <2>1. /\ \A q \in Senders : at'[q] = at[q] \/ at'[q] = "done"
          /\ at' \in [Senders -> {"next", "waiting", "done"}]
          /\ UNCHANGED <<bridge, line, told, request, queue, raw, restarts, taken, dropped>>
      BY <1>1, <1>t DEF EndOfFile
    <2>2. TypeInv'
      BY <1>t, <2>1 DEF TypeInv, TypeOK
    <2>3. RequestInv'
      BY <2>1 DEF IntakeInv, RequestInv
    <2>4. QED BY <2>1, <2>2, <2>3, TablesStep
  <1>2. ASSUME NEW s \in Senders, SkipLine(s) PROVE IntakeInv'
    <2>1. /\ at[s] = "next" /\ line[s] \in Lines(s)
          /\ line' = [line EXCEPT ![s] = line[s] + 1]
          /\ UNCHANGED <<bridge, at, told, request, queue, raw, restarts, taken, dropped>>
      BY <1>2 DEF SkipLine
    <2>2. /\ line' \in [Senders -> Nat]
          /\ line'[s] = line[s] + 1
          /\ \A q \in Senders \ {s} : line'[q] = line[q]
      BY <1>t, <2>1
    <2>3. \A q \in Senders : line'[q] \in 1 .. MaxLines[q] + 1
      <3>1. line[s] + 1 \in 1 .. MaxLines[s] + 1
        BY <2>1, IntakeAssumption DEF Lines
      <3>2. QED BY <1>t, <2>2, <3>1
    <2>4. \A q \in Senders : at'[q] = "waiting" => line'[q] \in Lines(q)
      BY <1>t, <2>1, <2>2 DEF TypeInv
    <2>5. TypeInv'
      BY <1>t, <2>1, <2>2, <2>3, <2>4, TablesTypes
    <2>6. RequestInv'
      <3> SUFFICES ASSUME NEW q \in Senders, NEW j \in Lines(q)
                   PROVE  /\ j > line'[q] \/ (j = line'[q] /\ at[q] = "next")
                                => request[q][j] = "none"
                          /\ j >= line'[q] => told[q][j] = "nothing"
                          /\ j < line'[q] /\ request[q][j] \in {"arrived", "pushed"}
                                => told[q][j] = "error"
        BY <2>1 DEF RequestInv
      <3>1. j \in Nat /\ line[q] \in Nat
        BY <1>t DEF Lines
      <3>2. QED BY <2>1, <2>2, <3>1 DEF IntakeInv, RequestInv
    <2>7. QED BY <2>1, <2>5, <2>6, TablesStep
  <1>3. ASSUME NEW s \in Senders, SendLine(s) PROVE IntakeInv'
    <2> DEFINE i == line[s]
    <2>1. /\ at[s] = "next" /\ i \in Lines(s)
          /\ request' = [request EXCEPT ![s][i] = "arrived"]
          /\ at' = [at EXCEPT ![s] = "waiting"]
          /\ UNCHANGED <<bridge, line, told, queue, raw, restarts, taken, dropped>>
      BY <1>3 DEF SendLine
    <2>2. /\ request' = [q \in Senders |-> request'[q]]
          /\ \A q \in Senders : request'[q] \in [Lines(q) -> Requests]
          /\ request'[s][i] = "arrived"
          /\ \A q \in Senders : \A j \in Lines(q) :
                request'[q][j] = request[q][j] \/ (q = s /\ j = i)
      <3>1. "arrived" \in Requests
        BY DEF Requests
      <3> HIDE DEF i
      <3>2. QED BY <1>t, <2>1, <3>1, RequestTypes
    <2>3. /\ at' \in [Senders -> {"next", "waiting", "done"}]
          /\ at'[s] = "waiting" /\ \A q \in Senders \ {s} : at'[q] = at[q]
      BY <1>t, <2>1
    <2>4. TypeInv'
      <3>1. \A q \in Senders : at'[q] = "waiting" => line'[q] \in Lines(q)
        BY <1>t, <2>1, <2>3 DEF TypeInv
      <3>2. QED BY <1>t, <2>1, <2>2, <2>3, <3>1, TablesTypes
    <2>5. request[s][i] = "none"
      BY <2>1 DEF IntakeInv, RequestInv
    <2>6. RequestInv'
      <3> SUFFICES ASSUME NEW q \in Senders, NEW j \in Lines(q)
                   PROVE  /\ j > line[q] \/ (j = line[q] /\ at'[q] = "next")
                                => request'[q][j] = "none"
                          /\ j >= line[q] => told[q][j] = "nothing"
                          /\ j < line[q] /\ request'[q][j] \in {"arrived", "pushed"}
                                => told[q][j] = "error"
        BY <2>1 DEF RequestInv
      <3>1. j \in Nat /\ line[q] \in Nat
        BY <1>t DEF Lines
      <3>2. QED BY <2>1, <2>2, <2>3, <3>1 DEF IntakeInv, RequestInv
    <2>7. ASSUME NEW q \in Senders, NEW j \in Lines(q)
          PROVE  /\ request[q][j] \in {"pushed", "ended"} => request'[q][j] \in {"pushed", "ended"}
                 /\ request'[q][j] = "pushed" => request[q][j] = "pushed"
      BY <2>2, <2>5
    <2>8. QED BY <2>1, <2>4, <2>6, <2>7, TablesStep
  <1>4. ASSUME NEW s \in Senders, DialFails(s) PROVE IntakeInv'
    <2>1. /\ at[s] = "next" /\ line[s] \in Lines(s) /\ Printed(s, "error") /\ "error" \in Told
          /\ request' = request
          /\ UNCHANGED <<bridge, queue, raw, restarts, taken, dropped>>
      BY <1>4 DEF DialFails, Told
    <2>2. QED BY <2>1, PrintedStep
  <1>5. ASSUME NEW s \in Senders, GiveUp(s) PROVE IntakeInv'
    <2>1. at[s] = "waiting" /\ Printed(s, "error") /\ "error" \in Told
          /\ UNCHANGED <<bridge, queue, raw, restarts, taken, dropped>>
      BY <1>5 DEF GiveUp, Told
    <2>2. line[s] \in Lines(s)
      BY <1>t, <2>1 DEF TypeInv
    <2>3. \/ request' = request
          \/ /\ request[s][line[s]] # "none"
             /\ request' = [request EXCEPT ![s][line[s]] = "ended"]
      BY <1>5 DEF GiveUp
    <2>4. QED BY <2>1, <2>2, <2>3, PrintedStep
  <1>6. ASSUME NEW s \in Senders, NoAnswer(s) PROVE IntakeInv'
    <2>1. /\ at[s] = "waiting" /\ request[s][line[s]] = "ended" /\ request' = request
          /\ UNCHANGED <<bridge, queue, raw, restarts, taken, dropped>>
      BY <1>6 DEF NoAnswer
    <2>2. line[s] \in Lines(s)
      BY <1>t, <2>1 DEF TypeInv
    <2>3. PICK outcome \in {"error", "queued"} : Printed(s, outcome)
      BY <1>6 DEF NoAnswer
    <2>4. outcome \in Told /\ outcome # "counted"
      BY <2>3 DEF Told
    <2>5. QED BY <2>1, <2>2, <2>3, <2>4, PrintedStep
  <1>7. ASSUME NEW s \in Senders, NEW i \in Lines(s), Push(s, i) PROVE IntakeInv'
    <2> DEFINE x == Signal(s, i)
    <2>1. /\ request[s][i] = "arrived"
          /\ queue' = Append(queue, x)
          /\ request' = [request EXCEPT ![s][i] = "pushed"]
          /\ UNCHANGED <<bridge, sender, raw, restarts, taken, dropped>>
      BY <1>7 DEF Push
    <2>2. x \in Signals /\ x.from = s /\ x.line = i
      BY SignalKinds
    <2>3. x \notin Pushed
      BY <2>1 DEF IntakeInv, PushedInv
    <2>4. /\ request' = [q \in Senders |-> request'[q]]
          /\ \A q \in Senders : request'[q] \in [Lines(q) -> Requests]
          /\ request'[s][i] = "pushed"
          /\ \A q \in Senders : \A j \in Lines(q) :
                request'[q][j] = request[q][j] \/ (q = s /\ j = i)
      <3>1. "pushed" \in Requests
        BY DEF Requests
      <3>2. QED BY <1>t, <2>1, <3>1, RequestTypes
    <2>5. ASSUME NEW k \in 1 .. Len(Stream), Stream[k].from = x.from, Stream[k].line > x.line
          PROVE  told[x.from][x.line] = "error"
      <3>1. Stream[k] \in Signals
        BY <1>t, StreamTypes
      <3>2. PICK j \in Lines(s) : Stream[k] = Signal(s, j)
        BY <2>2, <2>5, <3>1, SignalKinds, IntakeAssumption
      <3>3. j > i
        BY <2>2, <2>5, <3>2, SignalKinds
      <3>4. request[s][j] # "none"
        <4>1. Signal(s, j) \in Pushed
          BY <3>2 DEF Pushed, Elements
        <4>2. QED BY <4>1 DEF IntakeInv, PushedInv
      <3>5. i < line[s]
        <4>1. j \in Nat /\ i \in Nat /\ line[s] \in Nat
          BY <1>t DEF Lines
        <4>2. j <= line[s]
          BY <3>4, <4>1 DEF IntakeInv, RequestInv
        <4>3. QED BY <3>3, <4>1, <4>2
      <3>6. QED BY <2>1, <2>2, <3>5 DEF IntakeInv, RequestInv
    <2>6. x.from # "raw"
      BY <2>2, IntakeAssumption
    <2>7. UNCHANGED told
      BY <2>1 DEF sender
    <2> HIDE DEF x
    <2>8. Pushed' = Pushed \cup {x} /\ queue' \in Seq(Signals) /\ OnceInv' /\ OrderInv'
      BY <2>1, <2>2, <2>3, <2>5, <2>6, <2>7, PushStep
    <2>9. TypeInv'
      BY <1>t, <2>1, <2>4, <2>8 DEF TypeInv, TypeOK, Requests, sender
    <2>10. RequestInv'
      BY <2>1, <2>4 DEF IntakeInv, RequestInv, sender
    <2>11. PushedInv'
      <3>1. \A q \in Senders : \A j \in Lines(q) : Signal(q, j) = x => q = s /\ j = i
        BY SignalKinds DEF x
      <3>2. \A j \in 1 .. MaxRaw : Raw(j) # x
        BY SignalKinds DEF x
      <3>3. \A q \in Senders : \A j \in Lines(q) :
               /\ Signal(q, j) \in Pushed' => request'[q][j] \in {"pushed", "ended"}
               /\ request'[q][j] = "pushed" => Signal(q, j) \in Pushed'
        BY <2>4, <2>8, <3>1 DEF IntakeInv, PushedInv, x
      <3>4. QED BY <2>1, <2>8, <3>2, <3>3 DEF IntakeInv, PushedInv
    <2>12. CountedIsPushed'
      BY <2>7, <2>8 DEF IntakeInv, CountedIsPushed, Pushed
    <2>13. QED BY <2>8, <2>9, <2>10, <2>11, <2>12 DEF IntakeInv
  <1>8. ASSUME NEW s \in Senders, NEW i \in Lines(s), Reject(s, i) \/ Answer(s, i)
        PROVE  IntakeInv'
    <2>1. PICK size \in Nat :
             /\ Answered(s, i, size)
             /\ request[s][i] \in {"arrived", "pushed"}
             /\ size # 0 => request[s][i] = "pushed"
      <3>1. Len(queue) \in Nat
        BY <1>t, LenProperties
      <3>2. QED BY <1>8, <3>1 DEF Reject, Answer
    <2>2. /\ request' = [request EXCEPT ![s][i] = "ended"]
          /\ UNCHANGED <<bridge, queue, raw, restarts, taken, dropped>>
      BY <1>8 DEF Reject, Answer
    <2>3. /\ request' = [q \in Senders |-> request'[q]]
          /\ \A q \in Senders : request'[q] \in [Lines(q) -> Requests]
          /\ request'[s][i] = "ended"
          /\ \A q \in Senders : \A j \in Lines(q) :
                request'[q][j] = request[q][j] \/ (q = s /\ j = i)
      <3>1. "ended" \in Requests
        BY DEF Requests
      <3>2. QED BY <1>t, <2>2, <3>1, RequestTypes
    <2>4. CASE Awaits(s, i)
      <3> DEFINE outcome == IF size = 0 THEN "queued" ELSE "counted"
      <3>1. Printed(s, outcome) /\ outcome \in Told
        BY <2>1, <2>4 DEF Answered, Told
      <3>2. line[s] = i /\ at[s] = "waiting" /\ line[s] \in Lines(s)
        BY <2>4 DEF Awaits
      <3>3. outcome = "counted" => request[s][i] = "pushed"
        BY <2>1
      <3> HIDE DEF outcome
      <3>4. QED BY <2>1, <2>2, <2>3, <3>1, <3>2, <3>3, PrintedStep
    <2>5. CASE ~Awaits(s, i)
      <3>1. UNCHANGED <<line, at, told>>
        BY <2>1, <2>5 DEF Answered, sender
      <3>2. TypeInv'
        BY <1>t, <2>2, <2>3, <3>1 DEF TypeInv, TypeOK, Requests
      <3>3. RequestInv'
        <4>1. ~(i > line[s] \/ (i = line[s] /\ at[s] = "next"))
          BY <2>1 DEF IntakeInv, RequestInv
        <4>2. QED BY <2>3, <3>1, <4>1 DEF IntakeInv, RequestInv
      <3>4. ASSUME NEW q \in Senders, NEW j \in Lines(q)
            PROVE  /\ request[q][j] \in {"pushed", "ended"} => request'[q][j] \in {"pushed", "ended"}
                   /\ request'[q][j] = "pushed" => request[q][j] = "pushed"
        BY <2>3
      <3>5. QED BY <2>2, <3>1, <3>2, <3>3, <3>4, TablesStep
    <2>6. QED BY <2>4, <2>5
  <1>9. CASE HandleRaw
    <2> DEFINE x == Raw(raw + 1)
    <2>1. /\ raw < MaxRaw /\ raw' = raw + 1
          /\ queue' = Append(queue, x)
          /\ UNCHANGED <<bridge, sender, request, restarts, taken, dropped>>
      BY <1>9 DEF HandleRaw
    <2>2. raw \in 0 .. MaxRaw /\ raw + 1 \in 1 .. MaxRaw
      BY <1>t, <2>1, IntakeAssumption DEF TypeOK
    <2>3. x \in Signals /\ x.from = "raw" /\ x.line = raw + 1
      BY <2>2, SignalKinds
    <2>4. x \notin Pushed
      BY <2>2 DEF IntakeInv, PushedInv
    <2>5. ASSUME NEW k \in 1 .. Len(Stream), Stream[k].from = "raw"
          PROVE  Stream[k].line < x.line
      <3>1. Stream[k] \in Signals
        BY <1>t, StreamTypes
      <3>2. PICK j \in 1 .. MaxRaw : Stream[k] = Raw(j)
        BY <2>5, <3>1, SignalKinds, IntakeAssumption
      <3>3. Raw(j) \in Pushed
        BY <3>2 DEF Pushed, Elements
      <3>4. j <= raw
        BY <3>3 DEF IntakeInv, PushedInv
      <3>5. QED BY <2>2, <2>3, <3>2, <3>4, SignalKinds
    <2>6. \A k \in 1 .. Len(Stream) :
             Stream[k].from = x.from /\ Stream[k].line > x.line
                => told[x.from][x.line] = "error"
      <3> SUFFICES ASSUME NEW k \in 1 .. Len(Stream), Stream[k].from = x.from,
                          Stream[k].line > x.line
                   PROVE  FALSE
        OBVIOUS
      <3>1. Stream[k] \in Signals
        BY <1>t, StreamTypes
      <3>2. PICK j \in 1 .. MaxRaw : Stream[k] = Raw(j)
        BY <2>3, <3>1, SignalKinds, IntakeAssumption
      <3>3. Stream[k].line = j
        BY <3>2, SignalKinds
      <3> HIDE DEF x
      <3>4. QED BY <2>2, <2>3, <2>5, <3>3
    <2>7. UNCHANGED told
      BY <2>1 DEF sender
    <2> HIDE DEF x
    <2>8. Pushed' = Pushed \cup {x} /\ queue' \in Seq(Signals) /\ OnceInv' /\ OrderInv'
      BY <2>1, <2>3, <2>4, <2>5, <2>6, <2>7, PushStep
    <2>9. TypeInv'
      BY <1>t, <2>1, <2>2, <2>8 DEF TypeInv, TypeOK, sender
    <2>10. RequestInv'
      BY <2>1 DEF IntakeInv, RequestInv, sender
    <2>11. PushedInv'
      <3>1. \A q \in Senders : \A j \in Lines(q) : Signal(q, j) # x
        BY <2>2, SignalKinds DEF x
      <3>2. \A j \in 1 .. MaxRaw : Raw(j) = x => j = raw + 1
        BY <2>2, SignalKinds DEF x
      <3>3. \A j \in 1 .. MaxRaw : Raw(j) \in Pushed' => j <= raw'
        BY <2>1, <2>2, <2>8, <3>2 DEF IntakeInv, PushedInv
      <3>4. QED BY <2>1, <2>8, <3>1, <3>3 DEF IntakeInv, PushedInv
    <2>12. CountedIsPushed'
      BY <2>7, <2>8 DEF IntakeInv, CountedIsPushed, Pushed
    <2>13. QED BY <2>8, <2>9, <2>10, <2>11, <2>12 DEF IntakeInv
  <1>10. CASE Restart \/ Clear
    <2>1. /\ queue' = <<>> /\ taken' = taken /\ dropped' = dropped \cup Elements(queue)
          /\ UNCHANGED <<bridge, sender, raw>>
          /\ restarts' \in 0 .. MaxRestarts
      BY <1>10, <1>t, IntakeAssumption DEF Restart, Clear, TypeOK
    <2>2. /\ request' = [q \in Senders |-> request'[q]]
          /\ \A q \in Senders : request'[q] \in [Lines(q) -> Requests]
          /\ \A q \in Senders : \A j \in Lines(q) :
                \/ request'[q][j] = request[q][j]
                \/ request[q][j] # "none" /\ request'[q][j] = "ended"
      <3>1. CASE Restart
        BY <1>t, <3>1 DEF Restart, Requests
      <3>2. CASE Clear
        BY <1>t, <3>2 DEF Clear
      <3>3. QED BY <1>10, <3>1, <3>2
    <2>3. UNCHANGED <<line, at, told>>
      BY <2>1 DEF sender
    <2>4. /\ Pushed' = Pushed
          /\ queue' \in Seq(Signals) /\ dropped' \subseteq Signals
          /\ OnceInv' /\ OrderInv'
      BY <2>1, <2>3, DropStep
    <2>5. TypeInv'
      BY <1>t, <2>1, <2>2, <2>3, <2>4 DEF TypeInv, TypeOK, Requests
    <2>6. RequestInv'
      BY <2>2, <2>3 DEF IntakeInv, RequestInv
    <2>7. PushedInv'
      BY <2>1, <2>2, <2>4 DEF IntakeInv, PushedInv
    <2>8. CountedIsPushed'
      BY <2>3, <2>4 DEF IntakeInv, CountedIsPushed, Pushed
    <2>9. QED BY <2>4, <2>5, <2>6, <2>7, <2>8 DEF IntakeInv
  <1>11. CASE Pop \/ Drain
    <2>1. Stream' = Stream /\ taken' \in Seq(Signals) /\ queue' \in Seq(Signals)
      BY <1>11, <1>t, PopKeepsStream, DrainKeepsStream
    <2>2. UNCHANGED <<bridge, line, at, told, request, raw, restarts, dropped>>
      BY <1>11 DEF Pop, Drain, sender
    <2>3. Pushed' = Pushed /\ OnceInv' /\ OrderInv'
      BY <2>1, <2>2, QuietStep
    <2>4. TypeInv'
      BY <1>t, <2>1, <2>2 DEF TypeInv, TypeOK
    <2>5. RequestInv' /\ PushedInv'
      BY <2>2, <2>3 DEF IntakeInv, RequestInv, PushedInv
    <2>6. CountedIsPushed'
      BY <2>2, <2>3 DEF IntakeInv, CountedIsPushed, Pushed
    <2>7. QED BY <2>3, <2>4, <2>5, <2>6 DEF IntakeInv
  <1>12. CASE UNCHANGED vars
    <2>1. UNCHANGED <<bridge, line, at, told, request, queue, raw, restarts, taken, dropped>>
      BY <1>12 DEF vars, sender
    <2>2. TypeInv'
      BY <1>t, <2>1 DEF TypeInv, TypeOK
    <2>3. RequestInv'
      BY <2>1 DEF IntakeInv, RequestInv
    <2>4. QED BY <2>1, <2>2, <2>3, TablesStep
  <1>13. QED
    BY <1>1, <1>2, <1>3, <1>4, <1>5, <1>6, <1>7, <1>8, <1>9, <1>10, <1>11, <1>12
       DEF Next, Send, Serve, Rest

\* The bridge and its senders start with nothing sent.
LEMMA IntakeInit == Init => IntakeInv
  <1> SUFFICES ASSUME Init PROVE IntakeInv
    OBVIOUS
  <1>1. TypeInv
    BY IntakeAssumption, EmptySeq DEF Init, TypeInv, TypeOK, Lines
  <1>2. Stream = <<>> /\ Len(Stream) = 0
    BY EmptySeq, ConcatEmptySeq DEF Init, Stream
  <1>3. Elements(Stream) = {} /\ Pushed = {}
    BY <1>2 DEF Init, Pushed, Elements
  <1>4. RequestInv /\ PushedInv
    BY <1>3 DEF Init, RequestInv, PushedInv
  <1>5. OnceInv /\ OrderInv
    BY <1>2, <1>3 DEF OnceInv, OrderInv, InOrder
  <1>6. CountedIsPushed
    BY DEF Init, CountedIsPushed
  <1>7. QED BY <1>1, <1>4, <1>5, <1>6 DEF IntakeInv

\* IntakeTypeCorrect: every variable of the intake keeps its type.
THEOREM IntakeTypeCorrect == Spec => []TypeOK
  <1>1. IntakeInv => TypeOK
    BY DEF IntakeInv, TypeInv
  <1>2. QED BY IntakeInit, IntakeStep, <1>1, PTL DEF Spec

-----------------------------------------------------------------------------
\* SignalsAreNeverDoubled: whatever interleaving of pushes with Pop, Drain and
\* Clear, no signal is in the queue twice, or both taken and still queued, or taken
\* and dropped (signal/queue.go:59).
THEOREM SignalsAreNeverDoubled == Spec => []EachOnce
  <1>1. IntakeInv => EachOnce
    <2> SUFFICES ASSUME IntakeInv PROVE EachOnce
      OBVIOUS
    <2>1. Stream \in Seq(Signals)
      BY StreamTypes DEF IntakeInv, TypeInv, TypeOK
    <2>2. Len(Stream) = Cardinality(Elements(Stream))
      BY <2>1, DistinctCount DEF IntakeInv, OnceInv, Elements
    <2>3. QED BY <2>2 DEF IntakeInv, OnceInv, EachOnce
  <1>2. QED BY IntakeInit, IntakeStep, <1>1, PTL DEF Spec

\* LinesStayInOrder: a sender's lines reach the reader in their order, but for the
\* ones it gave up on (cmd/sender/main.go:188): it waits for one before the next.
THEOREM LinesStayInOrder == Spec => []InOrder
  <1>1. IntakeInv => InOrder
    BY DEF IntakeInv, OrderInv
  <1>2. QED BY IntakeInit, IntakeStep, <1>1, PTL DEF Spec

\* CountedLinesArePushed: what the sender prints with the size of the queue has
\* been pushed, though a refused line is printed as queued too.
THEOREM CountedLinesArePushed == Spec => []CountedIsPushed
  <1>1. IntakeInv => CountedIsPushed
    BY DEF IntakeInv
  <1>2. QED BY IntakeInit, IntakeStep, <1>1, PTL DEF Spec
=============================================================================
