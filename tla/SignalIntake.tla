---------------------------- MODULE SignalIntake ----------------------------
(***************************************************************************)
(* A bridge's queue (signal/queue.go) between those who fill it and those  *)
(* who empty it. cmd/sender sends the lines of a file (-batch), or the     *)
(* same signal again and again (-loop), one request at a time and without  *)
(* retries; cmd/http, or cmd/tcp for the TCP transport, parses a request,  *)
(* pushes the signal and answers with the queue's size. A request is a     *)
(* connection of its own, served by a goroutine of its own, which goes on  *)
(* when the sender has given up.                                           *)
(***************************************************************************)
EXTENDS Naturals, Sequences, FiniteSets

CONSTANTS Senders,     \* runs of cmd/sender
          Mode,        \* [Senders -> {"batch", "loop"}]
          MaxLines,    \* [Senders -> Nat]: lines of its file, or turns of its loop
          MaxRaw,      \* requests to /raw
          MaxRestarts  \* of the bridge

ASSUME IntakeAssumption == /\ "raw" \notin Senders
                           /\ Mode \in [Senders -> {"batch", "loop"}]
                           /\ MaxLines \in [Senders -> Nat]
                           /\ {MaxRaw, MaxRestarts} \subseteq Nat

VARIABLES bridge,  \* "http" or "tcp": the program the senders talk to
          line,    \* [Senders -> Nat]: the line being sent
          at,      \* [Senders -> {"next", "waiting", "done"}]
          told,    \* [Senders -> [lines -> what is printed of the line]]: an error,
                   \* "queued" without a queue size (or 0) or "counted" with one
          request, \* [Senders -> [lines -> the server's side of the request]]
          queue,   \* signals, oldest first
          raw,     \* signals pushed by /raw so far
          restarts,
          taken,   \* history: signals the reader of the queue has taken, in order
          dropped  \* history: signals removed by DELETE or lost with the process

sender == <<line, at, told>>
vars   == <<bridge, sender, request, queue, raw, restarts, taken, dropped>>

Lines(s) == 1 .. MaxLines[s]
Signal(s, i) == [from |-> s, line |-> i]
Raw(i)       == [from |-> "raw", line |-> i]
Elements(q)  == {q[i] : i \in 1 .. Len(q)}

\* The signals in the order in which they were pushed, but for the dropped ones.
Stream == taken \o queue

Init == /\ bridge \in {"http", "tcp"}
        /\ line = [s \in Senders |-> 1]
        /\ at = [s \in Senders |-> "next"]
        /\ told = [s \in Senders |-> [i \in Lines(s) |-> "nothing"]]
        /\ request = [s \in Senders |-> [i \in Lines(s) |-> "none"]]
        /\ queue = <<>> /\ raw = 0 /\ restarts = 0
        /\ taken = <<>> /\ dropped = {}

-----------------------------------------------------------------------------
(* cmd/sender *)

\* The send of the line has returned; a loop ends at its first error, a batch
\* prints it and goes on.
Printed(s, outcome) ==
    /\ told' = [told EXCEPT ![s][line[s]] = outcome]
    /\ line' = [line EXCEPT ![s] = @ + 1]
    /\ at' = [at EXCEPT ![s] = IF Mode[s] = "loop" /\ outcome = "error"
                               THEN "done" ELSE "next"]

EndOfFile(s) == /\ at[s] = "next" /\ line[s] > MaxLines[s]
                /\ at' = [at EXCEPT ![s] = "done"]
                /\ UNCHANGED <<bridge, line, told, request, queue, raw, restarts, taken, dropped>>

\* An empty line, a comment or one that is not JSON.
SkipLine(s) == /\ at[s] = "next" /\ line[s] \in Lines(s)
               /\ Mode[s] = "batch"
               /\ line' = [line EXCEPT ![s] = @ + 1]
               /\ UNCHANGED <<bridge, at, told, request, queue, raw, restarts, taken, dropped>>

\* A goroutine per line.
SendAndGoOn(s) ==
    /\ at[s] = "next" /\ line[s] \in Lines(s)
    /\ request' = [request EXCEPT ![s][line[s]] = "arrived"]
    /\ line' = [line EXCEPT ![s] = @ + 1]
    /\ UNCHANGED <<bridge, at, told, queue, raw, restarts, taken, dropped>>

\* http.Post, or DialTimeout and Write.
SendLine(s) ==
    /\ at[s] = "next" /\ line[s] \in Lines(s)
    /\ request' = [request EXCEPT ![s][line[s]] = "arrived"]
    /\ at' = [at EXCEPT ![s] = "waiting"]
    /\ UNCHANGED <<bridge, line, told, queue, raw, restarts, taken, dropped>>

DialFails(s) ==
    /\ at[s] = "next" /\ line[s] \in Lines(s)
    /\ Printed(s, "error")
    /\ UNCHANGED <<bridge, request, queue, raw, restarts, taken, dropped>>

\* The connection breaks, or the read deadline of the TCP transport passes: the
\* request may have been lost on the way, or be served all the same.
GiveUp(s) ==
    /\ at[s] = "waiting"
    /\ Printed(s, "error")
    /\ \/ UNCHANGED request
       \/ /\ request[s][line[s]] = "arrived"
          /\ request' = [request EXCEPT ![s][line[s]] = "ended"]
    /\ UNCHANGED <<bridge, queue, raw, restarts, taken, dropped>>

\* A sender that does not notice.
WaitOn(s) == FALSE /\ UNCHANGED vars

\* The bridge closed the connection without an answer. sendTCP takes io.EOF for
\* an answer of no bytes, which it prints as queued.
NoAnswer(s) ==
    /\ at[s] = "waiting" /\ request[s][line[s]] = "ended"
    /\ \/ Printed(s, "error")
       \/ bridge = "tcp" /\ Printed(s, "queued")
    /\ UNCHANGED <<bridge, request, queue, raw, restarts, taken, dropped>>

-----------------------------------------------------------------------------
(* handleSignal of cmd/http; handleConn and processSignal of cmd/tcp *)

Awaits(s, i) == at[s] = "waiting" /\ line[s] = i

\* What the sender prints if it still waits for this request.
Answered(s, i, n) == IF Awaits(s, i)
                     THEN Printed(s, IF n = 0 THEN "queued" ELSE "counted")
                     ELSE UNCHANGED sender

\* The answer is written, and the signal pushed, by different goroutines.
AnswerFirst(s, i) ==
    /\ request[s][i] = "arrived"
    /\ Answered(s, i, Len(queue) + 1)
    /\ request' = [request EXCEPT ![s][i] = "late"]
    /\ UNCHANGED <<bridge, queue, raw, restarts, taken, dropped>>
PushLate(s, i) ==
    /\ request[s][i] = "late"
    /\ queue' = Append(queue, Signal(s, i))
    /\ request' = [request EXCEPT ![s][i] = "ended"]
    /\ UNCHANGED <<bridge, sender, raw, restarts, taken, dropped>>
PushInBackground(s, i) == AnswerFirst(s, i) \/ PushLate(s, i)

\* ParseSignal, then q.Push.
Push(s, i) ==
    /\ request[s][i] = "arrived"
    /\ queue' = Append(queue, Signal(s, i))
    /\ request' = [request EXCEPT ![s][i] = "pushed"]
    /\ UNCHANGED <<bridge, sender, raw, restarts, taken, dropped>>

\* No return after the error: the answer carries the size of the queue.
RejectWithSize(s, i) ==
    /\ request[s][i] = "arrived"
    /\ request' = [request EXCEPT ![s][i] = "ended"]
    /\ Answered(s, i, Len(queue))
    /\ UNCHANGED <<bridge, queue, raw, restarts, taken, dropped>>

\* A body over the limit is cut off and does not parse: the HTTP bridge answers
\* with an error and status 200, in which sendHTTP finds no size; the TCP bridge
\* closes the connection, which sendTCP prints as queued.
Reject(s, i) ==
    /\ request[s][i] = "arrived"
    /\ request' = [request EXCEPT ![s][i] = "ended"]
    /\ Answered(s, i, 0)
    /\ UNCHANGED <<bridge, queue, raw, restarts, taken, dropped>>

\* q.Size() and the answer.
Answer(s, i) ==
    /\ request[s][i] = "pushed"
    /\ request' = [request EXCEPT ![s][i] = "ended"]
    /\ Answered(s, i, Len(queue))
    /\ UNCHANGED <<bridge, queue, raw, restarts, taken, dropped>>

\* A pipe-separated signal of another client. One of less than two fields is
\* answered with status 400; one of two makes the handler panic, which net/http
\* recovers from: neither changes anything.
HandleRaw ==
    /\ bridge = "http"
    /\ raw < MaxRaw
    /\ raw' = raw + 1
    /\ queue' = Append(queue, Raw(raw + 1))
    /\ UNCHANGED <<bridge, sender, request, restarts, taken, dropped>>

Restart ==
    /\ restarts < MaxRestarts
    /\ restarts' = restarts + 1
    /\ request' = [s \in Senders |-> [i \in Lines(s) |->
                     IF request[s][i] = "none" THEN "none" ELSE "ended"]]
    /\ dropped' = dropped \cup Elements(queue)
    /\ queue' = <<>>
    /\ UNCHANGED <<bridge, sender, raw, taken>>

-----------------------------------------------------------------------------
(* The queue's other operations: Pop and Drain for the reader, which is not   *)
(* in the repository, and Clear for DELETE /queue.                            *)

Pop == /\ queue # <<>>
       /\ taken' = Append(taken, Head(queue))
       /\ queue' = Tail(queue)
       /\ UNCHANGED <<bridge, sender, request, raw, restarts, dropped>>

\* A copy that leaves the signals where they are.
Copy == /\ queue # <<>>
        /\ Len(taken) <= MaxRaw
        /\ taken' = taken \o queue
        /\ UNCHANGED <<bridge, sender, request, queue, raw, restarts, dropped>>

Drain == /\ queue # <<>>
         /\ taken' = taken \o queue
         /\ queue' = <<>>
         /\ UNCHANGED <<bridge, sender, request, raw, restarts, dropped>>

Clear == /\ bridge = "http"
         /\ queue # <<>>
         /\ dropped' = dropped \cup Elements(queue)
         /\ queue' = <<>>
         /\ UNCHANGED <<bridge, sender, request, raw, restarts, taken>>

-----------------------------------------------------------------------------
Send(s)     == SkipLine(s) \/ SendLine(s) \/ DialFails(s) \/ EndOfFile(s)
Serve(s, i) == Push(s, i) \/ Reject(s, i) \/ Answer(s, i)

\* Every sender has ended; the bridge waits for requests.
Rest == /\ \A s \in Senders : at[s] = "done"
        /\ UNCHANGED vars

Next == \/ \E s \in Senders : \/ Send(s) \/ GiveUp(s) \/ NoAnswer(s)
                              \/ \E i \in Lines(s) : Serve(s, i)
        \/ HandleRaw \/ Restart
        \/ Pop \/ Drain \/ Clear
        \/ Rest

\* A sender goes on to its next line; net/http and Go run every handler to its
\* end; a connection the bridge has closed is seen by the sender.
Fairness == \A s \in Senders : /\ WF_vars(Send(s)) /\ WF_vars(NoAnswer(s))
                               /\ \A i \in Lines(s) : WF_vars(Serve(s, i))

Spec == Init /\ [][Next]_vars /\ Fairness

-----------------------------------------------------------------------------
(* Properties *)

Signals == (UNION {{Signal(s, i) : i \in Lines(s)} : s \in Senders})
           \cup {Raw(i) : i \in 1 .. MaxRaw}

TypeOK ==
    /\ bridge \in {"http", "tcp"}
    /\ at \in [Senders -> {"next", "waiting", "done"}]
    /\ \A s \in Senders :
          /\ line[s] \in 1 .. MaxLines[s] + 1
          /\ told[s] \in [Lines(s) -> {"nothing", "queued", "counted", "error"}]
          /\ request[s] \in [Lines(s) -> {"none", "arrived", "pushed", "ended"}]
    /\ queue \in Seq(Signals) /\ taken \in Seq(Signals)
    /\ dropped \subseteq Signals
    /\ raw \in 0 .. MaxRaw /\ restarts \in 0 .. MaxRestarts

\* A signal is in one place: in the queue, taken or dropped, and there once. No
\* interleaving of pushes with Pop, Drain and Clear loses or duplicates one, and
\* nobody sends a line again.
EachOnce ==
    /\ Len(Stream) = Cardinality(Elements(Stream))
    /\ Elements(Stream) \cap dropped = {}

\* The lines of a sender reach the reader in their order, but for a line the
\* sender had given up on, which may arrive behind later ones.
InOrder ==
    \A i, j \in 1 .. Len(Stream) :
       (/\ i < j
        /\ Stream[i].from = Stream[j].from
        /\ Stream[i].line > Stream[j].line)
       => told[Stream[j].from][Stream[j].line] = "error"

\* A line printed as queued with a size was pushed. One printed as queued without
\* a size may be a refused one (HTTP 200 with an error, or EOF on TCP).
CountedIsPushed ==
    \A s \in Senders : \A i \in Lines(s) :
        told[s][i] = "counted" => Signal(s, i) \in Elements(Stream) \cup dropped

\* A sender gets through all of its lines or turns, or ends at an error: each
\* request is answered or its connection ends, and no error is tried again.
SendersEnd == \A s \in Senders : <>(at[s] = "done")
=============================================================================
