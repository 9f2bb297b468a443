----------------------------- MODULE RelaySender -----------------------------
(***************************************************************************)
(* cmd/relay/main.go: every client of the relay has a goroutine that reads *)
(* its lines, forwards each over one connection to the server that all     *)
(* goroutines share, and answers.  sendToServer makes three attempts; it   *)
(* reads, replaces and closes the shared connection in critical sections   *)
(* of their own, and writes outside them.                                  *)
(*                                                                         *)
(* The network between the relay and the server is external.  A line       *)
(* handed to the kernel is in transit until the server reads it or it is   *)
(* lost; lines in transit are a set, so their order is not modelled.       *)
(***************************************************************************)
EXTENDS Naturals, FiniteSets

CONSTANTS Clients,      \* peers of the relay, one handleConn goroutine each
          Conns,        \* names of connections to the server, used again
          NoConn,       \* Go's nil
          MaxLines,     \* bound: lines a client sends
          MaxAttempts,  \* of sendToServer (3 in the code)
          BufferSize    \* lines the buffers of a connection take

ASSUME NoConnAssumption   == NoConn \notin Conns
ASSUME AttemptsAssumption == MaxAttempts \in Nat \ {0}
ASSUME BoundsAssumption   == MaxLines \in Nat /\ BufferSize \in Nat \ {0}

VARIABLES serverConn,  \* the shared connection, under serverMu
          conn,        \* [Conns -> ConnStates]
          h,           \* [Clients -> the goroutine's step and locals]
          reply,       \* [Lines -> the answer to the line]
          transit,     \* writes the kernel took and the server has not read
          arrived      \* writes the server has read

vars == <<serverConn, conn, h, reply, transit, arrived>>

Lines == Clients \X (1 .. MaxLines)

\* dropped: the server or the network ended it, the relay does not know yet;
\* ended: the reader goroutine closed it; closed: a sender closed it.
ConnStates == {"unused", "open", "dropped", "ended", "closed"}

Steps == {"read", "load", "write", "clear", "dial", "store", "writeNew", "clearNew"}

\* One write: its line, the attempt and the step it was made in, and the
\* connection.
Writes == [line : Lines, attempt : 1 .. MaxAttempts, conn : Conns,
           step : {"write", "writeNew"}]

Current(p) == <<p, h[p].line>>

Init == /\ serverConn = NoConn
        /\ conn = [c \in Conns |-> "unused"]
        /\ h = [p \in Clients |->
                  [pc |-> "read", line |-> 0, attempt |-> 1, mine |-> NoConn]]
        /\ reply = [l \in Lines |-> "none"]
        /\ transit = {} /\ arrived = {}

\* The next step of the same attempt, holding connection c.
Goto(p, step, c) ==
    h' = [h EXCEPT ![p] = [pc |-> step, line |-> h[p].line,
                           attempt |-> h[p].attempt, mine |-> c]]

-----------------------------------------------------------------------------
(* handleConn *)

Answer(p, line, answer) ==
    /\ reply' = [reply EXCEPT ![<<p, line>>] = answer]
    /\ h' = [h EXCEPT ![p] =
                [pc |-> "read", line |-> line, attempt |-> 1, mine |-> NoConn]]

\* A line that is neither JSON nor fields with an action or a side.
ReadInvalid(p) ==
    /\ h[p].pc = "read" /\ h[p].line < MaxLines
    /\ Answer(p, h[p].line + 1, "error")
    /\ UNCHANGED <<serverConn, conn, transit, arrived>>

ReadSignal(p) ==
    /\ h[p].pc = "read" /\ h[p].line < MaxLines
    /\ h' = [h EXCEPT ![p].pc = "load", ![p].line = @ + 1]
    /\ UNCHANGED <<serverConn, conn, reply, transit, arrived>>

-----------------------------------------------------------------------------
(* sendToServer *)

\* One attempt too many.
RetryOnceMore(p) ==
    IF h[p].attempt > MaxAttempts
    THEN Answer(p, h[p].line, "error")
    ELSE /\ h' = [h EXCEPT ![p] =
                      [pc |-> "load", line |-> h[p].line,
                       attempt |-> h[p].attempt + 1, mine |-> NoConn]]
         /\ UNCHANGED reply

\* An attempt that is not counted.
RetryForEver(p) ==
    /\ Goto(p, "load", NoConn)
    /\ UNCHANGED reply

\* The end of the loop's body: the next attempt, or the error.
Retry(p) ==
    IF h[p].attempt = MaxAttempts
    THEN Answer(p, h[p].line, "error")
    ELSE /\ h' = [h EXCEPT ![p] =
                      [pc |-> "load", line |-> h[p].line,
                       attempt |-> h[p].attempt + 1, mine |-> NoConn]]
         /\ UNCHANGED reply

LoadConn(p) ==
    /\ h[p].pc = "load"
    /\ Goto(p, IF serverConn = NoConn THEN "dial" ELSE "write", serverConn)
    /\ UNCHANGED <<serverConn, conn, reply, transit, arrived>>

\* A write to an open connection waits for room; one to a connection the peer
\* has dropped may succeed all the same, and goes nowhere.
HasRoom(c) == Cardinality({w \in transit : w.conn = c}) < BufferSize

Accept(p) ==
    \/ /\ conn[h[p].mine] = "open" /\ HasRoom(h[p].mine)
       /\ transit' = transit \cup {[line    |-> Current(p),
                                    attempt |-> h[p].attempt,
                                    conn    |-> h[p].mine,
                                    step    |-> h[p].pc]}
    \/ conn[h[p].mine] = "dropped" /\ UNCHANGED transit

\* A success on the stored connection that does not return.
WriteAndDial(p) ==
    /\ h[p].pc \in {"write", "writeNew"}
    /\ Accept(p)
    /\ IF h[p].pc = "write"
       THEN Goto(p, "dial", NoConn) /\ UNCHANGED reply
       ELSE Answer(p, h[p].line, "ok")
    /\ UNCHANGED <<serverConn, conn, arrived>>

\* Write succeeds, sendToServer returns nil, the client gets its answer.
Write(p) ==
    /\ h[p].pc \in {"write", "writeNew"}
    /\ Accept(p)
    /\ Answer(p, h[p].line, "ok")
    /\ UNCHANGED <<serverConn, conn, arrived>>

WriteFails(p) ==
    /\ h[p].pc \in {"write", "writeNew"}
    /\ conn[h[p].mine] # "open"
    /\ Goto(p, IF h[p].pc = "write" THEN "clear" ELSE "clearNew", h[p].mine)
    /\ UNCHANGED <<serverConn, conn, reply, transit, arrived>>

\* Close without the assignment of nil.
CloseStored ==
    /\ conn' = IF serverConn = NoConn THEN conn
               ELSE [conn EXCEPT ![serverConn] = "closed"]
    /\ UNCHANGED serverConn

\* Under the lock: close and forget whatever is stored now, which need not be
\* the connection whose write failed.  Closing twice changes nothing.
CloseAndForget ==
    /\ conn' = IF serverConn = NoConn \/ conn[serverConn] = "ended" THEN conn
               ELSE [conn EXCEPT ![serverConn] = "closed"]
    /\ serverConn' = NoConn

Clear(p) ==
    /\ \/ /\ h[p].pc = "clear"
          /\ Goto(p, "dial", NoConn)
          /\ UNCHANGED reply
       \/ /\ h[p].pc = "clearNew"
          /\ Retry(p)
    /\ CloseAndForget
    /\ UNCHANGED <<transit, arrived>>

\* A name nobody refers to any more may name the next connection.
Free(c) == /\ conn[c] \in {"unused", "ended", "closed"}
           /\ serverConn # c
           /\ \A p \in Clients : h[p].mine # c
           /\ \A w \in transit : w.conn # c

Dial(p) ==
    /\ h[p].pc = "dial"
    /\ \E c \in Conns : /\ Free(c)
                        /\ conn' = [conn EXCEPT ![c] = "open"]
                        /\ Goto(p, "store", c)
    /\ UNCHANGED <<serverConn, reply, transit, arrived>>

DialFails(p) ==
    /\ h[p].pc = "dial"
    /\ Retry(p)
    /\ UNCHANGED <<serverConn, conn, transit, arrived>>

\* The connection another goroutine has stored meanwhile is overwritten, not
\* closed.  The reader goroutine of the new one starts here.
Store(p) ==
    /\ h[p].pc = "store"
    /\ serverConn' = h[p].mine
    /\ Goto(p, "writeNew", h[p].mine)
    /\ UNCHANGED <<conn, reply, transit, arrived>>

-----------------------------------------------------------------------------
(* readServerResponses, and the server *)

\* The scanner ends at a connection the peer has dropped, or at an answer
\* longer than its buffer; the connection is closed, serverConn left alone.
ReaderEnds(c) ==
    /\ conn[c] \in {"dropped", "open"}
    /\ \A p \in Clients : ~(h[p].pc = "store" /\ h[p].mine = c)
    /\ conn' = [conn EXCEPT ![c] = "ended"]
    /\ UNCHANGED <<serverConn, h, reply, transit, arrived>>

ServerReads(w) ==
    /\ w \in transit
    /\ transit' = transit \ {w} /\ arrived' = arrived \cup {w}
    /\ UNCHANGED <<serverConn, conn, h, reply>>

\* The server closes, restarts or is cut off: what it has not read is lost.
ServerDrops(c) ==
    /\ conn[c] = "open"
    /\ conn' = [conn EXCEPT ![c] = "dropped"]
    /\ transit' = {w \in transit : w.conn # c}
    /\ UNCHANGED <<serverConn, h, reply, arrived>>

\* Closing with unread answers in the buffer resets the connection.
ResetLoses(w) ==
    /\ w \in transit /\ conn[w.conn] \in {"closed", "ended"}
    /\ transit' = transit \ {w}
    /\ UNCHANGED <<serverConn, conn, h, reply, arrived>>

-----------------------------------------------------------------------------
Send(p) == \/ LoadConn(p) \/ Write(p) \/ WriteFails(p) \/ Clear(p)
           \/ Dial(p) \/ DialFails(p) \/ Store(p)

Next == \/ \E p \in Clients : ReadInvalid(p) \/ ReadSignal(p) \/ Send(p)
        \/ \E c \in Conns : ReaderEnds(c) \/ ServerDrops(c)
        \/ \E w \in transit : ServerReads(w) \/ ResetLoses(w)

\* Go runs the goroutine of a line in progress, and the server reads.
Fairness == /\ \A p \in Clients : WF_vars(Send(p))
            /\ WF_vars(\E w \in transit : ServerReads(w))

Spec == Init /\ [][Next]_vars /\ Fairness

-----------------------------------------------------------------------------
(* Properties *)

TypeOK == /\ serverConn \in Conns \cup {NoConn}
          /\ conn \in [Conns -> ConnStates]
          /\ h \in [Clients -> [pc : Steps, line : 0 .. MaxLines,
                                attempt : 1 .. MaxAttempts, mine : Conns \cup {NoConn}]]
          /\ reply \in [Lines -> {"none", "ok", "error"}]
          /\ transit \subseteq Writes
          /\ arrived \subseteq Writes

Taken == transit \cup arrived

\* Across all attempts, reconnections and races for the shared connection, a
\* line (an order to trade) is handed to the network at most once, and never
\* one that the client is told has failed.
SentAtMostOnce ==
    /\ \A v, w \in Taken : v.line = w.line => v = w
    /\ \A w \in Taken : reply[w.line] = "ok"

\* The stored connection is never one that a sender has closed, although a
\* sender closes whatever is stored and dials while others do: what a sender
\* finds stored and broken was ended by the server or by its own reader.
StoredIsNotClosed == serverConn # NoConn => conn[serverConn] \in {"open", "dropped", "ended"}

\* Every signal is answered, whatever the server's connections do, if the
\* server reads what it accepts: nobody waits for ever on a lock, a full
\* buffer or a closed connection.
Answered == \A p \in Clients : \A n \in 1 .. MaxLines :
              (h[p].line = n /\ h[p].pc # "read") ~> (reply[<<p, n>>] # "none")

\* "Quan ly connection hoan toan trong ham nay de tranh race condition"
\* (cmd/relay/main.go:132, the connection is managed entirely in this function
\* to avoid races): no sender closes a connection that works.
WorkingStaysOpen ==
    [][\A c \in Conns : conn[c] = "open" => conn'[c] # "closed"]_vars
=============================================================================
