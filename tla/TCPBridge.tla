------------------------------ MODULE TCPBridge ------------------------------
(***************************************************************************)
(* cmd/tcp/main.go and signal/queue.go: the bridge reads lines from its    *)
(* MT5 clients, pushes each signal to the queue, acknowledges it, and      *)
(* starts a goroutine that forwards the line to the relay over one shared  *)
(* connection. The relay (cmd/relay) answers every line; the bridge never  *)
(* reads the answers.                                                      *)
(*                                                                         *)
(* A goroutine is handed the slice Scanner.Bytes returned, which is part   *)
(* of the scanner's buffer: line n of a client lies in one of BufferLines  *)
(* slots until line n + BufferLines is read into it. A client is one       *)
(* connection per life of the process; the copy-trading side of a signal   *)
(* is module CopyTrading.                                                  *)
(***************************************************************************)
EXTENDS Naturals, FiniteSets

CONSTANTS Clients,      \* connections of MT5 clients
          MaxLines,     \* [Clients -> Nat]: lines a client sends
          BufferLines,  \* lines the scanner's buffer holds (64 KiB in the code)
          SendBuffer,   \* lines the relay has not answered before Write blocks
          AnswerBuffer, \* answers nobody reads before the relay's Write blocks
          MaxLinks,     \* connections to the relay
          MaxRestarts,  \* of the bridge
          MaxDrops      \* of a connection by the relay or the network

ASSUME BridgeAssumption ==
    /\ {BufferLines, SendBuffer, AnswerBuffer, MaxLinks} \subseteq Nat \ {0}
    /\ {MaxRestarts, MaxDrops} \subseteq Nat
    /\ MaxLines \in [Clients -> Nat]

VARIABLES handler,   \* [Clients -> handleConn's place]
          n,         \* [Clients -> Nat]: lines read so far
          buffer,    \* [Clients -> [slots -> [line, torn]]]: Scanner's buffer
          queue,     \* length of the shared queue, which this program never pops
          place,     \* [Clients -> Nat]: the last signal's position in the queue
          acked,     \* [Clients -> Nat]: the queue size in the last answer
          forward,   \* [Clients -> [lines -> sendToRelay's place and connection]]
          keeper,    \* keepRelayConnection: "dial" or "wait"
          relayConn, \* the shared connection, 0 for nil
          link,      \* [1 .. MaxLinks -> the two ends of a connection]
          restarts, drops,
          sent,      \* history: the lines written to a working connection
          overrun    \* history: clients with a line read over one still to forward

conns   == <<keeper, relayConn, link>>
faults  == <<restarts, drops>>
history == <<sent, overrun>>
reading == <<handler, n>>
queued  == <<queue, place, acked>>
vars    == <<reading, buffer, queued, forward, conns, faults, history>>

Lines(c) == 1 .. MaxLines[c]
Links == 1 .. MaxLinks
Slot(m) == m % BufferLines

Unused == [state |-> "unused", out |-> 0, answers |-> 0]
Idle   == [at |-> "none", conn |-> 0]
Empty  == [i \in 0 .. BufferLines - 1 |-> [line |-> 0, torn |-> FALSE]]

\* main: what a process that has just started knows.
Fresh == /\ handler' = [c \in Clients |-> "off"]
         /\ buffer' = [c \in Clients |-> Empty]
         /\ queue' = 0
         /\ place' = [c \in Clients |-> 0]
         /\ acked' = [c \in Clients |-> 0]
         /\ forward' = [c \in Clients |-> [m \in Lines(c) |-> Idle]]
         /\ keeper' = "dial"
         /\ relayConn' = 0

Init == /\ handler = [c \in Clients |-> "off"]
        /\ n = [c \in Clients |-> 0]
        /\ buffer = [c \in Clients |-> Empty]
        /\ queue = 0
        /\ place = [c \in Clients |-> 0]
        /\ acked = [c \in Clients |-> 0]
        /\ forward = [c \in Clients |-> [m \in Lines(c) |-> Idle]]
        /\ keeper = "dial"
        /\ relayConn = 0
        /\ link = [k \in Links |-> Unused]
        /\ restarts = 0 /\ drops = 0
        /\ sent = {} /\ overrun = {}

-----------------------------------------------------------------------------
(* keepRelayConnection *)

NextLink == Cardinality({k \in Links : link[k].state # "unused"}) + 1

\* A keeper that dials again when the connection has been dropped.
DialAgain == /\ relayConn = 0
             /\ NextLink \in Links
             /\ link' = [link EXCEPT ![NextLink].state = "up"]
             /\ relayConn' = NextLink
             /\ UNCHANGED <<reading, buffer, queued, forward, keeper, faults, history>>

\* DialTimeout succeeds; then the goroutine waits for relayClose, which only
\* the shutdown closes. A dial that fails is tried again after five seconds.
Dial == /\ keeper = "dial"
        /\ NextLink \in Links
        /\ link' = [link EXCEPT ![NextLink].state = "up"]
        /\ relayConn' = NextLink
        /\ keeper' = "wait"
        /\ UNCHANGED <<reading, buffer, queued, forward, faults, history>>

-----------------------------------------------------------------------------
(* handleConn and processSignal *)

Connect(c) == /\ handler[c] = "off"
              /\ n[c] < MaxLines[c]
              /\ handler' = [handler EXCEPT ![c] = "scan"]
              /\ UNCHANGED <<n, queued, buffer, forward, conns, faults, history>>

Pending(c, m) == m \in Lines(c) /\ forward[c][m].at \in {"load", "write"}

\* One buffer for all connections.
ScanShared(c) ==
    /\ handler[c] = "scan"
    /\ n[c] < MaxLines[c]
    /\ n' = [n EXCEPT ![c] = @ + 1]
    /\ buffer' = [b \in Clients |-> [i \in DOMAIN buffer[b] |->
                     CASE i # Slot(n[c] + 1) -> buffer[b][i]
                       [] b = c -> [line |-> n[c] + 1, torn |-> FALSE]
                       [] OTHER -> [line |-> buffer[b][i].line, torn |-> TRUE]]]
    /\ overrun' = IF Pending(c, buffer[c][Slot(n[c] + 1)].line)
                  THEN overrun \cup {c} ELSE overrun
    /\ handler' = [handler EXCEPT ![c] = "parse"]
    /\ UNCHANGED <<queued, forward, conns, faults, sent>>

\* scanner.Scan: the next line takes the slot of an older one.
Scan(c) ==
    /\ handler[c] = "scan"
    /\ n[c] < MaxLines[c]
    /\ n' = [n EXCEPT ![c] = @ + 1]
    /\ LET slot == Slot(n[c] + 1)
       IN  /\ buffer' = [buffer EXCEPT ![c][slot] = [line |-> n[c] + 1, torn |-> FALSE]]
           /\ overrun' = IF Pending(c, buffer[c][slot].line)
                         THEN overrun \cup {c} ELSE overrun
    /\ handler' = [handler EXCEPT ![c] = "parse"]
    /\ UNCHANGED <<queued, forward, conns, faults, sent>>

\* Neither JSON nor a pipe-separated line: a warning.
RejectLine(c) ==
    /\ handler[c] = "parse"
    /\ handler' = [handler EXCEPT ![c] = "scan"]
    /\ UNCHANGED <<n, queued, buffer, forward, conns, faults, history>>

\* The answer is put together before the signal is pushed.
SizeThenPush(c) ==
    /\ handler[c] = "parse"
    /\ queue' = queue + 1
    /\ place' = [place EXCEPT ![c] = queue']
    /\ acked' = [acked EXCEPT ![c] = queue]
    /\ handler' = [handler EXCEPT ![c] = "ack"]
    /\ UNCHANGED <<n, buffer, forward, conns, faults, history>>

\* ParseSignal or parsePipe, then q.Push.
Push(c) ==
    /\ handler[c] = "parse"
    /\ queue' = queue + 1
    /\ place' = [place EXCEPT ![c] = queue']
    /\ handler' = [handler EXCEPT ![c] = "size"]
    /\ UNCHANGED <<n, acked, buffer, forward, conns, faults, history>>

\* q.Size() for the answer.
Size(c) ==
    /\ handler[c] = "size"
    /\ acked' = [acked EXCEPT ![c] = queue]
    /\ handler' = [handler EXCEPT ![c] = "ack"]
    /\ UNCHANGED <<n, buffer, queue, place, forward, conns, faults, history>>

\* The handler writes the line itself.
WriteInHandler(c) ==
    /\ handler[c] = "ack"
    /\ relayConn # 0 => link[relayConn].out < SendBuffer
    /\ link' = IF relayConn # 0 /\ link[relayConn].state = "up"
               THEN [link EXCEPT ![relayConn].out = @ + 1] ELSE link
    /\ handler' = [handler EXCEPT ![c] = "scan"]
    /\ UNCHANGED <<n, queued, buffer, forward, keeper, relayConn, faults, history>>

\* conn.Write of the answer, then the go statement; the handler reads on.
AckAndForward(c) ==
    /\ handler[c] = "ack"
    /\ forward' = [forward EXCEPT ![c][n[c]] = [at |-> "load", conn |-> 0]]
    /\ handler' = [handler EXCEPT ![c] = "scan"]
    /\ UNCHANGED <<n, queued, buffer, conns, faults, history>>

\* The client is gone: the Write of its answer fails, which is ignored, so the
\* line being handled is forwarded still; then Scan returns false.
Disconnect(c) ==
    /\ handler[c] \in {"scan", "ack", "stuck"}
    /\ handler' = [handler EXCEPT ![c] = "gone"]
    /\ forward' = IF handler[c] = "scan" THEN forward
                  ELSE [forward EXCEPT ![c][n[c]] = [at |-> "load", conn |-> 0]]
    /\ UNCHANGED <<n, queued, buffer, conns, faults, history>>

\* The client does not read on and the buffers of its connection are full.
AckBlocks(c) == /\ handler[c] = "ack"
                /\ handler' = [handler EXCEPT ![c] = "stuck"]
                /\ UNCHANGED <<n, queued, buffer, forward, conns, faults, history>>

-----------------------------------------------------------------------------
(* sendToRelay, one goroutine per line *)

Forward(c, m, at, k) == forward' = [forward EXCEPT ![c][m] = [at |-> at, conn |-> k]]
End(c, m) == Forward(c, m, "none", 0)

\* No check for nil.
LoadAnyConn(c, m) ==
    /\ forward[c][m].at = "load"
    /\ Forward(c, m, "write", relayConn)
    /\ UNCHANGED <<reading, buffer, queued, conns, faults, history>>

\* The connection is read under the lock; without one the line is dropped.
LoadConn(c, m) ==
    /\ forward[c][m].at = "load"
    /\ IF relayConn = 0 THEN End(c, m) ELSE Forward(c, m, "write", relayConn)
    /\ UNCHANGED <<reading, buffer, queued, conns, faults, history>>

\* append(line, '\n') writes into the scanner's buffer, behind the line: if the
\* slot holds a later line by now, it may cut that one in two.
AppendNewline(c, m) ==
    LET held == buffer[c][Slot(m)]
    IN  \/ UNCHANGED buffer
        \/ /\ held.line # m
           /\ buffer' = [buffer EXCEPT ![c][Slot(m)] = [line |-> held.line, torn |-> TRUE]]

\* What the slot holds when the line is written: 0 stands for bytes of two lines.
Data(c, m) == LET held == buffer[c][Slot(m)]
              IN  IF held.torn THEN {0}
                  ELSE IF held.line = m THEN {m} ELSE {0, held.line}

\* The write to a working connection waits for room. One to a connection the
\* other side has dropped may succeed too, and the line is lost.
Write(c, m) ==
    /\ forward[c][m].at = "write"
    /\ AppendNewline(c, m)
    /\ LET k == forward[c][m].conn
       IN  \/ /\ link[k].state = "up"
              /\ link[k].out < SendBuffer
              /\ link' = [link EXCEPT ![k] = [state |-> "up", out |-> link[k].out + 1,
                                              answers |-> link[k].answers]]
              /\ \E d \in Data(c, m) :
                    sent' = sent \cup {[client |-> c, line |-> m, data |-> d]}
              /\ End(c, m)
           \/ /\ link[k].state = "broken"
              /\ End(c, m)
              /\ UNCHANGED <<link, sent>>
           \/ /\ link[k].state \in {"broken", "closed"}
              /\ Forward(c, m, "clear", k)
              /\ UNCHANGED <<link, sent>>
    /\ UNCHANGED <<reading, queued, keeper, relayConn, faults, overrun>>

\* A failed write is tried again on the same connection.
SendAgain(c, m) ==
    /\ forward[c][m].at = "clear"
    /\ Forward(c, m, "load", 0)
    /\ UNCHANGED <<reading, buffer, queued, conns, faults, history>>

\* The failed sender closes and forgets whatever connection is shared now.
Clear(c, m) ==
    /\ forward[c][m].at = "clear"
    /\ link' = IF relayConn = 0 THEN link
               ELSE [link EXCEPT ![relayConn] = [Unused EXCEPT !.state = "closed"]]
    /\ relayConn' = 0
    /\ End(c, m)
    /\ UNCHANGED <<reading, buffer, queued, keeper, faults, history>>

-----------------------------------------------------------------------------
(* The relay's handleConn reads a line, and reads the next one when its      *)
(* answer has been taken by the connection: out includes the line it is at.  *)

RelayAnswers(k) ==
    /\ link[k].out > 0
    /\ link[k].answers < AnswerBuffer
    /\ link' = [link EXCEPT ![k] = [state |-> link[k].state, out |-> link[k].out - 1,
                                    answers |-> link[k].answers + 1]]
    /\ UNCHANGED <<reading, buffer, queued, forward, keeper, relayConn, faults, history>>

\* The relay restarts, or the network fails: what was in flight is lost, and
\* nothing tells the bridge.
RelayDrops(k) ==
    /\ link[k].state = "up"
    /\ drops < MaxDrops
    /\ drops' = drops + 1
    /\ link' = [link EXCEPT ![k] = [Unused EXCEPT !.state = "broken"]]
    /\ UNCHANGED <<reading, buffer, queued, forward, keeper, relayConn, restarts, history>>

-----------------------------------------------------------------------------
\* SIGTERM, or the panic of parsePipe on a line of two fields, which no recover
\* stops: every connection is closed, the process is started again.
Restart ==
    /\ restarts < MaxRestarts
    /\ restarts' = restarts + 1
    /\ Fresh
    /\ link' = [k \in Links |-> IF link[k].state = "unused" THEN link[k]
                               ELSE [Unused EXCEPT !.state = "closed"]]
    /\ UNCHANGED <<n, drops, history>>

Handle(c)  == RejectLine(c) \/ Push(c)
Send(c, m) == LoadConn(c, m) \/ Write(c, m) \/ Clear(c, m)

\* Every line there is has been handled or waits on its client, and forwarded or
\* held up for ever by unread answers.
Rest == /\ \A c \in Clients : \/ handler[c] \in {"stuck", "gone"}
                              \/ handler[c] \in {"off", "scan"} /\ n[c] = MaxLines[c]
        /\ \/ \A c \in Clients : \A m \in Lines(c) : forward[c][m] = Idle
           \/ \E k \in Links : link[k].answers = AnswerBuffer
        /\ UNCHANGED vars

Next == \/ Dial \/ Restart
        \/ \E c \in Clients : \/ Connect(c) \/ Scan(c) \/ Handle(c) \/ Size(c)
                              \/ AckAndForward(c) \/ Disconnect(c) \/ AckBlocks(c)
                              \/ \E m \in Lines(c) : Send(c, m)
        \/ \E k \in Links : RelayAnswers(k) \/ RelayDrops(k)
        \/ Rest

\* Go runs every runnable goroutine; a write with room, to a client that reads
\* or to the relay, ends; a relay is up long enough to accept the dial of a bridge
\* that tries again, and reads on as long as its answers are taken. Nothing says
\* that clients send or stay.
Fairness == /\ WF_vars(Dial)
            /\ \A c \in Clients :
                  /\ WF_vars(Handle(c)) /\ WF_vars(Size(c)) /\ WF_vars(AckAndForward(c))
                  /\ \A m \in Lines(c) : WF_vars(Send(c, m))
            /\ \A k \in Links : WF_vars(RelayAnswers(k))

Spec == Init /\ [][Next]_vars /\ Fairness

-----------------------------------------------------------------------------
(* Properties *)

TypeOK ==
    /\ handler \in [Clients -> {"off", "scan", "parse", "size", "ack", "stuck", "gone"}]
    /\ \A c \in Clients : n[c] \in 0 .. MaxLines[c]
    /\ \A c \in Clients : buffer[c] \in
          [0 .. BufferLines - 1 -> [line : 0 .. MaxLines[c], torn : BOOLEAN]]
    /\ queue \in Nat
    /\ place \in [Clients -> Nat]
    /\ acked \in [Clients -> Nat]
    /\ \A c \in Clients : forward[c] \in [Lines(c) ->
           [at : {"none", "load"}, conn : {0}] \cup [at : {"write", "clear"}, conn : Links]]
    /\ keeper \in {"dial", "wait"}
    /\ relayConn \in 0 .. MaxLinks
    /\ link \in [Links -> [state : {"unused", "up", "broken", "closed"},
                           out : 0 .. SendBuffer, answers : 0 .. AnswerBuffer]]
    /\ restarts \in 0 .. MaxRestarts /\ drops \in 0 .. MaxDrops
    /\ \A s \in sent : s.client \in Clients /\ s.line \in Lines(s.client)
    /\ overrun \subseteq Clients

\* What the relay is sent for a line of a client is that line, whole, unless the
\* scanner has read a line over one that was still to be forwarded: the slice a
\* goroutine holds is not a copy, and the buffer is all that protects it.
ForwardsAreExact ==
    \A s \in sent : s.client \in overrun \/ s.data = s.line

\* The queue size in an acknowledgement counts the acknowledged signal: it is
\* never below its position in the queue.
AckCountsSignal ==
    \A c \in Clients : handler[c] = "ack" => acked[c] >= place[c]

\* sendToRelay closes a connection only when a write to it has failed: though a
\* failed sender closes whatever is shared by then, it never finds a working one.
OnlyBrokenLinkClosed ==
    [][\A k \in Links : link[k].state = "up" /\ link'[k].state = "closed"
                           => restarts' # restarts]_vars

\* The client's path is never held up by the relay: a line that has been read is
\* handled and answered even when the relay takes nothing, unless its own client
\* does not read its answers ("không block hot path", cmd/tcp/main.go:389).
HotPathIsFree ==
    \A c \in Clients : (handler[c] \in {"parse", "size", "ack"})
                          ~> (handler[c] \in {"scan", "stuck", "gone", "off"})

\* A forwarding goroutine ends, unless the answers nobody reads have filled the
\* connection: that is the one thing that holds it for ever.
Jammed == \E k \in Links : link[k].answers = AnswerBuffer
ForwardsEnd ==
    \A c \in Clients : \A m \in Lines(c) :
        (forward[c][m].at # "none") ~> (forward[c][m].at = "none" \/ Jammed)

\* "giữ kết nối TCP tới relay, tự reconnect nếu rớt" (cmd/tcp/main.go:186): a
\* bridge without a connection gets one.
Reconnects == (relayConn = 0) ~> (relayConn # 0)
=============================================================================
