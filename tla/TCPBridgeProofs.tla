--------------------------- MODULE TCPBridgeProofs ---------------------------
(***************************************************************************)
(* Proofs about TCPBridge, for any number of clients, lines, connections   *)
(* to the relay, restarts and drops, and for buffers of any size.  Each    *)
(* invariant stands on TypeInv alone.                                      *)
(***************************************************************************)
EXTENDS TCPBridge, TLAPS

Handling == {"parse", "size", "ack", "stuck"}

ForwardTypes == [at : {"none", "load"}, conn : {0}]
                   \cup [at : {"write", "clear"}, conn : Links]

LinkTypes == [state : {"unused", "up", "broken", "closed"},
              out : 0 .. SendBuffer, answers : 0 .. AnswerBuffer]

\* TypeOK says what the arrays hold; here they are functions, and a handler at
\* work has a line.
TypeInv == /\ TypeOK
           /\ n \in [Clients -> Nat]
           /\ buffer \in [Clients -> [0 .. BufferLines - 1 ->
                                         [line : Nat, torn : BOOLEAN]]]
           /\ forward = [c \in Clients |-> forward[c]]
           /\ \A c \in Clients : handler[c] \in Handling => n[c] \in Lines(c)

-----------------------------------------------------------------------------
\* A connection that is dialled, dropped or closed has nothing in flight.
LEMMA LinkReset == \A s \in {"unused", "up", "broken", "closed"} :
                      /\ [Unused EXCEPT !.state = s] \in LinkTypes
                      /\ [Unused EXCEPT !.state = s].state = s
  <1>1. SendBuffer \in Nat /\ AnswerBuffer \in Nat
    BY BridgeAssumption
  <1>2. QED BY <1>1 DEF Unused, LinkTypes

\* The state of the connections keeps its type when one of them changes to a
\* state of that type.
LEMMA LinkTypesKept ==
    ASSUME TypeInv, NEW k \in Links, NEW v \in LinkTypes, link' = [link EXCEPT ![k] = v]
    PROVE  /\ link' \in [Links -> LinkTypes]
           /\ link'[k] = v
           /\ \A j \in Links \ {k} : link'[j] = link[j]
  BY DEF TypeInv, TypeOK, LinkTypes

\* Every line has a slot of the scanner's buffer.
LEMMA SlotInBuffer == \A m \in Nat : Slot(m) \in 0 .. BufferLines - 1
  BY BridgeAssumption DEF Slot

\* A goroutine that moves on changes its own entry and no other.
LEMMA ForwardTypesKept ==
    ASSUME TypeInv, NEW c \in Clients, NEW m \in Lines(c),
           NEW f \in ForwardTypes, forward' = [forward EXCEPT ![c][m] = f]
    PROVE  /\ forward' = [b \in Clients |-> forward'[b]]
           /\ \A b \in Clients : forward'[b] \in [Lines(b) -> ForwardTypes]
           /\ forward'[c][m] = f
           /\ \A b \in Clients : \A l \in Lines(b) :
                 forward'[b][l] = forward[b][l] \/ (b = c /\ l = m)
  <1>1. \A b \in Clients : forward[b] \in [Lines(b) -> ForwardTypes]
    BY DEF TypeInv, TypeOK, ForwardTypes
  <1>2. DOMAIN forward = Clients
    BY DEF TypeInv
  <1>3. forward' = [b \in Clients |-> IF b = c THEN [forward[c] EXCEPT ![m] = f]
                                               ELSE forward[b]]
    BY <1>2
  <1>4. \A b \in Clients : forward'[b] = IF b = c THEN [forward[c] EXCEPT ![m] = f]
                                                  ELSE forward[b]
    BY <1>3
  <1>5. [forward[c] EXCEPT ![m] = f] \in [Lines(c) -> ForwardTypes]
    BY <1>1
  <1>6. QED BY <1>1, <1>3, <1>4, <1>5

\* A goroutine that moves on keeps the types, whatever else its step leaves alone.
LEMMA ForwardStepTypes ==
    ASSUME TypeInv, NEW c \in Clients, NEW m \in Lines(c),
           NEW f \in ForwardTypes, forward' = [forward EXCEPT ![c][m] = f],
           UNCHANGED <<reading, queued, keeper, faults>>,
           buffer' \in [Clients -> [0 .. BufferLines - 1 -> [line : Nat, torn : BOOLEAN]]],
           \A b \in Clients : buffer'[b] \in
              [0 .. BufferLines - 1 -> [line : 0 .. MaxLines[b], torn : BOOLEAN]],
           relayConn' \in 0 .. MaxLinks,
           link' \in [Links -> LinkTypes],
           \A s \in sent' : s.client \in Clients /\ s.line \in Lines(s.client),
           overrun' \subseteq Clients
    PROVE  TypeInv'
  <1>1. /\ forward' = [b \in Clients |-> forward'[b]]
        /\ \A b \in Clients : forward'[b] \in [Lines(b) -> ForwardTypes]
    BY ForwardTypesKept
  <1>2. QED BY <1>1 DEF TypeInv, TypeOK, ForwardTypes, LinkTypes, reading, queued, faults

\* A write in which the newline falls into a later line keeps the buffer's types.
LEMMA AppendTypes ==
    ASSUME TypeInv, NEW c \in Clients, NEW m \in Lines(c), AppendNewline(c, m)
    PROVE  /\ buffer' \in [Clients -> [0 .. BufferLines - 1 -> [line : Nat, torn : BOOLEAN]]]
           /\ \A b \in Clients : buffer'[b] \in
                 [0 .. BufferLines - 1 -> [line : 0 .. MaxLines[b], torn : BOOLEAN]]
  <1>1. m \in Nat /\ Slot(m) \in 0 .. BufferLines - 1
    BY SlotInBuffer DEF Lines
  <1>2. CASE UNCHANGED buffer
    BY <1>2 DEF TypeInv, TypeOK
  <1>3. CASE buffer' = [buffer EXCEPT ![c][Slot(m)] =
                           [line |-> buffer[c][Slot(m)].line, torn |-> TRUE]]
    <2>1. /\ buffer[c][Slot(m)].line \in 0 .. MaxLines[c]
          /\ buffer[c][Slot(m)].line \in Nat
      BY <1>1 DEF TypeInv, TypeOK
    <2>2. QED BY <1>1, <1>3, <2>1 DEF TypeInv, TypeOK
  <1>4. QED BY <1>2, <1>3 DEF AppendNewline

\* Every step keeps TypeInv.
LEMMA TypeStep == TypeInv /\ [Next]_vars => TypeInv'
  <1> SUFFICES ASSUME TypeInv, [Next]_vars PROVE TypeInv'
    OBVIOUS
  <1> USE BridgeAssumption
  <1>1. CASE Dial
    <2>1. NextLink \in Links
      BY <1>1 DEF Dial
    <2>2. link' \in [Links -> LinkTypes]
      BY <1>1, <2>1 DEF Dial, TypeInv, TypeOK, LinkTypes
    <2>3. relayConn' \in 0 .. MaxLinks /\ keeper' = "wait"
      BY <1>1, <2>1 DEF Dial, Links
    <2>4. UNCHANGED <<reading, buffer, queued, forward, faults, history>>
      BY <1>1 DEF Dial
    <2>5. QED BY <2>2, <2>3, <2>4 DEF TypeInv, TypeOK, LinkTypes, reading, queued, faults, history
  <1>2. CASE Restart
    <2>1. /\ handler' = [c \in Clients |-> "off"]
          /\ buffer' = [c \in Clients |-> Empty]
          /\ queue' = 0
          /\ place' = [c \in Clients |-> 0]
          /\ acked' = [c \in Clients |-> 0]
          /\ forward' = [c \in Clients |-> [m \in Lines(c) |-> Idle]]
          /\ keeper' = "dial"
          /\ relayConn' = 0
      BY <1>2 DEF Restart, Fresh
    <2>2. Empty \in [0 .. BufferLines - 1 -> [line : Nat, torn : BOOLEAN]]
      BY DEF Empty
    <2>3. \A c \in Clients :
             Empty \in [0 .. BufferLines - 1 -> [line : 0 .. MaxLines[c], torn : BOOLEAN]]
      BY DEF Empty
    <2>4. link' \in [Links -> LinkTypes]
      <3>1. \A k \in Links : link[k] \in LinkTypes
        BY DEF TypeInv, TypeOK, LinkTypes
      <3>2. QED BY <1>2, <3>1, LinkReset DEF Restart
    <2>5. restarts' \in 0 .. MaxRestarts /\ UNCHANGED <<n, drops, sent, overrun>>
      BY <1>2 DEF Restart, history, TypeInv, TypeOK
    <2>6. QED BY <2>1, <2>2, <2>3, <2>4, <2>5
               DEF TypeInv, TypeOK, LinkTypes, Idle, Handling
  <1>3. ASSUME NEW c \in Clients,
               \/ Connect(c) \/ RejectLine(c) \/ Push(c) \/ Size(c) \/ AckBlocks(c)
        PROVE  TypeInv'
    <2>1. /\ handler' \in [Clients -> {"off", "scan", "parse", "size", "ack", "stuck", "gone"}]
          /\ \A b \in Clients : handler'[b] \in Handling => handler[b] \in Handling
      BY <1>3 DEF Connect, RejectLine, Push, Size, AckBlocks, TypeInv, TypeOK, Handling
    <2>2. queue' \in Nat /\ place' \in [Clients -> Nat] /\ acked' \in [Clients -> Nat]
      <3>1. queue \in Nat /\ place \in [Clients -> Nat] /\ acked \in [Clients -> Nat]
        BY DEF TypeInv, TypeOK
      <3>2. CASE Connect(c) \/ RejectLine(c) \/ AckBlocks(c)
        BY <3>1, <3>2 DEF Connect, RejectLine, AckBlocks, queued
      <3>3. CASE Push(c)
        BY <3>1, <3>3 DEF Push
      <3>4. CASE Size(c)
        BY <3>1, <3>4 DEF Size
      <3>5. QED BY <1>3, <3>2, <3>3, <3>4
    <2>3. UNCHANGED <<n, buffer, forward, conns, faults, history>>
      BY <1>3 DEF Connect, RejectLine, Push, Size, AckBlocks
    <2>4. QED BY <2>1, <2>2, <2>3 DEF TypeInv, TypeOK, conns, faults, history
  <1>4. ASSUME NEW c \in Clients, Scan(c) PROVE TypeInv'
    <2> DEFINE slot == Slot(n[c] + 1)
               read == [line |-> n[c] + 1, torn |-> FALSE]
    <2>1. n[c] + 1 \in Lines(c) /\ n[c] + 1 \in Nat
      BY <1>4 DEF Scan, TypeInv, TypeOK, Lines
    <2>2. slot \in 0 .. BufferLines - 1
      BY <2>1, SlotInBuffer
    <2>3. buffer' = [buffer EXCEPT ![c][slot] = read]
      BY <1>4 DEF Scan
    <2>4. /\ n' = [n EXCEPT ![c] = n[c] + 1]
          /\ handler' = [handler EXCEPT ![c] = "parse"]
          /\ overrun' \subseteq Clients
          /\ UNCHANGED <<queued, forward, conns, faults, sent>>
      BY <1>4 DEF Scan, TypeInv, TypeOK
    <2>5. read \in [line : Nat, torn : BOOLEAN]
          /\ read \in [line : 0 .. MaxLines[c], torn : BOOLEAN]
      BY <2>1 DEF Lines
    <2> HIDE DEF slot, read
    <2>6. /\ buffer' \in [Clients -> [0 .. BufferLines - 1 -> [line : Nat, torn : BOOLEAN]]]
          /\ \A b \in Clients : buffer'[b] \in
                [0 .. BufferLines - 1 -> [line : 0 .. MaxLines[b], torn : BOOLEAN]]
      BY <2>2, <2>3, <2>5 DEF TypeInv, TypeOK
    <2>7. /\ n' \in [Clients -> Nat]
          /\ handler' \in [Clients -> {"off", "scan", "parse", "size", "ack", "stuck", "gone"}]
          /\ \A b \in Clients \ {c} : n'[b] = n[b] /\ handler'[b] = handler[b]
          /\ n'[c] \in Lines(c)
      <3>1. n \in [Clients -> Nat]
            /\ handler \in [Clients -> {"off", "scan", "parse", "size", "ack", "stuck", "gone"}]
        BY DEF TypeInv, TypeOK
      <3>2. QED BY <2>1, <2>4, <3>1
    <2>8. \A b \in Clients : n'[b] \in 0 .. MaxLines[b]
      <3>1. \A b \in Clients : n[b] \in 0 .. MaxLines[b]
        BY DEF TypeInv, TypeOK
      <3>2. n'[c] \in 0 .. MaxLines[c]
        BY <2>7 DEF Lines
      <3>3. QED BY <2>7, <3>1, <3>2
    <2>9. \A b \in Clients : handler'[b] \in Handling => n'[b] \in Lines(b)
      BY <2>7 DEF TypeInv
    <2>10. QED BY <2>4, <2>6, <2>7, <2>8, <2>9 DEF TypeInv, TypeOK, queued, conns, faults
  <1>5. ASSUME NEW c \in Clients, AckAndForward(c) PROVE TypeInv'
    <2>1. n[c] \in Lines(c)
      BY <1>5 DEF AckAndForward, TypeInv, Handling
    <2>2. [at |-> "load", conn |-> 0] \in ForwardTypes
      BY DEF ForwardTypes
    <2>3. forward' = [forward EXCEPT ![c][n[c]] = [at |-> "load", conn |-> 0]]
      BY <1>5 DEF AckAndForward
    <2>4. /\ forward' = [b \in Clients |-> forward'[b]]
          /\ \A b \in Clients : forward'[b] \in [Lines(b) -> ForwardTypes]
      BY <2>1, <2>2, <2>3, ForwardTypesKept
    <2>5. QED BY <1>5, <2>4 DEF AckAndForward, TypeInv, TypeOK, Handling, ForwardTypes,
                   queued, conns, faults, history
  <1>6. ASSUME NEW c \in Clients, Disconnect(c) PROVE TypeInv'
    <2>1. [at |-> "load", conn |-> 0] \in ForwardTypes
      BY DEF ForwardTypes
    <2>2. /\ forward' = [b \in Clients |-> forward'[b]]
          /\ \A b \in Clients : forward'[b] \in [Lines(b) -> ForwardTypes]
      <3>1. CASE handler[c] = "scan"
        BY <1>6, <3>1 DEF Disconnect, TypeInv, TypeOK, ForwardTypes
      <3>2. CASE handler[c] # "scan"
        <4>1. n[c] \in Lines(c)
          BY <1>6, <3>2 DEF Disconnect, TypeInv, Handling
        <4>2. forward' = [forward EXCEPT ![c][n[c]] = [at |-> "load", conn |-> 0]]
          BY <1>6, <3>2 DEF Disconnect
        <4>3. QED BY <2>1, <4>1, <4>2, ForwardTypesKept
      <3>3. QED BY <3>1, <3>2
    <2>3. QED BY <1>6, <2>2 DEF Disconnect, TypeInv, TypeOK, Handling, ForwardTypes,
                   queued, conns, faults, history
  <1>7. ASSUME NEW c \in Clients, NEW m \in Lines(c), LoadConn(c, m) PROVE TypeInv'
    <2> DEFINE f == IF relayConn = 0 THEN Idle ELSE [at |-> "write", conn |-> relayConn]
    <2>1. f \in ForwardTypes
      BY DEF ForwardTypes, Idle, Links, TypeInv, TypeOK
    <2>2. forward' = [forward EXCEPT ![c][m] = f]
      BY <1>7 DEF LoadConn, Forward, End, Idle
    <2> HIDE DEF f
    <2>3. UNCHANGED <<reading, buffer, queued, conns, faults, history>>
      BY <1>7 DEF LoadConn
    <2>4. QED BY <2>1, <2>2, <2>3, ForwardStepTypes
               DEF TypeInv, TypeOK, LinkTypes, conns, history
  <1>8. ASSUME NEW c \in Clients, NEW m \in Lines(c), Write(c, m) PROVE TypeInv'
    <2> DEFINE k == forward[c][m].conn
    <2>1. k \in Links
      BY <1>8 DEF Write, TypeInv, TypeOK
    <2>2. PICK f \in ForwardTypes : forward' = [forward EXCEPT ![c][m] = f]
      <3>1. Idle \in ForwardTypes /\ [at |-> "clear", conn |-> k] \in ForwardTypes
        BY <2>1 DEF ForwardTypes, Idle
      <3>2. \/ forward' = [forward EXCEPT ![c][m] = Idle]
            \/ forward' = [forward EXCEPT ![c][m] = [at |-> "clear", conn |-> k]]
        BY <1>8 DEF Write, End, Forward, Idle
      <3>3. QED BY <3>1, <3>2
    <2>3. link' \in [Links -> LinkTypes]
      <3>1. CASE link' = link
        BY <3>1 DEF TypeInv, TypeOK, LinkTypes
      <3>2. CASE /\ link[k].out < SendBuffer
                 /\ link' = [link EXCEPT ![k] = [state |-> "up", out |-> link[k].out + 1,
                                                 answers |-> link[k].answers]]
        <4>1. link[k] \in LinkTypes
          BY <2>1 DEF TypeInv, TypeOK, LinkTypes
        <4>2. [state |-> "up", out |-> link[k].out + 1, answers |-> link[k].answers]
                 \in LinkTypes
          BY <3>2, <4>1 DEF LinkTypes
        <4>3. QED BY <2>1, <3>2, <4>2, LinkTypesKept
      <3>3. QED BY <1>8, <3>1, <3>2 DEF Write
    <2>4. \A s \in sent' : s.client \in Clients /\ s.line \in Lines(s.client)
      BY <1>8 DEF Write, TypeInv, TypeOK
    <2>5. AppendNewline(c, m) /\ UNCHANGED <<reading, queued, keeper, relayConn, faults, overrun>>
      BY <1>8 DEF Write
    <2>6. /\ buffer' \in [Clients -> [0 .. BufferLines - 1 -> [line : Nat, torn : BOOLEAN]]]
          /\ \A b \in Clients : buffer'[b] \in
                [0 .. BufferLines - 1 -> [line : 0 .. MaxLines[b], torn : BOOLEAN]]
      BY <2>5, AppendTypes
    <2>7. relayConn' \in 0 .. MaxLinks /\ overrun' \subseteq Clients
      BY <2>5 DEF TypeInv, TypeOK
    <2> HIDE DEF k
    <2>8. QED BY <2>2, <2>3, <2>4, <2>5, <2>6, <2>7, ForwardStepTypes
  <1>9. ASSUME NEW c \in Clients, NEW m \in Lines(c), Clear(c, m) PROVE TypeInv'
    <2>1. Idle \in ForwardTypes /\ forward' = [forward EXCEPT ![c][m] = Idle]
      BY <1>9 DEF Clear, End, Forward, Idle, ForwardTypes
    <2>2. link' \in [Links -> LinkTypes]
      <3>1. CASE relayConn = 0
        BY <1>9, <3>1 DEF Clear, TypeInv, TypeOK, LinkTypes
      <3>2. CASE relayConn # 0
        <4>1. relayConn \in Links
          BY <3>2 DEF TypeInv, TypeOK, Links
        <4>2. link' = [link EXCEPT ![relayConn] = [Unused EXCEPT !.state = "closed"]]
          BY <1>9, <3>2 DEF Clear
        <4>3. QED BY <4>1, <4>2, LinkReset, LinkTypesKept
      <3>3. QED BY <3>1, <3>2
    <2>3. relayConn' = 0 /\ UNCHANGED <<reading, buffer, queued, keeper, faults, history>>
      BY <1>9 DEF Clear
    <2>4. relayConn' \in 0 .. MaxLinks
      BY <2>3
    <2>5. QED BY <2>1, <2>2, <2>3, <2>4, ForwardStepTypes DEF TypeInv, TypeOK, history
  <1>10. ASSUME NEW k \in Links, RelayAnswers(k) \/ RelayDrops(k) PROVE TypeInv'
    <2>1. link' \in [Links -> LinkTypes]
      <3>1. CASE RelayAnswers(k)
        <4>1. link[k] \in LinkTypes
          BY DEF TypeInv, TypeOK, LinkTypes
        <4>2. [state |-> link[k].state, out |-> link[k].out - 1,
               answers |-> link[k].answers + 1] \in LinkTypes
          BY <3>1, <4>1 DEF RelayAnswers, LinkTypes
        <4>3. QED BY <3>1, <4>2, LinkTypesKept DEF RelayAnswers
      <3>2. CASE RelayDrops(k)
        BY <3>2, LinkReset, LinkTypesKept DEF RelayDrops
      <3>3. QED BY <1>10, <3>1, <3>2
    <2>2. /\ UNCHANGED <<reading, buffer, queued, forward, keeper, relayConn, restarts, history>>
          /\ drops' \in 0 .. MaxDrops
      BY <1>10 DEF RelayAnswers, RelayDrops, TypeInv, TypeOK, faults
    <2>3. QED BY <2>1, <2>2 DEF TypeInv, TypeOK, LinkTypes, reading, queued, history
  <1>11. CASE UNCHANGED vars
    BY <1>11 DEF vars, reading, queued, conns, faults, history, TypeInv, TypeOK
  <1>12. QED
    BY <1>1, <1>2, <1>3, <1>4, <1>5, <1>6, <1>7, <1>8, <1>9, <1>10, <1>11
       DEF Next, Handle, Send, Rest

\* BridgeTypeCorrect: every variable of the bridge keeps its type; in particular
\* a goroutine that writes or has failed holds a connection, and one that has not
\* looked yet holds none (cmd/tcp/main.go:221).
THEOREM BridgeTypeCorrect == Spec => []TypeOK
  <1>1. Init => TypeInv
    BY BridgeAssumption
       DEF Init, TypeInv, TypeOK, Empty, Idle, Unused, Handling
  <1>2. TypeInv /\ [Next]_vars => TypeInv'
    BY TypeStep
  <1>3. TypeInv => TypeOK
    BY DEF TypeInv
  <1>4. QED BY <1>1, <1>2, <1>3, PTL DEF Spec

-----------------------------------------------------------------------------
\* A client's last signal is in the queue, and an answer that is ready counts it.
AckInv == /\ TypeInv
          /\ \A c \in Clients : place[c] <= queue
          /\ AckCountsSignal

\* Every step keeps AckInv.
LEMMA AckStep == AckInv /\ [Next]_vars => AckInv'
  <1> SUFFICES ASSUME AckInv, [Next]_vars PROVE AckInv'
    OBVIOUS
  <1> DEFINE Ready == \A c \in Clients : place[c] <= queue
  <1>0. TypeInv'
    BY TypeStep DEF AckInv
  <1>t. /\ queue \in Nat /\ place \in [Clients -> Nat] /\ acked \in [Clients -> Nat]
        /\ handler \in [Clients -> {"off", "scan", "parse", "size", "ack", "stuck", "gone"}]
    BY DEF AckInv, TypeInv, TypeOK
  <1>1. CASE UNCHANGED queued /\ \A c \in Clients : handler'[c] = "ack" => handler[c] = "ack"
    BY <1>0, <1>1 DEF AckInv, AckCountsSignal, queued
  <1>2. CASE Dial \/ (\E k \in Links : RelayAnswers(k) \/ RelayDrops(k)) \/ UNCHANGED vars
    BY <1>1, <1>2 DEF Dial, RelayAnswers, RelayDrops, vars, reading
  <1>3. CASE Restart
    BY <1>0, <1>3 DEF Restart, Fresh, AckInv, AckCountsSignal
  <1>4. ASSUME NEW c \in Clients,
               \/ Connect(c) \/ Scan(c) \/ RejectLine(c) \/ AckAndForward(c)
               \/ Disconnect(c) \/ AckBlocks(c)
        PROVE  AckInv'
    <2>1. UNCHANGED queued /\ \A b \in Clients : handler'[b] = "ack" => handler[b] = "ack"
      BY <1>4, <1>t DEF Connect, Scan, RejectLine, AckAndForward, Disconnect, AckBlocks
    <2>2. QED BY <1>1, <2>1
  <1>5. ASSUME NEW c \in Clients, Push(c) PROVE AckInv'
    <2>1. Ready'
      BY <1>5, <1>t DEF Push, AckInv
    <2>2. AckCountsSignal'
      BY <1>5, <1>t DEF Push, AckInv, AckCountsSignal
    <2>3. QED BY <1>0, <2>1, <2>2 DEF AckInv
  <1>6. ASSUME NEW c \in Clients, Size(c) PROVE AckInv'
    BY <1>0, <1>6, <1>t DEF Size, AckInv, AckCountsSignal
  <1>7. ASSUME NEW c \in Clients, NEW m \in Lines(c), Send(c, m) PROVE AckInv'
    BY <1>1, <1>7 DEF Send, LoadConn, Write, Clear, reading
  <1>8. QED BY <1>2, <1>3, <1>4, <1>5, <1>6, <1>7 DEF Next, Handle, Rest

\* AnswersCountTheirSignal: the queue size in an acknowledgement is never below
\* the acknowledged signal's own position, whatever other handlers push between
\* q.Push and q.Size and whatever restarts come between (cmd/tcp/main.go:380).
THEOREM AnswersCountTheirSignal == Spec => []AckCountsSignal
  <1>1. Init => AckInv
    <2>1. Init => TypeInv
      BY BridgeAssumption DEF Init, TypeInv, TypeOK, Empty, Idle, Unused, Handling
    <2>2. QED BY <2>1 DEF Init, AckInv, AckCountsSignal
  <1>2. AckInv /\ [Next]_vars => AckInv'
    BY AckStep
  <1>3. AckInv => AckCountsSignal
    BY DEF AckInv
  <1>4. QED BY <1>1, <1>2, <1>3, PTL DEF Spec

-----------------------------------------------------------------------------
\* The scanner's buffer, for a client none of whose lines was read over before it
\* was forwarded: no slot is cut in two, the line being handled is in its slot, and
\* so is every line a goroutine has still to write.
SlotsHold(c) == /\ \A i \in 0 .. BufferLines - 1 : ~buffer[c][i].torn
                /\ handler[c] \in Handling => buffer[c][Slot(n[c])].line = n[c]
                /\ \A m \in Lines(c) : Pending(c, m) => buffer[c][Slot(m)].line = m

ExactInv == /\ TypeInv
            /\ \A c \in Clients \ overrun : SlotsHold(c)
            /\ ForwardsAreExact

\* Every step keeps ExactInv.
LEMMA ExactStep == ExactInv /\ [Next]_vars => ExactInv'
  <1> SUFFICES ASSUME ExactInv, [Next]_vars PROVE ExactInv'
    OBVIOUS
  <1> DEFINE Slots == \A c \in Clients \ overrun : SlotsHold(c)
  <1>0. TypeInv'
    BY TypeStep DEF ExactInv
  <1>t. /\ n \in [Clients -> Nat]
        /\ handler \in [Clients -> {"off", "scan", "parse", "size", "ack", "stuck", "gone"}]
        /\ buffer \in [Clients -> [0 .. BufferLines - 1 -> [line : Nat, torn : BOOLEAN]]]
        /\ \A c \in Clients : forward[c] \in [Lines(c) -> ForwardTypes]
    BY DEF ExactInv, TypeInv, TypeOK, ForwardTypes
  \* A step that reads nothing over and starts no goroutine.
  <1>1. CASE /\ UNCHANGED <<n, buffer, history>>
             /\ \A c \in Clients : /\ handler'[c] \in Handling => handler[c] \in Handling
                                   /\ \A m \in Lines(c) : Pending(c, m)' => Pending(c, m)
    <2>1. Slots'
      BY <1>1 DEF ExactInv, SlotsHold, history
    <2>2. QED BY <1>0, <1>1, <2>1 DEF ExactInv, ForwardsAreExact, history
  <1>2. CASE Dial \/ (\E k \in Links : RelayAnswers(k) \/ RelayDrops(k)) \/ UNCHANGED vars
    BY <1>1, <1>2 DEF Dial, RelayAnswers, RelayDrops, Pending, vars, reading
  <1>3. CASE Restart
    <2>1. /\ \A c \in Clients : /\ handler'[c] = "off" /\ buffer'[c] = Empty
                                /\ \A m \in Lines(c) : forward'[c][m] = Idle
          /\ UNCHANGED history
      BY <1>3 DEF Restart, Fresh
    <2>2. Slots'
      <3>1. ASSUME NEW c \in Clients PROVE SlotsHold(c)'
        <4>1. \A i \in 0 .. BufferLines - 1 : ~buffer'[c][i].torn
          <5>1. \A i \in 0 .. BufferLines - 1 : Empty[i].torn = FALSE
            BY DEF Empty
          <5>2. buffer'[c] = Empty
            BY <2>1
          <5>3. QED BY <5>1, <5>2
        <4>2. \A m \in Lines(c) : ~Pending(c, m)'
          BY <2>1 DEF Idle, Pending
        <4>3. QED BY <2>1, <4>1, <4>2 DEF SlotsHold, Handling
      <3>2. QED BY <3>1
    <2>3. QED BY <1>0, <2>1, <2>2 DEF ExactInv, ForwardsAreExact, history
  <1>4. ASSUME NEW c \in Clients,
               Connect(c) \/ RejectLine(c) \/ Push(c) \/ Size(c) \/ AckBlocks(c)
        PROVE  ExactInv'
    <2>1. /\ UNCHANGED <<n, buffer, forward, history>>
          /\ \A b \in Clients : handler'[b] \in Handling => handler[b] \in Handling
      BY <1>4, <1>t DEF Connect, RejectLine, Push, Size, AckBlocks, Handling
    <2>2. QED BY <1>1, <2>1 DEF Pending
  <1>5. ASSUME NEW c \in Clients, Scan(c) PROVE ExactInv'
    <2> DEFINE slot == Slot(n[c] + 1)
               read == [line |-> n[c] + 1, torn |-> FALSE]
    <2>1. slot \in 0 .. BufferLines - 1
      <3>1. n[c] + 1 \in Nat
        BY <1>t
      <3>2. QED BY <3>1, SlotInBuffer
    <2>2. /\ n' = [n EXCEPT ![c] = n[c] + 1]
          /\ handler' = [handler EXCEPT ![c] = "parse"]
          /\ buffer' = [buffer EXCEPT ![c][slot] = read]
          /\ UNCHANGED <<forward, sent>>
          /\ overrun' = IF Pending(c, buffer[c][slot].line)
                        THEN overrun \cup {c} ELSE overrun
      BY <1>5 DEF Scan
    <2>3. /\ \A b \in Clients \ {c} : /\ n'[b] = n[b] /\ handler'[b] = handler[b]
                                      /\ buffer'[b] = buffer[b]
          /\ n'[c] = n[c] + 1
          /\ buffer'[c][slot] = read
          /\ \A i \in (0 .. BufferLines - 1) \ {slot} : buffer'[c][i] = buffer[c][i]
      <3> HIDE DEF slot, read
      <3>1. QED BY <1>t, <2>1, <2>2
    <2>4. overrun \subseteq overrun'
      BY <2>2
    <2>5. ASSUME NEW b \in Clients \ overrun' PROVE SlotsHold(b)'
      <3>1. CASE b # c
        BY <2>2, <2>3, <2>4, <2>5, <3>1 DEF ExactInv, SlotsHold, Pending
      <3>2. CASE b = c
        <4>1. c \notin overrun /\ ~Pending(c, buffer[c][slot].line)
          BY <2>2, <2>5, <3>2
        <4>2. SlotsHold(c)
          BY <4>1 DEF ExactInv
        <4>3. \A i \in 0 .. BufferLines - 1 : ~buffer'[c][i].torn
          BY <2>1, <2>3, <4>2 DEF SlotsHold
        <4>4. buffer'[c][Slot(n'[c])].line = n'[c]
          BY <2>3
        <4>5. ASSUME NEW m \in Lines(c), Pending(c, m) PROVE buffer'[c][Slot(m)].line = m
          <5>1. buffer[c][Slot(m)].line = m
            BY <4>2, <4>5 DEF SlotsHold
          <5>2. Slot(m) # slot
            BY <4>1, <4>5, <5>1
          <5>3. Slot(m) \in 0 .. BufferLines - 1
            BY SlotInBuffer DEF Lines
          <5> HIDE DEF slot
          <5>4. QED BY <2>3, <5>1, <5>2, <5>3
        <4>6. QED BY <2>2, <3>2, <4>3, <4>4, <4>5 DEF SlotsHold, Pending
      <3>3. QED BY <3>1, <3>2
    <2>6. ForwardsAreExact'
      BY <2>2, <2>4 DEF ExactInv, ForwardsAreExact
    <2>7. QED BY <1>0, <2>5, <2>6 DEF ExactInv
  <1>6. ASSUME NEW c \in Clients, AckAndForward(c) \/ Disconnect(c) PROVE ExactInv'
    <2>1. CASE forward' = forward
      <3>1. /\ UNCHANGED <<n, buffer, history>>
            /\ \A b \in Clients : handler'[b] \in Handling => handler[b] \in Handling
        BY <1>6, <1>t DEF AckAndForward, Disconnect, Handling
      <3>2. QED BY <1>1, <2>1, <3>1 DEF Pending
    <2>2. CASE /\ handler[c] \in Handling
               /\ forward' = [forward EXCEPT ![c][n[c]] = [at |-> "load", conn |-> 0]]
      <3>1. n[c] \in Lines(c) /\ [at |-> "load", conn |-> 0] \in ForwardTypes
        BY <2>2 DEF ExactInv, TypeInv, ForwardTypes
      <3>2. \A b \in Clients : \A l \in Lines(b) :
               forward'[b][l] = forward[b][l] \/ (b = c /\ l = n[c])
        BY <2>2, <3>1, ForwardTypesKept DEF ExactInv
      <3>3. /\ UNCHANGED <<n, buffer, history>>
            /\ \A b \in Clients : handler'[b] \in Handling => handler[b] \in Handling
        BY <1>6, <1>t DEF AckAndForward, Disconnect, Handling
      <3>4. ASSUME NEW b \in Clients \ overrun PROVE SlotsHold(b)'
        <4>1. SlotsHold(b)
          BY DEF ExactInv
        <4>2. \A m \in Lines(b) : Pending(b, m)' => buffer[b][Slot(m)].line = m
          BY <2>2, <3>2, <4>1 DEF SlotsHold, Pending
        <4>3. QED BY <3>3, <4>1, <4>2 DEF SlotsHold
      <3>5. QED BY <1>0, <3>3, <3>4 DEF ExactInv, ForwardsAreExact, history
    <2>3. QED BY <1>6, <2>1, <2>2 DEF AckAndForward, Disconnect, Handling
  <1>7. ASSUME NEW c \in Clients, NEW m \in Lines(c), LoadConn(c, m) PROVE ExactInv'
    <2> DEFINE f == IF relayConn = 0 THEN Idle ELSE [at |-> "write", conn |-> relayConn]
    <2>1. f \in ForwardTypes
      BY DEF ForwardTypes, Idle, Links, ExactInv, TypeInv, TypeOK
    <2>2. forward' = [forward EXCEPT ![c][m] = f]
      BY <1>7 DEF LoadConn, Forward, End, Idle
    <2>3. Pending(c, m) /\ UNCHANGED <<reading, buffer, history>>
      BY <1>7 DEF LoadConn, Pending
    <2> HIDE DEF f
    <2>4. \A b \in Clients : \A l \in Lines(b) :
             forward'[b][l] = forward[b][l] \/ (b = c /\ l = m)
      BY <2>1, <2>2, ForwardTypesKept DEF ExactInv
    <2>5. QED BY <1>1, <2>3, <2>4 DEF Pending, reading
  <1>8. ASSUME NEW c \in Clients, NEW m \in Lines(c), Clear(c, m) PROVE ExactInv'
    <2>1. Idle \in ForwardTypes /\ forward' = [forward EXCEPT ![c][m] = Idle]
      BY <1>8 DEF Clear, End, Forward, Idle, ForwardTypes
    <2>2. \A b \in Clients : \A l \in Lines(b) :
             forward'[b][l] = forward[b][l] \/ (b = c /\ l = m)
      BY <2>1, ForwardTypesKept DEF ExactInv
    <2>3. forward'[c][m] = Idle
      BY <2>1, ForwardTypesKept DEF ExactInv
    <2>4. UNCHANGED <<reading, buffer, history>>
      BY <1>8 DEF Clear
    <2>5. QED BY <1>1, <2>2, <2>3, <2>4 DEF Pending, Idle, reading
  <1>9. ASSUME NEW c \in Clients, NEW m \in Lines(c), Write(c, m) PROVE ExactInv'
    <2> DEFINE k == forward[c][m].conn
    <2>1. Pending(c, m) /\ k \in Links
      BY <1>9 DEF Write, Pending, ExactInv, TypeInv, TypeOK
    <2>2. PICK f \in ForwardTypes : /\ forward' = [forward EXCEPT ![c][m] = f]
                                    /\ f.at \notin {"load", "write"}
      <3>1. Idle \in ForwardTypes /\ [at |-> "clear", conn |-> k] \in ForwardTypes
        BY <2>1 DEF ForwardTypes, Idle
      <3>2. \/ forward' = [forward EXCEPT ![c][m] = Idle]
            \/ forward' = [forward EXCEPT ![c][m] = [at |-> "clear", conn |-> k]]
        BY <1>9 DEF Write, End, Forward, Idle
      <3>3. QED BY <3>1, <3>2 DEF Idle
    <2>3. /\ forward'[c][m] = f
          /\ \A b \in Clients : \A l \in Lines(b) :
                forward'[b][l] = forward[b][l] \/ (b = c /\ l = m)
      BY <2>2, ForwardTypesKept DEF ExactInv
    <2>4. \A b \in Clients : \A l \in Lines(b) : Pending(b, l)' => Pending(b, l)
      BY <2>2, <2>3 DEF Pending
    <2>5. UNCHANGED <<reading, overrun>> /\ AppendNewline(c, m)
      BY <1>9 DEF Write
    <2>6. m \in Nat /\ Slot(m) \in 0 .. BufferLines - 1
      BY SlotInBuffer DEF Lines
    <2>7. \A b \in Clients \ {c} : buffer'[b] = buffer[b]
      BY <1>t, <2>5, <2>6 DEF AppendNewline
    <2>8. c \notin overrun => /\ buffer' = buffer
                              /\ Data(c, m) = {m}
      BY <2>1, <2>5, <2>6 DEF ExactInv, SlotsHold, AppendNewline, Data
    <2>9. Slots'
      <3>1. ASSUME NEW b \in Clients \ overrun PROVE SlotsHold(b)'
        <4>1. buffer'[b] = buffer[b]
          BY <2>7, <2>8
        <4>2. SlotsHold(b)
          BY DEF ExactInv
        <4>3. QED BY <2>4, <2>5, <4>1, <4>2 DEF SlotsHold, reading
      <3>2. QED BY <2>5, <3>1
    <2>10. sent' = sent \/ \E d \in Data(c, m) :
              sent' = sent \cup {[client |-> c, line |-> m, data |-> d]}
      BY <1>9 DEF Write
    <2>11. ForwardsAreExact'
      BY <2>5, <2>8, <2>10 DEF ExactInv, ForwardsAreExact
    <2>12. QED BY <1>0, <2>9, <2>11 DEF ExactInv
  <1>10. QED BY <1>2, <1>3, <1>4, <1>5, <1>6, <1>7, <1>8, <1>9
             DEF Next, Handle, Send, Rest

\* ForwardedLinesAreWhole: for a buffer of any size, the only way the relay is sent
\* anything but the client's own line is that the scanner read a line over one
\* that was still to be forwarded (cmd/tcp/main.go:391): while the handler is no
\* more than a buffer ahead of its goroutines, the append of the newline and the
\* reuse of the buffer are harmless.
THEOREM ForwardedLinesAreWhole == Spec => []ForwardsAreExact
  <1>1. Init => ExactInv
    <2>1. Init => TypeInv
      BY BridgeAssumption DEF Init, TypeInv, TypeOK, Empty, Idle, Unused, Handling
    <2>2. QED BY <2>1 DEF Init, ExactInv, SlotsHold, Empty, Idle, Pending, Handling,
                          ForwardsAreExact
  <1>2. ExactInv /\ [Next]_vars => ExactInv'
    BY ExactStep
  <1>3. ExactInv => ForwardsAreExact
    BY DEF ExactInv
  <1>4. QED BY <1>1, <1>2, <1>3, PTL DEF Spec

-----------------------------------------------------------------------------
\* Every goroutine that writes, or whose write has failed, holds the connection
\* that is shared, or none is shared any more: the bridge dials once in a life, so
\* there is no newer one to close. A write fails on a connection that is gone.
OneLink == \A c \in Clients : \A m \in Lines(c) :
              /\ forward[c][m].at \in {"write", "clear"} =>
                    relayConn \in {0, forward[c][m].conn} /\ keeper = "wait"
              /\ forward[c][m].at = "clear" =>
                    link[forward[c][m].conn].state \in {"broken", "closed"}

LinkInv == /\ TypeInv
           /\ keeper = "dial" => relayConn = 0
           /\ OneLink

\* sendToRelay never closes a working connection.
LEMMA ClearClosesBroken ==
    ASSUME LinkInv, NEW c \in Clients, NEW m \in Lines(c), Clear(c, m), relayConn # 0
    PROVE  link[relayConn].state \in {"broken", "closed"}
  BY DEF Clear, LinkInv, OneLink

\* Every step keeps LinkInv.
LEMMA LinkStep == LinkInv /\ [Next]_vars => LinkInv'
  <1> SUFFICES ASSUME LinkInv, [Next]_vars PROVE LinkInv'
    OBVIOUS
  <1>0. TypeInv'
    BY TypeStep DEF LinkInv
  <1>t. /\ keeper \in {"dial", "wait"} /\ relayConn \in 0 .. MaxLinks
        /\ link \in [Links -> LinkTypes]
        /\ \A c \in Clients : forward[c] \in [Lines(c) -> ForwardTypes]
    BY DEF LinkInv, TypeInv, TypeOK, ForwardTypes, LinkTypes
  \* A step of one goroutine that has not failed and leaves the connections alone.
  <1>1. ASSUME NEW c \in Clients, NEW m \in Lines(c), NEW f \in ForwardTypes,
               forward' = [forward EXCEPT ![c][m] = f],
               UNCHANGED <<keeper, relayConn>>,
               \A k \in Links : link'[k].state = link[k].state,
               f.at \in {"write", "clear"} => relayConn \in {0, f.conn} /\ keeper = "wait",
               f.at = "clear" => link[f.conn].state \in {"broken", "closed"}
        PROVE  LinkInv'
    <2>1. /\ forward'[c][m] = f
          /\ \A b \in Clients : \A l \in Lines(b) :
                forward'[b][l] = forward[b][l] \/ (b = c /\ l = m)
      BY <1>1, ForwardTypesKept DEF LinkInv
    <2>2. \A g \in ForwardTypes : g.at \in {"write", "clear"} => g.conn \in Links
      BY DEF ForwardTypes
    <2>3. OneLink'
      BY <1>1, <1>t, <2>1, <2>2 DEF LinkInv, OneLink
    <2>4. QED BY <1>0, <1>1, <2>3 DEF LinkInv
  <1>2. CASE Dial
    <2>1. \A c \in Clients : \A m \in Lines(c) : forward'[c][m].at \notin {"write", "clear"}
      BY <1>2 DEF Dial, LinkInv, OneLink
    <2>2. keeper' = "wait"
      BY <1>2 DEF Dial
    <2>3. QED BY <1>0, <2>1, <2>2 DEF LinkInv, OneLink
  <1>3. CASE Restart
    <2>1. /\ \A c \in Clients : \A m \in Lines(c) : forward'[c][m] = Idle
          /\ relayConn' = 0
      BY <1>3 DEF Restart, Fresh
    <2>2. QED BY <1>0, <2>1 DEF LinkInv, OneLink, Idle
  <1>4. ASSUME NEW c \in Clients,
               \/ Connect(c) \/ Scan(c) \/ RejectLine(c) \/ Push(c) \/ Size(c) \/ AckBlocks(c)
        PROVE  LinkInv'
    <2>1. UNCHANGED <<forward, keeper, relayConn, link>>
      BY <1>4 DEF Connect, Scan, RejectLine, Push, Size, AckBlocks, conns
    <2>2. QED BY <1>0, <2>1 DEF LinkInv, OneLink
  <1>5. ASSUME NEW c \in Clients, AckAndForward(c) \/ Disconnect(c) PROVE LinkInv'
    <2> DEFINE f == [at |-> "load", conn |-> 0]
    <2>1. UNCHANGED <<keeper, relayConn, link>>
      BY <1>5 DEF AckAndForward, Disconnect, conns
    <2>2. CASE forward' = forward
      BY <1>0, <2>1, <2>2 DEF LinkInv, OneLink
    <2>3. CASE handler[c] \in Handling /\ forward' = [forward EXCEPT ![c][n[c]] = f]
      <3>1. n[c] \in Lines(c) /\ f \in ForwardTypes
        BY <2>3 DEF LinkInv, TypeInv, ForwardTypes
      <3>2. QED BY <1>1, <2>1, <2>3, <3>1
    <2>4. QED BY <1>5, <2>2, <2>3 DEF AckAndForward, Disconnect, Handling
  <1>6. ASSUME NEW c \in Clients, NEW m \in Lines(c), LoadConn(c, m) PROVE LinkInv'
    <2> DEFINE f == IF relayConn = 0 THEN Idle ELSE [at |-> "write", conn |-> relayConn]
    <2>1. f \in ForwardTypes
      BY <1>t DEF ForwardTypes, Idle, Links
    <2>2. forward' = [forward EXCEPT ![c][m] = f]
      BY <1>6 DEF LoadConn, Forward, End, Idle
    <2>3. UNCHANGED <<keeper, relayConn, link>>
      BY <1>6 DEF LoadConn, conns
    <2>4. f.at \in {"write", "clear"} => f.conn = relayConn /\ keeper = "wait"
      BY <1>t DEF Idle, LinkInv
    <2>5. f.at # "clear"
      BY DEF Idle
    <2> HIDE DEF f
    <2>6. QED BY <1>1, <2>1, <2>2, <2>3, <2>4, <2>5
  <1>7. ASSUME NEW c \in Clients, NEW m \in Lines(c), Write(c, m) PROVE LinkInv'
    <2> DEFINE k == forward[c][m].conn
               failed == [at |-> "clear", conn |-> k]
    <2>1. k \in Links /\ relayConn \in {0, k} /\ keeper = "wait"
      BY <1>7, <1>t DEF Write, LinkInv, OneLink, ForwardTypes
    <2>2. Idle \in ForwardTypes /\ failed \in ForwardTypes
      BY <2>1 DEF ForwardTypes, Idle
    <2>3. UNCHANGED <<keeper, relayConn>> /\ \A j \in Links : link'[j].state = link[j].state
      BY <1>7, <1>t, <2>1 DEF Write, LinkTypes
    <2>4. CASE forward' = [forward EXCEPT ![c][m] = Idle]
      BY <1>1, <2>2, <2>3, <2>4 DEF Idle
    <2>5. CASE link[k].state \in {"broken", "closed"} /\ forward' = [forward EXCEPT ![c][m] = failed]
      <3>1. failed.at = "clear" /\ failed.conn = k
        OBVIOUS
      <3> HIDE DEF failed, k
      <3>2. QED BY <1>1, <2>1, <2>2, <2>3, <2>5, <3>1
    <2>6. QED BY <1>7, <2>4, <2>5 DEF Write, End, Forward, Idle
  <1>8. ASSUME NEW c \in Clients, NEW m \in Lines(c), Clear(c, m) PROVE LinkInv'
    <2>1. Idle \in ForwardTypes /\ forward' = [forward EXCEPT ![c][m] = Idle]
      BY <1>8 DEF Clear, End, Forward, Idle, ForwardTypes
    <2>2. /\ forward'[c][m] = Idle
          /\ \A b \in Clients : \A l \in Lines(b) :
                forward'[b][l] = forward[b][l] \/ (b = c /\ l = m)
      BY <2>1, ForwardTypesKept DEF LinkInv
    <2>3. relayConn' = 0 /\ keeper' = keeper
      BY <1>8 DEF Clear
    <2>4. \A j \in Links : link[j].state \in {"broken", "closed"}
                              => link'[j].state \in {"broken", "closed"}
      BY <1>8, <1>t DEF Clear, Unused
    <2>5. \A g \in ForwardTypes : g.at \in {"write", "clear"} => g.conn \in Links
      BY DEF ForwardTypes
    <2>6. OneLink'
      BY <1>t, <2>2, <2>3, <2>4, <2>5 DEF LinkInv, OneLink, Idle
    <2>7. QED BY <1>0, <2>3, <2>6 DEF LinkInv
  <1>9. ASSUME NEW k \in Links, RelayAnswers(k) \/ RelayDrops(k) PROVE LinkInv'
    <2>1. UNCHANGED <<forward, keeper, relayConn>>
      BY <1>9 DEF RelayAnswers, RelayDrops
    <2>2. \A j \in Links : link[j].state \in {"broken", "closed"}
                              => link'[j].state \in {"broken", "closed"}
      BY <1>9, <1>t DEF RelayAnswers, RelayDrops, Unused
    <2>3. \A g \in ForwardTypes : g.at \in {"write", "clear"} => g.conn \in Links
      BY DEF ForwardTypes
    <2>4. OneLink'
      BY <1>t, <2>1, <2>2, <2>3 DEF LinkInv, OneLink
    <2>5. QED BY <1>0, <2>1, <2>4 DEF LinkInv
  <1>10. CASE UNCHANGED vars
    BY <1>0, <1>10 DEF vars, conns, LinkInv, OneLink
  <1>11. QED BY <1>2, <1>3, <1>4, <1>5, <1>6, <1>7, <1>8, <1>9, <1>10
             DEF Next, Handle, Send, Rest

\* A step of the bridge closes a working connection only by restarting.
LEMMA CloseStep ==
    ASSUME LinkInv, [Next]_vars
    PROVE  \A k \in Links : link[k].state = "up" /\ link'[k].state = "closed"
                               => restarts' # restarts
  <1>t. relayConn \in 0 .. MaxLinks /\ link \in [Links -> LinkTypes]
    BY DEF LinkInv, TypeInv, TypeOK, LinkTypes
  <1>1. CASE Restart
    BY <1>1, BridgeAssumption DEF Restart, LinkInv, TypeInv, TypeOK
  <1>2. CASE Dial
    BY <1>2, <1>t DEF Dial, LinkTypes
  <1>3. ASSUME NEW c \in Clients,
               \/ Connect(c) \/ Scan(c) \/ RejectLine(c) \/ Push(c) \/ Size(c)
               \/ AckAndForward(c) \/ Disconnect(c) \/ AckBlocks(c)
        PROVE  link' = link
    BY <1>3 DEF Connect, Scan, RejectLine, Push, Size, AckAndForward, Disconnect,
                AckBlocks, conns
  <1>4. ASSUME NEW c \in Clients, NEW m \in Lines(c), LoadConn(c, m) \/ Write(c, m)
        PROVE  \A k \in Links : link'[k].state = link[k].state
    <2>1. CASE LoadConn(c, m)
      BY <2>1 DEF LoadConn, conns
    <2>2. CASE Write(c, m)
      BY <2>2, <1>t DEF Write, LinkTypes
    <2>3. QED BY <1>4, <2>1, <2>2
  <1>5. ASSUME NEW c \in Clients, NEW m \in Lines(c), Clear(c, m)
        PROVE  \A k \in Links : link[k].state = "up" => link'[k].state = "up"
    <2>1. CASE relayConn = 0
      BY <1>5, <2>1 DEF Clear
    <2>2. CASE relayConn # 0
      <3>1. link[relayConn].state # "up"
        BY <1>5, <2>2, ClearClosesBroken
      <3>2. \A k \in Links \ {relayConn} : link'[k] = link[k]
        BY <1>5, <2>2, <1>t DEF Clear
      <3>3. QED BY <3>1, <3>2
    <2>3. QED BY <2>1, <2>2
  <1>6. ASSUME NEW j \in Links, RelayAnswers(j) \/ RelayDrops(j)
        PROVE  \A k \in Links : link[k].state = "up" => link'[k].state # "closed"
    BY <1>6, <1>t DEF RelayAnswers, RelayDrops, Unused
  <1>7. CASE UNCHANGED vars
    BY <1>7 DEF vars, conns
  <1>8. QED
    BY <1>1, <1>2, <1>3, <1>4, <1>5, <1>6, <1>7 DEF Next, Handle, Send, Rest

\* WorkingLinkIsNotClosed: though sendToRelay closes whatever connection is shared
\* when its write has failed, without looking whether that is the one it wrote to
\* (cmd/tcp/main.go:237), it never closes a working one. This rests on the very
\* thing that keeps the bridge from dialling again, that keepRelayConnection waits
\* for the shutdown after its first dial.
THEOREM WorkingLinkIsNotClosed == Spec => OnlyBrokenLinkClosed
  <1>1. Init => LinkInv
    <2>1. Init => TypeInv
      BY BridgeAssumption DEF Init, TypeInv, TypeOK, Empty, Idle, Unused, Handling
    <2>2. QED BY <2>1 DEF Init, LinkInv, OneLink, Idle
  <1>2. LinkInv /\ [Next]_vars => LinkInv'
    BY LinkStep
  <1>3. LinkInv /\ [Next]_vars =>
           [\A k \in Links : link[k].state = "up" /\ link'[k].state = "closed"
                                => restarts' # restarts]_vars
    BY CloseStep
  <1>4. QED BY <1>1, <1>2, <1>3, PTL DEF Spec, OnlyBrokenLinkClosed
=============================================================================
