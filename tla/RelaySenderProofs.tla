-------------------------- MODULE RelaySenderProofs --------------------------
(***************************************************************************)
(* Proofs about RelaySender, for any number of clients, connections, lines *)
(* and attempts.  The invariant is in three parts: types, what the answers *)
(* say about the writes, and who may hold which connection.                *)
(***************************************************************************)
EXTENDS RelaySender, TLAPS

\* A goroutine about to store or to write holds a connection; one that handles
\* a line has a line.
TypeInv == /\ TypeOK
           /\ \A p \in Clients :
                 /\ h[p].pc \in {"write", "writeNew", "store"} => h[p].mine \in Conns
                 /\ h[p].pc # "read" => h[p].line # 0

\* A line is not answered before its goroutine is done with it.
Unanswered == \A p \in Clients : \A n \in 1 .. MaxLines :
                 (n > h[p].line \/ (n = h[p].line /\ h[p].pc # "read"))
                    => reply[<<p, n>>] = "none"

SentInv == TypeInv /\ Unanswered /\ SentAtMostOnce

\* A connection just dialled belongs to its goroutine alone until it is stored.
NewIsPrivate == \A p \in Clients : h[p].pc = "store" =>
                   /\ conn[h[p].mine] \in {"open", "dropped"}
                   /\ serverConn # h[p].mine
                   /\ \A q \in Clients \ {p} : h[q].mine # h[p].mine

ConnInv == TypeInv /\ NewIsPrivate /\ StoredIsNotClosed

-----------------------------------------------------------------------------
\* An attempt that fails keeps the types and answers only its own line.
LEMMA RetryTypes ==
    ASSUME TypeInv, NEW p \in Clients, h[p].pc # "read", Retry(p)
    PROVE  /\ h' \in [Clients -> [pc : Steps, line : 0 .. MaxLines,
                                attempt : 1 .. MaxAttempts, mine : Conns \cup {NoConn}]]
           /\ reply' \in [Lines -> {"none", "ok", "error"}]
           /\ \A q \in Clients \ {p} : h'[q] = h[q]
           /\ h'[p].line = h[p].line /\ h'[p].mine = NoConn
           /\ h'[p].pc \in {"read", "load"}
           /\ h'[p].pc = "load" => reply' = reply
           /\ h'[p].pc = "read" => reply' = [reply EXCEPT ![Current(p)] = "error"]
  <1>1. CASE h[p].attempt = MaxAttempts
    <2>1. h[p].line \in 1 .. MaxLines /\ Current(p) \in Lines
      BY BoundsAssumption DEF TypeInv, TypeOK, Lines, Current
    <2>2. Answer(p, h[p].line, "error")
      BY <1>1 DEF Retry
    <2>3. /\ h' = [h EXCEPT ![p] = [pc |-> "read", line |-> h[p].line,
                                    attempt |-> 1, mine |-> NoConn]]
          /\ reply' = [reply EXCEPT ![Current(p)] = "error"]
      BY <2>2 DEF Answer, Current
    <2>4. QED BY <2>1, <2>3, AttemptsAssumption, BoundsAssumption
               DEF TypeInv, TypeOK, Steps
  <1>2. CASE h[p].attempt # MaxAttempts
    BY <1>2, AttemptsAssumption, BoundsAssumption DEF Retry, TypeInv, TypeOK, Steps
  <1>3. QED BY <1>1, <1>2

\* An answer to the line at hand, or to the next one, keeps the types.
LEMMA AnswerTypes ==
    ASSUME TypeInv, NEW p \in Clients, NEW n \in 1 .. MaxLines,
           NEW a \in {"ok", "error"}, Answer(p, n, a)
    PROVE  /\ h' \in [Clients -> [pc : Steps, line : 0 .. MaxLines,
                                attempt : 1 .. MaxAttempts, mine : Conns \cup {NoConn}]]
           /\ reply' \in [Lines -> {"none", "ok", "error"}]
           /\ \A q \in Clients \ {p} : h'[q] = h[q]
           /\ h'[p].line = n /\ h'[p].mine = NoConn /\ h'[p].pc = "read"
           /\ reply' = [reply EXCEPT ![<<p, n>>] = a]
  BY AttemptsAssumption, BoundsAssumption DEF Answer, TypeInv, TypeOK, Steps, Lines

\* A step that goes on with the same line keeps the types.
LEMMA GotoTypes ==
    ASSUME TypeInv, NEW p \in Clients, NEW s \in Steps, NEW c \in Conns \cup {NoConn},
           Goto(p, s, c)
    PROVE  /\ h' \in [Clients -> [pc : Steps, line : 0 .. MaxLines,
                                attempt : 1 .. MaxAttempts, mine : Conns \cup {NoConn}]]
           /\ \A q \in Clients \ {p} : h'[q] = h[q]
           /\ h'[p].pc = s /\ h'[p].mine = c /\ h'[p].line = h[p].line
  BY DEF Goto, TypeInv, TypeOK

\* Every step keeps TypeInv.
LEMMA TypeStep == TypeInv /\ [Next]_vars => TypeInv'
  <1> SUFFICES ASSUME TypeInv, [Next]_vars PROVE TypeInv'
    OBVIOUS
  <1> USE AttemptsAssumption, BoundsAssumption, NoConnAssumption
  <1>1. ASSUME NEW p \in Clients, ReadInvalid(p) PROVE TypeInv'
    <2>1. h[p].line + 1 \in 1 .. MaxLines
      BY <1>1 DEF ReadInvalid, TypeInv, TypeOK
    <2>2. QED BY <1>1, <2>1, AnswerTypes DEF ReadInvalid, TypeInv, TypeOK
  <1>2. ASSUME NEW p \in Clients, ReadSignal(p) PROVE TypeInv'
    BY <1>2 DEF ReadSignal, TypeInv, TypeOK, Steps
  <1>3. ASSUME NEW p \in Clients, LoadConn(p) PROVE TypeInv'
    BY <1>3, GotoTypes DEF LoadConn, TypeInv, TypeOK, Steps
  <1>4. ASSUME NEW p \in Clients, Write(p) PROVE TypeInv'
    <2>1. h[p].line \in 1 .. MaxLines /\ h[p].mine \in Conns
      BY <1>4 DEF Write, TypeInv, TypeOK
    <2>2. Current(p) \in Lines
      BY <2>1 DEF Current, Lines
    <2>3. h[p].attempt \in 1 .. MaxAttempts /\ h[p].pc \in {"write", "writeNew"}
      BY <1>4 DEF Write, TypeInv, TypeOK
    <2>4. transit' \subseteq Writes
      BY <1>4, <2>1, <2>2, <2>3 DEF Write, Accept, Writes, TypeInv, TypeOK
    <2>5. Answer(p, h[p].line, "ok") /\ UNCHANGED <<serverConn, conn, arrived>>
      BY <1>4 DEF Write
    <2>6. /\ h' \in [Clients -> [pc : Steps, line : 0 .. MaxLines,
                         attempt : 1 .. MaxAttempts, mine : Conns \cup {NoConn}]]
          /\ reply' \in [Lines -> {"none", "ok", "error"}]
          /\ \A q \in Clients \ {p} : h'[q] = h[q]
          /\ h'[p].pc = "read"
      BY <2>1, <2>5, AnswerTypes
    <2>7. QED BY <2>4, <2>5, <2>6 DEF TypeInv, TypeOK
  <1>5. ASSUME NEW p \in Clients, WriteFails(p) PROVE TypeInv'
    BY <1>5, GotoTypes DEF WriteFails, TypeInv, TypeOK, Steps
  <1>6. ASSUME NEW p \in Clients, Clear(p) PROVE TypeInv'
    <2>1. serverConn' \in Conns \cup {NoConn} /\ conn' \in [Conns -> ConnStates]
      BY <1>6 DEF Clear, CloseAndForget, ConnStates, TypeInv, TypeOK
    <2>2. CASE h[p].pc = "clear"
      BY <1>6, <2>1, <2>2, GotoTypes DEF Clear, TypeInv, TypeOK, Steps
    <2>3. CASE h[p].pc = "clearNew"
      <3>1. Retry(p) BY <1>6, <2>3 DEF Clear
      <3>2. QED BY <1>6, <2>1, <2>3, <3>1, RetryTypes DEF Clear, TypeInv, TypeOK
    <2>4. QED BY <1>6, <2>2, <2>3 DEF Clear
  <1>7. ASSUME NEW p \in Clients, Dial(p) PROVE TypeInv'
    <2>1. PICK c \in Conns : /\ conn' = [conn EXCEPT ![c] = "open"]
                             /\ Goto(p, "store", c)
      BY <1>7 DEF Dial
    <2>2. h[p].pc = "dial" /\ UNCHANGED <<serverConn, reply, transit, arrived>>
      BY <1>7 DEF Dial
    <2>3. conn' \in [Conns -> ConnStates]
      BY <2>1 DEF TypeInv, TypeOK, ConnStates
    <2>4. QED BY <2>1, <2>2, <2>3, GotoTypes DEF TypeInv, TypeOK, Steps
  <1>8. ASSUME NEW p \in Clients, DialFails(p) PROVE TypeInv'
    BY <1>8, RetryTypes DEF DialFails, TypeInv, TypeOK
  <1>9. ASSUME NEW p \in Clients, Store(p) PROVE TypeInv'
    BY <1>9, GotoTypes DEF Store, TypeInv, TypeOK, Steps
  <1>10. ASSUME NEW c \in Conns, ReaderEnds(c) \/ ServerDrops(c) PROVE TypeInv'
    BY <1>10 DEF ReaderEnds, ServerDrops, TypeInv, TypeOK, ConnStates
  <1>11. ASSUME NEW w \in transit, ServerReads(w) \/ ResetLoses(w) PROVE TypeInv'
    BY <1>11 DEF ServerReads, ResetLoses, TypeInv, TypeOK
  <1>12. CASE UNCHANGED vars
    BY <1>12 DEF vars, TypeInv, TypeOK
  <1>13. QED
    BY <1>1, <1>2, <1>3, <1>4, <1>5, <1>6, <1>7, <1>8, <1>9, <1>10, <1>11, <1>12
       DEF Next, Send

\* RelayTypeCorrect: every variable of the relay keeps its type; in particular
\* no goroutine makes more than MaxAttempts attempts (cmd/relay/main.go:136).
THEOREM RelayTypeCorrect == Spec => []TypeOK
  <1>1. Init => TypeInv
    BY AttemptsAssumption, BoundsAssumption
       DEF Init, TypeInv, TypeOK, Steps, ConnStates, Lines, Writes
  <1>2. TypeInv /\ [Next]_vars => TypeInv'
    BY TypeStep
  <1>3. TypeInv => TypeOK
    BY DEF TypeInv
  <1>4. QED BY <1>1, <1>2, <1>3, PTL DEF Spec

-----------------------------------------------------------------------------
\* Retry answers only the line at hand, with an error, so no write the kernel
\* took loses its "ok".
LEMMA RetryKeepsSent ==
    ASSUME SentInv, NEW p \in Clients, h[p].pc # "read", Retry(p),
           UNCHANGED <<transit, arrived>>
    PROVE  Unanswered' /\ SentAtMostOnce'
  <1> USE BoundsAssumption
  <1>1. /\ Current(p) \in Lines /\ reply[Current(p)] = "none"
        /\ h[p].line \in 1 .. MaxLines
    BY DEF SentInv, Unanswered, TypeInv, TypeOK, Current, Lines
  <1>2. Unanswered'
    <2>1. /\ \A q \in Clients \ {p} : h'[q] = h[q]
          /\ h'[p].line = h[p].line
          /\ h'[p].pc = "load" => reply' = reply
          /\ h'[p].pc = "read" => reply' = [reply EXCEPT ![Current(p)] = "error"]
          /\ h'[p].pc \in {"read", "load"}
      BY RetryTypes DEF SentInv
    <2>2. CASE h'[p].pc = "load"
      BY <1>1, <2>1, <2>2 DEF SentInv, Unanswered, TypeInv, TypeOK
    <2>3. CASE h'[p].pc = "read"
      BY <1>1, <2>1, <2>3 DEF SentInv, Unanswered, TypeInv, TypeOK, Current, Lines
    <2>4. QED BY <2>1, <2>2, <2>3
  <1>3. \A w \in Taken : w.line # Current(p)
    BY <1>1 DEF SentInv, SentAtMostOnce
  <1>4. \A w \in Taken : reply'[w.line] = reply[w.line]
    BY <1>3, RetryTypes DEF SentInv, TypeInv, TypeOK, Taken, Writes
  <1>5. QED BY <1>2, <1>4 DEF SentInv, SentAtMostOnce, Taken

\* Every step keeps SentInv.
LEMMA SentStep == SentInv /\ [Next]_vars => SentInv'
  <1> SUFFICES ASSUME SentInv, [Next]_vars PROVE SentInv'
    OBVIOUS
  <1> USE BoundsAssumption
  <1>0. TypeInv'
    BY TypeStep DEF SentInv
  <1>1. ASSUME NEW p \in Clients, ReadInvalid(p) PROVE Unanswered' /\ SentAtMostOnce'
    <2> DEFINE n == h[p].line + 1
    <2>1. n \in 1 .. MaxLines /\ <<p, n>> \in Lines /\ reply[<<p, n>>] = "none"
      BY <1>1 DEF ReadInvalid, SentInv, TypeInv, TypeOK, Unanswered, Lines
    <2>2. Answer(p, n, "error") /\ UNCHANGED <<transit, arrived>>
      BY <1>1 DEF ReadInvalid
    <2>3. /\ \A q \in Clients \ {p} : h'[q] = h[q]
          /\ h'[p].line = n /\ h'[p].pc = "read"
          /\ reply' = [reply EXCEPT ![<<p, n>>] = "error"]
      BY <2>1, <2>2, AnswerTypes DEF SentInv
    <2>4. Unanswered'
      BY <2>1, <2>3 DEF SentInv, Unanswered, TypeInv, TypeOK, Lines
    <2>5. \A w \in Taken : reply'[w.line] = reply[w.line]
      BY <2>1, <2>3 DEF SentInv, SentAtMostOnce, TypeInv, TypeOK
    <2>6. QED BY <2>2, <2>4, <2>5 DEF SentInv, SentAtMostOnce, Taken
  <1>2. ASSUME NEW p \in Clients, Write(p) PROVE Unanswered' /\ SentAtMostOnce'
    <2> DEFINE l == Current(p)
               w0 == [line |-> l, attempt |-> h[p].attempt, conn |-> h[p].mine,
                      step |-> h[p].pc]
    <2>1. h[p].line \in 1 .. MaxLines /\ l \in Lines /\ reply[l] = "none"
      BY <1>2 DEF Write, SentInv, TypeInv, TypeOK, Unanswered, Lines, Current
    <2>2. Answer(p, h[p].line, "ok") /\ UNCHANGED arrived
      BY <1>2 DEF Write
    <2>3. transit' = transit \cup {w0} \/ transit' = transit
      BY <1>2 DEF Write, Accept
    <2>4. /\ \A q \in Clients \ {p} : h'[q] = h[q]
          /\ h'[p].line = h[p].line /\ h'[p].pc = "read"
          /\ reply' = [reply EXCEPT ![l] = "ok"]
      BY <2>1, <2>2, AnswerTypes DEF SentInv, Current
    <2>5. Unanswered'
      BY <2>1, <2>4 DEF SentInv, Unanswered, TypeInv, TypeOK, Lines, Current
    <2>6. \A w \in Taken : w.line # l
      BY <2>1 DEF SentInv, SentAtMostOnce
    <2>7. \A w \in Taken : reply'[w.line] = "ok"
      BY <2>4, <2>6 DEF SentInv, SentAtMostOnce, TypeInv, TypeOK, Taken, Writes
    <2>8. w0.line = l /\ reply'[l] = "ok"
      BY <2>1, <2>4 DEF SentInv, TypeInv, TypeOK
    <2>9. Taken' \subseteq Taken \cup {w0}
      BY <2>2, <2>3 DEF Taken
    <2> HIDE DEF w0, l
    <2>10. QED BY <2>5, <2>6, <2>7, <2>8, <2>9 DEF SentInv, SentAtMostOnce
  <1>3. ASSUME NEW p \in Clients, Clear(p) PROVE Unanswered' /\ SentAtMostOnce'
    <2>1. CASE h[p].pc = "clear"
      BY <1>3, <2>1 DEF Clear, Goto, SentInv, TypeInv, TypeOK, Unanswered, SentAtMostOnce, Taken
    <2>2. CASE h[p].pc = "clearNew"
      BY <1>3, <2>2, RetryKeepsSent DEF Clear
    <2>3. QED BY <1>3, <2>1, <2>2 DEF Clear
  <1>4. ASSUME NEW p \in Clients, DialFails(p) PROVE Unanswered' /\ SentAtMostOnce'
    BY <1>4, RetryKeepsSent DEF DialFails
  <1>5. ASSUME NEW p \in Clients,
               \/ ReadSignal(p) \/ LoadConn(p) \/ WriteFails(p) \/ Dial(p) \/ Store(p)
        PROVE  Unanswered' /\ SentAtMostOnce'
    <2>1. reply' = reply /\ UNCHANGED <<transit, arrived>>
      BY <1>5 DEF ReadSignal, LoadConn, WriteFails, Dial, Store
    <2>2. \A q \in Clients : \/ /\ h'[q].line = h[q].line
                                /\ h'[q].pc # "read" => h[q].pc # "read"
                             \/ h'[q].line = h[q].line + 1
      BY <1>5 DEF ReadSignal, LoadConn, WriteFails, Dial, Store, Goto, SentInv, TypeInv, TypeOK
    <2>3. ASSUME NEW q \in Clients, NEW n \in 1 .. MaxLines,
                 n > h'[q].line \/ (n = h'[q].line /\ h'[q].pc # "read")
          PROVE  reply'[<<q, n>>] = "none"
      <3>1. h[q].line \in Nat
        BY DEF SentInv, TypeInv, TypeOK
      <3>2. n > h[q].line \/ (n = h[q].line /\ h[q].pc # "read")
        BY <2>2, <2>3, <3>1
      <3>3. reply[<<q, n>>] = "none"
        BY <3>2 DEF SentInv, Unanswered
      <3>4. QED BY <2>1, <3>3
    <2>4. Unanswered'
      BY <2>3 DEF Unanswered
    <2>5. QED BY <2>1, <2>4 DEF SentInv, SentAtMostOnce, Taken
  <1>6. ASSUME NEW c \in Conns, ReaderEnds(c) \/ ServerDrops(c)
        PROVE  Unanswered' /\ SentAtMostOnce'
    <2>1. UNCHANGED <<h, reply>> /\ Taken' \subseteq Taken
      BY <1>6 DEF ReaderEnds, ServerDrops, Taken
    <2>2. QED BY <2>1 DEF SentInv, Unanswered, SentAtMostOnce
  <1>7. ASSUME NEW w \in transit, ServerReads(w) \/ ResetLoses(w)
        PROVE  Unanswered' /\ SentAtMostOnce'
    <2>1. UNCHANGED <<h, reply>> /\ Taken' \subseteq Taken
      BY <1>7 DEF ServerReads, ResetLoses, Taken
    <2>2. QED BY <2>1 DEF SentInv, Unanswered, SentAtMostOnce
  <1>8. CASE UNCHANGED vars
    BY <1>8 DEF vars, SentInv, Unanswered, SentAtMostOnce, Taken, TypeInv, TypeOK
  <1>9. QED
    BY <1>0, <1>1, <1>2, <1>3, <1>4, <1>5, <1>6, <1>7, <1>8 DEF Next, Send, SentInv

\* OrdersAreSentOnce: however many goroutines race for the shared connection of
\* sendToServer, and however often it breaks, no line reaches the network
\* twice, and none whose client is told that it failed.
THEOREM OrdersAreSentOnce == Spec => []SentAtMostOnce
  <1>1. Init => SentInv
    BY AttemptsAssumption, BoundsAssumption
       DEF Init, SentInv, TypeInv, TypeOK, Steps, ConnStates, Lines, Writes,
           Unanswered, SentAtMostOnce, Taken
  <1>2. SentInv /\ [Next]_vars => SentInv'
    BY SentStep
  <1>3. SentInv => SentAtMostOnce
    BY DEF SentInv
  <1>4. QED BY <1>1, <1>2, <1>3, PTL DEF Spec

-----------------------------------------------------------------------------
\* Every step keeps ConnInv.
LEMMA ConnStep == ConnInv /\ [Next]_vars => ConnInv'
  <1> SUFFICES ASSUME ConnInv, [Next]_vars PROVE ConnInv'
    OBVIOUS
  <1> USE BoundsAssumption, NoConnAssumption
  <1>0. TypeInv'
    BY TypeStep DEF ConnInv
  <1>1. ASSUME NEW p \in Clients,
               \/ ReadInvalid(p) \/ ReadSignal(p) \/ LoadConn(p) \/ Write(p)
               \/ WriteFails(p) \/ DialFails(p)
        PROVE  NewIsPrivate' /\ StoredIsNotClosed'
    <2>1. UNCHANGED <<serverConn, conn>>
      BY <1>1 DEF ReadInvalid, ReadSignal, LoadConn, Write, WriteFails, DialFails
    <2>2. \A q \in Clients \ {p} : h'[q] = h[q]
      BY <1>1 DEF ReadInvalid, ReadSignal, LoadConn, Write, WriteFails, DialFails,
                  Retry, Answer, Goto, ConnInv, TypeInv, TypeOK
    <2>3. h'[p].pc # "store"
      BY <1>1 DEF ReadInvalid, ReadSignal, LoadConn, Write, WriteFails, DialFails,
                  Retry, Answer, Goto, ConnInv, TypeInv, TypeOK
    <2>4. h'[p].mine \in {h[p].mine, serverConn, NoConn}
      BY <1>1 DEF ReadInvalid, ReadSignal, LoadConn, Write, WriteFails, DialFails,
                  Retry, Answer, Goto, ConnInv, TypeInv, TypeOK
    <2>5. NewIsPrivate'
      BY <2>1, <2>2, <2>3, <2>4 DEF ConnInv, NewIsPrivate, TypeInv, TypeOK
    <2>6. QED BY <2>1, <2>5 DEF ConnInv, StoredIsNotClosed
  <1>2. ASSUME NEW p \in Clients, Clear(p) PROVE NewIsPrivate' /\ StoredIsNotClosed'
    <2>1. /\ \A q \in Clients \ {p} : h'[q] = h[q]
          /\ h'[p].pc # "store" /\ h'[p].mine = NoConn
      BY <1>2 DEF Clear, Retry, Answer, Goto, ConnInv, TypeInv, TypeOK
    <2>2. /\ serverConn' = NoConn
          /\ \A c \in Conns \ {serverConn} : conn'[c] = conn[c]
      BY <1>2 DEF Clear, CloseAndForget, ConnInv, TypeInv, TypeOK
    <2>3. QED BY <2>1, <2>2 DEF ConnInv, NewIsPrivate, StoredIsNotClosed, TypeInv, TypeOK
  <1>3. ASSUME NEW p \in Clients, Dial(p) PROVE NewIsPrivate' /\ StoredIsNotClosed'
    <2>1. PICK c \in Conns : /\ Free(c)
                             /\ conn' = [conn EXCEPT ![c] = "open"]
                             /\ Goto(p, "store", c)
      BY <1>3 DEF Dial
    <2>2. serverConn' = serverConn
      BY <1>3 DEF Dial
    <2>3. /\ \A q \in Clients \ {p} : h'[q] = h[q]
          /\ h'[p].pc = "store" /\ h'[p].mine = c
          /\ conn'[c] = "open"
          /\ \A b \in Conns \ {c} : conn'[b] = conn[b]
      BY <2>1, GotoTypes DEF ConnInv, TypeInv, TypeOK, Steps
    <2>4. serverConn # c /\ \A q \in Clients : h[q].mine # c
      BY <2>1 DEF Free
    <2>5. QED BY <2>2, <2>3, <2>4 DEF ConnInv, NewIsPrivate, StoredIsNotClosed, TypeInv, TypeOK
  <1>4. ASSUME NEW p \in Clients, Store(p) PROVE NewIsPrivate' /\ StoredIsNotClosed'
    <2>1. /\ \A q \in Clients \ {p} : h'[q] = h[q]
          /\ h'[p].pc = "writeNew" /\ h'[p].mine = h[p].mine
          /\ serverConn' = h[p].mine /\ conn' = conn
      BY <1>4, GotoTypes DEF Store, ConnInv, TypeInv, TypeOK, Steps
    <2>2. h[p].pc = "store"
      BY <1>4 DEF Store
    <2>3. QED BY <2>1, <2>2 DEF ConnInv, NewIsPrivate, StoredIsNotClosed, TypeInv, TypeOK
  <1>5. ASSUME NEW c \in Conns, ReaderEnds(c) PROVE NewIsPrivate' /\ StoredIsNotClosed'
    BY <1>5 DEF ReaderEnds, ConnInv, NewIsPrivate, StoredIsNotClosed, TypeInv, TypeOK
  <1>6. ASSUME NEW c \in Conns, ServerDrops(c) PROVE NewIsPrivate' /\ StoredIsNotClosed'
    BY <1>6 DEF ServerDrops, ConnInv, NewIsPrivate, StoredIsNotClosed, TypeInv, TypeOK
  <1>7. ASSUME NEW w \in transit, ServerReads(w) \/ ResetLoses(w)
        PROVE  NewIsPrivate' /\ StoredIsNotClosed'
    BY <1>7 DEF ServerReads, ResetLoses, ConnInv, NewIsPrivate, StoredIsNotClosed
  <1>8. CASE UNCHANGED vars
    BY <1>8 DEF vars, ConnInv, NewIsPrivate, StoredIsNotClosed, TypeInv, TypeOK
  <1>9. QED
    BY <1>0, <1>1, <1>2, <1>3, <1>4, <1>5, <1>6, <1>7, <1>8 DEF Next, Send, ConnInv

\* StoredConnectionIsNotClosed: the connection sendToServer finds stored was
\* never closed by a sender, although senders close without looking whose
\* connection it is.
THEOREM StoredConnectionIsNotClosed == Spec => []StoredIsNotClosed
  <1>1. Init => ConnInv
    BY AttemptsAssumption, BoundsAssumption, NoConnAssumption
       DEF Init, ConnInv, TypeInv, TypeOK, Steps, ConnStates, Lines, Writes,
           NewIsPrivate, StoredIsNotClosed
  <1>2. ConnInv /\ [Next]_vars => ConnInv'
    BY ConnStep
  <1>3. ConnInv => StoredIsNotClosed
    BY DEF ConnInv
  <1>4. QED BY <1>1, <1>2, <1>3, PTL DEF Spec
=============================================================================
