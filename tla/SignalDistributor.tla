-------------------------- MODULE SignalDistributor --------------------------
(***************************************************************************)
(* internal/distributor/signal_distributor.go: every call of Distribute    *)
(* starts one goroutine per follower; each builds an order (follower_order *)
(* .go: the follower's lot) and sends it on a bounded channel shared by    *)
(* all calls, giving up after five seconds; the call counts the outcomes   *)
(* and returns when every goroutine is done. followerOrderWorker (cmd/tcp) *)
(* is the channel's only receiver, and may be stuck for ever in a write to *)
(* a log nobody reads.                                                     *)
(*                                                                         *)
(* The channel is Go's: a send to a full buffer waits in waiting, and a    *)
(* receive hands the place it frees to the sender that has waited longest, *)
(* in the same step.                                                       *)
(***************************************************************************)
EXTENDS Integers, Sequences, FiniteSets

CONSTANTS Calls,      \* calls of Distribute, one per signal of a master
          Followers,  \* the followers a call may be given
          Capacity,   \* of the channel (1000 in the code)
          SignalLots, \* lots a signal may carry, in hundredths, or NaN
          NaN,        \* what parseFloat makes of a "NaN" in the message
          Multiplier  \* [Followers -> hundredths]: LotMultiplier

ASSUME FollowersAssumption == IsFiniteSet(Followers)
ASSUME CapacityAssumption == Capacity \in Nat \ {0}
ASSUME LotAssumption == /\ SignalLots \subseteq Int \cup {NaN}
                        /\ NaN \notin Int
                        /\ Multiplier \in [Followers -> 1 .. 10000]

VARIABLES batch,    \* [Calls -> SUBSET Followers]: the call's followers
          lot,      \* [Calls -> SignalLots]: the lot of the call's signal
          call,     \* [Calls -> {"idle", "running", "returned"}]
          g,        \* [Calls -> [Followers -> goroutine state]]
          ok, err,  \* [Calls -> Nat]: the call's two atomic counters
          chan,     \* buffered orders, oldest first
          waiting,  \* orders of blocked senders, longest waiting first
          handled,  \* orders the worker has received
          stalled   \* the worker is stuck

vars == <<batch, lot, call, g, ok, err, chan, waiting, handled, stalled>>
counts == <<ok, err>>
signal == <<batch, lot>>

Order(c, f, l) == [call |-> c, follower |-> f, lot |-> l]
Orders == [call : Calls, follower : Followers, lot : Int \cup {NaN}]
Of(c, f, o) == o.call = c /\ o.follower = f

GoStates == {"none", "create", "blocked", "sent", "timedout",
             "succeeded", "failed"}
Done     == {"succeeded", "failed"}

Goroutine(c, f, state) == g' = [g EXCEPT ![c][f] = state]

Init == /\ batch = [c \in Calls |-> {}]
        /\ lot \in [Calls -> SignalLots]
        /\ call = [c \in Calls |-> "idle"]
        /\ g = [c \in Calls |-> [f \in Followers |-> "none"]]
        /\ ok = [c \in Calls |-> 0]
        /\ err = [c \in Calls |-> 0]
        /\ chan = <<>> /\ waiting = <<>>
        /\ handled = {}
        /\ stalled = FALSE

-----------------------------------------------------------------------------
(* CreateFollowerOrder. A lot is a number of hundredths. *)

MinLot == 1
MaxLot == 10000

Clamp(l) == IF l < MinLot THEN MinLot ELSE IF l > MaxLot THEN MaxLot ELSE l

\* rawLot*100 is p / 100 but for a float's last bit, which decides a tie.
Rounded(p) == LET down == p \div 100
              IN  CASE p % 100 < 50 -> {down}
                    [] p % 100 > 50 -> {down + 1}
                    [] OTHER        -> {down, down + 1}

\* Conversion to an integer instead of math.Round.
TruncatedLot(l, multiplier) ==
    IF l = NaN THEN {NaN} ELSE {Clamp((l * multiplier) \div 100)}

\* Both comparisons of the clamp are false for NaN.
CalculateLot(l, multiplier) ==
    IF l = NaN THEN {NaN} ELSE {Clamp(r) : r \in Rounded(l * multiplier)}

-----------------------------------------------------------------------------
(* Distribute *)

\* wg.Add and the go statement for every follower; none without followers.
Distribute(c, fs) ==
    /\ call[c] = "idle"
    /\ batch' = [batch EXCEPT ![c] = fs]
    /\ call' = [call EXCEPT ![c] = IF fs = {} THEN "returned" ELSE "running"]
    /\ g' = [g EXCEPT ![c] = [f \in Followers |->
                                 IF f \in fs THEN "create" ELSE "none"]]
    /\ UNCHANGED <<lot, counts, chan, waiting, handled, stalled>>

\* A select that drops the order when the channel is full.
SendOrDrop(c, f) ==
    /\ g[c][f] = "create"
    /\ Goroutine(c, f, "sent")
    /\ \E l \in CalculateLot(lot[c], Multiplier[f]) :
          chan' = IF Len(chan) < Capacity THEN Append(chan, Order(c, f, l)) ELSE chan
    /\ UNCHANGED <<signal, call, counts, waiting, handled, stalled>>

\* An order that does not carry its signal.
EnqueueFollower(c, f) ==
    /\ g[c][f] = "create"
    /\ Len(chan) < Capacity
    /\ chan' = Append(chan, [follower |-> f])
    /\ Goroutine(c, f, "sent")
    /\ UNCHANGED <<signal, call, counts, waiting, handled, stalled>>

\* enqueueOrder's select: the send happens at once if the buffer has room.
EnqueueOrder(c, f) ==
    /\ g[c][f] = "create"
    /\ \E l \in CalculateLot(lot[c], Multiplier[f]) :
          IF Len(chan) < Capacity
          THEN /\ chan' = Append(chan, Order(c, f, l))
               /\ Goroutine(c, f, "sent")
               /\ UNCHANGED waiting
          ELSE /\ waiting' = Append(waiting, Order(c, f, l))
               /\ Goroutine(c, f, "blocked")
               /\ UNCHANGED chan
    /\ UNCHANGED <<signal, call, counts, handled, stalled>>

\* A send without a timer.
NoTimeout(c, f) == FALSE /\ UNCHANGED vars

\* The queue q without its i-th element.
Without(q, i) == [j \in 1 .. Len(q) - 1 |-> IF j < i THEN q[j] ELSE q[j + 1]]

\* time.After(5 * time.Second) fires first: the sender leaves the channel's queue.
Timeout(c, f) ==
    /\ g[c][f] = "blocked"
    /\ \E i \in 1 .. Len(waiting) : /\ Of(c, f, waiting[i])
                                    /\ waiting' = Without(waiting, i)
    /\ Goroutine(c, f, "timedout")
    /\ UNCHANGED <<signal, call, counts, chan, handled, stalled>>

\* successCount.Add or errorCount.Add, then wg.Done.
CountOutcome(c, f) ==
    /\ \/ /\ g[c][f] = "sent"
          /\ ok' = [ok EXCEPT ![c] = @ + 1]
          /\ Goroutine(c, f, "succeeded")
          /\ UNCHANGED err
       \/ /\ g[c][f] = "timedout"
          /\ err' = [err EXCEPT ![c] = @ + 1]
          /\ Goroutine(c, f, "failed")
          /\ UNCHANGED ok
    /\ UNCHANGED <<signal, call, chan, waiting, handled, stalled>>

\* A wait that is over when the first goroutine is done.
ReturnEarly(c) ==
    /\ call[c] = "running"
    /\ \E f \in batch[c] : g[c][f] \in Done
    /\ call' = [call EXCEPT ![c] = "returned"]
    /\ UNCHANGED <<signal, g, counts, chan, waiting, handled, stalled>>

\* wg.Wait is over; the counters are read into the result.
Return(c) ==
    /\ call[c] = "running"
    /\ \A f \in batch[c] : g[c][f] \in Done
    /\ call' = [call EXCEPT ![c] = "returned"]
    /\ UNCHANGED <<signal, g, counts, chan, waiting, handled, stalled>>
-----------------------------------------------------------------------------
(* followerOrderWorker *)

\* A receive that leaves the senders waiting where they are.
ReceiveOnly ==
    /\ chan # <<>> /\ ~stalled
    /\ handled' = handled \cup {Head(chan)}
    /\ chan' = Tail(chan)
    /\ UNCHANGED <<signal, call, g, counts, waiting, stalled>>

\* The worker only logs the order it receives.
Receive ==
    /\ chan # <<>> /\ ~stalled
    /\ handled' = handled \cup {Head(chan)}
    /\ IF waiting = <<>>
       THEN /\ chan' = Tail(chan)
            /\ UNCHANGED <<g, waiting>>
       ELSE /\ chan' = Append(Tail(chan), Head(waiting))
            /\ waiting' = Tail(waiting)
            /\ Goroutine(Head(waiting).call, Head(waiting).follower, "sent")
    /\ UNCHANGED <<signal, call, counts, stalled>>

\* The worker's write to the log blocks, and is never read on.
Stall == /\ ~stalled
         /\ stalled' = TRUE
         /\ UNCHANGED <<signal, call, g, counts, chan, waiting, handled>>

-----------------------------------------------------------------------------
Go(c, f) == EnqueueOrder(c, f) \/ Timeout(c, f) \/ CountOutcome(c, f)

\* All calls have returned and the worker waits for an order or for its log.
Rest == /\ \A c \in Calls : call[c] = "returned"
        /\ chan = <<>> \/ stalled
        /\ UNCHANGED vars

Next == \/ \E c \in Calls :
              \/ \E fs \in SUBSET Followers : Distribute(c, fs)
              \/ \E f \in Followers : Go(c, f)
              \/ Return(c)
        \/ Receive
        \/ Stall
        \/ Rest

\* Go runs every runnable goroutine, and a timer that has expired fires.
GoFairness == \A c \in Calls : /\ \A f \in Followers : WF_vars(Go(c, f))
                              /\ WF_vars(Return(c))

\* Nothing says that the worker gets stuck, only that a worker that is not
\* takes the orders of the channel.
Spec == Init /\ [][Next]_vars /\ GoFairness /\ WF_vars(Receive)

-----------------------------------------------------------------------------
(* Properties *)

Elements(s) == {s[i] : i \in 1 .. Len(s)}
Sent == Elements(chan) \cup handled

TypeOK == /\ batch \in [Calls -> SUBSET Followers]
          /\ lot \in [Calls -> SignalLots]
          /\ call \in [Calls -> {"idle", "running", "returned"}]
          /\ g \in [Calls -> [Followers -> GoStates]]
          /\ ok \in [Calls -> Nat]
          /\ err \in [Calls -> Nat]
          /\ chan \in Seq(Orders)
          /\ waiting \in Seq(Orders)
          /\ handled \subseteq Orders
          /\ stalled \in BOOLEAN

\* The orders sent are those in the channel or received, each once; a failed or
\* waiting one is in neither: no interleaving of senders, timers and worker
\* loses, duplicates or revives an order.
OrdersConserved ==
    /\ Len(chan) = Cardinality(Elements(chan))
    /\ Elements(chan) \cap handled = {}
    /\ \A c \in Calls, f \in Followers :
          Cardinality({o \in Sent : Of(c, f, o)})
              = IF g[c][f] \in {"sent", "succeeded"} THEN 1 ELSE 0

\* A sender waits only while the channel is full, and no place freed is left
\* to a sender that does not know of it.
WaitOnlyWhenFull ==
    /\ Len(chan) <= Capacity
    /\ waiting # <<>> => Len(chan) = Capacity
    /\ \A c \in Calls, f \in Followers :
          g[c][f] = "blocked" <=> \E o \in Elements(waiting) : Of(c, f, o)

\* The result adds up: a call that has returned has one outcome per follower,
\* and its SuccessCount is the number of its orders the channel took.
ResultIsExact ==
    \A c \in Calls : call[c] = "returned" =>
        /\ ok[c] + err[c] = Cardinality(batch[c])
        /\ ok[c] = Cardinality({o \in Sent : o.call = c})

\* The lot of an order is the valid one nearest to the product of its own
\* signal's lot and its own follower's multiplier, whatever calls overlap: no
\* valid lot next to it is nearer (the distance is convex). A NaN stays NaN.
Distance(l, p) == IF 100 * l >= p THEN 100 * l - p ELSE p - 100 * l
LotsAreNearest ==
    \A o \in Sent :
        IF lot[o.call] = NaN THEN o.lot = NaN
        ELSE /\ o.lot \in MinLot .. MaxLot
             /\ \A l \in {o.lot - 1, o.lot + 1} \cap (MinLot .. MaxLot) :
                   LET p == lot[o.call] * Multiplier[o.follower]
                   IN  Distance(o.lot, p) <= Distance(l, p)

\* Distribute returns whatever the worker does: the five-second timers bound
\* every send, so a stuck worker cannot hold the signal's goroutine for ever.
CallsReturn == \A c \in Calls : (call[c] = "running") ~> (call[c] = "returned")

\* The distributor implements OrderFanOut, its fairness included: unless
\* the worker gets stuck, every accepted order is delivered.
Verdict == [none |-> "none", create |-> "pending", blocked |-> "pending",
            sent |-> "accepted", succeeded |-> "accepted",
            timedout |-> "rejected", failed |-> "rejected"]

FO == INSTANCE OrderFanOut WITH
        verdict   <- [c \in Calls |-> [f \in Followers |-> Verdict[g[c][f]]]],
        delivered <- {<<o.call, o.follower>> : o \in handled},
        working   <- ~stalled,
        report    <- [c \in Calls |->
                        IF call[c] = "returned"
                        THEN [total |-> Cardinality(batch[c]), ok |-> ok[c],
                              err |-> err[c], final |-> TRUE]
                        ELSE [total |-> 0, ok |-> 0, err |-> 0, final |-> FALSE]]

ImplementsFanOut == FO!FSpec
=============================================================================
