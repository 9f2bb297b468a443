----------------------- MODULE SignalDistributorProofs -----------------------
(***************************************************************************)
(* Proofs about SignalDistributor, for any number of calls, followers and  *)
(* places in the channel, and any lots.  The invariant ties each           *)
(* goroutine's place to the one order it has built, and the counters to    *)
(* the goroutines.                                                         *)
(***************************************************************************)
EXTENDS SignalDistributor, SequenceFacts

Same(o, p) == o.call = p.call /\ o.follower = p.follower

\* No two orders of the queue are of one goroutine.
OnePerGoroutine(q) == \A i, j \in 1 .. Len(q) : Same(q[i], q[j]) => i = j

\* An order is in one place, and its goroutine knows which.
PlaceInv ==
    /\ OnePerGoroutine(chan) /\ OnePerGoroutine(waiting)
    /\ \A o \in Elements(chan), p \in handled : ~Same(o, p)
    /\ \A o, p \in handled : Same(o, p) => o = p
    /\ \A o \in Elements(waiting) : g[o.call][o.follower] = "blocked"
    /\ \A o \in Sent : g[o.call][o.follower] \in {"sent", "succeeded"}
    /\ \A c \in Calls, f \in Followers :
          /\ g[c][f] = "blocked" => \E o \in Elements(waiting) : Of(c, f, o)
          /\ g[c][f] \in {"sent", "succeeded"} => \E o \in Sent : Of(c, f, o)

RoomInv == /\ Len(chan) <= Capacity
           /\ waiting # <<>> => Len(chan) = Capacity

\* A goroutine's order carries its signal's lot for its follower.
LotInv == \A o \in Sent \cup Elements(waiting) :
             o.lot \in CalculateLot(lot[o.call], Multiplier[o.follower])

\* A call's goroutines are those of its followers, and its counters count them.
At(c, s) == {f \in Followers : g[c][f] = s}
CountInv == \A c \in Calls :
    /\ ok[c] = Cardinality(At(c, "succeeded")) /\ err[c] = Cardinality(At(c, "failed"))
    /\ call[c] = "idle" => \A f \in Followers : g[c][f] = "none"
    /\ call[c] # "idle" => \A f \in Followers : g[c][f] # "none" <=> f \in batch[c]
    /\ call[c] = "returned" => \A f \in batch[c] : g[c][f] \in Done
    /\ call[c] = "running" => batch[c] # {}

DistInv == TypeOK /\ PlaceInv /\ RoomInv /\ LotInv /\ CountInv

-----------------------------------------------------------------------------
(* The lot of an order *)

Lots        == Int \cup {NaN}
Multipliers == 1 .. 10000

\* A signal's lot is a number or NaN, and a multiplier a positive number.
LEMMA SignalLotTypes == /\ \A x \in SignalLots : x \in Lots
                        /\ \A f \in Followers : Multiplier[f] \in Multipliers
  BY LotAssumption DEF Lots, Multipliers

\* Rounding makes whole hundredths.
LEMMA RoundedTypes == \A p \in Int : Rounded(p) \subseteq Int
  BY DEF Rounded

\* CalculateLot returns a valid lot, or NaN for a NaN.
LEMMA LotTypes ==
    \A l \in Lots, m \in Multipliers : \A x \in CalculateLot(l, m) :
        /\ x \in Lots
        /\ l # NaN => x \in MinLot .. MaxLot
  <1> TAKE l \in Lots, m \in Multipliers
  <1> TAKE x \in CalculateLot(l, m)
  <1>1. CASE l = NaN
    BY <1>1 DEF CalculateLot
  <1>2. CASE l # NaN
    <2>1. l * m \in Int
      BY <1>2 DEF Lots, Multipliers
    <2>2. PICK r \in Rounded(l * m) : x = Clamp(r)
      BY <1>2 DEF CalculateLot
    <2>3. r \in Int
      BY <2>1, <2>2, RoundedTypes
    <2>4. QED BY <2>2, <2>3 DEF Clamp, MinLot, MaxLot, Lots
  <1>3. QED BY <1>1, <1>2

\* CalculateLot's rounding and clamp keep the lot nearest to the product: rounding
\* is never off by more than half a hundredth, and the clamp moves towards it.
LEMMA LotNearest ==
    \A l \in Lots \ {NaN}, m \in Multipliers : \A x \in CalculateLot(l, m) :
        \A y \in {x - 1, x + 1} \cap (MinLot .. MaxLot) :
            Distance(x, l * m) <= Distance(y, l * m)
  <1> TAKE l \in Lots \ {NaN}, m \in Multipliers
  <1> TAKE x \in CalculateLot(l, m)
  <1> DEFINE p == l * m
  <1>1. p \in Int
    BY DEF Lots, Multipliers
  <1>2. PICK r \in Rounded(p) : x = Clamp(r)
    BY DEF CalculateLot
  <1> HIDE DEF p
  <1>3. r \in Int /\ 100 * r - p <= 50 /\ p - 100 * r <= 50
    <2> DEFINE d == p \div 100
               rest == p % 100
    <2>1. d \in Int /\ rest \in 0 .. 99
      BY <1>1
    <2>2. rest = p - 100 * d
      BY <1>1, Z3
    <2>3. r \in IF rest < 50 THEN {d} ELSE IF rest > 50 THEN {d + 1} ELSE {d, d + 1}
      BY <1>2, <2>1 DEF Rounded
    <2> HIDE DEF d, rest
    <2>4. QED BY <1>1, <2>1, <2>2, <2>3
  <1>4. \A y \in {x - 1, x + 1} \cap (MinLot .. MaxLot) : Distance(x, p) <= Distance(y, p)
    BY <1>1, <1>2, <1>3 DEF Clamp, MinLot, MaxLot, Distance
  <1>5. QED BY <1>4 DEF p

-----------------------------------------------------------------------------
(* The queues and the goroutines *)

\* A goroutine that goes on leaves the others where they are.
LEMMA GoStep ==
    ASSUME TypeOK, NEW c \in Calls, NEW f \in Followers, NEW s \in GoStates,
           Goroutine(c, f, s)
    PROVE  /\ g' \in [Calls -> [Followers -> GoStates]]
           /\ g'[c][f] = s
           /\ \A b \in Calls, e \in Followers :
                 g'[b][e] = g[b][e] \/ (b = c /\ e = f)
  BY DEF Goroutine, TypeOK

\* A goroutine's first order behind those of others.
LEMMA AppendOne ==
    ASSUME NEW q \in Seq(Orders), NEW x \in Orders, OnePerGoroutine(q),
           \A o \in Elements(q) : ~Same(o, x),
           NEW r, r = Append(q, x)
    PROVE  OnePerGoroutine(r)
  <1>1. /\ Len(q) \in Nat
        /\ \A i \in 1 .. Len(q) : r[i] = q[i]
        /\ r[Len(q) + 1] = x
        /\ 1 .. Len(r) = 1 .. Len(q) \cup {Len(q) + 1}
    BY AppendElements
  <1>2. \A i \in 1 .. Len(q) : ~Same(q[i], x) /\ ~Same(x, q[i])
    BY DEF Elements, Same
  <1>3. QED BY <1>1, <1>2 DEF OnePerGoroutine

\* The first order taken off.
LEMMA TailOne ==
    ASSUME NEW q \in Seq(Orders), q # <<>>, OnePerGoroutine(q)
    PROVE  /\ OnePerGoroutine(Tail(q))
           /\ \A o \in Elements(Tail(q)) : ~Same(o, Head(q)) /\ ~Same(Head(q), o)
           /\ Elements(q) = Elements(Tail(q)) \cup {Head(q)}
  <1>1. /\ Len(q) \in Nat /\ Len(q) > 0 /\ Len(Tail(q)) = Len(q) - 1 /\ Head(q) = q[1]
        /\ \A i \in 1 .. Len(Tail(q)) : Tail(q)[i] = q[i + 1] /\ i + 1 \in 1 .. Len(q)
        /\ Elements(q) = Elements(Tail(q)) \cup {Head(q)}
    BY TailElements DEF Elements
  <1>2. OnePerGoroutine(Tail(q))
    <2>1. ASSUME NEW i \in 1 .. Len(Tail(q)), NEW j \in 1 .. Len(Tail(q)),
                 Same(Tail(q)[i], Tail(q)[j])
          PROVE  i = j
      <3>1. Same(q[i + 1], q[j + 1]) /\ i + 1 \in 1 .. Len(q) /\ j + 1 \in 1 .. Len(q)
        BY <1>1, <2>1
      <3>2. i + 1 = j + 1
        BY <3>1 DEF OnePerGoroutine
      <3>3. QED BY <3>2
    <2>2. QED BY <2>1 DEF OnePerGoroutine
  <1>3. ASSUME NEW o \in Elements(Tail(q)) PROVE ~Same(o, Head(q)) /\ ~Same(Head(q), o)
    <2>1. PICK i \in 1 .. Len(Tail(q)) : o = Tail(q)[i]
      BY DEF Elements
    <2>2. o = q[i + 1] /\ i + 1 \in 1 .. Len(q) /\ 1 \in 1 .. Len(q) /\ i + 1 # 1
      BY <1>1, <2>1
    <2>3. ~Same(q[i + 1], q[1]) /\ ~Same(q[1], q[i + 1])
      BY <2>2 DEF OnePerGoroutine
    <2>4. QED BY <1>1, <2>2, <2>3
  <1>4. QED BY <1>1, <1>2, <1>3

\* A waiting order left out.
LEMMA WithoutOne ==
    ASSUME NEW q \in Seq(Orders), OnePerGoroutine(q), NEW k \in 1 .. Len(q)
    PROVE  /\ Without(q, k) \in Seq(Orders)
           /\ OnePerGoroutine(Without(q, k))
           /\ Elements(q) = Elements(Without(q, k)) \cup {q[k]}
           /\ \A o \in Elements(Without(q, k)) : ~Same(o, q[k])
           /\ Without(q, k) # <<>> => q # <<>>
  <1> DEFINE w == Without(q, k)
             At0(j) == IF j < k THEN j ELSE j + 1
  <1>1. Len(q) \in Nat /\ Len(q) - 1 \in Nat /\ \A i \in 1 .. Len(q) : q[i] \in Orders
    BY LenProperties, ElementOfSeq
  <1>2. \A j \in 1 .. Len(q) - 1 : At0(j) \in 1 .. Len(q) /\ At0(j) # k
    BY <1>1
  <1>3. w = [j \in 1 .. Len(q) - 1 |-> q[At0(j)]]
    BY DEF Without
  <1>4. w \in [1 .. Len(q) - 1 -> Orders]
    BY <1>1, <1>2, <1>3
  <1>5. w \in Seq(Orders) /\ Len(w) = Len(q) - 1
    BY <1>1, <1>4, SeqDef, LenProperties
  <1>6. \A j \in 1 .. Len(w) : w[j] = q[At0(j)]
    BY <1>3, <1>5
  <1>7. \A i, j \in 1 .. Len(w) : At0(i) = At0(j) => i = j
    BY <1>1, <1>5
  <1>8. \A i \in (1 .. Len(q)) \ {k} : \E j \in 1 .. Len(w) : At0(j) = i
    <2> TAKE i \in (1 .. Len(q)) \ {k}
    <2>1. CASE i < k
      <3>1. i \in 1 .. Len(w) /\ At0(i) = i
        BY <1>1, <1>5, <2>1
      <3>2. QED BY <3>1
    <2>2. CASE i > k
      <3>1. i - 1 \in 1 .. Len(w) /\ At0(i - 1) = i
        BY <1>1, <1>5, <2>2
      <3>2. QED BY <3>1
    <2>3. QED BY <1>1, <2>1, <2>2
  <1> HIDE DEF w, At0
  <1>9. OnePerGoroutine(w)
    BY <1>2, <1>5, <1>6, <1>7 DEF OnePerGoroutine
  <1>10. \A j \in 1 .. Len(w) : ~Same(w[j], q[k])
    BY <1>2, <1>5, <1>6 DEF OnePerGoroutine
  <1>11. Elements(q) = Elements(w) \cup {q[k]}
    <2>1. ASSUME NEW i \in 1 .. Len(q) PROVE q[i] \in Elements(w) \cup {q[k]}
      <3>1. CASE i = k
        BY <3>1
      <3>2. CASE i # k
        BY <1>6, <1>8, <3>2 DEF Elements
      <3>3. QED BY <3>1, <3>2
    <2>2. ASSUME NEW j \in 1 .. Len(w) PROVE w[j] \in Elements(q)
      BY <1>2, <1>5, <1>6 DEF Elements
    <2>3. q[k] \in Elements(q)
      BY DEF Elements
    <2>4. QED BY <2>1, <2>2, <2>3 DEF Elements
  <1>12. q # <<>>
    BY EmptySeq
  <1>13. QED BY <1>5, <1>9, <1>10, <1>11, <1>12 DEF w, Elements

-----------------------------------------------------------------------------
(* The counters *)

\* A goroutine that is under way and goes on, but is not done, changes no counter,
\* and its call has not returned.
LEMMA GoesOn ==
    ASSUME TypeOK, CountInv, NEW c \in Calls, NEW f \in Followers,
           g[c][f] \notin Done \cup {"none"},
           NEW s \in GoStates \ (Done \cup {"none"}), Goroutine(c, f, s),
           UNCHANGED <<batch, call, ok, err>>
    PROVE  CountInv'
  <1>1. /\ g'[c][f] = s
        /\ \A b \in Calls, e \in Followers : g'[b][e] = g[b][e] \/ (b = c /\ e = f)
    BY GoStep
  <1>2. \A b \in Calls : /\ At(b, "succeeded")' = At(b, "succeeded")
                         /\ At(b, "failed")' = At(b, "failed")
    BY <1>1 DEF At, Done
  <1>3. \A b \in Calls, e \in Followers :
           /\ g'[b][e] = "none" <=> g[b][e] = "none"
           /\ g'[b][e] \in Done <=> g[b][e] \in Done
    BY <1>1
  <1>4. QED BY <1>2, <1>3 DEF CountInv, TypeOK

\* A step that leaves the goroutines alone.
LEMMA CountKept ==
    ASSUME CountInv, UNCHANGED <<batch, call, g, ok, err>>
    PROVE  CountInv'
  BY DEF CountInv, At

-----------------------------------------------------------------------------
(* The steps *)

\* A goroutine that has only started owns no order.
LEMMA CreateHasNone ==
    ASSUME DistInv, NEW c \in Calls, NEW f \in Followers,
           g[c][f] \notin {"blocked", "sent", "succeeded"}
    PROVE  \A o \in Sent \cup Elements(waiting) : ~Of(c, f, o)
  BY DEF DistInv, PlaceInv, Of

\* Every order there is has its types.
LEMMA OrdersTyped ==
    ASSUME TypeOK
    PROVE  \A o \in Sent \cup Elements(waiting) :
              o \in Orders /\ o.call \in Calls /\ o.follower \in Followers
  <1>1. \A o \in Elements(chan) \cup Elements(waiting) : o \in Orders
    BY ElementOfSeq DEF TypeOK, Elements
  <1>2. QED BY <1>1 DEF TypeOK, Sent, Orders

\* The order a goroutine builds.
LEMMA OrderTyped ==
    ASSUME TypeOK, NEW c \in Calls, NEW f \in Followers,
           NEW l \in CalculateLot(lot[c], Multiplier[f])
    PROVE  /\ Order(c, f, l) \in Orders
           /\ Order(c, f, l).call = c /\ Order(c, f, l).follower = f
           /\ Order(c, f, l).lot = l
  <1>1. lot[c] \in Lots /\ Multiplier[f] \in Multipliers
    BY SignalLotTypes DEF TypeOK
  <1>2. l \in Int \cup {NaN}
    BY <1>1, LotTypes DEF Lots
  <1>3. QED BY <1>2 DEF Order, Orders

\* A send takes a place in the channel, or its goroutine waits for one.
LEMMA EnqueueStep ==
    ASSUME DistInv, NEW c \in Calls, NEW f \in Followers, EnqueueOrder(c, f)
    PROVE  DistInv'
  <1>t. TypeOK /\ chan \in Seq(Orders) /\ waiting \in Seq(Orders)
    BY DEF DistInv, TypeOK
  <1>1. PICK l \in CalculateLot(lot[c], Multiplier[f]) :
           IF Len(chan) < Capacity
           THEN /\ chan' = Append(chan, Order(c, f, l))
                /\ Goroutine(c, f, "sent")
                /\ waiting' = waiting
           ELSE /\ waiting' = Append(waiting, Order(c, f, l))
                /\ Goroutine(c, f, "blocked")
                /\ chan' = chan
    BY DEF EnqueueOrder
  <1>2. g[c][f] = "create" /\ UNCHANGED <<batch, lot, call, ok, err, handled, stalled>>
    BY DEF EnqueueOrder, signal, counts
  <1> DEFINE x == Order(c, f, l)
  <1>3. x \in Orders /\ x.call = c /\ x.follower = f /\ x.lot = l
    BY <1>t, OrderTyped
  <1>4. \A o \in Sent \cup Elements(waiting) : ~Same(o, x) /\ ~Same(x, o)
    BY <1>2, <1>3, CreateHasNone DEF Of, Same
  <1>5. \A o \in Sent \cup Elements(waiting) :
           o \in Orders /\ o.call \in Calls /\ o.follower \in Followers
    BY <1>t, OrdersTyped
  <1> HIDE DEF x
  <1>6. CASE Len(chan) < Capacity
    <2>1. chan' = Append(chan, x) /\ Goroutine(c, f, "sent") /\ waiting' = waiting
      BY <1>1, <1>6 DEF x
    <2>2. /\ g' \in [Calls -> [Followers -> GoStates]]
          /\ g'[c][f] = "sent"
          /\ \A b \in Calls, e \in Followers : g'[b][e] = g[b][e] \/ (b = c /\ e = f)
      BY <1>t, <2>1, GoStep DEF GoStates
    <2>3. /\ chan' \in Seq(Orders) /\ Len(chan) \in Nat /\ Len(chan') = Len(chan) + 1
          /\ Elements(chan') = Elements(chan) \cup {x}
      BY <1>t, <1>3, <2>1, AppendElements DEF Elements
    <2>4. OnePerGoroutine(chan')
      BY <1>t, <1>3, <1>4, <2>1, AppendOne DEF Sent, DistInv, PlaceInv
    <2>5. Sent' = Sent \cup {x} /\ Elements(waiting)' = Elements(waiting)
      BY <1>2, <2>1, <2>3 DEF Sent, Elements
    <2>6. TypeOK'
      BY <1>t, <1>2, <2>1, <2>2, <2>3 DEF TypeOK
    <2>7. PlaceInv'
      <3>1. \A o \in Elements(chan'), p \in handled' : ~Same(o, p)
        BY <1>2, <1>4, <2>3 DEF DistInv, PlaceInv, Sent
      <3>2. \A o \in Elements(waiting) : g'[o.call][o.follower] = "blocked"
        BY <1>2, <1>5, <2>2 DEF DistInv, PlaceInv
      <3>3. \A o \in Sent' : g'[o.call][o.follower] \in {"sent", "succeeded"}
        BY <1>2, <1>3, <1>5, <2>2, <2>5 DEF DistInv, PlaceInv
      <3>4. \A b \in Calls, e \in Followers :
               /\ g'[b][e] = "blocked" => \E o \in Elements(waiting) : Of(b, e, o)
               /\ g'[b][e] \in {"sent", "succeeded"} => \E o \in Sent' : Of(b, e, o)
        BY <1>3, <2>2, <2>5 DEF DistInv, PlaceInv, Of
      <3>5. QED BY <1>2, <2>1, <2>4, <2>5, <3>1, <3>2, <3>3, <3>4
                 DEF DistInv, PlaceInv
    <2>8. RoomInv'
      BY <1>6, <2>1, <2>3, CapacityAssumption DEF DistInv, RoomInv
    <2>9. LotInv'
      BY <1>2, <1>3, <2>5 DEF DistInv, LotInv
    <2>10. CountInv'
      BY <1>t, <1>2, <2>1, GoesOn DEF DistInv, GoStates, Done
    <2>11. QED BY <2>6, <2>7, <2>8, <2>9, <2>10 DEF DistInv
  <1>7. CASE ~(Len(chan) < Capacity)
    <2>1. waiting' = Append(waiting, x) /\ Goroutine(c, f, "blocked") /\ chan' = chan
      BY <1>1, <1>7 DEF x
    <2>2. /\ g' \in [Calls -> [Followers -> GoStates]]
          /\ g'[c][f] = "blocked"
          /\ \A b \in Calls, e \in Followers : g'[b][e] = g[b][e] \/ (b = c /\ e = f)
      BY <1>t, <2>1, GoStep DEF GoStates
    <2>3. /\ waiting' \in Seq(Orders)
          /\ Elements(waiting') = Elements(waiting) \cup {x}
      BY <1>t, <1>3, <2>1, AppendElements DEF Elements
    <2>4. OnePerGoroutine(waiting')
      BY <1>t, <1>3, <1>4, <2>1, AppendOne DEF DistInv, PlaceInv
    <2>5. Sent' = Sent /\ Elements(chan)' = Elements(chan)
      BY <1>2, <2>1 DEF Sent, Elements
    <2>6. TypeOK'
      BY <1>t, <1>2, <2>1, <2>2, <2>3 DEF TypeOK
    <2>7. PlaceInv'
      <3>1. \A o \in Elements(waiting') : g'[o.call][o.follower] = "blocked"
        BY <1>2, <1>3, <1>5, <2>2, <2>3 DEF DistInv, PlaceInv
      <3>2. \A o \in Sent : g'[o.call][o.follower] \in {"sent", "succeeded"}
        BY <1>2, <1>5, <2>2 DEF DistInv, PlaceInv
      <3>3. \A b \in Calls, e \in Followers :
               /\ g'[b][e] = "blocked" => \E o \in Elements(waiting') : Of(b, e, o)
               /\ g'[b][e] \in {"sent", "succeeded"} => \E o \in Sent : Of(b, e, o)
        BY <1>3, <2>2, <2>3 DEF DistInv, PlaceInv, Of
      <3>4. QED BY <1>2, <2>1, <2>4, <2>5, <3>1, <3>2, <3>3 DEF DistInv, PlaceInv
    <2>8. RoomInv'
      <3>1. Len(chan) \in Nat
        BY <1>t, LenProperties
      <3>2. QED BY <1>7, <2>1, <3>1, CapacityAssumption DEF DistInv, RoomInv
    <2>9. LotInv'
      BY <1>2, <1>3, <2>3, <2>5 DEF DistInv, LotInv
    <2>10. CountInv'
      BY <1>t, <1>2, <2>1, GoesOn DEF DistInv, GoStates, Done
    <2>11. QED BY <2>6, <2>7, <2>8, <2>9, <2>10 DEF DistInv
  <1>8. QED BY <1>6, <1>7

\* A timer that fires takes its own order from the waiting ones.
LEMMA TimeoutStep ==
    ASSUME DistInv, NEW c \in Calls, NEW f \in Followers, Timeout(c, f)
    PROVE  DistInv'
  <1>t. TypeOK /\ chan \in Seq(Orders) /\ waiting \in Seq(Orders)
    BY DEF DistInv, TypeOK
  <1>1. PICK k \in 1 .. Len(waiting) : Of(c, f, waiting[k]) /\ waiting' = Without(waiting, k)
    BY DEF Timeout
  <1>2. /\ g[c][f] = "blocked" /\ Goroutine(c, f, "timedout")
        /\ UNCHANGED <<batch, lot, call, ok, err, chan, handled, stalled>>
    BY DEF Timeout, signal, counts
  <1>3. /\ waiting' \in Seq(Orders)
        /\ OnePerGoroutine(waiting')
        /\ Elements(waiting) = Elements(waiting') \cup {waiting[k]}
        /\ \A o \in Elements(waiting') : ~Same(o, waiting[k])
        /\ waiting' # <<>> => waiting # <<>>
    BY <1>t, <1>1, WithoutOne DEF DistInv, PlaceInv
  <1>4. /\ g' \in [Calls -> [Followers -> GoStates]]
        /\ g'[c][f] = "timedout"
        /\ \A b \in Calls, e \in Followers : g'[b][e] = g[b][e] \/ (b = c /\ e = f)
    BY <1>t, <1>2, GoStep DEF GoStates
  <1>5. Sent' = Sent /\ Elements(chan)' = Elements(chan)
    BY <1>2 DEF Sent, Elements
  <1>6. \A o \in Sent \cup Elements(waiting) :
           o \in Orders /\ o.call \in Calls /\ o.follower \in Followers
    BY <1>t, OrdersTyped
  <1>7. PlaceInv'
    <2>1. \A o \in Elements(waiting') : g'[o.call][o.follower] = "blocked"
      <3> SUFFICES ASSUME NEW o \in Elements(waiting') PROVE g'[o.call][o.follower] = "blocked"
        OBVIOUS
      <3>1. o \in Elements(waiting) /\ ~(o.call = c /\ o.follower = f)
        BY <1>1, <1>3 DEF Same, Of
      <3>2. QED BY <1>4, <1>6, <3>1 DEF DistInv, PlaceInv
    <2>2. \A o \in Sent : g'[o.call][o.follower] \in {"sent", "succeeded"}
      BY <1>2, <1>4, <1>6 DEF DistInv, PlaceInv
    <2>3. \A b \in Calls, e \in Followers :
             /\ g'[b][e] = "blocked" => \E o \in Elements(waiting') : Of(b, e, o)
             /\ g'[b][e] \in {"sent", "succeeded"} => \E o \in Sent : Of(b, e, o)
      <3> SUFFICES ASSUME NEW b \in Calls, NEW e \in Followers
                   PROVE  /\ g'[b][e] = "blocked" => \E o \in Elements(waiting') : Of(b, e, o)
                          /\ g'[b][e] \in {"sent", "succeeded"} => \E o \in Sent : Of(b, e, o)
        OBVIOUS
      <3>1. CASE b = c /\ e = f
        BY <1>4, <3>1
      <3>2. CASE ~(b = c /\ e = f)
        <4>1. g'[b][e] = g[b][e]
          BY <1>4, <3>2
        <4>2. ~Of(b, e, waiting[k])
          BY <1>1, <3>2 DEF Of
        <4>3. g[b][e] = "blocked" => \E o \in Elements(waiting) : Of(b, e, o)
          BY DEF DistInv, PlaceInv
        <4>4. QED BY <1>3, <4>1, <4>2, <4>3 DEF DistInv, PlaceInv
      <3>3. QED BY <3>1, <3>2
    <2>4. QED BY <1>2, <1>3, <1>5, <2>1, <2>2, <2>3 DEF DistInv, PlaceInv
  <1>8. TypeOK'
    BY <1>t, <1>2, <1>3, <1>4 DEF TypeOK
  <1>9. RoomInv'
    BY <1>2, <1>3 DEF DistInv, RoomInv
  <1>10. LotInv'
    BY <1>2, <1>3, <1>5 DEF DistInv, LotInv
  <1>11. CountInv'
    BY <1>t, <1>2, GoesOn DEF DistInv, GoStates, Done
  <1>12. QED BY <1>7, <1>8, <1>9, <1>10, <1>11 DEF DistInv

\* The worker takes the first order and lets the longest waiting sender in.
LEMMA ReceiveStep == ASSUME DistInv, Receive PROVE DistInv'
  <1>t. TypeOK /\ chan \in Seq(Orders) /\ waiting \in Seq(Orders) /\ handled \subseteq Orders
    BY DEF DistInv, TypeOK
  <1> DEFINE x == Head(chan)
             w == Head(waiting)
  <1>1. /\ chan # <<>> /\ handled' = handled \cup {x}
        /\ UNCHANGED <<batch, lot, call, ok, err, stalled>>
    BY DEF Receive, signal, counts
  <1>2. /\ x \in Orders /\ Tail(chan) \in Seq(Orders)
        /\ Len(Tail(chan)) = Len(chan) - 1 /\ Len(chan) \in Nat /\ Len(chan) > 0
    BY <1>t, <1>1, TailElements
  <1>3. /\ OnePerGoroutine(Tail(chan))
        /\ \A o \in Elements(Tail(chan)) : ~Same(o, x) /\ ~Same(x, o)
        /\ Elements(chan) = Elements(Tail(chan)) \cup {x}
    BY <1>t, <1>1, TailOne DEF DistInv, PlaceInv
  <1>4. \A o \in Sent \cup Elements(waiting) :
           o \in Orders /\ o.call \in Calls /\ o.follower \in Followers
    BY <1>t, OrdersTyped
  <1>5. /\ \A p \in handled : ~Same(x, p) /\ ~Same(p, x)
        /\ \A o \in Elements(Tail(chan)), p \in handled' : ~Same(o, p)
        /\ \A o, p \in handled' : Same(o, p) => o = p
    <2>1. x \in Elements(chan)
      BY <1>3
    <2>2. \A p \in handled : ~Same(x, p) /\ ~Same(p, x)
      BY <2>1 DEF DistInv, PlaceInv, Same
    <2>3. QED BY <1>1, <1>3, <2>2 DEF DistInv, PlaceInv
  <1> HIDE DEF x, w
  <1>6. CASE waiting = <<>>
    <2>1. chan' = Tail(chan) /\ UNCHANGED <<g, waiting>>
      BY <1>6 DEF Receive
    <2>2. Sent' = Sent /\ Elements(waiting') = Elements(waiting)
      BY <1>1, <1>3, <2>1 DEF Sent
    <2>3. TypeOK'
      BY <1>t, <1>1, <1>2, <2>1 DEF TypeOK
    <2>4. PlaceInv'
      BY <1>3, <1>5, <2>1, <2>2 DEF DistInv, PlaceInv
    <2>5. RoomInv'
      BY <1>2, <1>6, <2>1, CapacityAssumption DEF DistInv, RoomInv
    <2>6. LotInv' /\ CountInv'
      BY <1>1, <2>1, <2>2, CountKept DEF DistInv, LotInv
    <2>7. QED BY <2>3, <2>4, <2>5, <2>6 DEF DistInv
  <1>7. CASE waiting # <<>>
    <2>1. /\ chan' = Append(Tail(chan), w) /\ waiting' = Tail(waiting)
          /\ Goroutine(w.call, w.follower, "sent")
      BY <1>7 DEF Receive, w
    <2>2. /\ w \in Orders /\ Tail(waiting) \in Seq(Orders)
          /\ OnePerGoroutine(Tail(waiting))
          /\ \A o \in Elements(Tail(waiting)) : ~Same(o, w) /\ ~Same(w, o)
          /\ Elements(waiting) = Elements(Tail(waiting)) \cup {w}
      BY <1>t, <1>7, TailElements, TailOne DEF DistInv, PlaceInv, w
    <2>3. w \in Elements(waiting) /\ w.call \in Calls /\ w.follower \in Followers
      BY <1>4, <2>2
    <2>4. g[w.call][w.follower] = "blocked"
      BY <2>3 DEF DistInv, PlaceInv
    <2>5. /\ g' \in [Calls -> [Followers -> GoStates]]
          /\ g'[w.call][w.follower] = "sent"
          /\ \A b \in Calls, e \in Followers :
                g'[b][e] = g[b][e] \/ (b = w.call /\ e = w.follower)
      BY <1>t, <2>1, <2>3, GoStep DEF GoStates
    <2>6. \A o \in Sent : ~Same(o, w) /\ ~Same(w, o)
      BY <2>4 DEF DistInv, PlaceInv, Same
    <2>7. /\ chan' \in Seq(Orders) /\ Len(chan') = Len(chan)
          /\ Elements(chan') = Elements(Tail(chan)) \cup {w}
      <3>1. /\ chan' \in Seq(Orders) /\ Len(chan') = Len(Tail(chan)) + 1
            /\ Elements(chan') = Elements(Tail(chan)) \cup {w}
        <4> DEFINE t == Tail(chan)
        <4>1. t \in Seq(Orders) /\ w \in Orders /\ chan' = Append(t, w)
          BY <1>2, <2>1, <2>2
        <4> HIDE DEF t
        <4>2. /\ chan' \in Seq(Orders) /\ Len(chan') = Len(t) + 1
              /\ {chan'[i] : i \in 1 .. Len(chan')} = {t[i] : i \in 1 .. Len(t)} \cup {w}
          BY <4>1, AppendElements
        <4>3. QED BY <4>2 DEF Elements, t
      <3>2. QED BY <1>2, <3>1
    <2>8. OnePerGoroutine(chan')
      <3>1. \A o \in Elements(Tail(chan)) : ~Same(o, w)
        BY <1>3, <2>6 DEF Sent
      <3>2. QED BY <1>2, <1>3, <2>1, <2>2, <3>1, AppendOne
    <2>9. Sent' = Sent \cup {w}
      BY <1>1, <1>3, <2>7 DEF Sent
    <2>10. TypeOK'
      BY <1>t, <1>1, <1>2, <2>1, <2>2, <2>5, <2>7 DEF TypeOK
    <2>11. PlaceInv'
      <3>1. \A o \in Elements(chan'), p \in handled' : ~Same(o, p)
        <4>1. x \in Sent /\ handled \subseteq Sent
          BY <1>3 DEF Sent
        <4>2. \A p \in handled' : ~Same(w, p)
          BY <1>1, <2>6, <4>1
        <4>3. QED BY <1>5, <2>7, <4>2
      <3>2. \A o \in Elements(waiting') : g'[o.call][o.follower] = "blocked"
        <4> SUFFICES ASSUME NEW o \in Elements(waiting') PROVE g'[o.call][o.follower] = "blocked"
          OBVIOUS
        <4>1. o \in Elements(waiting) /\ ~(o.call = w.call /\ o.follower = w.follower)
          BY <2>1, <2>2 DEF Same
        <4>2. QED BY <1>4, <2>5, <4>1 DEF DistInv, PlaceInv
      <3>3. \A o \in Sent' : g'[o.call][o.follower] \in {"sent", "succeeded"}
        BY <1>4, <2>4, <2>5, <2>9 DEF DistInv, PlaceInv
      <3>4. \A b \in Calls, e \in Followers :
               /\ g'[b][e] = "blocked" => \E o \in Elements(waiting') : Of(b, e, o)
               /\ g'[b][e] \in {"sent", "succeeded"} => \E o \in Sent' : Of(b, e, o)
        <4> SUFFICES ASSUME NEW b \in Calls, NEW e \in Followers
                     PROVE  /\ g'[b][e] = "blocked" => \E o \in Elements(waiting') : Of(b, e, o)
                            /\ g'[b][e] \in {"sent", "succeeded"} => \E o \in Sent' : Of(b, e, o)
          OBVIOUS
        <4>1. CASE b = w.call /\ e = w.follower
          BY <2>5, <2>9, <4>1 DEF Of
        <4>2. CASE ~(b = w.call /\ e = w.follower)
          <5>1. g'[b][e] = g[b][e] /\ ~Of(b, e, w)
            BY <2>5, <4>2 DEF Of
          <5>2. g[b][e] = "blocked" => \E o \in Elements(waiting) : Of(b, e, o)
            BY DEF DistInv, PlaceInv
          <5>3. g[b][e] \in {"sent", "succeeded"} => \E o \in Sent : Of(b, e, o)
            BY DEF DistInv, PlaceInv
          <5>4. QED BY <2>1, <2>2, <2>9, <5>1, <5>2, <5>3
        <4>3. QED BY <4>1, <4>2
      <3>5. QED BY <1>5, <2>1, <2>2, <2>8, <3>1, <3>2, <3>3, <3>4 DEF DistInv, PlaceInv
    <2>12. RoomInv'
      BY <1>7, <2>1, <2>7 DEF DistInv, RoomInv
    <2>13. LotInv'
      BY <1>1, <2>1, <2>2, <2>9 DEF DistInv, LotInv
    <2>14. CountInv'
      BY <1>t, <1>1, <2>1, <2>3, <2>4, GoesOn DEF DistInv, GoStates, Done
    <2>15. QED BY <2>10, <2>11, <2>12, <2>13, <2>14 DEF DistInv
  <1>8. QED BY <1>6, <1>7

\* A call's goroutines start, and own no orders yet.
LEMMA DistributeStep ==
    ASSUME DistInv, NEW c \in Calls, NEW fs \in SUBSET Followers, Distribute(c, fs)
    PROVE  DistInv'
  <1>t. TypeOK
    BY DEF DistInv
  <1>1. /\ call[c] = "idle"
        /\ batch' = [batch EXCEPT ![c] = fs]
        /\ call' = [call EXCEPT ![c] = IF fs = {} THEN "returned" ELSE "running"]
        /\ g' = [g EXCEPT ![c] = [f \in Followers |-> IF f \in fs THEN "create" ELSE "none"]]
        /\ UNCHANGED <<lot, ok, err, chan, waiting, handled, stalled>>
    BY DEF Distribute, counts
  <1>2. \A f \in Followers : g[c][f] = "none"
    BY <1>1 DEF DistInv, CountInv
  <1>3. TypeOK'
    BY <1>t, <1>1 DEF TypeOK, GoStates
  <1>4. /\ \A f \in Followers : g'[c][f] = IF f \in fs THEN "create" ELSE "none"
        /\ \A b \in Calls : b # c => g'[b] = g[b]
    BY <1>t, <1>1 DEF TypeOK
  <1>5. Sent' = Sent /\ Elements(waiting') = Elements(waiting) /\ Elements(chan') = Elements(chan)
    BY <1>1 DEF Sent, Elements
  <1>6. \A o \in Sent \cup Elements(waiting) : o.call # c /\ g'[o.call] = g[o.call]
    <2> SUFFICES ASSUME NEW o \in Sent \cup Elements(waiting)
                 PROVE  o.call # c /\ g'[o.call] = g[o.call]
      OBVIOUS
    <2>1. o.call \in Calls /\ o.follower \in Followers
      BY <1>t, OrdersTyped
    <2>2. o.call # c
      <3>1. g[c][o.follower] \notin {"blocked", "sent", "succeeded"}
        BY <1>2, <2>1
      <3>2. ~Of(c, o.follower, o)
        BY <2>1, <3>1, CreateHasNone
      <3>3. QED BY <3>2 DEF Of
    <2>3. QED BY <1>4, <2>1, <2>2
  <1>7. PlaceInv'
    <2>1. \A o \in Elements(waiting') : g'[o.call][o.follower] = "blocked"
      BY <1>5, <1>6 DEF DistInv, PlaceInv
    <2>2. \A o \in Sent' : g'[o.call][o.follower] \in {"sent", "succeeded"}
      BY <1>5, <1>6 DEF DistInv, PlaceInv
    <2>3. \A b \in Calls, e \in Followers :
             g'[b][e] \in {"blocked", "sent", "succeeded"} => g'[b][e] = g[b][e]
      BY <1>4
    <2>4. \A b \in Calls, e \in Followers :
             /\ g'[b][e] = "blocked" => \E o \in Elements(waiting') : Of(b, e, o)
             /\ g'[b][e] \in {"sent", "succeeded"} => \E o \in Sent' : Of(b, e, o)
      BY <1>5, <2>3 DEF DistInv, PlaceInv
    <2>5. QED BY <1>1, <1>5, <2>1, <2>2, <2>4 DEF DistInv, PlaceInv
  <1>8. RoomInv' /\ LotInv'
    BY <1>1, <1>5 DEF DistInv, RoomInv, LotInv
  <1>9. CountInv'
    <2> SUFFICES ASSUME NEW b \in Calls
                 PROVE  /\ ok'[b] = Cardinality(At(b, "succeeded")')
                        /\ err'[b] = Cardinality(At(b, "failed")')
                        /\ call'[b] = "idle" => \A f \in Followers : g'[b][f] = "none"
                        /\ call'[b] # "idle" =>
                              \A f \in Followers : g'[b][f] # "none" <=> f \in batch'[b]
                        /\ call'[b] = "returned" => \A f \in batch'[b] : g'[b][f] \in Done
                        /\ call'[b] = "running" => batch'[b] # {}
      BY DEF CountInv
    <2>1. /\ At(b, "succeeded")' = At(b, "succeeded")
          /\ At(b, "failed")' = At(b, "failed")
      BY <1>2, <1>4 DEF At
    <2>2. CASE b = c
      <3>1. call'[b] = (IF fs = {} THEN "returned" ELSE "running") /\ batch'[b] = fs
        BY <1>t, <1>1, <2>2 DEF TypeOK
      <3>2. QED BY <1>1, <1>4, <2>1, <2>2, <3>1 DEF DistInv, CountInv
    <2>3. CASE b # c
      <3>1. call'[b] = call[b] /\ batch'[b] = batch[b] /\ g'[b] = g[b]
        BY <1>t, <1>1, <1>4, <2>3 DEF TypeOK
      <3>2. QED BY <1>1, <2>1, <3>1 DEF DistInv, CountInv
    <2>4. QED BY <2>2, <2>3
  <1>10. QED BY <1>3, <1>7, <1>8, <1>9 DEF DistInv

\* A goroutine that ends is one more in its call's set of that outcome.
LEMMA OneMoreAt ==
    ASSUME TypeOK, NEW c \in Calls, NEW f \in Followers, NEW s \in GoStates,
           g[c][f] # s, Goroutine(c, f, s)
    PROVE  Cardinality(At(c, s)') = Cardinality(At(c, s)) + 1
  <1>1. At(c, s)' = At(c, s) \cup {f} /\ f \notin At(c, s)
    BY GoStep DEF At
  <1>2. IsFiniteSet(At(c, s))
    BY FollowersAssumption, FS_Subset DEF At
  <1>3. QED BY <1>1, <1>2, FS_AddElement

\* An outcome is counted once, in its own counter.
LEMMA CountOutcomeStep ==
    ASSUME DistInv, NEW c \in Calls, NEW f \in Followers, CountOutcome(c, f)
    PROVE  DistInv'
  <1>t. TypeOK
    BY DEF DistInv
  <1>1. UNCHANGED <<batch, lot, call, chan, waiting, handled, stalled>>
    BY DEF CountOutcome, signal
  <1>2. PICK d \in Done :
           /\ Goroutine(c, f, d)
           /\ \/ g[c][f] = "sent" /\ d = "succeeded" /\ ok' = [ok EXCEPT ![c] = @ + 1]
                /\ err' = err
              \/ g[c][f] = "timedout" /\ d = "failed" /\ err' = [err EXCEPT ![c] = @ + 1]
                /\ ok' = ok
    BY DEF CountOutcome, Done
  <1>3. /\ g' \in [Calls -> [Followers -> GoStates]]
        /\ g'[c][f] = d
        /\ \A b \in Calls, e \in Followers : g'[b][e] = g[b][e] \/ (b = c /\ e = f)
    BY <1>t, <1>2, GoStep DEF GoStates, Done
  <1>4. TypeOK'
    <2>1. ok' \in [Calls -> Nat] /\ err' \in [Calls -> Nat]
      BY <1>t, <1>2 DEF TypeOK
    <2>2. QED BY <1>t, <1>1, <1>3, <2>1 DEF TypeOK
  <1>5. Sent' = Sent /\ Elements(waiting') = Elements(waiting) /\ Elements(chan') = Elements(chan)
    BY <1>1 DEF Sent, Elements
  <1>6. \A o \in Sent \cup Elements(waiting) : o.call \in Calls /\ o.follower \in Followers
    BY <1>t, OrdersTyped
  <1>7. \A b \in Calls, e \in Followers :
           /\ g'[b][e] = "blocked" <=> g[b][e] = "blocked"
           /\ g'[b][e] \in {"sent", "succeeded"} <=> g[b][e] \in {"sent", "succeeded"}
    BY <1>2, <1>3
  <1>8. PlaceInv'
    BY <1>1, <1>5, <1>6, <1>7 DEF DistInv, PlaceInv
  <1>9. RoomInv' /\ LotInv'
    BY <1>1, <1>5 DEF DistInv, RoomInv, LotInv
  <1>10. /\ Cardinality(At(c, d)') = Cardinality(At(c, d)) + 1
         /\ \A b \in Calls : b # c => \A e \in Done : At(b, e)' = At(b, e)
         /\ \A e \in Done \ {d} : At(c, e)' = At(c, e)
    <2>1. Cardinality(At(c, d)') = Cardinality(At(c, d)) + 1
      BY <1>t, <1>2, OneMoreAt DEF GoStates, Done
    <2>2. \A b \in Calls : b # c => \A e \in Done : At(b, e)' = At(b, e)
      BY <1>3 DEF At
    <2>3. \A e \in Done \ {d} : At(c, e)' = At(c, e)
      BY <1>2, <1>3 DEF At, Done
    <2>4. QED BY <2>1, <2>2, <2>3
  <1>11. CountInv'
    <2>1. ASSUME NEW b \in Calls
          PROVE  ok'[b] = Cardinality(At(b, "succeeded")') /\ err'[b] = Cardinality(At(b, "failed")')
      <3>1. ok[b] = Cardinality(At(b, "succeeded")) /\ err[b] = Cardinality(At(b, "failed"))
        BY DEF DistInv, CountInv
      <3>2. CASE b # c
        BY <1>t, <1>2, <1>10, <3>1, <3>2 DEF TypeOK, Done
      <3>3. CASE b = c /\ d = "succeeded"
        BY <1>t, <1>2, <1>10, <3>1, <3>3 DEF TypeOK, Done
      <3>4. CASE b = c /\ d = "failed"
        BY <1>t, <1>2, <1>10, <3>1, <3>4 DEF TypeOK, Done
      <3>5. QED BY <3>2, <3>3, <3>4 DEF Done
    <2>2. ASSUME NEW b \in Calls, NEW e \in Followers
          PROVE  /\ g'[b][e] = "none" <=> g[b][e] = "none"
                 /\ g[b][e] \in Done => g'[b][e] \in Done
      BY <1>2, <1>3 DEF Done
    <2>3. QED BY <1>t, <1>1, <2>1, <2>2 DEF DistInv, CountInv, TypeOK
  <1>12. QED BY <1>4, <1>8, <1>9, <1>11 DEF DistInv

\* A call that returns has only finished goroutines.
LEMMA ReturnStep ==
    ASSUME DistInv, NEW c \in Calls, Return(c)
    PROVE  DistInv'
  <1>1. /\ call[c] = "running" /\ \A f \in batch[c] : g[c][f] \in Done
        /\ call' = [call EXCEPT ![c] = "returned"]
        /\ UNCHANGED <<batch, lot, g, ok, err, chan, waiting, handled, stalled>>
    BY DEF Return, signal, counts
  <1>2. TypeOK'
    BY <1>1 DEF DistInv, TypeOK
  <1>3. PlaceInv' /\ RoomInv' /\ LotInv'
    BY <1>1 DEF DistInv, PlaceInv, RoomInv, LotInv, Sent, Elements
  <1>4. \A b \in Calls : /\ At(b, "succeeded")' = At(b, "succeeded")
                         /\ At(b, "failed")' = At(b, "failed")
    BY <1>1 DEF At
  <1>5. CountInv'
    BY <1>1, <1>4 DEF DistInv, CountInv, TypeOK
  <1>6. QED BY <1>2, <1>3, <1>5 DEF DistInv

\* A step that touches no order, goroutine or call.
LEMMA QuietStep ==
    ASSUME DistInv, Stall \/ Rest \/ UNCHANGED vars
    PROVE  DistInv'
  <1>1. UNCHANGED <<batch, lot, call, g, ok, err, chan, waiting, handled>>
        /\ stalled' \in BOOLEAN
    BY DEF DistInv, TypeOK, Stall, Rest, vars, signal, counts
  <1>2. TypeOK'
    BY <1>1 DEF DistInv, TypeOK
  <1>3. PlaceInv' /\ RoomInv' /\ LotInv'
    BY <1>1 DEF DistInv, PlaceInv, RoomInv, LotInv, Sent, Elements
  <1>4. CountInv'
    BY <1>1, CountKept DEF DistInv
  <1>5. QED BY <1>2, <1>3, <1>4 DEF DistInv

\* No call has been made.
LEMMA DistInit == Init => DistInv
  <1> SUFFICES ASSUME Init PROVE DistInv
    OBVIOUS
  <1>1. chan = <<>> /\ waiting = <<>> /\ handled = {}
    BY DEF Init
  <1>2. Elements(<<>>) = {} /\ Len(<<>>) = 0 /\ <<>> \in Seq(Orders)
    BY DEF Elements
  <1>3. Sent = {}
    BY <1>1, <1>2 DEF Sent
  <1>4. TypeOK
    BY <1>1, <1>2 DEF Init, TypeOK, GoStates
  <1>5. \A c \in Calls, f \in Followers : g[c][f] = "none"
    BY DEF Init
  <1>6. PlaceInv /\ LotInv
    BY <1>1, <1>2, <1>3, <1>5 DEF PlaceInv, LotInv, OnePerGoroutine
  <1>7. RoomInv
    BY <1>1, <1>2, CapacityAssumption DEF RoomInv
  <1>8. \A c \in Calls : At(c, "succeeded") = {} /\ At(c, "failed") = {}
    BY <1>5 DEF At
  <1>9. CountInv
    BY <1>5, <1>8, FS_EmptySet DEF Init, CountInv
  <1>10. QED BY <1>4, <1>6, <1>7, <1>9 DEF DistInv

\* Every step keeps the orders, the counters and the goroutines in agreement.
LEMMA DistStep == DistInv /\ [Next]_vars => DistInv'
  <1> SUFFICES ASSUME DistInv, [Next]_vars PROVE DistInv'
    OBVIOUS
  <1>1. ASSUME NEW c \in Calls, NEW fs \in SUBSET Followers, Distribute(c, fs) PROVE DistInv'
    BY <1>1, DistributeStep
  <1>2. ASSUME NEW c \in Calls, NEW f \in Followers, Go(c, f) PROVE DistInv'
    BY <1>2, EnqueueStep, TimeoutStep, CountOutcomeStep DEF Go
  <1>3. ASSUME NEW c \in Calls, Return(c) PROVE DistInv'
    BY <1>3, ReturnStep
  <1>4. CASE Receive
    BY <1>4, ReceiveStep
  <1>5. CASE Stall \/ Rest \/ UNCHANGED vars
    BY <1>5, QuietStep
  <1>6. QED BY <1>1, <1>2, <1>3, <1>4, <1>5 DEF Next

\* The invariant holds in every state of Distribute's calls.
LEMMA DistCorrect == Spec => []DistInv
  BY DistInit, DistStep, PTL DEF Spec

-----------------------------------------------------------------------------
(* The properties *)

\* A goroutine has sent one order at most.
LEMMA SentOnce ==
    ASSUME DistInv
    PROVE  \A o, p \in Sent : Same(o, p) => o = p
  <1> SUFFICES ASSUME NEW o \in Sent, NEW p \in Sent, Same(o, p)
               PROVE  o = p
    OBVIOUS
  <1>1. CASE o \in Elements(chan) /\ p \in Elements(chan)
    <2>1. PICK i \in 1 .. Len(chan) : o = chan[i]
      BY <1>1 DEF Elements
    <2>2. PICK j \in 1 .. Len(chan) : p = chan[j]
      BY <1>1 DEF Elements
    <2>3. QED BY <2>1, <2>2 DEF DistInv, PlaceInv, OnePerGoroutine
  <1>2. CASE o \in handled /\ p \in handled
    BY <1>2 DEF DistInv, PlaceInv
  <1>3. CASE o \in Elements(chan) /\ p \in handled
    BY <1>3 DEF DistInv, PlaceInv, Same
  <1>4. CASE o \in handled /\ p \in Elements(chan)
    BY <1>4 DEF DistInv, PlaceInv, Same
  <1>5. QED BY <1>1, <1>2, <1>3, <1>4 DEF Sent

\* Every variable of the distributor has its type.
THEOREM DistributorTypeCorrect == Spec => []TypeOK
  <1>1. DistInv => TypeOK
    BY DEF DistInv
  <1>2. QED BY <1>1, DistCorrect, PTL

\* enqueueOrder and followerOrderWorker: an order that was sent is in the channel
\* or with the worker, once, and no other order is.
THEOREM OrdersAreConserved == Spec => []OrdersConserved
  <1>1. ASSUME DistInv PROVE OrdersConserved
    <2>1. Len(chan) = Cardinality(Elements(chan))
      <3>1. \A i, j \in 1 .. Len(chan) : chan[i] = chan[j] => i = j
        BY <1>1 DEF DistInv, PlaceInv, OnePerGoroutine, Same
      <3>2. chan \in Seq(Orders)
        BY <1>1 DEF DistInv, TypeOK
      <3>3. QED BY <3>1, <3>2, DistinctCount DEF Elements
    <2>2. Elements(chan) \cap handled = {}
      BY <1>1 DEF DistInv, PlaceInv, Same
    <2>3. ASSUME NEW c \in Calls, NEW f \in Followers
          PROVE  Cardinality({o \in Sent : Of(c, f, o)})
                    = IF g[c][f] \in {"sent", "succeeded"} THEN 1 ELSE 0
      <3>1. CASE g[c][f] \in {"sent", "succeeded"}
        <4>1. PICK o \in Sent : Of(c, f, o)
          BY <1>1, <3>1 DEF DistInv, PlaceInv
        <4>2. {p \in Sent : Of(c, f, p)} = {o}
          BY <1>1, <4>1, SentOnce DEF Of, Same
        <4>3. QED BY <3>1, <4>2, FS_Singleton
      <3>2. CASE g[c][f] \notin {"sent", "succeeded"}
        <4>1. {p \in Sent : Of(c, f, p)} = {}
          BY <1>1, <3>2 DEF DistInv, PlaceInv, Of
        <4>2. QED BY <3>2, <4>1, FS_EmptySet
      <3>3. QED BY <3>1, <3>2
    <2>4. QED BY <2>1, <2>2, <2>3 DEF OrdersConserved
  <1>2. QED BY <1>1, DistCorrect, PTL

\* The channel's buffer: a sender waits only while it is full, and its goroutine
\* waits only while its order is in the queue of the waiting ones.
THEOREM SendersWaitForAFullChannel == Spec => []WaitOnlyWhenFull
  <1>1. DistInv => WaitOnlyWhenFull
    BY DEF DistInv, PlaceInv, RoomInv, WaitOnlyWhenFull, Of
  <1>2. QED BY <1>1, DistCorrect, PTL

\* Distribute's result: the two counters sum to the followers, and the first is
\* the number of the call's orders that the channel took.
THEOREM ResultsAreExact == Spec => []ResultIsExact
  <1>1. ASSUME DistInv, NEW c \in Calls, call[c] = "returned"
        PROVE  /\ ok[c] + err[c] = Cardinality(batch[c])
               /\ ok[c] = Cardinality({o \in Sent : o.call = c})
    <2> DEFINE S == At(c, "succeeded")
               F == At(c, "failed")
               O == {o \in Sent : o.call = c}
    <2>1. IsFiniteSet(S) /\ IsFiniteSet(F)
      BY FollowersAssumption, FS_Subset DEF At
    <2>2. ok[c] = Cardinality(S) /\ err[c] = Cardinality(F)
      BY <1>1 DEF DistInv, CountInv
    <2>3. \A f \in Followers : g[c][f] \in Done \cup {"none"} /\ (f \in batch[c] <=> g[c][f] \in Done)
      BY <1>1 DEF DistInv, CountInv, Done
    <2>4. batch[c] \subseteq Followers
      BY <1>1 DEF DistInv, TypeOK
    <2>5. ok[c] + err[c] = Cardinality(batch[c])
      <3>1. batch[c] = S \cup F /\ S \cap F = {}
        BY <2>3, <2>4 DEF At, Done
      <3> HIDE DEF S, F
      <3>2. Cardinality(S \cup F) = Cardinality(S) + Cardinality(F) - Cardinality(S \cap F)
        BY <2>1, FS_Union
      <3>3. Cardinality(S \cap F) = 0
        BY <3>1, FS_EmptySet
      <3>4. Cardinality(S) \in Nat /\ Cardinality(F) \in Nat
        BY <2>1, FS_CardinalityType
      <3>5. QED BY <2>2, <3>1, <3>2, <3>3, <3>4
    <2>6. Cardinality(S) = Cardinality(O)
      <3> DEFINE owner == [o \in O |-> o.follower]
      <3>1. \A o \in O : o.follower \in S
        <4> SUFFICES ASSUME NEW o \in O PROVE o.follower \in S
          OBVIOUS
        <4>1. o \in Sent /\ o.call = c /\ o.follower \in Followers
          BY <1>1, OrdersTyped DEF DistInv
        <4>2. g[c][o.follower] \in {"sent", "succeeded"}
          BY <1>1, <4>1 DEF DistInv, PlaceInv
        <4>3. QED BY <2>3, <4>1, <4>2 DEF At, Done
      <3>2. \A f \in S : \E o \in O : o.follower = f
        BY <1>1 DEF DistInv, PlaceInv, At, Of
      <3>3. \A o, p \in O : o.follower = p.follower => o = p
        BY <1>1, SentOnce DEF Same
      <3> HIDE DEF S, O
      <3>4. owner \in Bijection(O, S)
        <4>1. owner \in [O -> S] /\ \A o \in O : owner[o] = o.follower
          BY <3>1
        <4> HIDE DEF owner
        <4>2. \A o, p \in O : owner[o] = owner[p] => o = p
          BY <3>3, <4>1
        <4>3. \A f \in S : \E o \in O : owner[o] = f
          BY <3>2, <4>1
        <4>4. QED BY <4>1, <4>2, <4>3, Fun_IsBij
      <3>5. ExistsBijection(S, O)
        <4>1. ExistsBijection(O, S)
          BY <3>4 DEF ExistsBijection
        <4>2. QED BY <4>1, Fun_ExistsBijSymmetric
      <3>6. QED BY <2>1, <3>5, FS_Bijection
    <2>7. QED BY <2>2, <2>5, <2>6
  <1>2. DistInv => ResultIsExact
    BY <1>1 DEF ResultIsExact
  <1>3. QED BY <1>2, DistCorrect, PTL

\* CreateFollowerOrder under concurrent calls: every order in the channel or with
\* the worker has the lot nearest to its own signal's for its own follower.
THEOREM SentLotsAreNearest == Spec => []LotsAreNearest
  <1>1. ASSUME DistInv, NEW o \in Sent
        PROVE  IF lot[o.call] = NaN THEN o.lot = NaN
               ELSE /\ o.lot \in MinLot .. MaxLot
                    /\ \A y \in {o.lot - 1, o.lot + 1} \cap (MinLot .. MaxLot) :
                          LET p == lot[o.call] * Multiplier[o.follower]
                          IN  Distance(o.lot, p) <= Distance(y, p)
    <2> DEFINE l == lot[o.call]
               m == Multiplier[o.follower]
               x == o.lot
    <2>1. x \in CalculateLot(l, m)
      BY <1>1 DEF DistInv, LotInv
    <2>2. l \in Lots /\ m \in Multipliers
      <3>1. o.call \in Calls /\ o.follower \in Followers
        BY <1>1, OrdersTyped DEF DistInv
      <3>2. QED BY <1>1, <3>1, SignalLotTypes DEF DistInv, TypeOK
    <2> HIDE DEF l, m, x
    <2>3. CASE l = NaN
      BY <2>1, <2>3 DEF CalculateLot, l, x
    <2>4. CASE l # NaN
      <3>1. x \in MinLot .. MaxLot
        BY <2>1, <2>2, <2>4, LotTypes
      <3>2. \A y \in {x - 1, x + 1} \cap (MinLot .. MaxLot) :
               Distance(x, l * m) <= Distance(y, l * m)
        BY <2>1, <2>2, <2>4, LotNearest
      <3>3. QED BY <2>4, <3>1, <3>2 DEF l, m, x
    <2>5. QED BY <2>3, <2>4
  <1>2. DistInv => LotsAreNearest
    BY <1>1 DEF LotsAreNearest
  <1>3. QED BY <1>2, DistCorrect, PTL

-----------------------------------------------------------------------------
(* The distributor implements OrderFanOut. Its variables, as the refinement *)
(* mapping gives them: *)

FanVerdict == [c \in Calls |-> [f \in Followers |-> Verdict[g[c][f]]]]
FanDelivered == {<<o.call, o.follower>> : o \in handled}
FanReport == [c \in Calls |->
                 IF call[c] = "returned"
                 THEN [total |-> Cardinality(batch[c]), ok |-> ok[c],
                       err |-> err[c], final |-> TRUE]
                 ELSE [total |-> 0, ok |-> 0, err |-> 0, final |-> FALSE]]

\* What a goroutine's state says of its order.
LEMMA VerdictIs ==
    /\ Verdict["none"] = "none" /\ Verdict["create"] = "pending"
    /\ Verdict["blocked"] = "pending" /\ Verdict["sent"] = "accepted"
    /\ Verdict["succeeded"] = "accepted"
    /\ Verdict["timedout"] = "rejected" /\ Verdict["failed"] = "rejected"
  BY DEF Verdict

\* A goroutine that goes to a state changes the verdict of its own order only.
LEMMA VerdictGo ==
    ASSUME TypeOK, NEW c \in Calls, NEW f \in Followers, NEW s \in GoStates,
           Goroutine(c, f, s)
    PROVE  /\ FanVerdict' = [FanVerdict EXCEPT ![c][f] = Verdict[s]]
           /\ FanVerdict[c][f] = Verdict[g[c][f]]
           /\ Verdict[s] = Verdict[g[c][f]] => FanVerdict' = FanVerdict
  BY DEF FanVerdict, Goroutine, TypeOK

\* Nothing has been asked of it.
LEMMA FanInit == Init => FO!FInit
  <1> SUFFICES ASSUME Init PROVE FO!FInit
    OBVIOUS
  <1>1. FanVerdict = [c \in Calls |-> [f \in Followers |-> "none"]]
    BY VerdictIs DEF Init, FanVerdict
  <1>2. FanDelivered = {}
    BY DEF Init, FanDelivered
  <1>3. FanReport = [c \in Calls |-> FO!NoReport]
    BY DEF Init, FanReport, FO!NoReport
  <1>4. QED BY <1>1, <1>2, <1>3 DEF Init, FO!FInit, FanVerdict, FanDelivered, FanReport

\* Starting the goroutines asks for the orders.
LEMMA DistributeAsks ==
    ASSUME DistInv, NEW c \in Calls, NEW fs \in SUBSET Followers, Distribute(c, fs)
    PROVE  FO!Ask(c, fs)
  <1>1. /\ call[c] = "idle"
        /\ batch' = [batch EXCEPT ![c] = fs]
        /\ call' = [call EXCEPT ![c] = IF fs = {} THEN "returned" ELSE "running"]
        /\ g' = [g EXCEPT ![c] = [f \in Followers |-> IF f \in fs THEN "create" ELSE "none"]]
        /\ UNCHANGED <<lot, ok, err, chan, waiting, handled, stalled>>
    BY DEF Distribute, counts
  <1>2. TypeOK /\ \A f \in Followers : g[c][f] = "none"
    BY <1>1 DEF DistInv, CountInv
  <1>3. FanVerdict[c] = [f \in Followers |-> "none"]
    BY <1>2, VerdictIs DEF FanVerdict
  <1>4. FanVerdict' = [FanVerdict EXCEPT ![c] =
                          [f \in Followers |-> IF f \in fs THEN "pending" ELSE "none"]]
    BY <1>1, <1>2, VerdictIs DEF FanVerdict, TypeOK
  <1>5. ok[c] = 0 /\ err[c] = 0
    <2>1. At(c, "succeeded") = {} /\ At(c, "failed") = {}
      BY <1>2 DEF At
    <2>2. QED BY <2>1, FS_EmptySet DEF DistInv, CountInv
  <1>6. ~FanReport[c].final
    BY <1>1 DEF FanReport
  <1>7. FanReport' = [FanReport EXCEPT ![c].final = (fs = {})]
    <2>1. \A b \in Calls \ {c} : FanReport'[b] = FanReport[b]
      BY <1>1, <1>2 DEF FanReport, TypeOK
    <2>2. FanReport[c] = [total |-> 0, ok |-> 0, err |-> 0, final |-> FALSE]
      BY <1>1 DEF FanReport
    <2>3. FanReport'[c] = [total |-> 0, ok |-> 0, err |-> 0, final |-> (fs = {})]
      <3>1. CASE fs = {}
        <4>1. call'[c] = "returned" /\ batch'[c] = {} /\ Cardinality({}) = 0
          BY <1>1, <1>2, <3>1, FS_EmptySet DEF TypeOK
        <4>2. QED BY <1>1, <1>5, <3>1, <4>1 DEF FanReport
      <3>2. CASE fs # {}
        <4>1. call'[c] = "running"
          BY <1>1, <1>2, <3>2 DEF TypeOK
        <4>2. QED BY <3>2, <4>1 DEF FanReport
      <3>3. QED BY <3>1, <3>2
    <2>4. QED BY <2>1, <2>2, <2>3 DEF FanReport
  <1>8. FanDelivered' = FanDelivered
    BY <1>1 DEF FanDelivered
  <1>9. QED BY <1>1, <1>3, <1>4, <1>6, <1>7, <1>8
            DEF FO!Ask, FanVerdict, FanReport, FanDelivered

\* A send and a timer decide one order; an order that waits is not decided.
LEMMA GoDecides ==
    ASSUME DistInv, NEW c \in Calls, NEW f \in Followers,
           EnqueueOrder(c, f) \/ Timeout(c, f)
    PROVE  FO!Decide(c, f) \/ UNCHANGED FO!fvars
  <1>t. TypeOK
    BY DEF DistInv
  <1>1. /\ g[c][f] \in {"create", "blocked"}
        /\ UNCHANGED <<batch, lot, call, ok, err, handled, stalled>>
    BY DEF EnqueueOrder, Timeout, signal, counts
  <1>2. PICK s \in {"sent", "blocked", "timedout"} : Goroutine(c, f, s)
    BY DEF EnqueueOrder, Timeout
  <1>3. /\ FanVerdict' = [FanVerdict EXCEPT ![c][f] = Verdict[s]]
        /\ FanVerdict[c][f] = "pending"
        /\ s = "blocked" => FanVerdict' = FanVerdict
    BY <1>t, <1>1, <1>2, VerdictGo, VerdictIs DEF GoStates
  <1>4. FanReport' = FanReport /\ FanDelivered' = FanDelivered
    BY <1>1 DEF FanReport, FanDelivered
  <1>5. CASE s = "blocked"
    BY <1>1, <1>3, <1>4, <1>5 DEF FO!fvars, FanVerdict, FanReport, FanDelivered
  <1>6. CASE s # "blocked"
    <2>1. Verdict[s] \in {"accepted", "rejected"}
      BY <1>6, VerdictIs
    <2>2. QED BY <1>1, <1>3, <1>4, <2>1
              DEF FO!Decide, FanVerdict, FanReport, FanDelivered
  <1>7. QED BY <1>5, <1>6

\* Counting decides nothing, and is not reported before the call returns.
LEMMA CountIsHidden ==
    ASSUME DistInv, NEW c \in Calls, NEW f \in Followers, CountOutcome(c, f)
    PROVE  UNCHANGED FO!fvars
  <1>t. TypeOK
    BY DEF DistInv
  <1>1. UNCHANGED <<batch, call, handled, stalled>>
    BY DEF CountOutcome, signal
  <1>2. /\ g[c][f] \in {"sent", "timedout"}
        /\ \A b \in Calls \ {c} : ok'[b] = ok[b] /\ err'[b] = err[b]
    BY <1>t DEF CountOutcome, TypeOK
  <1>3. PICK s \in Done : Goroutine(c, f, s) /\ Verdict[s] = Verdict[g[c][f]]
    BY VerdictIs DEF CountOutcome, Done
  <1>4. FanVerdict' = FanVerdict
    BY <1>t, <1>3, VerdictGo DEF GoStates, Done
  <1>5. call[c] # "returned"
    BY <1>2 DEF DistInv, CountInv, Done
  <1>6. FanReport' = FanReport
    BY <1>1, <1>2, <1>5 DEF FanReport
  <1>7. QED BY <1>1, <1>4, <1>6 DEF FO!fvars, FanVerdict, FanReport, FanDelivered

\* wg.Wait: the call reports when its last order is decided, and what it counted.
LEMMA ReturnReports ==
    ASSUME DistInv, NEW c \in Calls, Return(c)
    PROVE  FO!Report(c)
  <1>t. TypeOK
    BY DEF DistInv
  <1>1. /\ call[c] = "running" /\ \A f \in batch[c] : g[c][f] \in Done
        /\ call' = [call EXCEPT ![c] = "returned"]
        /\ UNCHANGED <<batch, lot, g, ok, err, chan, waiting, handled, stalled>>
    BY DEF Return, signal, counts
  <1>2. batch[c] # {} /\ \A f \in Followers : g[c][f] \in Done \cup {"none"}
    BY <1>1 DEF DistInv, CountInv
  <1>3. \A f \in Followers :
           /\ FanVerdict[c][f] # "pending"
           /\ FanVerdict[c][f] = "accepted" <=> g[c][f] = "succeeded"
           /\ FanVerdict[c][f] = "rejected" <=> g[c][f] = "failed"
    <2> TAKE f \in Followers
    <2>1. FanVerdict[c][f] = Verdict[g[c][f]]
      BY DEF FanVerdict
    <2>2. g[c][f] = "succeeded" \/ g[c][f] = "failed" \/ g[c][f] = "none"
      BY <1>2 DEF Done
    <2>3. QED BY <2>1, <2>2, VerdictIs
  <1>4. /\ FO!With(c, "pending") = {}
        /\ FO!With(c, "accepted") = At(c, "succeeded")
        /\ FO!With(c, "rejected") = At(c, "failed")
    <2>1. \A v : FO!With(c, v) = {f \in Followers : FanVerdict[c][f] = v}
      BY DEF FO!With, FanVerdict
    <2>2. QED BY <1>3, <2>1 DEF At
  <1>5. ~FanReport[c].final
    BY <1>1 DEF FanReport
  <1>6. FanReport' = [FanReport EXCEPT ![c] =
                         [total |-> Cardinality(batch[c]),
                          ok    |-> Cardinality(FO!With(c, "accepted")),
                          err   |-> Cardinality(FO!With(c, "rejected")),
                          final |-> TRUE]]
    <2>1. /\ ok[c] = Cardinality(FO!With(c, "accepted"))
          /\ err[c] = Cardinality(FO!With(c, "rejected"))
      BY <1>4 DEF DistInv, CountInv
    <2>2. call' \in [Calls -> {"idle", "running", "returned"}] /\ call'[c] = "returned"
          /\ \A b \in Calls \ {c} : call'[b] = call[b]
      BY <1>t, <1>1 DEF TypeOK
    <2>3. QED BY <1>1, <2>1, <2>2 DEF FanReport
  <1>7. FanVerdict' = FanVerdict /\ FanDelivered' = FanDelivered
    BY <1>1 DEF FanVerdict, FanDelivered
  <1>8. QED BY <1>1, <1>2, <1>4, <1>5, <1>6, <1>7
            DEF FO!Report, FO!Cardinality, Cardinality, FanVerdict, FanReport, FanDelivered

\* The worker delivers one order, and may let in one that waits.
LEMMA ReceiveDelivers ==
    ASSUME DistInv, Receive
    PROVE  \E c \in Calls, f \in Followers : FO!Deliver(c, f)
  <1>t. TypeOK /\ chan \in Seq(Orders) /\ waiting \in Seq(Orders)
    BY DEF DistInv, TypeOK
  <1> DEFINE x == Head(chan)
             w == Head(waiting)
  <1>1. /\ chan # <<>> /\ ~stalled /\ handled' = handled \cup {x}
        /\ UNCHANGED <<batch, call, ok, err, stalled>>
    BY DEF Receive, signal, counts
  <1>2. x \in Elements(chan)
    BY <1>t, <1>1, TailElements DEF Elements
  <1>3. x.call \in Calls /\ x.follower \in Followers
    BY <1>t, <1>2, OrdersTyped DEF Sent
  <1>4. g[x.call][x.follower] \in {"sent", "succeeded"}
    BY <1>2 DEF DistInv, PlaceInv, Sent
  <1>5. FanVerdict[x.call][x.follower] = "accepted"
    BY <1>3, <1>4, VerdictIs DEF FanVerdict
  <1>6. <<x.call, x.follower>> \notin FanDelivered
    BY <1>2 DEF DistInv, PlaceInv, Same, FanDelivered
  <1>7. FanDelivered' = FanDelivered \cup {<<x.call, x.follower>>}
    BY <1>1 DEF FanDelivered
  <1>8. FanReport' = FanReport
    BY <1>1 DEF FanReport
  <1> HIDE DEF x
  <1>9. \/ FanVerdict' = FanVerdict
        \/ \E o \in FO!Orders :
              /\ FanVerdict[o[1]][o[2]] = "pending"
              /\ FanVerdict' = [FanVerdict EXCEPT ![o[1]][o[2]] = "accepted"]
    <2>1. CASE waiting = <<>>
      BY <2>1 DEF Receive, FanVerdict
    <2>2. CASE waiting # <<>>
      <3>1. Goroutine(w.call, w.follower, "sent")
        BY <2>2 DEF Receive
      <3>2. w \in Elements(waiting)
        BY <1>t, <2>2, TailElements DEF Elements
      <3> HIDE DEF w
      <3>3. w.call \in Calls /\ w.follower \in Followers
        BY <1>t, <3>2, OrdersTyped
      <3>4. g[w.call][w.follower] = "blocked"
        BY <3>2 DEF DistInv, PlaceInv
      <3> DEFINE c == w.call
                 f == w.follower
      <3> HIDE DEF c, f
      <3>5. c \in Calls /\ f \in Followers /\ Goroutine(c, f, "sent") /\ g[c][f] = "blocked"
        BY <3>1, <3>3, <3>4 DEF c, f
      <3>6. /\ FanVerdict[c][f] = "pending"
            /\ FanVerdict' = [FanVerdict EXCEPT ![c][f] = "accepted"]
        BY <1>t, <3>5, VerdictGo, VerdictIs DEF GoStates
      <3>7. <<c, f>> \in FO!Orders /\ <<c, f>>[1] = c /\ <<c, f>>[2] = f
        BY <3>5 DEF FO!Orders
      <3>8. QED BY <3>6, <3>7
    <2>3. QED BY <2>1, <2>2
  <1>10. PICK c \in Calls, f \in Followers : c = x.call /\ f = x.follower
    BY <1>3
  <1>11. FO!Deliver(c, f)
    BY <1>1, <1>10, <1>5, <1>6, <1>7, <1>8, <1>9
       DEF FO!Deliver, FanVerdict, FanReport, FanDelivered
  <1>12. QED BY <1>11

\* The worker that gets stuck stops; nothing else is seen.
LEMMA QuietIsHidden ==
    ASSUME Stall \/ Rest \/ UNCHANGED vars
    PROVE  FO!Stop \/ UNCHANGED FO!fvars
  <1>1. UNCHANGED <<batch, g, handled, call, ok, err>>
    BY DEF Stall, Rest, vars, signal, counts
  <1>2. UNCHANGED <<FanVerdict, FanDelivered, FanReport>>
    BY <1>1 DEF FanVerdict, FanDelivered, FanReport
  <1>3. CASE Stall
    BY <1>1, <1>2, <1>3 DEF Stall, FO!Stop, FanVerdict, FanDelivered, FanReport
  <1>4. CASE Rest \/ UNCHANGED vars
    <2>1. stalled' = stalled
      BY <1>4 DEF Rest, vars
    <2>2. QED BY <1>1, <1>2, <2>1 DEF FO!fvars, FanVerdict, FanDelivered, FanReport
  <1>5. QED BY <1>3, <1>4

\* Every step of the goroutines, the timers and the worker is a step of the
\* promise or none.
LEMMA FanStep == DistInv /\ [Next]_vars => [FO!FNext]_FO!fvars
  <1> SUFFICES ASSUME DistInv, [Next]_vars PROVE FO!FNext \/ UNCHANGED FO!fvars
    OBVIOUS
  <1>1. ASSUME NEW c \in Calls, NEW fs \in SUBSET Followers, Distribute(c, fs)
        PROVE  FO!FNext
    BY <1>1, DistributeAsks DEF FO!FNext
  <1>2. ASSUME NEW c \in Calls, NEW f \in Followers, Go(c, f)
        PROVE  FO!FNext \/ UNCHANGED FO!fvars
    <2>1. CASE EnqueueOrder(c, f) \/ Timeout(c, f)
      BY <2>1, GoDecides DEF FO!FNext
    <2>2. CASE CountOutcome(c, f)
      BY <2>2, CountIsHidden
    <2>3. QED BY <1>2, <2>1, <2>2 DEF Go
  <1>3. ASSUME NEW c \in Calls, Return(c) PROVE FO!FNext
    BY <1>3, ReturnReports DEF FO!FNext
  <1>4. CASE Receive
    BY <1>4, ReceiveDelivers DEF FO!FNext
  <1>5. CASE Stall \/ Rest \/ UNCHANGED vars
    BY <1>5, QuietIsHidden DEF FO!FNext
  <1>6. QED BY <1>1, <1>2, <1>3, <1>4, <1>5 DEF Next

\* SignalDistributor and the worker implement OrderFanOut's safety part: whatever
\* the interleaving, an order is decided once and as reported, and an accepted one
\* delivered once at most. (That it is delivered is liveness, left to the run.)
THEOREM ImplementsFanOutSafely == Spec => FO!FSafety
  BY FanInit, FanStep, DistCorrect, PTL DEF Spec, FO!FSafety
=============================================================================
