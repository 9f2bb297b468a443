-------------------------- MODULE CopyTradingProofs --------------------------
(***************************************************************************)
(* Proofs about CopyTrading, the API composed with the bridge's reads, for *)
(* any number of signals, handlers, masters and accounts.                  *)
(*                                                                         *)
(* The bridge takes no lock: what keeps its two reads right is that a      *)
(* handler alone on a row writes the row before the set when it stops or   *)
(* deletes a follower, so an account whose row is still active, and was in *)
(* the set when the signal arrived, has not left it.                       *)
(***************************************************************************)
EXTENDS CopyTrading, SubscriptionProofs

CTVars == <<vars, bridge>>

\* What a delivery has read of its steady rows.
FlightOK(x) ==
    /\ d[x].rows \subseteq d[x].activeSince
    /\ InFlight(x) => /\ d[x].master \in Masters
                      /\ ActiveRows \subseteq d[x].activeSince
                      /\ d[x].steady \subseteq ActiveRows \ suspect
    /\ d[x].pc = "getFollowers" =>
          \A f \in d[x].steady : MasterOf(f) = d[x].master /\ Subscribed(f)
    /\ d[x].pc = "getDetails" => \A f \in d[x].steady : AccountOf(f) \in d[x].accounts
    /\ d[x].pc \in {"distribute", "finished"} => d[x].steady \subseteq d[x].rows

BuriedInv == /\ bridgeCache \cap buried = {}
             /\ \A x \in Deliveries : d[x].master \notin buried

BridgeTyped == /\ bridgeCache \subseteq Masters
               /\ d \in [Deliveries -> DeliveryRecords]
               /\ buried \subseteq Masters

CTInv == /\ SubInv /\ BridgeTyped /\ BuriedInv
         /\ \A x \in Deliveries : FlightOK(x)

-----------------------------------------------------------------------------
(* The API's steps *)

\* A handler that goes to a step where a set is still to be written has not
\* written one.
LEMMA WindowKeepsSets ==
  ASSUME TypeInv, NEW p \in Handlers, Handle(p), h'[p].pc \in SetSteps
  PROVE  UNCHANGED subs
<1>0. HandlersTyped
  BY DEF TypeInv
<1>1. ASSUME NEW step \in Steps \ SetSteps, Goto(p, step) PROVE FALSE
  BY <1>0, <1>1, TouchesGoto
<1>2. ASSUME Answer(p) PROVE FALSE
  BY <1>0, <1>2, TouchesAnswer DEF Idle, SetSteps, SubSteps
<1>3. CASE UpdateSubscription(p) \/ ClearMasterFollowers(p) \/ RemoveSubscription(p)
  BY <1>1, <1>2, <1>3 DEF UpdateSubscription, ClearMasterFollowers, RemoveSubscription,
     Steps, LookupSteps, SetSteps, SubSteps
<1> USE DEF redis
<1>4. QED
  BY <1>3 DEF Handle, RequestCreateMaster, RequestRegisterFollower, RequestFollowerOp,
     RequestDeleteMaster, Arrive, CreateMasterInsert, CreateMasterCache, RegisterMaster,
     VerifyMaster, CreateFollowerInsert, RegisterFollower, GetFollower, UpdateStatus,
     UpdateFollowerStatus, GetMaster, DeleteMasterRow, EvictMaster, DeleteFollowerRow,
     UnregisterFollower, StatementFails, SubscriptionFails, LookupFails

\* An active row in its set stays there as long as it stays active and nothing
\* makes it suspect.
LEMMA ActiveStaysSubscribed ==
  ASSUME SubInv, Next, NEW f \in Rows, f \notin suspect, f \notin suspect',
         followers[f] = "active", followers'[f] = "active", Subscribed(f)
  PROVE  Subscribed(f)'
<1>0. TypeInv /\ subs \in [Masters -> SUBSET Accounts]
  BY DEF SubInv, TypeInv, TypeOK, KeysOK
<1>1. ASSUME NEW p \in Handlers, Handle(p) PROVE Subscribed(f)'
  <2>1. CASE f \notin Touches(h[p])
    BY <1>0, <1>1, <2>1, HandleFrame DEF Frame
  <2>2. CASE f \in Touches(h[p])
    <3>1. RowOK(h[p], f) /\ Settled(p, f)
      BY <2>2, SettledBefore DEF SubInv, RowsKnown
    <3>2. Settled(p, f)'
      BY <1>0, <1>1, <2>2, <3>1, OwnRow
    <3>3. CASE h'[p].pc \in SetSteps
      BY <1>0, <1>1, <3>3, WindowKeepsSets DEF Subscribed
    <3>4. CASE h'[p].pc \notin SetSteps
      BY <3>2, <3>4 DEF Settled, Agrees
    <3>5. QED BY <3>3, <3>4
  <2>3. QED BY <2>1, <2>2
<1>2. CASE Crash
  BY <1>2 DEF Crash, redis, Subscribed
<1>3. ASSUME NEW m \in Masters, SyncDel(m) PROVE Subscribed(f)'
  <2>1. MasterOf(f) # m
    <3>1. LiveRow(f)
      BY DEF LiveRow, Statuses
    <3>2. f \notin LiveRowsOf(m)
      BY <1>3 DEF SyncDel
    <3>3. QED BY <3>1, <3>2 DEF LiveRowsOf, RowsOf, Rows, MasterOf
  <2>2. QED BY <1>0, <1>3, <2>1, RowPair DEF SyncDel, ClearFollowers, Subscribed
<1>4. ASSUME NEW m \in Masters, SyncAdd(m) PROVE Subscribed(f)'
  BY <1>0, <1>4, RowPair DEF SyncAdd, AddFollowers, Subscribed
<1>5. CASE MainStart \/ SyncFails \/ StartServer
  BY <1>5 DEF MainStart, SyncFails, StartServer, redis, Subscribed
<1>6. QED
  BY <1>1, <1>2, <1>3, <1>4, <1>5 DEF Next, Start

\* A step of the API under a delivery.
LEMMA APIFlight ==
  ASSUME SubInv, SubInv', BridgeTyped, NEW x \in Deliveries, FlightOK(x), APIStep
  PROVE  FlightOK(x)'
<1>1. /\ d' = [y \in Deliveries |->
                  IF InFlight(y)
                  THEN [d[y] EXCEPT !.steady = @ \cap (ActiveRows' \ suspect'),
                                    !.activeSince = @ \cup ActiveRows']
                  ELSE d[y]]
      /\ Next
  BY DEF APIStep
<1>2. d[x] \in DeliveryRecords
  BY DEF BridgeTyped
<1>3. CASE ~InFlight(x)
  <2>1. d'[x] = d[x]
    BY <1>1, <1>3
  <2>2. QED
    BY <1>3, <2>1 DEF FlightOK, InFlight
<1>4. CASE InFlight(x)
  <2>1. d'[x] = [d[x] EXCEPT !.steady = d[x].steady \cap (ActiveRows' \ suspect'),
                             !.activeSince = d[x].activeSince \cup ActiveRows']
    BY <1>1, <1>4
  <2>2. /\ d'[x].pc = d[x].pc /\ d'[x].rows = d[x].rows /\ d'[x].master = d[x].master
        /\ d'[x].accounts = d[x].accounts
        /\ d'[x].steady = d[x].steady \cap (ActiveRows' \ suspect')
        /\ d'[x].activeSince = d[x].activeSince \cup ActiveRows'
    BY <1>2, <2>1 DEF DeliveryRecords
  <2>3. ASSUME NEW f \in d'[x].steady, d[x].pc = "getFollowers"
        PROVE  Subscribed(f)'
    <3>1. f \in Rows /\ followers[f] = "active" /\ f \notin suspect /\ Subscribed(f)
      BY <1>4, <2>2, <2>3 DEF FlightOK, ActiveRows
    <3>2. followers'[f] = "active" /\ f \notin suspect'
      BY <2>2, <2>3 DEF ActiveRows
    <3>3. QED
      BY <1>1, <3>1, <3>2, ActiveStaysSubscribed
  <2>4. QED
    BY <1>4, <2>2, <2>3 DEF FlightOK, InFlight
<1>5. QED BY <1>3, <1>4

-----------------------------------------------------------------------------
(* The bridge's steps *)

\* A delivery's step leaves the API, the cache and the other deliveries alone.
LEMMA DeliverFrame ==
  ASSUME BridgeTyped, NEW x \in Deliveries, Deliver(x)
  PROVE  /\ UNCHANGED <<vars, bridgeCache, buried>>
         /\ \A y \in Deliveries \ {x} : d'[y] = d[y]
  BY DEF Deliver, IsMasterSignal, GetFollowers, GetFollowerDetails, Distribute, ReadFails,
     GoroutineEnds, BridgeTyped

\* A delivery's own step keeps its record, and it is never for a buried master.
LEMMA DeliverFlight ==
  ASSUME SubInv, BridgeTyped, BuriedInv, NEW x \in Deliveries, FlightOK(x), Deliver(x)
  PROVE  d'[x] \in DeliveryRecords /\ FlightOK(x)' /\ d'[x].master \notin buried
<1>0. d[x] \in DeliveryRecords /\ d \in [Deliveries -> DeliveryRecords]
  BY DEF BridgeTyped
<1>1. /\ ActiveRows' = ActiveRows /\ suspect' = suspect
      /\ \A f \in Rows : Subscribed(f)' <=> Subscribed(f)
  BY DeliverFrame DEF vars, tables, redis, history, ActiveRows, Subscribed
<1>2. NoDelivery \in DeliveryRecords
  BY DEF NoDelivery, DeliveryRecords
<1>3. ASSUME NEW m \in Masters, IsMasterSignal(x, m)
      PROVE  d'[x] \in DeliveryRecords /\ FlightOK(x)' /\ d'[x].master \notin buried
  <2> DEFINE steady == {f \in RowsOf(m) \cap (ActiveRows \ suspect) : Subscribed(f)}
  <2>1. d'[x] = [pc |-> "getFollowers", master |-> m, accounts |-> {}, rows |-> {},
                 steady |-> steady, activeSince |-> ActiveRows]
    BY <1>0, <1>3 DEF IsMasterSignal, NoDelivery
  <2>2. steady \subseteq ActiveRows \ suspect /\ ActiveRows \subseteq Rows
    BY DEF ActiveRows
  <2>3. \A f \in steady : MasterOf(f) = m /\ Subscribed(f) /\ f \in Rows
    BY <2>2 DEF RowsOf, MasterOf
  <2>4. m \notin buried
    BY <1>3 DEF IsMasterSignal, BuriedInv
  <2> HIDE DEF steady
  <2>5. d'[x] \in DeliveryRecords
    BY <2>1, <2>2 DEF DeliveryRecords
  <2>6. FlightOK(x)'
    BY <1>1, <2>1, <2>2, <2>3 DEF FlightOK, InFlight
  <2>7. QED BY <2>1, <2>4, <2>5, <2>6
<1>4. CASE GetFollowers(x)
  <2> DEFINE ids == subs[d[x].master]
  <2>1. /\ d[x].pc = "getFollowers"
        /\ d'[x] = [d[x] EXCEPT !.accounts = ids,
                               !.pc = IF ids = {} THEN "finished" ELSE "getDetails"]
    BY <1>0, <1>4 DEF GetFollowers
  <2>2. \A f \in d[x].steady : AccountOf(f) \in ids
    BY <2>1 DEF FlightOK, Subscribed
  <2>3. ids \in SUBSET Accounts
    <3>1. d[x].master \in Masters
      BY <2>1 DEF FlightOK, InFlight
    <3>2. QED BY <3>1 DEF SubInv, TypeInv, TypeOK, KeysOK
  <2> HIDE DEF ids
  <2>4. /\ d'[x].pc = (IF ids = {} THEN "finished" ELSE "getDetails")
        /\ d'[x].accounts = ids /\ d'[x].rows = d[x].rows /\ d'[x].master = d[x].master
        /\ d'[x].steady = d[x].steady /\ d'[x].activeSince = d[x].activeSince
        /\ d'[x] \in DeliveryRecords
    BY <1>0, <2>1, <2>3 DEF DeliveryRecords
  <2>5. FlightOK(x)'
    BY <1>1, <2>1, <2>2, <2>4 DEF FlightOK, InFlight
  <2>6. QED BY <2>4, <2>5 DEF BuriedInv
<1>5. CASE GetFollowerDetails(x)
  <2> DEFINE found == RowsByAccounts(d[x].accounts)
  <2>1. /\ d[x].pc = "getDetails"
        /\ d'[x] = [d[x] EXCEPT !.rows = found,
                               !.pc = IF found = {} THEN "finished" ELSE "distribute"]
    BY <1>0, <1>5 DEF GetFollowerDetails
  <2>2. found \subseteq ActiveRows /\ ActiveRows \subseteq Rows
    BY DEF RowsByAccounts, ActiveRows
  <2>3. d[x].steady \subseteq found /\ found \subseteq d[x].activeSince
    BY <2>1, <2>2 DEF FlightOK, InFlight, RowsByAccounts, ActiveRows
  <2> HIDE DEF found
  <2>4. /\ d'[x].pc = (IF found = {} THEN "finished" ELSE "distribute")
        /\ d'[x].rows = found /\ d'[x].master = d[x].master
        /\ d'[x].steady = d[x].steady /\ d'[x].activeSince = d[x].activeSince
        /\ d'[x] \in DeliveryRecords
    BY <1>0, <2>1, <2>2 DEF DeliveryRecords
  <2>5. FlightOK(x)'
    BY <2>3, <2>4 DEF FlightOK, InFlight
  <2>6. QED BY <2>4, <2>5 DEF BuriedInv
<1>6. CASE Distribute(x) \/ ReadFails(x)
  <2>1. PICK pc \in {"finished", "failed"} :
           /\ d'[x] = [d[x] EXCEPT !.pc = pc]
           /\ pc = "finished" => d[x].pc = "distribute"
    BY <1>0, <1>6 DEF Distribute, ReadFails
  <2>2. /\ d'[x].pc = pc /\ d'[x].rows = d[x].rows /\ d'[x].master = d[x].master
        /\ d'[x].steady = d[x].steady /\ d'[x].activeSince = d[x].activeSince
        /\ d'[x] \in DeliveryRecords
    BY <1>0, <2>1 DEF DeliveryRecords
  <2>3. FlightOK(x)'
    BY <2>1, <2>2 DEF FlightOK, InFlight
  <2>4. QED BY <2>2, <2>3 DEF BuriedInv
<1>7. CASE GoroutineEnds(x)
  <2>1. d'[x] = NoDelivery
    BY <1>0, <1>7 DEF GoroutineEnds
  <2>2. NoId \notin buried
    BY IdsAssumption DEF BridgeTyped
  <2>3. QED BY <1>2, <2>1, <2>2 DEF FlightOK, InFlight, NoDelivery
<1>8. QED BY <1>3, <1>4, <1>5, <1>6, <1>7 DEF Deliver

\* No delivery has begun.
LEMMA NoDeliveryOK ==
  ASSUME \A x \in Deliveries : d[x] = NoDelivery
  PROVE  \A x \in Deliveries : FlightOK(x) /\ d[x].master = NoId
  BY DEF FlightOK, InFlight, NoDelivery

\* CTInv holds initially.
LEMMA CTInvInit == CTInit => CTInv
<1> SUFFICES ASSUME CTInit PROVE CTInv
  OBVIOUS
<1>1. SubInv
  BY SubInit DEF CTInit
<1>2. \A x \in Deliveries : FlightOK(x)
  BY NoDeliveryOK DEF CTInit
<1>3. BridgeTyped /\ BuriedInv
  BY DEF CTInit, BridgeTyped, BuriedInv, NoDelivery, DeliveryRecords
<1>4. QED BY <1>1, <1>2, <1>3 DEF CTInv

\* CTInv is preserved by every step.
LEMMA CTInvStep == CTInv /\ [CTNext]_CTVars => CTInv'
<1> SUFFICES ASSUME CTInv, [CTNext]_CTVars PROVE CTInv'
  OBVIOUS
<1>0. SubInv /\ BridgeTyped /\ BuriedInv /\ \A x \in Deliveries : FlightOK(x)
  BY DEF CTInv
<1>1. CASE APIStep
  <2>1. SubInv'
    BY <1>0, <1>1, SubStep DEF APIStep
  <2>2. \A x \in Deliveries : FlightOK(x)'
    BY <1>0, <1>1, <2>1, APIFlight
  <2>3. \A x \in Deliveries : d'[x] \in DeliveryRecords /\ d'[x].master = d[x].master
    <3> SUFFICES ASSUME NEW x \in Deliveries
                 PROVE  d'[x] \in DeliveryRecords /\ d'[x].master = d[x].master
      OBVIOUS
    <3>1. d[x] \in DeliveryRecords /\ ActiveRows' \subseteq Rows
      BY <1>0 DEF BridgeTyped, ActiveRows
    <3>2. d'[x] = IF InFlight(x)
                  THEN [d[x] EXCEPT !.steady = d[x].steady \cap (ActiveRows' \ suspect'),
                                    !.activeSince = d[x].activeSince \cup ActiveRows']
                  ELSE d[x]
      BY <1>1 DEF APIStep
    <3>3. QED BY <3>1, <3>2 DEF DeliveryRecords
  <2>4. BridgeTyped' /\ BuriedInv'
    <3>1. d' \in [Deliveries -> DeliveryRecords]
      BY <1>1, <2>3 DEF APIStep
    <3>2. UNCHANGED <<bridgeCache, buried>>
      BY <1>1 DEF APIStep
    <3>3. QED BY <1>0, <2>3, <3>1, <3>2 DEF BridgeTyped, BuriedInv
  <2>5. QED BY <2>1, <2>2, <2>4 DEF CTInv
<1>2. CASE BridgeStart
  <2>1. SubInv'
    BY <1>0, <1>2, SubStep DEF BridgeStart
  <2>2. \A x \in Deliveries : d'[x] = NoDelivery
    BY <1>2 DEF BridgeStart
  <2>3. \A x \in Deliveries : FlightOK(x)'
    BY <2>2 DEF FlightOK, InFlight, NoDelivery
  <2>4. BridgeTyped' /\ BuriedInv'
    <3>1. bridgeCache' \subseteq LiveMasters /\ buried' = {m \in Masters : masters[m] = "deleted"}
      BY <1>2 DEF BridgeStart
    <3>2. bridgeCache' \cap buried' = {} /\ bridgeCache' \subseteq Masters /\ NoId \notin buried'
      BY <3>1, IdsAssumption DEF LiveMasters, MasterExists
    <3>3. d' \in [Deliveries -> DeliveryRecords]
      BY <1>2 DEF BridgeStart, NoDelivery, DeliveryRecords
    <3>4. \A x \in Deliveries : d'[x].master \notin buried'
      BY <2>2, <3>2 DEF NoDelivery
    <3>5. QED BY <3>1, <3>2, <3>3, <3>4 DEF BridgeTyped, BuriedInv
  <2>5. QED BY <2>1, <2>3, <2>4 DEF CTInv
<1>3. ASSUME NEW x \in Deliveries, Deliver(x) PROVE CTInv'
  <2>1. /\ UNCHANGED <<vars, bridgeCache, buried>>
        /\ \A y \in Deliveries \ {x} : d'[y] = d[y]
    BY <1>0, <1>3, DeliverFrame
  <2>2. SubInv'
    BY <1>0, <2>1, SubStep
  <2>3. d'[x] \in DeliveryRecords /\ FlightOK(x)' /\ d'[x].master \notin buried
    BY <1>0, <1>3, DeliverFlight
  <2>4. \A y \in Deliveries : FlightOK(y)'
    <3> SUFFICES ASSUME NEW y \in Deliveries, y # x PROVE FlightOK(y)'
      BY <2>3
    <3>1. d'[y] = d[y] /\ FlightOK(y)
      BY <1>0, <2>1
    <3>2. ActiveRows' = ActiveRows /\ suspect' = suspect /\ subs' = subs
      BY <2>1 DEF vars, tables, redis, history, ActiveRows
    <3>3. QED BY <3>1, <3>2 DEF FlightOK, InFlight, Subscribed
  <2>5. d' \in [Deliveries -> DeliveryRecords]
    BY <1>0, <1>3, <2>1, <2>3 DEF BridgeTyped, Deliver, IsMasterSignal, GetFollowers,
       GetFollowerDetails, Distribute, ReadFails, GoroutineEnds
  <2>6. BridgeTyped' /\ BuriedInv'
    BY <1>0, <2>1, <2>3, <2>5 DEF BridgeTyped, BuriedInv
  <2>7. QED BY <2>2, <2>4, <2>6 DEF CTInv
<1>4. CASE UNCHANGED CTVars
  <2>1. SubInv'
    BY <1>0, <1>4, SubStep DEF CTVars
  <2>2. UNCHANGED <<d, bridgeCache, buried, followers, subs, suspect>>
    BY <1>4 DEF CTVars, bridge, vars, tables, redis, history
  <2>3. \A x \in Deliveries : FlightOK(x)'
    BY <1>0, <2>2 DEF FlightOK, InFlight, ActiveRows, Subscribed
  <2>4. BridgeTyped' /\ BuriedInv'
    BY <1>0, <2>2 DEF BridgeTyped, BuriedInv
  <2>5. QED BY <2>1, <2>3, <2>4 DEF CTInv
<1>5. QED BY <1>1, <1>2, <1>3, <1>4 DEF CTNext

\* CTInv holds in every state.
LEMMA CTCorrect == CTSpec => []CTInv
  BY CTInvInit, CTInvStep, PTL DEF CTSpec, CTVars

-----------------------------------------------------------------------------
(* The properties *)

\* Every variable of the two processes has its type.
THEOREM CopyTradingTypeCorrect == CTSpec => []CTTypeOK
<1>1. CTInv => CTTypeOK
  BY DEF CTInv, SubInv, TypeInv, BridgeTyped, CTTypeOK
<1>2. QED BY <1>1, CTCorrect, PTL

\* The two processes share the tables and the sets, and the bridge only reads them:
\* composed with it the API behaves as it does alone, and all that is proved of
\* CopyTradingAPI holds beside the bridge.
THEOREM BridgeOnlyReads == CTSpec => Spec
<1>1. CTInit => Init
  BY DEF CTInit
<1>2. CTInv /\ [CTNext]_CTVars => [Next]_vars
  <2> SUFFICES ASSUME CTInv, [CTNext]_CTVars PROVE Next \/ UNCHANGED vars
    OBVIOUS
  <2>1. ASSUME NEW x \in Deliveries, Deliver(x) PROVE UNCHANGED vars
    BY <2>1, DeliverFrame DEF CTInv
  <2>2. QED BY <2>1 DEF CTNext, APIStep, BridgeStart, CTVars
<1>3. QED BY <1>1, <1>2, CTCorrect, PTL DEF CTSpec, Spec, CTVars

\* distributeToFollowers's two reads: a delivery that ends without an error has
\* handed over every steady row, however the API's handlers interleave with them.
THEOREM ActiveFollowersAreServed == CTSpec => []NoFollowerMissed
<1>1. CTInv => NoFollowerMissed
  BY DEF CTInv, FlightOK, NoFollowerMissed
<1>2. QED BY <1>1, CTCorrect, PTL

\* GetByAccountIDs: a row handed over was active after the signal's arrival, so a
\* stop that was complete by then is obeyed.
THEOREM StopsAreObeyed == CTSpec => []StopIsObeyed
<1>1. CTInv => StopIsObeyed
  BY DEF CTInv, FlightOK, StopIsObeyed
<1>2. QED BY <1>1, CTCorrect, PTL

\* initMasterFollower: no signal of a master deleted before the bridge started is
\* ever distributed.
THEOREM DeletedMastersAreNotCopied == CTSpec => []DeletedIsNotCopied
<1>1. CTInv => DeletedIsNotCopied
  BY DEF CTInv, BuriedInv, DeletedIsNotCopied
<1>2. QED BY <1>1, CTCorrect, PTL

\* distributeToFollowers only reads: beside the bridge too, the subscription sets,
\* the routing keys and the API's cache agree with the tables outside the named
\* causes, and a deleted follower stays deleted.
THEOREM StoresAgreeBesideTheBridge ==
    CTSpec => /\ [](SubscriptionAgreement /\ LookupAgreement /\ CacheAgreement)
              /\ DeletedIsFinal
  BY BridgeOnlyReads, SubscriptionSetsAgree, LookupKeysAgree, CacheAgrees,
     DeletedStaysDeleted, PTL
=============================================================================
