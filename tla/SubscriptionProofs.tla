-------------------------- MODULE SubscriptionProofs --------------------------
(***************************************************************************)
(* The proofs that the Redis keys agree with the tables, for any number of *)
(* handlers, masters and accounts: the subscription sets                   *)
(* (SubscriptionAgreement), then the keys of FastLookupStore               *)
(* (LookupAgreement).                                                      *)
(*                                                                         *)
(* Both arguments are the same: outside the rows in suspect (astray) a row *)
(* is touched by one handler at a time, so what that handler has read or   *)
(* written is still true when it takes its next step.                      *)
(***************************************************************************)
EXTENDS CopyTradingAPIProofs

SetSteps == SubSteps \cup {"evictMaster"}

Agrees(f) == Subscribed(f) <=> followers[f] = "active"

\* No handler runs while the process is down or rebuilds the sets.
Quiet == phase # "serving" => \A p \in Handlers : h[p] = Idle

\* Between its DEL and its SADD the set of a master is empty.
Rebuilding == /\ phase # "syncing" => adding = {}
              /\ \A m \in adding : subs[m] = {}

Exclusive == \A p, q \in Handlers :
                p # q => Touches(h[p]) \cap Touches(h[q]) \subseteq suspect

\* What a handler at a given step knows of a row it alone touches.
RowOK(r, f) ==
    /\ r.pc = "subscribe" => followers[f] = Wanted(r)
    /\ r.pc = "deleteFollower" => followers[f] = r.seen /\ r.seen \in Statuses
    /\ r.pc = "unsubscribe" => followers[f] = "deleted"
    /\ r.pc \in {"evictMaster", "clearFollowers"} => followers[f] # "active"

RowsKnown == \A p \in Handlers : \A f \in Touches(h[p]) \ suspect : RowOK(h[p], f)

SubInv == /\ TypeInv /\ Quiet /\ Rebuilding
          /\ Exclusive /\ RowsKnown /\ SubscriptionAgreement

-----------------------------------------------------------------------------
(* What a handler's step leaves alone. *)

\* A row's two components name it.
LEMMA RowPair ==
  ASSUME NEW f \in Rows
  PROVE  MasterOf(f) \in Masters /\ AccountOf(f) \in Accounts
         /\ f = <<MasterOf(f), AccountOf(f)>>
  BY DEF Rows, MasterOf, AccountOf

\* A handler at a step of one operation touches what that operation touches.
LEMMA TouchesGoto ==
  ASSUME HandlersTyped, NEW p \in Handlers, NEW step \in Steps, Goto(p, step)
  PROVE  /\ \A q \in Handlers \ {p} : h'[q] = h[q]
         /\ Touches(h'[p]) = Touches(h[p])
         /\ h'[p].pc = step /\ h'[p].op = h[p].op
         /\ h'[p].id = h[p].id /\ h'[p].seen = h[p].seen
  BY DEF HandlersTyped, HandlerRecords, Goto, Touches

\* An idle handler touches nothing.
LEMMA TouchesIdle == Touches(Idle) = {}
  BY DEF Touches, Idle, FollowerOps, StatusOps

\* A handler that answers is idle afterwards.
LEMMA TouchesAnswer ==
  ASSUME HandlersTyped, NEW p \in Handlers, Answer(p)
  PROVE  /\ \A q \in Handlers \ {p} : h'[q] = h[q]
         /\ h'[p] = Idle
         /\ Touches(h'[p]) = {}
  BY TouchesIdle DEF HandlersTyped, Answer

\* The rows a step of handler p may change are those its request touches, apart
\* from an insertion; new overlaps become suspect.
Frame(p) ==
    /\ \A q \in Handlers \ {p} : h'[q] = h[q]
    /\ suspect \subseteq suspect'
    /\ \A f \in Rows \ Touches(h[p]) :
          /\ \/ followers'[f] = followers[f]
             \/ followers[f] = "absent" /\ followers'[f] = "inactive"
          /\ Subscribed(f)' <=> Subscribed(f)
    /\ UNCHANGED <<phase, adding>>

\* No step of a handler writes outside its frame.
LEMMA HandleFrame ==
  ASSUME TypeInv, NEW p \in Handlers, Handle(p)
  PROVE  Frame(p)
<1>0. HandlerOK(h[p]) /\ h[p] \in HandlerRecords /\ HandlersTyped
  BY DEF TypeInv, HandlersTyped
<1>1. ASSUME NEW step \in Steps, Goto(p, step)
      PROVE  \A q \in Handlers \ {p} : h'[q] = h[q]
  BY <1>0, <1>1, TouchesGoto
<1>2. ASSUME Answer(p)
      PROVE  \A q \in Handlers \ {p} : h'[q] = h[q]
  BY <1>0, <1>2, TouchesAnswer
<1>3. followers \in [Rows -> FollowerStates] /\ subs \in [Masters -> SUBSET Accounts]
  BY DEF TypeInv, TypeOK, TablesOK, KeysOK
<1> USE DEF Frame, tables, redis, api, history, At, Steps, DbSteps, SubSteps,
        LookupSteps, CacheSteps
<1>4. CASE CreateMasterInsert(p)
  BY <1>1, <1>2, <1>4 DEF CreateMasterInsert, CommitTo, InsertMaster, Subscribed
<1>5. CASE CreateMasterCache(p)
  BY <1>1, <1>5 DEF CreateMasterCache, Subscribed
<1>6. CASE RegisterMaster(p)
  BY <1>1, <1>2, <1>6 DEF RegisterMaster, Subscribed
<1>7. CASE VerifyMaster(p)
  BY <1>1, <1>2, <1>7 DEF VerifyMaster, Subscribed
<1>8. CASE CreateFollowerInsert(p)
  BY <1>1, <1>2, <1>3, <1>8 DEF CreateFollowerInsert, CommitTo, InsertFollower,
     FollowerDuplicate, Subscribed
<1>9. CASE RegisterFollower(p)
  BY <1>1, <1>2, <1>9 DEF RegisterFollower, Subscribed
<1>10. CASE GetFollower(p)
  BY <1>0, <1>2, <1>10 DEF GetFollower, Subscribed, HandlersTyped
<1>11. CASE UpdateStatus(p)
  BY <1>0, <1>1, <1>2, <1>3, <1>11 DEF UpdateStatus, CommitTo, SetStatus, LiveRow,
     Touches, HandlerOK, StepOK, FollowerOps, Subscribed
<1>12. CASE UpdateSubscription(p)
  <2>1. h[p].id \in Touches(h[p]) /\ h[p].id \in Rows
    BY <1>0, <1>12 DEF UpdateSubscription, Touches, HandlerOK, StepOK, IdOK, FollowerOps
  <2>2. ASSUME NEW f \in Rows, f # h[p].id
        PROVE  Subscribed(f)' <=> Subscribed(f)
    BY <1>3, <1>12, <2>1, <2>2, RowPair DEF UpdateSubscription, AddFollower,
       RemoveFollower, Subscribed
  <2>3. QED
    BY <1>1, <1>12, <2>1, <2>2 DEF UpdateSubscription
<1>13. CASE UpdateFollowerStatus(p)
  BY <1>1, <1>2, <1>13 DEF UpdateFollowerStatus, Subscribed
<1>14. CASE GetMaster(p)
  BY <1>1, <1>2, <1>14 DEF GetMaster, Subscribed
<1>15. CASE DeleteMasterRow(p)
  <2>1. \A f \in Rows : MasterOf(f) = h[p].id => f \in Touches(h[p])
    BY <1>0, <1>15 DEF DeleteMasterRow, Touches, HandlerOK, StepOK
  <2>2. QED
    BY <1>1, <1>2, <1>15, <2>1 DEF DeleteMasterRow, CommitTo, SoftDeleteMasterRow,
       Subscribed
<1>16. CASE EvictMaster(p)
  BY <1>1, <1>16 DEF EvictMaster, Subscribed
<1>17. CASE ClearMasterFollowers(p)
  <2>1. \A f \in Rows : MasterOf(f) = h[p].id => f \in Touches(h[p])
    BY <1>0, <1>17 DEF ClearMasterFollowers, Touches, HandlerOK, StepOK
  <2>2. ASSUME NEW f \in Rows \ Touches(h[p])
        PROVE  Subscribed(f)' <=> Subscribed(f)
    BY <1>3, <1>17, <2>1, RowPair DEF ClearMasterFollowers, ClearFollowers, Subscribed
  <2>3. QED
    BY <1>2, <1>17, <2>2 DEF ClearMasterFollowers
<1>18. CASE DeleteFollowerRow(p)
  BY <1>0, <1>1, <1>2, <1>3, <1>18 DEF DeleteFollowerRow, CommitTo,
     SoftDeleteFollowerRow, LiveRow, Touches, HandlerOK, StepOK, FollowerOps, Subscribed
<1>19. CASE RemoveSubscription(p)
  <2>1. h[p].id \in Touches(h[p]) /\ h[p].id \in Rows
    BY <1>0, <1>19 DEF RemoveSubscription, Touches, HandlerOK, StepOK, IdOK, FollowerOps
  <2>2. ASSUME NEW f \in Rows, f # h[p].id
        PROVE  Subscribed(f)' <=> Subscribed(f)
    BY <1>3, <1>19, <2>1, <2>2, RowPair DEF RemoveSubscription, RemoveFollower, Subscribed
  <2>3. QED
    BY <1>1, <1>19, <2>1, <2>2 DEF RemoveSubscription
<1>20. CASE UnregisterFollower(p)
  BY <1>1, <1>2, <1>20 DEF UnregisterFollower, Subscribed
<1>21. CASE StatementFails(p)
  BY <1>2, <1>21 DEF StatementFails, Subscribed
<1>22. CASE SubscriptionFails(p)
  BY <1>1, <1>2, <1>22 DEF SubscriptionFails, Subscribed
<1>23. CASE LookupFails(p)
  BY <1>2, <1>23 DEF LookupFails, Subscribed
<1>24. ASSUME NEW op, NEW id, Arrive(p, op, id)
       PROVE  Frame(p)
  BY <1>0, <1>24 DEF Arrive, HandlersTyped, Subscribed
<1>25. QED
  BY <1>4, <1>5, <1>6, <1>7, <1>8, <1>9, <1>10, <1>11, <1>12, <1>13, <1>14, <1>15, <1>16,
     <1>17, <1>18, <1>19, <1>20, <1>21, <1>22, <1>23, <1>24 DEF Handle,
     RequestCreateMaster, RequestRegisterFollower, RequestFollowerOp, RequestDeleteMaster

-----------------------------------------------------------------------------
(* What a handler's step does to a row it touches. *)

\* The window of the row that p has open, or agreement.
Settled(p, f) == (f \in Touches(h[p]) /\ h[p].pc \in SetSteps) \/ Agrees(f)

\* The touched row of a request for a follower, and of one for a master.
LEMMA TouchedRow ==
  ASSUME NEW p \in Handlers, NEW f \in Touches(h[p])
  PROVE  /\ f \in Rows
         /\ h[p].op \in FollowerOps \cup {"DeleteMaster"}
         /\ h[p].op \in FollowerOps => h[p].id = f
         /\ h[p].op = "DeleteMaster" => h[p].id = MasterOf(f) /\ f \in RowsOf(h[p].id)
  BY RowPair DEF Touches, RowsOf, Rows, MasterOf, AccountOf, FollowerOps, StatusOps

\* A handler alone on a row leaves it agreeing, or its window open, and knows of
\* it what its next step assumes.
LEMMA OwnRow ==
  ASSUME TypeInv, NEW p \in Handlers, Handle(p),
         NEW f \in Touches(h[p]), f \notin suspect',
         RowOK(h[p], f), Settled(p, f)
  PROVE  /\ Settled(p, f)'
         /\ f \in Touches(h'[p]) => RowOK(h[p], f)'
<1>0. HandlerOK(h[p]) /\ h[p] \in HandlerRecords /\ HandlersTyped
  BY DEF TypeInv, HandlersTyped
<1>1. /\ f \in Rows
      /\ h[p].op \in FollowerOps \cup {"DeleteMaster"}
      /\ h[p].op \in FollowerOps => h[p].id = f
      /\ h[p].op = "DeleteMaster" => h[p].id = MasterOf(f) /\ f \in RowsOf(h[p].id)
  BY TouchedRow
<1>2. ASSUME NEW step \in Steps, Goto(p, step)
      PROVE  /\ f \in Touches(h'[p])
             /\ h'[p].pc = step /\ h'[p].op = h[p].op
             /\ h'[p].id = h[p].id /\ h'[p].seen = h[p].seen
  BY <1>0, <1>2, TouchesGoto
<1>3. ASSUME Answer(p) PROVE f \notin Touches(h'[p])
  BY <1>0, <1>3, TouchesAnswer
<1>4. /\ followers \in [Rows -> FollowerStates]
      /\ subs \in [Masters -> SUBSET Accounts]
  BY DEF TypeInv, TypeOK, TablesOK, KeysOK
<1>5. MasterOf(f) \in Masters /\ AccountOf(f) \in Accounts
  BY <1>1, RowPair
<1> USE DEF Settled, Agrees, RowOK, tables, redis, api, history, At, Steps, DbSteps,
        SubSteps, LookupSteps, CacheSteps, SetSteps
<1>6. CASE GetFollower(p)
  <2>1. CASE Answer(p)
    BY <1>3, <1>6, <2>1 DEF GetFollower, Subscribed
  <2>2. CASE ~Answer(p)
    <3>1. /\ LiveRow(f) /\ h[p].id = f /\ h[p].pc = "getFollower"
          /\ h' = [h EXCEPT ![p].seen = followers[f],
                           ![p].pc = IF h[p].op = "DeleteFollower"
                                     THEN "deleteFollower" ELSE "updateStatus"]
          /\ UNCHANGED <<followers, subs>>
      BY <1>0, <1>1, <1>6, <2>2 DEF GetFollower, HandlerOK, StepOK
    <3>2. h'[p].seen = followers[f] /\ h'[p].pc \in {"deleteFollower", "updateStatus"}
      BY <1>0, <3>1 DEF HandlersTyped, HandlerRecords
    <3>3. QED
      BY <3>1, <3>2 DEF LiveRow, Subscribed
  <2>3. QED
    BY <2>1, <2>2
<1>7. CASE UpdateStatus(p)
  BY <1>0, <1>1, <1>2, <1>3, <1>4, <1>7 DEF UpdateStatus, CommitTo, SetStatus, LiveRow,
     HandlerOK, StepOK, FollowerOps, Wanted, Subscribed
<1>8. CASE UpdateSubscription(p)
  <2>1. h[p].op \in StatusOps /\ h[p].id = f /\ followers[f] = Wanted(h[p])
    BY <1>0, <1>1, <1>8 DEF UpdateSubscription, HandlerOK, StepOK, FollowerOps
  <2>2. Subscribed(f)' <=> h[p].op = "StartFollowing"
    BY <1>4, <1>5, <1>8, <2>1 DEF UpdateSubscription, AddFollower, RemoveFollower,
       Subscribed
  <2>3. QED
    BY <1>2, <1>8, <2>1, <2>2 DEF UpdateSubscription, Wanted
<1>9. CASE UpdateFollowerStatus(p)
  BY <1>2, <1>3, <1>9 DEF UpdateFollowerStatus, Subscribed
<1>10. CASE GetMaster(p)
  BY <1>2, <1>3, <1>10 DEF GetMaster, Subscribed
<1>11. CASE DeleteMasterRow(p)
  <2>1. h[p].op = "DeleteMaster" /\ MasterOf(f) = h[p].id /\ f \in RowsOf(h[p].id)
    BY <1>0, <1>1, <1>11 DEF DeleteMasterRow, HandlerOK, StepOK
  <2>2. followers'[f] # "active"
    BY <1>1, <1>11, <2>1 DEF DeleteMasterRow, SoftDeleteMasterRow, Statuses
  <2>3. QED
    BY <1>2, <1>11, <2>1, <2>2 DEF DeleteMasterRow, CommitTo
<1>12. CASE EvictMaster(p)
  BY <1>2, <1>12 DEF EvictMaster, Subscribed
<1>13. CASE ClearMasterFollowers(p)
  BY <1>0, <1>1, <1>3, <1>4, <1>5, <1>13 DEF ClearMasterFollowers, ClearFollowers,
     HandlerOK, StepOK, Subscribed
<1>14. CASE DeleteFollowerRow(p)
  <2>1. h[p].op = "DeleteFollower" /\ h[p].id = f /\ followers[f] = h[p].seen
    BY <1>0, <1>1, <1>14 DEF DeleteFollowerRow, HandlerOK, StepOK, FollowerOps
  <2>2. CASE SoftDeleteFollowerRow(f)
    BY <1>1, <1>2, <1>4, <1>14, <2>1, <2>2 DEF DeleteFollowerRow, CommitTo,
       SoftDeleteFollowerRow, LiveRow, Statuses, Subscribed
  <2>3. CASE ~SoftDeleteFollowerRow(f)
    BY <1>3, <1>14, <2>1, <2>3 DEF DeleteFollowerRow, Subscribed
  <2>4. QED
    BY <2>2, <2>3
<1>15. CASE RemoveSubscription(p)
  BY <1>0, <1>1, <1>2, <1>4, <1>5, <1>15 DEF RemoveSubscription, RemoveFollower,
     HandlerOK, StepOK, FollowerOps, Subscribed
<1>16. CASE UnregisterFollower(p)
  BY <1>2, <1>3, <1>16 DEF UnregisterFollower, Subscribed
<1>17. CASE StatementFails(p)
  BY <1>3, <1>17 DEF StatementFails, Subscribed
<1>18. CASE SubscriptionFails(p)
  BY <1>18 DEF SubscriptionFails
<1>19. CASE LookupFails(p)
  BY <1>3, <1>19 DEF LookupFails, Subscribed
<1>20. CASE h[p].op \in {"none", "CreateMaster", "RegisterFollower"}
  BY <1>1, <1>20 DEF FollowerOps, StatusOps
<1>21. QED
  BY <1>0, <1>6, <1>7, <1>8, <1>9, <1>10, <1>11, <1>12, <1>13, <1>14, <1>15, <1>16, <1>17,
     <1>18, <1>19, <1>20
     DEF Handle, HandlerOK, StepOK, RequestCreateMaster, RequestRegisterFollower,
         RequestFollowerOp, RequestDeleteMaster, Arrive, CreateMasterInsert,
         CreateMasterCache, RegisterMaster, VerifyMaster, CreateFollowerInsert,
         RegisterFollower

\* The rows a new request touches and no other handler does are not suspect.
LEMMA NewRows ==
  ASSUME TypeInv, NEW p \in Handlers, Handle(p),
         NEW f \in Touches(h'[p]), f \notin Touches(h[p])
  PROVE  /\ UNCHANGED <<followers, subs>>
         /\ h'[p].pc \in {"getFollower", "getMaster"}
         /\ f \in suspect' \/ \A q \in Handlers \ {p} : f \notin Touches(h[q])
<1>0. HandlersTyped /\ h[p] \in HandlerRecords
  BY DEF TypeInv, HandlersTyped
<1>1. ASSUME NEW step \in Steps, Goto(p, step) PROVE FALSE
  BY <1>0, <1>1, TouchesGoto
<1>2. ASSUME Answer(p) PROVE FALSE
  BY <1>0, <1>2, TouchesAnswer
<1>3. ASSUME GetFollower(p) PROVE FALSE
  <2>1. h'[p].op = h[p].op /\ h'[p].id = h[p].id
    BY <1>0, <1>2, <1>3 DEF GetFollower, HandlersTyped, HandlerRecords
  <2>2. QED
    BY <2>1 DEF Touches
<1>4. ASSUME NEW op, NEW id, Arrive(p, op, id)
      PROVE  /\ UNCHANGED <<followers, subs>>
             /\ h'[p].pc \in {"getFollower", "getMaster"}
             /\ f \in suspect' \/ \A q \in Handlers \ {p} : f \notin Touches(h[q])
  <2>1. h'[p] = Request(op, id)
    BY <1>0, <1>4 DEF Arrive, HandlersTyped
  <2>2. f \in Rows /\ op \in FollowerOps \cup {"DeleteMaster"}
    BY <2>1 DEF Touches, Request
  <2>3. QED
    BY <1>4, <2>1, <2>2 DEF Arrive, Overlap, Request, FirstStep, FollowerOps, StatusOps,
       tables, redis
<1> USE DEF Steps, DbSteps, SubSteps, LookupSteps, CacheSteps
<1>5. QED
  BY <1>1, <1>2, <1>3, <1>4
     DEF Handle, RequestCreateMaster, RequestRegisterFollower, RequestFollowerOp,
         RequestDeleteMaster, CreateMasterInsert, CreateMasterCache, RegisterMaster,
         VerifyMaster, CreateFollowerInsert, RegisterFollower, UpdateStatus,
         UpdateSubscription, UpdateFollowerStatus, GetMaster, DeleteMasterRow, EvictMaster,
         ClearMasterFollowers, DeleteFollowerRow, RemoveSubscription, UnregisterFollower,
         StatementFails, SubscriptionFails, LookupFails, CommitTo

-----------------------------------------------------------------------------
(* The invariant is inductive. *)

\* A row no other handler touches is settled by the one that touches it.
LEMMA SettledBefore ==
  ASSUME SubInv, NEW p \in Handlers, NEW f \in Touches(h[p]), f \notin suspect
  PROVE  Settled(p, f)
<1>1. f \in Rows
  BY DEF Touches
<1>2. SetPending(f) \/ Agrees(f)
  BY <1>1 DEF SubInv, SubscriptionAgreement, Agrees
<1>3. ASSUME SetPending(f) PROVE f \in Touches(h[p]) /\ h[p].pc \in SetSteps
  BY <1>3 DEF SubInv, Exclusive, SetPending, SetSteps
<1>4. QED
  BY <1>2, <1>3 DEF Settled

\* A handler's step.
LEMMA SubHandle ==
  ASSUME SubInv, NEW p \in Handlers, Handle(p)
  PROVE  (Quiet /\ Rebuilding /\ Exclusive /\ RowsKnown /\ SubscriptionAgreement)'
<1>1. TypeInv
  BY DEF SubInv
<1>2. Frame(p)
  BY <1>1, HandleFrame
<1>3. phase = "serving"
  <2>1. h[p].op = "none" <=> h[p].pc = "idle"
    BY <1>1 DEF TypeInv, HandlersTyped, HandlerOK, StepOK
  <2>2. ASSUME h[p] = Idle, phase # "serving" PROVE FALSE
    BY <2>2 DEF Idle, Handle, RequestCreateMaster, RequestRegisterFollower,
       RequestFollowerOp, RequestDeleteMaster, Arrive, CreateMasterInsert,
       CreateMasterCache, RegisterMaster, VerifyMaster, CreateFollowerInsert,
       RegisterFollower, GetFollower, UpdateStatus, UpdateSubscription,
       UpdateFollowerStatus, GetMaster, DeleteMasterRow, EvictMaster,
       ClearMasterFollowers, DeleteFollowerRow, RemoveSubscription, UnregisterFollower,
       StatementFails, SubscriptionFails, LookupFails, At, DbSteps, LookupSteps
  <2>3. QED
    BY <2>2 DEF SubInv, Quiet
<1>4. Quiet' /\ Rebuilding'
  BY <1>2, <1>3 DEF SubInv, Rebuilding, Quiet, Frame
<1>5. ASSUME NEW f \in Touches(h'[p]), f \notin suspect',
             NEW q \in Handlers, q # p
      PROVE  f \notin Touches(h[q])
  <2>1. CASE f \in Touches(h[p])
    BY <1>2, <1>5, <2>1 DEF SubInv, Exclusive, Frame
  <2>2. CASE f \notin Touches(h[p])
    BY <1>1, <1>5, <2>2, NewRows
  <2>3. QED
    BY <2>1, <2>2
<1>6. Exclusive'
  <2> SUFFICES ASSUME NEW q \in Handlers, NEW r \in Handlers, q # r,
                      NEW f \in Touches(h'[q]), f \in Touches(h'[r])
               PROVE  f \in suspect'
    BY DEF Exclusive, Touches
  <2>1. CASE q = p
    BY <1>2, <1>5, <2>1 DEF Frame
  <2>2. CASE r = p
    BY <1>2, <1>5, <2>2 DEF Frame
  <2>3. CASE q # p /\ r # p
    BY <1>2, <2>3 DEF SubInv, Exclusive, Frame
  <2>4. QED
    BY <2>1, <2>2, <2>3
<1>7. RowsKnown'
  <2> SUFFICES ASSUME NEW q \in Handlers, NEW f \in Touches(h'[q]), f \notin suspect'
               PROVE  RowOK(h[q], f)'
    BY DEF RowsKnown, Touches
  <2>1. f \in Rows /\ f \notin suspect
    BY <1>2 DEF Frame, Touches
  <2>2. CASE q # p
    <3>1. h'[q] = h[q] /\ RowOK(h[q], f)
      BY <1>2, <2>1, <2>2 DEF Frame, SubInv, RowsKnown
    <3>2. f \notin Touches(h[p])
      BY <2>1, <2>2, <3>1 DEF SubInv, Exclusive
    <3>3. \/ followers'[f] = followers[f]
          \/ followers[f] = "absent" /\ followers'[f] = "inactive"
      BY <1>2, <2>1, <3>2 DEF Frame
    <3>4. QED
      BY <3>1, <3>3 DEF RowOK, Wanted, Statuses
  <2>3. CASE q = p /\ f \in Touches(h[p])
    <3>1. RowOK(h[p], f) /\ Settled(p, f)
      BY <2>1, <2>3, SettledBefore DEF SubInv, RowsKnown
    <3>2. QED
      BY <1>1, <2>3, <3>1, OwnRow
  <2>4. CASE q = p /\ f \notin Touches(h[p])
    BY <1>1, <2>4, NewRows DEF RowOK
  <2>5. QED
    BY <2>2, <2>3, <2>4
<1>8. SubscriptionAgreement'
  <2> SUFFICES ASSUME NEW f \in Rows, f \notin suspect'
               PROVE  SetPending(f)' \/ Agrees(f)'
    BY DEF SubscriptionAgreement, Agrees, Rows
  <2>1. f \notin suspect
    BY <1>2 DEF Frame
  <2>2. CASE f \in Touches(h[p])
    <3>1. RowOK(h[p], f) /\ Settled(p, f)
      BY <2>1, <2>2, SettledBefore DEF SubInv, RowsKnown
    <3>2. Settled(p, f)'
      BY <1>1, <2>2, <3>1, OwnRow
    <3>3. QED
      BY <3>2 DEF Settled, SetPending, SetSteps
  <2>3. CASE f \notin Touches(h[p])
    <3>1. CASE SetPending(f)
      <4>1. PICK q \in Handlers : f \in Touches(h[q]) /\ h[q].pc \in SetSteps
        BY <3>1 DEF SetPending, SetSteps
      <4>2. h'[q] = h[q]
        BY <1>2, <2>3, <4>1 DEF Frame
      <4>3. QED
        BY <4>1, <4>2 DEF SetPending, SetSteps
    <3>2. CASE Agrees(f)
      BY <1>2, <2>3, <3>2 DEF Frame, Agrees
    <3>3. QED
      BY <2>1, <3>1, <3>2 DEF SubInv, SubscriptionAgreement, Agrees
  <2>4. QED
    BY <2>2, <2>3
<1>9. QED
  BY <1>4, <1>6, <1>7, <1>8

\* Idle handlers touch no row and have nothing pending.
LEMMA AllIdle ==
  ASSUME \A p \in Handlers : h[p] = Idle
  PROVE  /\ Exclusive /\ RowsKnown
         /\ \A f \in Rows : ~SetPending(f)
<1>1. \A p \in Handlers : Touches(h[p]) = {}
  BY TouchesIdle
<1>2. QED
  BY <1>1 DEF Exclusive, RowsKnown, SetPending

\* A crash, and each step of the start.
LEMMA SubProcess ==
  ASSUME SubInv, Crash \/ Start
  PROVE  (Quiet /\ Rebuilding /\ Exclusive /\ RowsKnown /\ SubscriptionAgreement)'
<1>0. /\ TypeInv /\ Quiet /\ Rebuilding /\ SubscriptionAgreement
      /\ subs \in [Masters -> SUBSET Accounts]
  BY DEF SubInv, TypeInv, TypeOK, KeysOK
<1>1. CASE Crash
  <2>1. \A p \in Handlers : h'[p] = Idle
    BY <1>1 DEF Crash
  <2>2. (Exclusive /\ RowsKnown)'
    BY <2>1, TouchesIdle DEF Exclusive, RowsKnown
  <2>3. ASSUME NEW f \in Rows, f \notin suspect'
        PROVE  Agrees(f)'
    <3>1. f \notin suspect /\ ~SetPending(f)
      BY <1>1, <2>3 DEF Crash, SetPending
    <3>2. Agrees(f)
      BY <1>0, <3>1 DEF SubscriptionAgreement, Agrees
    <3>3. QED
      BY <1>1, <3>2 DEF Crash, Agrees, Subscribed, tables, redis
  <2>4. QED
    BY <1>1, <2>1, <2>2, <2>3 DEF Crash, Quiet, Rebuilding, SubscriptionAgreement, Agrees
<1>2. CASE Start
  <2>1. phase # "serving" /\ (\A p \in Handlers : h[p] = Idle) /\ UNCHANGED h
    BY <1>0, <1>2 DEF Start, MainStart, SyncDel, SyncAdd, SyncFails, StartServer, Quiet
  <2>2. \A f \in Rows \ suspect : Agrees(f)
    BY <1>0, <2>1, AllIdle DEF SubscriptionAgreement, Agrees
  <2>3. Quiet' /\ Exclusive' /\ RowsKnown'
    BY <2>1, TouchesIdle DEF Quiet, Exclusive, RowsKnown
  <2>4. Rows \cap Masters = {}
    BY IdsAssumption
  <2>5. SUFFICES Rebuilding' /\ \A f \in Rows \ suspect' : Agrees(f)'
    BY <2>3 DEF SubscriptionAgreement, Agrees
  <2>6. CASE MainStart
    BY <1>0, <2>2, <2>4, <2>6 DEF MainStart, LoadFromDB, Rebuilding, Agrees, Subscribed,
       tables, redis
  <2>7. ASSUME NEW m \in Masters, SyncDel(m)
        PROVE  Rebuilding' /\ \A f \in Rows \ suspect' : Agrees(f)'
    <3>1. Rebuilding'
      BY <1>0, <2>7 DEF SyncDel, ClearFollowers, Rebuilding
    <3>2. ASSUME NEW f \in Rows, f \notin suspect'
          PROVE  Agrees(f)'
      <4>1. CASE MasterOf(f) = m
        <5>1. f \in RowsOf(m) /\ f \notin LiveRowsOf(m)
          BY <2>7, <3>2, <4>1 DEF SyncDel, RowsOf, MasterOf, Rows
        <5>2. followers[f] # "active"
          BY <3>2, <5>1 DEF LiveRowsOf, LiveRow, Statuses
        <5>3. QED
          BY <1>0, <2>7, <4>1, <5>2 DEF SyncDel, ClearFollowers, Agrees, Subscribed, tables
      <4>2. CASE MasterOf(f) # m
        BY <1>0, <2>2, <2>7, <3>2, <4>2, RowPair DEF SyncDel, ClearFollowers, Agrees,
           Subscribed, tables
      <4>3. QED
        BY <4>1, <4>2
    <3>3. QED
      BY <3>1, <3>2
  <2>8. ASSUME NEW m \in Masters, SyncAdd(m)
        PROVE  Rebuilding' /\ \A f \in Rows \ suspect' : Agrees(f)'
    <3>1. Rebuilding'
      BY <1>0, <2>8 DEF SyncAdd, Rebuilding
    <3>2. ASSUME NEW f \in Rows, f \notin suspect'
          PROVE  Agrees(f)'
      <4>1. CASE MasterOf(f) = m
        <5>1. f \in RowsOf(m) /\ followers[f] # "inactive"
          BY <2>8, <3>2, <4>1 DEF SyncAdd, RowsOf, MasterOf, Rows
        <5>2. subs[m] = {}
          BY <1>0, <2>8 DEF SyncAdd, Rebuilding
        <5>3. subs'[m] = {AccountOf(x) : x \in LiveRowsOf(m)}
          BY <1>0, <2>8, <5>2 DEF SyncAdd, AddFollowers
        <5>4. AccountOf(f) \in {AccountOf(x) : x \in LiveRowsOf(m)}
                 <=> f \in LiveRowsOf(m)
          BY <5>1, RowPair DEF LiveRowsOf, LiveRow, RowsOf, MasterOf, AccountOf
        <5>5. f \in LiveRowsOf(m) <=> followers[f] = "active"
          BY <3>2, <5>1 DEF LiveRowsOf, LiveRow, Statuses
        <5>6. QED
          BY <2>8, <4>1, <5>3, <5>4, <5>5 DEF SyncAdd, Agrees, Subscribed, tables
      <4>2. CASE MasterOf(f) # m
        <5>1. f \notin suspect
          BY <2>8, <3>2, <4>2 DEF SyncAdd, RowsOf, MasterOf
        <5>2. QED
          BY <1>0, <2>2, <2>8, <3>2, <4>2, <5>1, RowPair DEF SyncAdd, AddFollowers, Agrees,
             Subscribed, tables
      <4>3. QED
        BY <4>1, <4>2
    <3>3. QED
      BY <3>1, <3>2
  <2>9. CASE SyncFails
    BY <1>0, <2>2, <2>9 DEF SyncFails, Rebuilding, Agrees, Subscribed, tables, redis, history
  <2>10. CASE StartServer
    BY <1>0, <2>2, <2>4, <2>10 DEF StartServer, LoadFromDB, Rebuilding, Agrees, Subscribed, tables, redis
  <2>11. QED
    BY <1>2, <2>6, <2>7, <2>8, <2>9, <2>10 DEF Start
<1>3. QED
  BY <1>1, <1>2

\* SubInv holds initially.
LEMMA SubInit == Init => SubInv
<1> SUFFICES ASSUME Init PROVE SubInv
  OBVIOUS
<1>1. \A p \in Handlers : h[p] = Idle
  BY DEF Init
<1>2. Exclusive /\ RowsKnown
  BY <1>1, AllIdle
<1>3. SubscriptionAgreement
  BY RowPair DEF Init, SubscriptionAgreement, Subscribed
<1>4. QED
  BY <1>1, <1>2, <1>3, TypeInit DEF Init, SubInv, Quiet, Rebuilding

\* SubInv is preserved by every step.
LEMMA SubStep == SubInv /\ [Next]_vars => SubInv'
<1> SUFFICES ASSUME SubInv, [Next]_vars PROVE SubInv'
  OBVIOUS
<1>1. TypeInv'
  BY TypeStep DEF SubInv
<1>2. CASE \E p \in Handlers : Handle(p)
  BY <1>1, <1>2, SubHandle DEF SubInv
<1>3. CASE Crash \/ Start
  BY <1>1, <1>3, SubProcess DEF SubInv
<1>4. CASE UNCHANGED vars
  <2>1. Quiet' /\ Rebuilding'
    BY <1>4 DEF vars, api, redis, SubInv, Quiet, Rebuilding
  <2>2. Exclusive' /\ RowsKnown'
    BY <1>4 DEF vars, tables, history, SubInv, Exclusive, RowsKnown, RowOK
  <2>3. SubscriptionAgreement'
    BY <1>4 DEF vars, tables, redis, history, SubInv, SubscriptionAgreement, SetPending,
       Subscribed
  <2>4. QED
    BY <1>1, <2>1, <2>2, <2>3 DEF SubInv
<1>5. QED
  BY <1>2, <1>3, <1>4 DEF Next

\* Unless a failure, a restart or an overlap of handlers intervened, an account
\* is in its master's Redis set exactly when its row is active, outside the
\* window between a handler's two writes: for any number of concurrent
\* handlers, masters and accounts.
THEOREM SubscriptionSetsAgree == Spec => []SubscriptionAgreement
<1>1. SubInv => SubscriptionAgreement
  BY DEF SubInv
<1>2. QED
  BY <1>1, SubInit, SubStep, PTL DEF Spec

-----------------------------------------------------------------------------
(* The routing keys of FastLookupStore agree with the followers table         *)
(* (LookupAgreement).  A handler registers, updates or unregisters one        *)
(* follower, and is alone on it unless the row is in astray.                  *)

RegisterSteps == {"putInfo", "putMember", "putOwner"}
KeySteps == RegisterSteps \cup {"subscribe", "getInfo", "setInfo", "unsubscribe",
                                "getOwner", "dropMember", "dropOwner", "dropInfo"}

\* A client can only name a master or follower that was created, and answered for.
NamesKnown ==
    /\ \A f \in Rows : followers[f] # "absent" => masters[MasterOf(f)] # "absent"
    /\ \A p \in Handlers :
          /\ h[p].op \in FollowerOps /\ h[p].id \in Rows => followers[h[p].id] # "absent"
          /\ h[p].op = "RegisterFollower" => masters[MasterOf(h[p].id)] # "absent"
          /\ h[p].pc \in RegisterSteps =>
                /\ followers[h[p].id] = "inactive"
                /\ \A q \in Handlers :
                      \/ h[q].id # h[p].id
                      \/ h[q].op \notin FollowerOps /\ (q = p \/ h[q].pc \notin RegisterSteps)

Alone == \A p, q \in Handlers :
            p # q => Touches(h[p]) \cap Touches(h[q]) \subseteq astray

\* What a handler at a given step knows of its follower's keys.
KeysKnown(r, f) ==
    /\ r.pc = "putInfo" => lookup.info[f] = "none" /\ f \notin lookup.members \cup lookup.owners
    /\ r.pc \in {"putMember", "putOwner"} => lookup.info[f] = "inactive"
    /\ r.pc = "putOwner" => f \in lookup.members
    /\ r.pc \in {"subscribe", "getInfo", "setInfo"} =>
          /\ followers[f] = Wanted(r)
          /\ f \in lookup.members \cap lookup.owners
          /\ MasterExists(MasterOf(f)) => lookup.info[f] # "none"
    /\ r.pc \in {"unsubscribe", "getOwner"} =>
          followers[f] = "deleted" /\ f \in lookup.members \cap lookup.owners
    /\ r.pc \in {"dropMember", "dropOwner", "dropInfo"} => followers[f] = "deleted"
    /\ r.pc \in {"dropOwner", "dropInfo"} => f \notin lookup.members
    /\ r.pc = "dropInfo" => f \notin lookup.owners

\* The follower a handler has keys to write for.
Keyed(r, f) == r.op \in FollowerOps \cup {"RegisterFollower"} /\ r.id = f /\ f \in Rows

HandlersKnowKeys == \A p \in Handlers, f \in Rows \ astray :
                       Keyed(h[p], f) => KeysKnown(h[p], f)

KeysAgree(f) ==
    \/ /\ LiveRow(f)
       /\ f \in lookup.members \cap lookup.owners
       /\ MasterExists(MasterOf(f)) => lookup.info[f] = followers[f]
    \/ /\ ~LiveRow(f)
       /\ f \notin lookup.members \cup lookup.owners
       /\ lookup.info[f] = "none"

LookupInv == TypeInv /\ NamesKnown /\ Alone /\ HandlersKnowKeys /\ LookupAgreement

-----------------------------------------------------------------------------
(* The kinds of steps *)

SameKeys == UNCHANGED <<lookup.info, lookup.members, lookup.owners>>

\* The handler goes on with the same request.
GoesTo(p, step) == h'[p].pc = step /\ h'[p].op = h[p].op /\ h'[p].id = h[p].id

GoesOrStrays(p, steps) == \/ \E step \in steps : GoesTo(p, step)
                          \/ h'[p] = Idle /\ h[p].id \in astray'

\* An INSERT or UPDATE of the follower's row.
WritesRow(p) ==
    /\ h[p].id \in Rows /\ UNCHANGED <<masters, lookup>>
    /\ \/ /\ h[p].pc = "insertFollower" /\ h[p].op = "RegisterFollower"
          /\ followers[h[p].id] = "absent"
          /\ followers' = [followers EXCEPT ![h[p].id] = "inactive"]
          /\ GoesOrStrays(p, {"putInfo"})
       \/ /\ h[p].pc = "updateStatus" /\ h[p].op \in StatusOps
          /\ followers[h[p].id] \in Statuses
          /\ followers' = [followers EXCEPT ![h[p].id] = Wanted(h[p])]
          /\ GoesOrStrays(p, {"subscribe"})
       \/ /\ h[p].pc = "deleteFollower" /\ h[p].op = "DeleteFollower"
          /\ followers[h[p].id] \in Statuses
          /\ followers' = [followers EXCEPT ![h[p].id] = "deleted"]
          /\ GoesOrStrays(p, {"unsubscribe", "getOwner"})

\* A command of FastLookupStore that writes one of the follower's keys.
WritesKey(p) ==
    /\ h[p].id \in Rows /\ UNCHANGED tables
    /\ \/ h[p].pc = "putInfo" /\ PutInfo(h[p].id, "inactive") /\ GoesTo(p, "putMember")
       \/ h[p].pc = "putMember" /\ PutMember(h[p].id) /\ GoesTo(p, "putOwner")
       \/ h[p].pc = "putOwner" /\ PutOwner(h[p].id) /\ h'[p] = Idle
       \/ h[p].pc = "setInfo" /\ PutInfo(h[p].id, Wanted(h[p])) /\ h'[p] = Idle
       \/ h[p].pc = "dropMember" /\ DropMember(h[p].id) /\ GoesTo(p, "dropOwner")
       \/ h[p].pc = "dropOwner" /\ DropOwner(h[p].id) /\ GoesTo(p, "dropInfo")
       \/ h[p].pc = "dropInfo" /\ DropInfo(h[p].id) /\ h'[p] = Idle

\* A step between those.
ReadsKey(p) ==
    /\ h[p].id \in Rows /\ UNCHANGED <<tables, lookup>>
    /\ \/ h[p].pc = "subscribe" /\ GoesTo(p, "getInfo")
       \/ h[p].pc = "getInfo" /\ HasInfo(h[p].id) /\ GoesTo(p, "setInfo")
       \/ h[p].pc = "getInfo" /\ ~HasInfo(h[p].id) /\ h'[p] = Idle
       \/ h[p].pc = "unsubscribe" /\ GoesTo(p, "getOwner")
       \/ h[p].pc = "getOwner" /\ HasOwner(h[p].id) /\ GoesTo(p, "dropMember")
       \/ h[p].pc = "getOwner" /\ ~HasOwner(h[p].id) /\ h'[p] = Idle

GivesUp(p) == /\ UNCHANGED <<tables, lookup>> /\ h'[p] = Idle
              /\ Routes(h[p]) \subseteq astray'

\* A master's row is written.
WritesMaster(p) ==
    /\ UNCHANGED lookup
    /\ \/ /\ h[p].op = "CreateMaster" /\ h[p].pc = "insertMaster" /\ UNCHANGED followers
          /\ masters[h[p].id] = "absent" /\ masters' = [masters EXCEPT ![h[p].id] = "live"]
          /\ h'[p] = Idle \/ GoesTo(p, "cacheMaster")
       \/ /\ h[p].op = "DeleteMaster" /\ h[p].pc = "deleteMaster"
          /\ masters' = [masters EXCEPT ![h[p].id] = "deleted"]
          /\ followers' = [f \in Rows |->
                              IF MasterOf(f) = h[p].id /\ followers[f] \in Statuses
                              THEN "inactive" ELSE followers[f]]
          /\ h'[p] = Idle \/ GoesTo(p, "evictMaster")

\* The handler's other steps.
Passes(p) == /\ SameKeys /\ UNCHANGED tables
             /\ h[p].pc \notin KeySteps
             /\ h'[p] = Idle \/ \E step \in Steps \ KeySteps : GoesTo(p, step)

\* A request arrives.
Comes(p) == /\ UNCHANGED <<tables, lookup>>
            /\ h[p].op = "none" /\ h[p].pc = "idle" /\ h'[p].pc \notin KeySteps
            /\ h'[p].op \in FollowerOps /\ h'[p].id \in Rows => KnownFollower(h'[p].id)
            /\ h'[p].op = "RegisterFollower" => KnownMaster(MasterOf(h'[p].id))
            /\ \A q \in Handlers \ {p} :
                  Touches(h'[p]) \cap Touches(h[q]) \subseteq astray'

\* An idle handler's fields.
LEMMA IdleFields == Idle.pc = "idle" /\ Idle.op = "none" /\ Idle.id = NoId
  BY DEF Idle

\* A handler's step is of one of these kinds, and leaves the other handlers alone.
LEMMA KeyEffect ==
  ASSUME TypeInv, NEW p \in Handlers, Handle(p)
  PROVE  /\ \A q \in Handlers \ {p} : h'[q] = h[q]
         /\ astray \subseteq astray'
         /\ \/ WritesRow(p) \/ WritesKey(p) \/ ReadsKey(p) \/ GivesUp(p)
            \/ WritesMaster(p) \/ Passes(p) \/ Comes(p)
<1>0. HandlersTyped /\ HandlerOK(h[p]) /\ h[p] \in HandlerRecords
  BY DEF TypeInv, HandlersTyped
<1>1. ASSUME NEW step, Goto(p, step)
      PROVE  (\A q \in Handlers \ {p} : h'[q] = h[q]) /\ GoesTo(p, step)
  BY <1>0, <1>1, GotoRecord DEF GoesTo
<1>2. ASSUME Answer(p)
      PROVE  (\A q \in Handlers \ {p} : h'[q] = h[q]) /\ h'[p] = Idle
  BY <1>0, <1>2, AnswerRecord
<1>3. /\ h[p].op \in {"RegisterFollower"} => h[p].id \in Rows
      /\ h[p].op \in FollowerOps /\ h[p].pc # "getFollower" => h[p].id \in Rows
  BY <1>0 DEF HandlerOK, IdOK
<1>4. StepOK(h[p])
  BY <1>0 DEF HandlerOK
<1> USE DEF At, api, redis, history, tables
<1>5. CASE CreateMasterInsert(p)
  BY <1>1, <1>2, <1>4, <1>5 DEF CreateMasterInsert, CommitTo, InsertMaster, MasterDuplicate,
     StepOK, WritesMaster, Passes, KeySteps, RegisterSteps, SameKeys
<1>6. CASE CreateMasterCache(p) \/ VerifyMaster(p) \/ GetMaster(p) \/ EvictMaster(p)
           \/ ClearMasterFollowers(p) \/ StatementFails(p)
  BY <1>1, <1>2, <1>6 DEF CreateMasterCache, VerifyMaster, GetMaster, EvictMaster,
     ClearMasterFollowers, StatementFails, DbSteps, Passes, SameKeys, Steps, LookupSteps,
     CacheSteps, SubSteps, KeySteps, RegisterSteps
<1>7. CASE RegisterMaster(p)
  <2>1. SameKeys
    BY <1>7 DEF RegisterMaster, PutMaster, PutActiveMaster, SameKeys, TypeInv, TypeOK,
       KeysOK, LookupKeys
  <2>2. QED
    BY <1>1, <1>2, <1>7, <2>1 DEF RegisterMaster, Passes, Steps, LookupSteps, KeySteps,
       RegisterSteps
<1>8. CASE CreateFollowerInsert(p)
  BY <1>1, <1>2, <1>3, <1>4, <1>8 DEF CreateFollowerInsert, CommitTo, InsertFollower,
     FollowerDuplicate, StepOK, WritesRow, GoesOrStrays, Passes, SameKeys, KeySteps,
     RegisterSteps
<1>9. CASE RegisterFollower(p)
  BY <1>1, <1>2, <1>3, <1>4, <1>9 DEF RegisterFollower, StepOK, WritesKey
<1>10. CASE GetFollower(p)
  <2>1. CASE Answer(p)
    BY <1>2, <1>10, <2>1 DEF GetFollower, Passes, SameKeys, KeySteps, RegisterSteps
  <2>2. CASE ~Answer(p)
    <3>1. h' = [h EXCEPT ![p].seen = followers[h[p].id],
                         ![p].pc = IF h[p].op = "DeleteFollower"
                                   THEN "deleteFollower" ELSE "updateStatus"]
      BY <1>10, <2>2 DEF GetFollower
    <3>2. /\ \A q \in Handlers \ {p} : h'[q] = h[q]
          /\ h'[p].pc \in {"deleteFollower", "updateStatus"}
          /\ h'[p].op = h[p].op /\ h'[p].id = h[p].id
      BY <1>0, <3>1 DEF HandlersTyped, HandlerRecords
    <3>3. QED
      BY <1>10, <3>2 DEF GetFollower, Passes, GoesTo, SameKeys, Steps, DbSteps, KeySteps,
         RegisterSteps
  <2>3. QED BY <2>1, <2>2
<1>11. CASE UpdateStatus(p)
  BY <1>1, <1>2, <1>3, <1>4, <1>11 DEF UpdateStatus, CommitTo, SetStatus, LiveRow, StepOK,
     FollowerOps, WritesRow, GoesOrStrays, Passes, SameKeys, KeySteps, RegisterSteps
<1>12. CASE UpdateSubscription(p)
  BY <1>1, <1>3, <1>4, <1>12 DEF UpdateSubscription, StepOK, FollowerOps, ReadsKey
<1>13. CASE UpdateFollowerStatus(p)
  BY <1>1, <1>2, <1>3, <1>4, <1>13 DEF UpdateFollowerStatus, StepOK, FollowerOps, ReadsKey,
     WritesKey
<1>14. CASE DeleteMasterRow(p)
  BY <1>1, <1>2, <1>4, <1>14 DEF DeleteMasterRow, CommitTo, SoftDeleteMasterRow, StepOK,
     WritesMaster
<1>15. CASE DeleteFollowerRow(p)
  BY <1>1, <1>2, <1>3, <1>4, <1>15 DEF DeleteFollowerRow, CommitTo, SoftDeleteFollowerRow,
     LiveRow, StepOK, FollowerOps, WritesRow, GoesOrStrays, Passes, SameKeys, KeySteps,
     RegisterSteps
<1>16. CASE RemoveSubscription(p)
  BY <1>1, <1>3, <1>4, <1>16 DEF RemoveSubscription, StepOK, FollowerOps, ReadsKey
<1>17. CASE UnregisterFollower(p)
  BY <1>1, <1>2, <1>3, <1>4, <1>17 DEF UnregisterFollower, StepOK, FollowerOps, ReadsKey,
     WritesKey
<1>18. CASE SubscriptionFails(p)
  BY <1>1, <1>2, <1>3, <1>4, <1>18 DEF SubscriptionFails, StepOK, FollowerOps, ReadsKey,
     Passes, SameKeys, KeySteps, RegisterSteps
<1>19. CASE LookupFails(p)
  BY <1>2, <1>19 DEF LookupFails, GivesUp
<1>20. ASSUME NEW op \in Ops, NEW id, Arrive(p, op, id),
              op \in FollowerOps /\ id \in Rows => KnownFollower(id),
              op = "RegisterFollower" => KnownMaster(MasterOf(id))
       PROVE  (\A q \in Handlers \ {p} : h'[q] = h[q]) /\ astray \subseteq astray' /\ Comes(p)
  <2>1. /\ \A q \in Handlers \ {p} : h'[q] = h[q]
        /\ h'[p] = Request(op, id) /\ h[p].pc = "idle"
        /\ astray' = astray \cup Overlap(p, Request(op, id))
        /\ UNCHANGED <<tables, lookup>>
    BY <1>0, <1>20 DEF Arrive, HandlersTyped
  <2>3. h[p].op = "none"
    BY <1>4, <2>1 DEF StepOK
  <2>2. /\ Request(op, id).op = op /\ Request(op, id).id = id
        /\ Request(op, id).pc \notin KeySteps
    BY DEF Request, FirstStep, Ops, FollowerOps, StatusOps, KeySteps, RegisterSteps
  <2>4. \A q \in Handlers \ {p} :
           Touches(h'[p]) \cap Touches(h[q]) \subseteq astray'
    BY <2>1 DEF Overlap, Touches
  <2>5. QED BY <1>20, <2>1, <2>2, <2>3, <2>4 DEF Comes
<1>21. CASE RequestCreateMaster(p) \/ RequestRegisterFollower(p) \/ RequestDeleteMaster(p)
  BY <1>20, <1>21 DEF RequestCreateMaster, RequestRegisterFollower, RequestDeleteMaster,
     Ops, FollowerOps, StatusOps
<1>22. CASE RequestFollowerOp(p)
  <2>1. PICK f \in Rows, op \in FollowerOps : KnownFollower(f) /\ Arrive(p, op, PathId(f))
    BY <1>22 DEF RequestFollowerOp
  <2>2. PathId(f) = f \/ PathId(f) \in Segments
    BY MountAssumption DEF PathId
  <2>3. op \in Ops /\ op # "RegisterFollower"
    BY DEF Ops, FollowerOps, StatusOps
  <2>4. PathId(f) \in Rows => KnownFollower(PathId(f))
    BY <2>1, <2>2, IdsAssumption
  <2>5. QED BY <1>20, <2>1, <2>3, <2>4
<1>23. QED
  BY <1>5, <1>6, <1>7, <1>8, <1>9, <1>10, <1>11, <1>12, <1>13, <1>14, <1>15, <1>16,
     <1>17, <1>18, <1>19, <1>21, <1>22 DEF Handle

\* Rows are only inserted by RegisterFollower, and masters never become unknown.
LEMMA RowsEffect ==
  ASSUME TypeInv, NEW p \in Handlers, Handle(p)
  PROVE  /\ \A m \in Masters : masters[m] # "absent" => masters'[m] # "absent"
         /\ \A f \in Rows : followers[f] # "absent" => followers'[f] # "absent"
         /\ \A f \in Rows : followers[f] = "absent" /\ followers'[f] # "absent"
               => h[p].op = "RegisterFollower" /\ h[p].id = f
         /\ \A f \in Rows : followers[f] = "inactive" /\ followers'[f] # "inactive"
               => h[p].op \in FollowerOps /\ h[p].id = f
<1>1. masters \in [Masters -> MasterStates] /\ followers \in [Rows -> FollowerStates]
  BY DEF TypeInv, TypeOK, TablesOK
<1>2. \A r : Wanted(r) # "absent"
  BY DEF Wanted
<1>3. CASE WritesRow(p)
  BY <1>1, <1>2, <1>3 DEF WritesRow, Statuses, FollowerOps
<1>4. CASE WritesMaster(p)
  BY <1>1, <1>4 DEF WritesMaster, Statuses
<1>5. CASE WritesKey(p) \/ ReadsKey(p) \/ GivesUp(p) \/ Passes(p) \/ Comes(p)
  BY <1>5 DEF WritesKey, ReadsKey, GivesUp, Passes, Comes, tables
<1>6. QED BY <1>3, <1>4, <1>5, KeyEffect

\* A handler goes on with its request, ends, or takes a new one; it is about to
\* write the keys of a new follower only if it was, or has inserted the row.
LEMMA RequestEffect ==
  ASSUME TypeInv, NEW p \in Handlers, Handle(p)
  PROVE  /\ \/ h'[p].op = h[p].op /\ h'[p].id = h[p].id
            \/ h'[p] = Idle
            \/ Comes(p)
         /\ h'[p].pc \in RegisterSteps =>
               /\ h'[p].op = h[p].op /\ h'[p].id = h[p].id
               /\ \/ h[p].pc \in RegisterSteps
                  \/ /\ followers[h[p].id] = "absent" /\ h[p].id \in Rows
                     /\ followers' = [followers EXCEPT ![h[p].id] = "inactive"]
<1> USE IdleFields DEF GoesTo, GoesOrStrays, RegisterSteps
<1>1. CASE WritesRow(p)
  BY <1>1 DEF WritesRow
<1>2. CASE WritesKey(p)
  BY <1>2 DEF WritesKey
<1>3. CASE ReadsKey(p)
  BY <1>3 DEF ReadsKey
<1>4. CASE GivesUp(p) \/ WritesMaster(p)
  BY <1>4 DEF GivesUp, WritesMaster
<1>5. CASE Passes(p)
  BY <1>5 DEF Passes, KeySteps
<1>6. CASE Comes(p)
  BY <1>6 DEF Comes, KeySteps
<1>7. QED BY <1>1, <1>2, <1>3, <1>4, <1>5, <1>6, KeyEffect

\* No handler's step breaks what a client can name.
LEMMA NamesKnownHandle ==
  ASSUME TypeInv, NamesKnown, NEW p \in Handlers, Handle(p)
  PROVE  NamesKnown'
<1>1. \A q \in Handlers \ {p} : h'[q] = h[q]
  BY KeyEffect
<1>2. HandlersTyped /\ HandlersTyped' /\ followers \in [Rows -> FollowerStates]
  BY HandlersStep DEF TypeInv, TypeOK, TablesOK
<1>3. \A q \in Handlers :
         /\ h[q].pc \in RegisterSteps => h[q].op = "RegisterFollower"
         /\ h[q].op = "RegisterFollower" => h[q].id \in Rows
         /\ h'[q].op = "RegisterFollower" => h'[q].id \in Rows
  BY <1>2 DEF HandlersTyped, HandlerOK, StepOK, IdOK, RegisterSteps
<1>4. ASSUME NEW f \in Rows, followers'[f] # "absent"
      PROVE  masters'[MasterOf(f)] # "absent"
  BY <1>4, RowsEffect, RowPair DEF NamesKnown
<1>5. ASSUME NEW q \in Handlers, h'[q].op \in FollowerOps, h'[q].id \in Rows
      PROVE  followers'[h'[q].id] # "absent"
  <2>1. followers[h'[q].id] # "absent"
    BY <1>1, <1>5, RequestEffect, IdleFields
       DEF NamesKnown, Comes, KnownFollower, FollowerOps, StatusOps
  <2>2. QED BY <1>5, <2>1, RowsEffect
<1>6. ASSUME NEW q \in Handlers, h'[q].op = "RegisterFollower"
      PROVE  masters'[MasterOf(h'[q].id)] # "absent"
  <2>1. MasterOf(h'[q].id) \in Masters
    BY <1>3, <1>6, RowPair
  <2>2. masters[MasterOf(h'[q].id)] # "absent"
    BY <1>1, <1>6, RequestEffect, IdleFields DEF NamesKnown, Comes, KnownMaster
  <2>3. QED BY <2>1, <2>2, RowsEffect
<1>7. ASSUME NEW q \in Handlers, h'[q].pc \in RegisterSteps
      PROVE  /\ followers'[h'[q].id] = "inactive"
             /\ \A r \in Handlers :
                   \/ h'[r].id # h'[q].id
                   \/ h'[r].op \notin FollowerOps /\ (r = q \/ h'[r].pc \notin RegisterSteps)
  <2>1. CASE q # p
    <3>1. h'[q] = h[q] /\ h[q].pc \in RegisterSteps /\ h[q].id \in Rows
          /\ h[q].op = "RegisterFollower"
      BY <1>1, <1>3, <1>7, <2>1
    <3>2. /\ followers[h[q].id] = "inactive"
          /\ \A r \in Handlers :
                \/ h[r].id # h[q].id
                \/ h[r].op \notin FollowerOps /\ (r = q \/ h[r].pc \notin RegisterSteps)
      BY <3>1 DEF NamesKnown
    <3>3. followers'[h[q].id] = "inactive"
      BY <3>1, <3>2, RowsEffect
    <3>4. \/ h'[p].id # h[q].id
          \/ h'[p].op \notin FollowerOps /\ h'[p].pc \notin RegisterSteps
      <4>1. CASE h'[p].op = h[p].op /\ h'[p].id = h[p].id
        BY <2>1, <3>1, <3>2, <4>1, RequestEffect
      <4>2. CASE h'[p] = Idle
        BY <3>1, <4>2, IdleFields, IdsAssumption
      <4>3. CASE Comes(p)
        <5>1. h'[p].op \in FollowerOps /\ h'[p].id \in Rows => KnownFollower(h'[p].id)
          BY <4>3 DEF Comes
        <5>2. h'[p].op \in FollowerOps /\ h'[p].id \in Rows => h'[p].id # h[q].id
          BY <3>1, <5>1 DEF KnownFollower, RegisterSteps
        <5>3. QED BY <3>1, <4>3, <5>2 DEF Comes, KeySteps
      <4>4. QED BY <4>1, <4>2, <4>3, RequestEffect
    <3>5. QED BY <1>1, <3>1, <3>2, <3>3, <3>4
  <2>2. CASE q = p
    <3>1. /\ h'[p].op = h[p].op /\ h'[p].id = h[p].id
          /\ \/ h[p].pc \in RegisterSteps
             \/ /\ followers[h[p].id] = "absent" /\ h[p].id \in Rows
                /\ followers' = [followers EXCEPT ![h[p].id] = "inactive"]
      BY <1>7, <2>2, RequestEffect
    <3>2. CASE h[p].pc \in RegisterSteps
      <4>1. /\ followers[h[p].id] = "inactive" /\ h[p].id \in Rows
            /\ h[p].op \notin FollowerOps
            /\ \A r \in Handlers \ {p} :
                  \/ h[r].id # h[p].id
                  \/ h[r].op \notin FollowerOps /\ h[r].pc \notin RegisterSteps
        BY <1>3, <3>2 DEF NamesKnown, FollowerOps, StatusOps
      <4>2. QED BY <1>1, <2>2, <3>1, <4>1, RowsEffect
    <3>3. CASE /\ followers[h[p].id] = "absent" /\ h[p].id \in Rows
               /\ followers' = [followers EXCEPT ![h[p].id] = "inactive"]
      <4>1. \A r \in Handlers :
               \/ h[r].id # h[p].id
               \/ h[r].op \notin FollowerOps /\ h[r].pc \notin RegisterSteps
        BY <3>3 DEF NamesKnown
      <4>2. QED BY <1>1, <1>2, <2>2, <3>1, <3>3, <4>1
    <3>4. QED BY <3>1, <3>2, <3>3
  <2>3. QED BY <2>1, <2>2
<1>8. QED BY <1>4, <1>5, <1>6, <1>7 DEF NamesKnown, Rows, MasterOf, RegisterSteps, FollowerOps, StatusOps

\* Handlers stay alone on the rows outside astray.
LEMMA AloneHandle ==
  ASSUME TypeInv, Alone, NEW p \in Handlers, Handle(p)
  PROVE  Alone'
<1>1. /\ \A q \in Handlers \ {p} : h'[q] = h[q]
      /\ astray \subseteq astray'
  BY KeyEffect
<1>2. \A q \in Handlers \ {p} : Touches(h'[p]) \cap Touches(h[q]) \subseteq astray'
  <2>1. CASE h'[p].op = h[p].op /\ h'[p].id = h[p].id
    BY <1>1, <2>1 DEF Alone, Touches
  <2>2. CASE h'[p] = Idle
    BY <2>2, TouchesIdle
  <2>3. CASE Comes(p)
    BY <2>3 DEF Comes
  <2>4. QED BY <2>1, <2>2, <2>3, RequestEffect
<1>3. \A q, r \in Handlers : q # r => Touches(h'[q]) \cap Touches(h'[r]) \subseteq astray'
  BY <1>1, <1>2 DEF Alone
<1>4. QED BY <1>3 DEF Alone, Touches

-----------------------------------------------------------------------------
(* What a handler's step does to the keys of a row *)

\* The handler has keys of f still to write.
Pending(r, f) == f \in Routes(r) /\ r.pc \in LookupSteps \cup {"subscribe", "unsubscribe"}

\* A handler with keys of a row still to write is at a step that does so.
LEMMA PendingIsKeyed ==
  ASSUME TypeInv, NEW p \in Handlers, NEW f \in Rows
  PROVE  /\ Pending(h[p], f) => Keyed(h[p], f) /\ h[p].pc \in KeySteps
         /\ Keyed(h[p], f) /\ h[p].pc \in KeySteps => Pending(h[p], f)
<1>1. StepOK(h[p])
  BY DEF TypeInv, HandlersTyped, HandlerOK
<1>2. ASSUME Pending(h[p], f)
      PROVE  Keyed(h[p], f) /\ h[p].pc \in KeySteps
  BY <1>1, <1>2 DEF Pending, Routes, Touches, StepOK, Keyed, KeySteps, RegisterSteps,
     LookupSteps, FollowerOps, StatusOps
<1>3. ASSUME Keyed(h[p], f), h[p].pc \in KeySteps
      PROVE  Pending(h[p], f)
  BY <1>3 DEF Pending, Routes, Touches, Keyed, KeySteps, RegisterSteps, LookupSteps
<1>4. QED BY <1>2, <1>3

\* A handler's step on its own row keeps what the handler knows of its keys, and
\* leaves them agreeing once no command is left.
LEMMA OwnKeys ==
  ASSUME TypeInv, NEW p \in Handlers, Handle(p), NEW f \in Rows, f \notin astray',
         Keyed(h[p], f), KeysKnown(h[p], f),
         h[p].pc \in RegisterSteps => followers[f] = "inactive",
         Pending(h[p], f) \/ KeysAgree(f)
  PROVE  /\ Keyed(h'[p], f) => KeysKnown(h[p], f)'
         /\ (Pending(h[p], f) \/ KeysAgree(f))'
<1>0. /\ h[p].id = f /\ f \in Routes(h[p])
      /\ h[p].op \in FollowerOps \cup {"RegisterFollower"}
  BY DEF Keyed, Routes, Touches
<1>1. \A step : GoesTo(p, step) => f \in Routes(h'[p])
  BY <1>0 DEF GoesTo, Routes, Touches
<1>2. /\ followers \in [Rows -> FollowerStates]
      /\ lookup \in LookupKeys
  BY DEF TypeInv, TypeOK, TablesOK, KeysOK
<1>3. StepOK(h[p])
  BY DEF TypeInv, HandlersTyped, HandlerOK
<1>4. \A r : Wanted(r) \in Statuses
  BY DEF Wanted, Statuses
<1> DEFINE Done == KeysAgree(f)'
           Busy(step) == GoesTo(p, step) /\ KeysKnown(h[p], f)'
<1>5. ASSUME NEW step \in KeySteps, Busy(step)
      PROVE  (Keyed(h'[p], f) => KeysKnown(h[p], f)') /\ (Pending(h[p], f) \/ KeysAgree(f))'
  BY <1>1, <1>5 DEF Pending, GoesTo, KeySteps, RegisterSteps, LookupSteps
<1>6. ASSUME h'[p] = Idle, Done
      PROVE  (Keyed(h'[p], f) => KeysKnown(h[p], f)') /\ (Pending(h[p], f) \/ KeysAgree(f))'
  BY <1>6, IdleFields DEF Keyed, FollowerOps, StatusOps
<1>7. CASE WritesRow(p)
  <2>1. KeysAgree(f)
    BY <1>3, <1>7 DEF WritesRow, Pending, LookupSteps
  <2>2. CASE h[p].pc = "insertFollower"
    <3>1. followers'[f] = "inactive" /\ UNCHANGED <<masters, lookup>> /\ GoesTo(p, "putInfo")
          /\ followers[f] = "absent"
      BY <1>0, <1>2, <1>7, <2>2 DEF WritesRow, GoesOrStrays
    <3>2. Busy("putInfo")
      BY <2>1, <3>1 DEF KeysAgree, KeysKnown, GoesTo, LiveRow, Statuses
    <3>3. QED BY <1>5, <3>2 DEF KeySteps, RegisterSteps
  <2>3. CASE h[p].pc = "updateStatus"
    <3>1. /\ followers'[f] = Wanted(h[p]) /\ UNCHANGED <<masters, lookup>>
          /\ GoesTo(p, "subscribe") /\ followers[f] \in Statuses
      BY <1>0, <1>2, <1>7, <2>3 DEF WritesRow, GoesOrStrays
    <3>2. Wanted(h'[p]) = Wanted(h[p])
      BY <3>1 DEF GoesTo, Wanted
    <3>3. Busy("subscribe")
      BY <2>1, <3>1, <3>2 DEF KeysAgree, KeysKnown, GoesTo, LiveRow, Statuses, MasterExists
    <3>4. QED BY <1>5, <3>3 DEF KeySteps
  <2>4. CASE h[p].pc = "deleteFollower"
    <3>1. /\ followers'[f] = "deleted" /\ UNCHANGED <<masters, lookup>>
          /\ GoesTo(p, "unsubscribe") \/ GoesTo(p, "getOwner")
          /\ followers[f] \in Statuses
      BY <1>0, <1>2, <1>7, <2>4 DEF WritesRow, GoesOrStrays
    <3>2. Busy("unsubscribe") \/ Busy("getOwner")
      BY <2>1, <3>1 DEF KeysAgree, KeysKnown, GoesTo, LiveRow
    <3>3. QED BY <1>5, <3>2 DEF KeySteps
  <2>5. QED BY <1>7, <2>2, <2>3, <2>4 DEF WritesRow
<1>8. CASE WritesKey(p)
  <2>0. UNCHANGED tables /\ followers' = followers /\ masters' = masters
    BY <1>8 DEF WritesKey, tables
  <2>1. CASE h[p].pc = "putInfo"
    <3>1. GoesTo(p, "putMember") /\ lookup'.info[f] = "inactive"
      BY <1>0, <1>2, <1>8, <2>1 DEF WritesKey, PutInfo, LookupKeys
    <3>2. Busy("putMember")
      BY <3>1 DEF KeysKnown, GoesTo
    <3>3. QED BY <1>5, <3>2 DEF KeySteps, RegisterSteps
  <2>2. CASE h[p].pc = "putMember"
    <3>1. GoesTo(p, "putOwner") /\ lookup'.info[f] = "inactive" /\ f \in lookup'.members
      BY <1>0, <1>2, <1>8, <2>2 DEF WritesKey, PutMember, LookupKeys, KeysKnown
    <3>2. Busy("putOwner")
      BY <3>1 DEF KeysKnown, GoesTo
    <3>3. QED BY <1>5, <3>2 DEF KeySteps, RegisterSteps
  <2>3. CASE h[p].pc = "putOwner"
    <3>1. /\ h'[p] = Idle /\ followers[f] = "inactive"
          /\ lookup'.info[f] = "inactive" /\ f \in lookup'.members \cap lookup'.owners
      BY <1>0, <1>2, <1>8, <2>3 DEF WritesKey, PutOwner, LookupKeys, KeysKnown, RegisterSteps
    <3>2. Done
      BY <2>0, <3>1 DEF KeysAgree, LiveRow, Statuses
    <3>3. QED BY <1>6, <3>1, <3>2
  <2>4. CASE h[p].pc = "setInfo"
    <3>1. /\ h'[p] = Idle /\ followers[f] = Wanted(h[p])
          /\ lookup'.info[f] = Wanted(h[p]) /\ f \in lookup'.members \cap lookup'.owners
      BY <1>0, <1>2, <1>8, <2>4 DEF WritesKey, PutInfo, LookupKeys, KeysKnown
    <3>2. Done
      BY <1>4, <2>0, <3>1 DEF KeysAgree, LiveRow
    <3>3. QED BY <1>6, <3>1, <3>2
  <2>5. CASE h[p].pc = "dropMember"
    <3>1. GoesTo(p, "dropOwner") /\ followers[f] = "deleted" /\ f \notin lookup'.members
      BY <1>0, <1>2, <1>8, <2>5 DEF WritesKey, DropMember, LookupKeys, KeysKnown
    <3>2. Busy("dropOwner")
      BY <2>0, <3>1 DEF KeysKnown, GoesTo
    <3>3. QED BY <1>5, <3>2 DEF KeySteps
  <2>6. CASE h[p].pc = "dropOwner"
    <3>1. /\ GoesTo(p, "dropInfo") /\ followers[f] = "deleted"
          /\ f \notin lookup'.members /\ f \notin lookup'.owners
      BY <1>0, <1>2, <1>8, <2>6 DEF WritesKey, DropOwner, LookupKeys, KeysKnown
    <3>2. Busy("dropInfo")
      BY <2>0, <3>1 DEF KeysKnown, GoesTo
    <3>3. QED BY <1>5, <3>2 DEF KeySteps
  <2>7. CASE h[p].pc = "dropInfo"
    <3>1. /\ h'[p] = Idle /\ followers[f] = "deleted" /\ lookup'.info[f] = "none"
          /\ f \notin lookup'.members /\ f \notin lookup'.owners
      BY <1>0, <1>2, <1>8, <2>7 DEF WritesKey, DropInfo, LookupKeys, KeysKnown
    <3>2. Done
      BY <2>0, <3>1 DEF KeysAgree, LiveRow, Statuses
    <3>3. QED BY <1>6, <3>1, <3>2
  <2>8. QED BY <1>8, <2>1, <2>2, <2>3, <2>4, <2>5, <2>6, <2>7 DEF WritesKey
<1>9. CASE ReadsKey(p)
  <2>0. followers' = followers /\ masters' = masters /\ lookup' = lookup
    BY <1>9 DEF ReadsKey, tables
  <2>1. CASE h[p].pc = "subscribe" \/ (h[p].pc = "getInfo" /\ HasInfo(f))
    <3>1. GoesTo(p, "getInfo") \/ GoesTo(p, "setInfo")
      BY <1>0, <1>9, <2>1 DEF ReadsKey
    <3>2. Wanted(h'[p]) = Wanted(h[p])
      BY <3>1 DEF GoesTo, Wanted
    <3>3. Busy("getInfo") \/ Busy("setInfo")
      BY <2>0, <2>1, <3>1, <3>2 DEF KeysKnown, GoesTo, MasterExists
    <3>4. QED BY <1>5, <3>3 DEF KeySteps
  <2>2. CASE h[p].pc = "getInfo" /\ ~HasInfo(f)
    <3>1. h'[p] = Idle
      BY <1>0, <1>9, <2>2 DEF ReadsKey
    <3>2. Done
      BY <1>4, <2>0, <2>2 DEF KeysKnown, KeysAgree, HasInfo, LiveRow, MasterExists
    <3>3. QED BY <1>6, <3>1, <3>2
  <2>3. CASE h[p].pc \in {"unsubscribe", "getOwner"}
    <3>1. HasOwner(f)
      BY <2>3 DEF KeysKnown, HasOwner
    <3>2. GoesTo(p, "getOwner") \/ GoesTo(p, "dropMember")
      BY <1>0, <1>9, <2>3, <3>1 DEF ReadsKey
    <3>3. Busy("getOwner") \/ Busy("dropMember")
      BY <2>0, <2>3, <3>2 DEF KeysKnown, GoesTo
    <3>4. QED BY <1>5, <3>3 DEF KeySteps
  <2>4. QED BY <1>0, <1>9, <2>1, <2>2, <2>3 DEF ReadsKey
<1>10. CASE GivesUp(p)
  BY <1>0, <1>10 DEF GivesUp
<1>11. CASE WritesMaster(p)
  BY <1>0, <1>11 DEF WritesMaster, FollowerOps, StatusOps
<1>12. CASE Passes(p)
  <2>1. KeysAgree(f)
    BY <1>12, PendingIsKeyed DEF Passes
  <2>2. KeysAgree(f)'
    BY <1>12, <2>1 DEF Passes, SameKeys, tables, KeysAgree, LiveRow, MasterExists
  <2>3. h'[p].pc \notin KeySteps
    BY <1>12, IdleFields DEF Passes, GoesTo, KeySteps, RegisterSteps
  <2>4. KeysKnown(h[p], f)'
    BY <2>3 DEF KeysKnown, KeySteps, RegisterSteps
  <2>5. QED BY <2>2, <2>4
<1>13. CASE Comes(p)
  BY <1>0, <1>13 DEF Comes, FollowerOps, StatusOps
<1>14. QED
  BY <1>7, <1>8, <1>9, <1>10, <1>11, <1>12, <1>13, KeyEffect

\* Of a row's keys and states, at most its status changes, and only because its
\* master is deleted.
Untouched(p, f) ==
    /\ lookup'.info[f] = lookup.info[f]
    /\ f \in lookup'.members <=> f \in lookup.members
    /\ f \in lookup'.owners <=> f \in lookup.owners
    /\ \/ /\ followers'[f] = followers[f]
          /\ masters[MasterOf(f)] # "absent" /\ masters'[MasterOf(f)] = "live"
                => masters[MasterOf(f)] = "live"
       \/ /\ h[p].op = "DeleteMaster" /\ f \in Touches(h[p])
          /\ followers[f] \in Statuses /\ followers'[f] = "inactive"
          /\ masters'[MasterOf(f)] = "deleted"

\* A step of a handler whose request is not about the follower, or while another
\* handler is writing the follower's keys.
LEMMA OthersKeys ==
  ASSUME TypeInv, NamesKnown, Alone, NEW p \in Handlers, Handle(p),
         NEW f \in Rows, f \notin astray,
         \/ ~Keyed(h[p], f)
         \/ \E q \in Handlers \ {p} : Keyed(h[q], f) /\ h[q].pc \in KeySteps
  PROVE  /\ Untouched(p, f)
         /\ Keyed(h[p], f) => h'[p].pc \notin KeySteps
<1>1. /\ masters \in [Masters -> MasterStates] /\ followers \in [Rows -> FollowerStates]
      /\ lookup \in LookupKeys /\ MasterOf(f) \in Masters
  BY RowPair DEF TypeInv, TypeOK, TablesOK, KeysOK
<1>2. StepOK(h[p]) /\ StepOK(h'[p])
  BY HandlersStep DEF TypeInv, HandlersTyped, HandlerOK
<1>3. UNCHANGED <<masters, lookup, followers>> => Untouched(p, f)
  BY DEF Untouched
<1>4. CASE ~Keyed(h[p], f)
  <2>1. CASE WritesRow(p)
    <3>1. h[p].id # f
      BY <1>4, <2>1 DEF WritesRow, Keyed, FollowerOps
    <3>2. followers'[f] = followers[f] /\ UNCHANGED <<masters, lookup>>
      BY <1>1, <2>1, <3>1 DEF WritesRow
    <3>3. QED BY <3>2, <1>4 DEF Untouched
  <2>2. CASE WritesKey(p)
    <3>1. h[p].id # f
      BY <1>2, <1>4, <2>2 DEF WritesKey, Keyed, StepOK, FollowerOps
    <3>2. /\ lookup'.info[f] = lookup.info[f]
          /\ f \in lookup'.members <=> f \in lookup.members
          /\ f \in lookup'.owners <=> f \in lookup.owners
      BY <1>1, <2>2, <3>1 DEF WritesKey, LookupKeys, PutInfo, PutMember, PutOwner,
         DropMember, DropOwner, DropInfo
    <3>3. QED BY <1>4, <2>2, <3>2 DEF WritesKey, tables, Untouched
  <2>3. CASE ReadsKey(p) \/ GivesUp(p) \/ Comes(p)
    BY <1>3, <1>4, <2>3 DEF ReadsKey, GivesUp, Comes, tables
  <2>4. CASE WritesMaster(p)
    <3>1. CASE h[p].op = "CreateMaster"
      BY <1>1, <1>4, <2>4, <3>1 DEF WritesMaster, Untouched
    <3>2. CASE h[p].op = "DeleteMaster"
      <4>1. /\ masters' = [masters EXCEPT ![h[p].id] = "deleted"]
            /\ followers'[f] = IF MasterOf(f) = h[p].id /\ followers[f] \in Statuses
                               THEN "inactive" ELSE followers[f]
            /\ UNCHANGED lookup
        BY <2>4, <3>2 DEF WritesMaster
      <4>2. MasterOf(f) = h[p].id => f \in Touches(h[p])
        BY <3>2 DEF Touches
      <4>3. masters'[MasterOf(f)] = IF MasterOf(f) = h[p].id THEN "deleted"
                                                             ELSE masters[MasterOf(f)]
        BY <1>1, <4>1
      <4>4. QED BY <1>4, <3>2, <4>1, <4>2, <4>3 DEF Untouched
    <3>3. QED BY <2>4, <3>1, <3>2 DEF WritesMaster
  <2>5. CASE Passes(p)
    BY <1>4, <2>5 DEF Passes, SameKeys, tables, Untouched
  <2>6. QED BY <2>1, <2>2, <2>3, <2>4, <2>5, KeyEffect
<1>5. CASE Keyed(h[p], f) /\ \E q \in Handlers \ {p} : Keyed(h[q], f) /\ h[q].pc \in KeySteps
  <2>1. PICK q \in Handlers \ {p} : Keyed(h[q], f) /\ h[q].pc \in KeySteps
    BY <1>5
  <2>2. StepOK(h[q])
    BY DEF TypeInv, HandlersTyped, HandlerOK
  <2>3. followers[f] # "absent"
    BY <2>1, <2>2 DEF NamesKnown, Keyed, KeySteps, RegisterSteps, StepOK, FollowerOps, StatusOps
  <2>4. h[p].id = f /\ h[q].id = f
    BY <1>5, <2>1 DEF Keyed
  <2>5. h[p].op = "RegisterFollower" /\ h[p].pc \notin RegisterSteps
    <3>1. CASE h[q].pc \in RegisterSteps
      BY <1>5, <2>1, <2>4, <3>1 DEF NamesKnown, Keyed
    <3>2. CASE h[q].pc \notin RegisterSteps
      <4>1. h[q].op \in FollowerOps
        BY <2>1, <2>2, <3>2 DEF StepOK, KeySteps, FollowerOps, StatusOps
      <4>2. f \in Touches(h[q])
        BY <2>4, <4>1 DEF Touches
      <4>3. h[p].op \notin FollowerOps
        BY <2>4, <4>2 DEF Alone, Touches
      <4>4. h[p].pc \notin RegisterSteps
        BY <2>4, <4>1 DEF NamesKnown
      <4>5. QED BY <1>5, <4>3, <4>4 DEF Keyed
    <3>3. QED BY <3>1, <3>2
  <2>6. h[p].pc \notin KeySteps
    BY <1>2, <2>5 DEF StepOK, KeySteps, FollowerOps, StatusOps
  <2>7. UNCHANGED <<masters, followers>> /\ SameKeys /\ h'[p].pc \notin KeySteps
    <3>1. ~WritesRow(p)
      BY <2>3, <2>4, <2>5 DEF WritesRow, StatusOps
    <3>2. ~WritesKey(p) /\ ~ReadsKey(p)
      BY <2>6 DEF WritesKey, ReadsKey, KeySteps, RegisterSteps
    <3>3. ~WritesMaster(p) /\ ~Comes(p)
      BY <2>5 DEF WritesMaster, Comes
    <3>4. CASE GivesUp(p)
      BY <3>4, IdleFields DEF GivesUp, tables, SameKeys, KeySteps, RegisterSteps
    <3>5. CASE Passes(p)
      BY <3>5, IdleFields DEF Passes, tables, GoesTo, KeySteps, RegisterSteps
    <3>6. QED BY <3>1, <3>2, <3>3, <3>4, <3>5, KeyEffect
  <2>8. QED BY <2>7 DEF Untouched, SameKeys
<1>6. QED BY <1>4, <1>5

\* Keys that agree still do, if the row is untouched.
LEMMA UntouchedAgrees ==
  ASSUME NamesKnown, NEW p \in Handlers, NEW f \in Rows, Untouched(p, f), KeysAgree(f)
  PROVE  KeysAgree(f)'
<1>1. followers[f] # "absent" => masters[MasterOf(f)] # "absent"
  BY DEF NamesKnown
<1>2. QED BY <1>1 DEF Untouched, KeysAgree, LiveRow, MasterExists, Statuses

-----------------------------------------------------------------------------
(* The invariant is inductive *)

\* A handler's step.
LEMMA LookupHandle ==
  ASSUME LookupInv, NEW p \in Handlers, Handle(p)
  PROVE  (NamesKnown /\ Alone /\ HandlersKnowKeys /\ LookupAgreement)'
<1>1. TypeInv /\ NamesKnown /\ Alone
  BY DEF LookupInv
<1>2. NamesKnown' /\ Alone'
  BY <1>1, NamesKnownHandle, AloneHandle
<1>3. /\ \A q \in Handlers \ {p} : h'[q] = h[q]
      /\ astray \subseteq astray'
  BY <1>1, KeyEffect
<1>4. ASSUME NEW f \in Rows, f \notin astray
      PROVE  LookupPending(f) \/ KeysAgree(f)
  BY <1>4 DEF LookupInv, LookupAgreement, KeysAgree
<1>5. ASSUME NEW f \in Rows, f \notin astray', Keyed(h[p], f)
      PROVE  \/ /\ Keyed(h'[p], f) => KeysKnown(h[p], f)'
                /\ (Pending(h[p], f) \/ KeysAgree(f))'
             \/ /\ \E q \in Handlers \ {p} : Pending(h[q], f)
                /\ h'[p].pc \notin KeySteps
  <2>1. f \notin astray
    BY <1>3, <1>5
  <2>2. CASE \E q \in Handlers \ {p} : Pending(h[q], f)
    BY <1>1, <1>5, <2>1, <2>2, OthersKeys, PendingIsKeyed
  <2>3. CASE ~ \E q \in Handlers \ {p} : Pending(h[q], f)
    <3>1. Pending(h[p], f) \/ KeysAgree(f)
      BY <1>4, <2>1, <2>3 DEF LookupPending, Pending
    <3>2. KeysKnown(h[p], f)
      BY <1>5, <2>1 DEF LookupInv, HandlersKnowKeys
    <3>3. h[p].pc \in RegisterSteps => followers[f] = "inactive"
      BY <1>1, <1>5 DEF NamesKnown, Keyed
    <3>4. QED BY <1>1, <1>5, <3>1, <3>2, <3>3, OwnKeys
  <2>4. QED BY <2>2, <2>3
<1>6. ASSUME NEW f \in Rows, f \notin astray', NEW q \in Handlers, Keyed(h'[q], f)
      PROVE  KeysKnown(h[q], f)'
  <2>1. f \notin astray
    BY <1>3, <1>6
  <2>2. CASE h'[q].pc \notin KeySteps
    BY <2>2 DEF KeysKnown, KeySteps, RegisterSteps
  <2>3. CASE h'[q].pc \in KeySteps /\ q # p
    <3>1. h'[q] = h[q] /\ Keyed(h[q], f) /\ h[q].pc \in KeySteps
      BY <1>3, <1>6, <2>3
    <3>2. Untouched(p, f)
      BY <1>1, <2>1, <2>3, <3>1, OthersKeys
    <3>3. KeysKnown(h[q], f)
      BY <2>1, <3>1 DEF LookupInv, HandlersKnowKeys
    <3>4. StepOK(h[q])
      BY <1>1 DEF TypeInv, HandlersTyped, HandlerOK
    <3>5. CASE h[q].op \in FollowerOps
      <4>1. f \in Touches(h[q])
        BY <3>1, <3>5 DEF Keyed, Touches
      <4>2. f \notin Touches(h[p])
        BY <1>1, <2>1, <2>3, <4>1 DEF Alone
      <4>3. followers'[f] = followers[f]
            /\ (masters'[MasterOf(f)] = "live" => masters[MasterOf(f)] = "live")
        BY <1>1, <3>1, <3>2, <3>5, <4>2 DEF Untouched, NamesKnown, Keyed
      <4>4. QED BY <3>1, <3>2, <3>3, <4>3 DEF KeysKnown, Untouched, MasterExists
    <3>6. CASE h[q].op \notin FollowerOps
      BY <3>1, <3>2, <3>3, <3>4, <3>6 DEF KeysKnown, Untouched, StepOK, FollowerOps
    <3>7. QED BY <3>5, <3>6
  <2>4. CASE h'[q].pc \in KeySteps /\ q = p
    <3>1. Keyed(h[p], f)
      BY <1>1, <1>6, <2>4, RequestEffect, IdleFields DEF Keyed, Comes, FollowerOps, StatusOps
    <3>2. QED BY <1>5, <1>6, <2>4, <3>1
  <2>5. QED BY <2>2, <2>3, <2>4
<1>7. ASSUME NEW f \in Rows, f \notin astray'
      PROVE  LookupPending(f)' \/ KeysAgree(f)'
  <2>1. f \notin astray
    BY <1>3, <1>7
  <2>2. CASE \E q \in Handlers \ {p} : Pending(h[q], f)
    BY <1>3, <2>2 DEF LookupPending, Pending, Routes, Touches
  <2>3. CASE ~ \E q \in Handlers \ {p} : Pending(h[q], f)
    <3>1. CASE Keyed(h[p], f)
      BY <1>5, <1>7, <2>3, <3>1 DEF LookupPending, Pending
    <3>2. CASE ~Keyed(h[p], f)
      <4>1. KeysAgree(f)
        BY <1>1, <1>4, <2>1, <2>3, <3>2, PendingIsKeyed DEF LookupPending, Pending
      <4>2. QED BY <1>1, <2>1, <3>2, <4>1, OthersKeys, UntouchedAgrees
    <3>3. QED BY <3>1, <3>2
  <2>4. QED BY <2>2, <2>3
<1>8. HandlersKnowKeys'
  BY <1>6 DEF HandlersKnowKeys, Keyed
<1>9. LookupAgreement'
  BY <1>7 DEF LookupAgreement, KeysAgree
<1>10. QED BY <1>2, <1>8, <1>9

\* A crash, and the steps that change neither tables nor keys nor handlers.
LEMMA LookupProcess ==
  ASSUME LookupInv, Crash \/ Start \/ UNCHANGED vars
  PROVE  (NamesKnown /\ Alone /\ HandlersKnowKeys /\ LookupAgreement)'
<1>1. CASE Crash
  <2>1. /\ \A q \in Handlers : h'[q] = Idle
        /\ UNCHANGED <<masters, followers, lookup>>
        /\ astray' = astray \cup UNION {Routes(h[q]) : q \in Handlers}
    BY <1>1 DEF Crash, tables, redis
  <2>2. NamesKnown'
    BY <2>1, IdleFields DEF LookupInv, NamesKnown, FollowerOps, StatusOps, RegisterSteps
  <2>3. Alone' /\ HandlersKnowKeys'
    BY <2>1, TouchesIdle, IdleFields
       DEF Alone, HandlersKnowKeys, KeysKnown, Keyed, FollowerOps, StatusOps
  <2>4. \A f \in Rows \ astray' : f \notin astray /\ ~LookupPending(f)
    BY <2>1 DEF LookupPending
  <2>5. LookupAgreement'
    BY <2>1, <2>4 DEF LookupInv, LookupAgreement, LiveRow, MasterExists
  <2>6. QED BY <2>2, <2>3, <2>5
<1>2. CASE Start \/ UNCHANGED vars
  <2>1. UNCHANGED <<masters, followers, lookup, h, astray>>
    BY <1>2 DEF Start, MainStart, SyncDel, SyncAdd, SyncFails, StartServer, vars, tables,
       redis, history
  <2>2. NamesKnown' /\ Alone'
    BY <2>1 DEF LookupInv, NamesKnown, Alone
  <2>3. HandlersKnowKeys'
    BY <2>1 DEF LookupInv, HandlersKnowKeys, KeysKnown, MasterExists
  <2>4. LookupAgreement'
    BY <2>1 DEF LookupInv, LookupAgreement, LookupPending, LiveRow, MasterExists
  <2>5. QED BY <2>2, <2>3, <2>4
<1>3. QED BY <1>1, <1>2

\* LookupInv holds initially.
LEMMA LookupInit == Init => LookupInv
<1> SUFFICES ASSUME Init PROVE LookupInv
  OBVIOUS
<1>1. \A p \in Handlers : h[p] = Idle
  BY DEF Init
<1>2. NamesKnown /\ Alone /\ HandlersKnowKeys
  BY <1>1, IdleFields, TouchesIdle
     DEF Init, NamesKnown, Alone, HandlersKnowKeys, KeysKnown, Keyed, FollowerOps, StatusOps,
         RegisterSteps
<1>3. LookupAgreement
  BY DEF Init, NoLookupKeys, LookupAgreement, LiveRow, Statuses
<1>4. QED
  BY <1>2, <1>3, TypeInit DEF LookupInv

\* Every step preserves LookupInv.
LEMMA LookupStep == LookupInv /\ [Next]_vars => LookupInv'
<1> SUFFICES ASSUME LookupInv, [Next]_vars PROVE LookupInv'
  OBVIOUS
<1>1. TypeInv'
  BY TypeStep DEF LookupInv
<1>2. QED
  BY <1>1, LookupHandle, LookupProcess DEF LookupInv, Next

\* Outside handlers in progress, overlaps and failures, a live row has all its
\* FastLookup keys, with its status if its master is live, and a deleted row
\* has none, for any number of handlers, masters and accounts: the GET and the
\* SET of UpdateFollowerStatus never bring back the key of an unregistered
\* follower.
THEOREM LookupKeysAgree == Spec => []LookupAgreement
<1>1. LookupInv => LookupAgreement
  BY DEF LookupInv
<1>2. QED
  BY <1>1, LookupInit, LookupStep, PTL DEF Spec
=============================================================================
