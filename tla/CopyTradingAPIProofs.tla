------------------------- MODULE CopyTradingAPIProofs -------------------------
(***************************************************************************)
(* Proofs about CopyTradingAPI, for any masters, accounts, handlers, path  *)
(* mount and kinds of failure.                                             *)
(***************************************************************************)
EXTENDS CopyTradingAPI, TLAPS

-----------------------------------------------------------------------------
(* Type correctness.  TypeOK alone is not inductive: that a command is sent *)
(* for the right kind of id follows from the handler's operation and step. *)

\* The operation a step belongs to.
StepOK(r) ==
    /\ r.pc = "idle" <=> r.op = "none"
    /\ r.pc \in {"insertMaster", "cacheMaster", "putMaster", "putActive"}
         => r.op = "CreateMaster"
    /\ r.pc \in {"verifyMaster", "insertFollower", "putInfo", "putMember", "putOwner"}
         => r.op = "RegisterFollower"
    /\ r.pc = "getFollower" => r.op \in FollowerOps
    /\ r.pc \in {"updateStatus", "subscribe", "getInfo", "setInfo"}
         => r.op \in StatusOps
    /\ r.pc \in {"getMaster", "deleteMaster", "evictMaster", "clearFollowers"}
         => r.op = "DeleteMaster"
    /\ r.pc \in {"deleteFollower", "unsubscribe", "getOwner", "dropMember",
                 "dropOwner", "dropInfo"}
         => r.op = "DeleteFollower"

\* The id is of the kind the operation needs, once the row has been found.
IdOK(r) ==
    /\ r.op \in {"CreateMaster", "DeleteMaster"} => r.id \in Masters
    /\ r.op = "RegisterFollower" => r.id \in Rows
    /\ r.op \in FollowerOps /\ r.pc # "getFollower" => r.id \in Rows

HandlerOK(r) == StepOK(r) /\ IdOK(r)

HandlersTyped == /\ h \in [Handlers -> HandlerRecords]
                 /\ \A p \in Handlers : HandlerOK(h[p])

TypeInv == TypeOK /\ HandlersTyped

\* The follower's id a handler takes is a row's, or a fixed segment; it is the
\* latter if three segments are in front of it.
LEMMA PathIdKind ==
  ASSUME NEW f \in Rows
  PROVE  /\ PathId(f) \in Segments \cup Rows
         /\ Len(Mount) = 3 => PathId(f) \in Segments
  BY MountAssumption DEF PathId

\* A request with an id of the kind its operation needs is well formed.
LEMMA RequestKind ==
  ASSUME NEW op \in Ops, NEW id \in Rows \cup Masters \cup Segments,
         op \in {"CreateMaster", "DeleteMaster"} => id \in Masters,
         op = "RegisterFollower" => id \in Rows
  PROVE  Request(op, id) \in HandlerRecords /\ HandlerOK(Request(op, id))
  BY DEF Request, HandlerRecords, HandlerOK, StepOK, IdOK, FirstStep, Ops, FollowerOps,
         StatusOps, Steps, DbSteps, SubSteps, LookupSteps, CacheSteps, FollowerStates

\* So is an idle handler.
LEMMA IdleKind == Idle \in HandlerRecords /\ HandlerOK(Idle)
  BY DEF Idle, HandlerRecords, HandlerOK, StepOK, IdOK, Ops, FollowerOps, StatusOps,
         FollowerStates

\* Answering keeps the handlers well formed.
LEMMA AnswerKind ==
  ASSUME HandlersTyped, NEW p \in Handlers, Answer(p)
  PROVE  HandlersTyped'
  BY IdleKind DEF HandlersTyped, Answer

\* So does going to a step that suits the handler's operation.
LEMMA GotoKind ==
  ASSUME HandlersTyped, NEW p \in Handlers, NEW step \in Steps, Goto(p, step),
         HandlerOK([h[p] EXCEPT !.pc = step])
  PROVE  HandlersTyped'
<1>1. [h[p] EXCEPT !.pc = step] \in HandlerRecords
  BY DEF HandlersTyped, HandlerRecords
<1>2. h' = [h EXCEPT ![p] = [h[p] EXCEPT !.pc = step]]
  BY DEF Goto
<1>3. QED
  BY <1>1, <1>2 DEF HandlersTyped

\* So does a request that arrives.
LEMMA ArriveKind ==
  ASSUME HandlersTyped, NEW p \in Handlers, NEW op, NEW id, Arrive(p, op, id),
         Request(op, id) \in HandlerRecords, HandlerOK(Request(op, id))
  PROVE  HandlersTyped'
  BY DEF HandlersTyped, Arrive

\* Every step of a handler keeps its record well formed.
LEMMA HandlersStep ==
  ASSUME HandlersTyped, NEW p \in Handlers, Handle(p)
  PROVE  HandlersTyped'
<1>0. h[p] \in HandlerRecords /\ HandlerOK(h[p])
  BY DEF HandlersTyped
<1>1. ASSUME NEW step \in Steps, Goto(p, step), HandlerOK([h[p] EXCEPT !.pc = step])
      PROVE  HandlersTyped'
  BY <1>1, GotoKind
<1>2. ASSUME Answer(p) PROVE HandlersTyped'
  BY <1>2, AnswerKind
<1> USE DEF HandlerOK, StepOK, IdOK, HandlerRecords, Ops, FollowerOps, StatusOps, Steps,
        DbSteps, SubSteps, LookupSteps, CacheSteps, At
<1>3. CASE CreateMasterInsert(p)
  BY <1>0, <1>1, <1>2, <1>3 DEF CreateMasterInsert, CommitTo
<1>4. CASE CreateMasterCache(p)
  BY <1>0, <1>1, <1>2, <1>4 DEF CreateMasterCache
<1>5. CASE RegisterMaster(p)
  BY <1>0, <1>1, <1>2, <1>5 DEF RegisterMaster
<1>6. CASE VerifyMaster(p)
  BY <1>0, <1>1, <1>2, <1>6 DEF VerifyMaster
<1>7. CASE CreateFollowerInsert(p)
  BY <1>0, <1>1, <1>2, <1>7 DEF CreateFollowerInsert, CommitTo
<1>8. CASE RegisterFollower(p)
  BY <1>0, <1>1, <1>2, <1>8 DEF RegisterFollower
<1>9. CASE UpdateStatus(p)
  BY <1>0, <1>1, <1>2, <1>9 DEF UpdateStatus, CommitTo
<1>10. CASE UpdateSubscription(p)
  BY <1>0, <1>1, <1>2, <1>10 DEF UpdateSubscription
<1>11. CASE UpdateFollowerStatus(p)
  BY <1>0, <1>1, <1>2, <1>11 DEF UpdateFollowerStatus
<1>12. CASE GetMaster(p)
  BY <1>0, <1>1, <1>2, <1>12 DEF GetMaster
<1>13. CASE DeleteMasterRow(p)
  BY <1>0, <1>1, <1>2, <1>13 DEF DeleteMasterRow, CommitTo
<1>14. CASE EvictMaster(p)
  BY <1>0, <1>1, <1>2, <1>14 DEF EvictMaster
<1>15. CASE ClearMasterFollowers(p)
  BY <1>0, <1>1, <1>2, <1>15 DEF ClearMasterFollowers
<1>16. CASE DeleteFollowerRow(p)
  BY <1>0, <1>1, <1>2, <1>16 DEF DeleteFollowerRow, CommitTo
<1>17. CASE RemoveSubscription(p)
  BY <1>0, <1>1, <1>2, <1>17 DEF RemoveSubscription
<1>18. CASE UnregisterFollower(p)
  BY <1>0, <1>1, <1>2, <1>18 DEF UnregisterFollower
<1>19. CASE StatementFails(p)
  BY <1>0, <1>1, <1>2, <1>19 DEF StatementFails
<1>20. CASE SubscriptionFails(p)
  BY <1>0, <1>1, <1>2, <1>20 DEF SubscriptionFails
<1>21. CASE LookupFails(p)
  BY <1>0, <1>1, <1>2, <1>21 DEF LookupFails
<1>22. CASE GetFollower(p)
  <2>1. CASE Answer(p)
    BY <2>1, <1>2
  <2>2. CASE LiveRow(h[p].id) /\ ~Answer(p)
    <3> DEFINE step == IF h[p].op = "DeleteFollower" THEN "deleteFollower" ELSE "updateStatus"
               r    == [h[p] EXCEPT !.seen = followers[h[p].id], !.pc = step]
    <3>1. h' = [h EXCEPT ![p] = r]
      BY <2>2, <1>22 DEF GetFollower
    <3>2. r \in HandlerRecords /\ HandlerOK(r)
      BY <1>0, <2>2, <1>22 DEF GetFollower, LiveRow, FollowerStates
    <3>3. QED
      BY <3>1, <3>2 DEF HandlersTyped
  <2>3. QED
    BY <2>1, <2>2, <1>22 DEF GetFollower
<1>23. CASE RequestCreateMaster(p)
  BY <1>23, RequestKind, ArriveKind DEF RequestCreateMaster
<1>24. CASE RequestRegisterFollower(p)
  BY <1>24, RequestKind, ArriveKind DEF RequestRegisterFollower
<1>25. CASE RequestFollowerOp(p)
  BY <1>25, RequestKind, ArriveKind, PathIdKind DEF RequestFollowerOp
<1>26. CASE RequestDeleteMaster(p)
  BY <1>26, RequestKind, ArriveKind DEF RequestDeleteMaster
<1>27. QED
  BY <1>3, <1>4, <1>5, <1>6, <1>7, <1>8, <1>9, <1>10, <1>11, <1>12, <1>13, <1>14, <1>15, <1>16, <1>17, <1>18, <1>19, <1>20, <1>21, <1>22, <1>23, <1>24, <1>25, <1>26 DEF Handle

\* TypeOK without the handlers.
StoresOK == /\ TablesOK
            /\ KeysOK
            /\ phase \in {"down", "syncing", "serving"}
            /\ apiCache \subseteq Masters
            /\ todo \subseteq Masters
            /\ adding \subseteq Masters
            /\ suspect \subseteq Rows \cup Masters
            /\ astray \subseteq Rows

\* Every step of a handler writes values of the right types.
LEMMA StoresStep ==
  ASSUME HandlersTyped, StoresOK, NEW p \in Handlers, Handle(p)
  PROVE  StoresOK'
<1>0. HandlerOK(h[p])
  BY DEF HandlersTyped
<1> USE DEF StoresOK, TablesOK, KeysOK, LookupKeys, FollowerStates, MasterStates, Statuses,
        tables, redis, api, history, At
<1>1. CASE CreateMasterInsert(p)
  BY <1>0, <1>1 DEF CreateMasterInsert, CommitTo, InsertMaster, HandlerOK, StepOK, IdOK, StatusOps, FollowerOps, Rows
<1>2. CASE CreateMasterCache(p)
  BY <1>0, <1>2 DEF CreateMasterCache, HandlerOK, StepOK, IdOK, StatusOps, FollowerOps, Rows
<1>3. CASE RegisterMaster(p)
  BY <1>0, <1>3 DEF RegisterMaster, PutMaster, PutActiveMaster, HandlerOK, StepOK, IdOK, StatusOps, FollowerOps, Rows
<1>4. CASE VerifyMaster(p)
  BY <1>0, <1>4 DEF VerifyMaster, HandlerOK, StepOK, IdOK, StatusOps, FollowerOps, Rows
<1>5. CASE CreateFollowerInsert(p)
  BY <1>0, <1>5 DEF CreateFollowerInsert, CommitTo, InsertFollower, HandlerOK, StepOK, IdOK, StatusOps, FollowerOps, Rows
<1>6. CASE RegisterFollower(p)
  BY <1>0, <1>6 DEF RegisterFollower, PutInfo, PutMember, PutOwner, HandlerOK, StepOK, IdOK, StatusOps, FollowerOps, Rows
<1>7. CASE UpdateStatus(p)
  BY <1>0, <1>7 DEF UpdateStatus, CommitTo, SetStatus, LiveRow, Wanted, HandlerOK, StepOK, IdOK, StatusOps, FollowerOps, Rows
<1>8. CASE UpdateSubscription(p)
  BY <1>0, <1>8 DEF UpdateSubscription, AddFollower, RemoveFollower, AccountOf, MasterOf, HandlerOK, StepOK, IdOK, StatusOps, FollowerOps, Rows
<1>9. CASE UpdateFollowerStatus(p)
  BY <1>0, <1>9 DEF UpdateFollowerStatus, PutInfo, Wanted, HandlerOK, StepOK, IdOK, StatusOps, FollowerOps, Rows
<1>10. CASE GetMaster(p)
  BY <1>0, <1>10 DEF GetMaster, HandlerOK, StepOK, IdOK, StatusOps, FollowerOps, Rows
<1>11. CASE DeleteMasterRow(p)
  BY <1>0, <1>11 DEF DeleteMasterRow, CommitTo, SoftDeleteMasterRow, RowsOf, MasterOf, HandlerOK, StepOK, IdOK, StatusOps, FollowerOps, Rows
<1>12. CASE EvictMaster(p)
  BY <1>0, <1>12 DEF EvictMaster, HandlerOK, StepOK, IdOK, StatusOps, FollowerOps, Rows
<1>13. CASE ClearMasterFollowers(p)
  BY <1>0, <1>13 DEF ClearMasterFollowers, ClearFollowers, HandlerOK, StepOK, IdOK, StatusOps, FollowerOps, Rows
<1>14. CASE DeleteFollowerRow(p)
  BY <1>0, <1>14 DEF DeleteFollowerRow, CommitTo, SoftDeleteFollowerRow, LiveRow, HandlerOK, StepOK, IdOK, StatusOps, FollowerOps, Rows
<1>15. CASE RemoveSubscription(p)
  BY <1>0, <1>15 DEF RemoveSubscription, RemoveFollower, AccountOf, MasterOf, HandlerOK, StepOK, IdOK, StatusOps, FollowerOps, Rows
<1>16. CASE UnregisterFollower(p)
  BY <1>0, <1>16 DEF UnregisterFollower, DropMember, DropOwner, DropInfo, HandlerOK, StepOK, IdOK, StatusOps, FollowerOps, Rows
<1>17. CASE StatementFails(p)
  BY <1>0, <1>17 DEF StatementFails, HandlerOK, StepOK, IdOK, StatusOps, FollowerOps, Rows
<1>18. CASE SubscriptionFails(p)
  BY <1>0, <1>18 DEF SubscriptionFails, Touches, HandlerOK, StepOK, IdOK, StatusOps, FollowerOps, Rows
<1>19. CASE LookupFails(p)
  BY <1>0, <1>19 DEF LookupFails, Touches, Routes, HandlerOK, StepOK, IdOK, StatusOps, FollowerOps, Rows
<1>20. CASE GetFollower(p)
  BY <1>0, <1>20 DEF GetFollower, HandlerOK, StepOK, IdOK, StatusOps, FollowerOps, Rows
<1>21. ASSUME NEW op, NEW id, Arrive(p, op, id)
      PROVE  StoresOK'
  BY <1>21 DEF Arrive, Overlap, Touches
<1>22. QED
  BY <1>1, <1>2, <1>3, <1>4, <1>5, <1>6, <1>7, <1>8, <1>9, <1>10, <1>11, <1>12, <1>13, <1>14, <1>15, <1>16, <1>17, <1>18, <1>19, <1>20, <1>21 DEF Handle, RequestCreateMaster,
     RequestRegisterFollower, RequestFollowerOp, RequestDeleteMaster

\* Every step, of a handler or of the process, preserves the types.
LEMMA TypeStep == TypeInv /\ [Next]_vars => TypeInv'
<1> SUFFICES ASSUME TypeInv, [Next]_vars PROVE TypeInv'
  OBVIOUS
<1>0. TypeOK <=> StoresOK /\ h \in [Handlers -> HandlerRecords]
  BY DEF TypeOK, StoresOK
<1>1. CASE \E p \in Handlers : Handle(p)
  <2>1. HandlersTyped' /\ StoresOK'
    BY <1>0, <1>1, HandlersStep, StoresStep DEF TypeInv
  <2>2. QED
    BY <2>1 DEF TypeInv, TypeOK, StoresOK, HandlersTyped
<1>2. CASE Crash
  <2>1. HandlersTyped'
    BY <1>2, IdleKind DEF Crash, HandlersTyped
  <2>2. suspect' \subseteq Rows \cup Masters /\ astray' \subseteq Rows
    BY <1>2 DEF Crash, TypeInv, TypeOK, Touches, Routes
  <2>3. QED
    BY <1>2, <2>1, <2>2 DEF Crash, TypeInv, TypeOK, HandlersTyped, TablesOK, KeysOK,
       tables, redis
<1>3. CASE MainStart
  BY <1>3 DEF MainStart, LoadFromDB, LiveMasters, TypeInv, TypeOK, HandlersTyped, TablesOK,
     KeysOK, tables, redis
<1>4. CASE \E m \in Masters : SyncDel(m)
  BY <1>4 DEF SyncDel, ClearFollowers, LiveRowsOf, LiveRow, TypeInv, TypeOK, HandlersTyped,
     TablesOK, KeysOK, tables
<1>5. CASE \E m \in Masters : SyncAdd(m)
  <2> PICK m \in Masters : SyncAdd(m)
    BY <1>5
  <2>1. {AccountOf(f) : f \in LiveRowsOf(m)} \subseteq Accounts
    BY DEF AccountOf, LiveRowsOf, LiveRow, RowsOf
  <2>2. RowsOf(m) \subseteq Rows
    BY DEF RowsOf, Rows
  <2>3. QED
    BY <2>1, <2>2 DEF SyncAdd, AddFollowers, TypeInv, TypeOK, HandlersTyped, TablesOK, KeysOK,
       tables
<1>6. CASE SyncFails
  BY <1>6 DEF SyncFails, TypeInv, TypeOK, HandlersTyped, TablesOK, KeysOK, tables, redis, history
<1>7. CASE StartServer
  BY <1>7 DEF StartServer, LoadFromDB, LiveMasters, TypeInv, TypeOK, HandlersTyped, TablesOK, KeysOK,
     tables, redis
<1>8. CASE UNCHANGED vars
  BY <1>8 DEF vars, api, history, TypeInv, TypeOK, HandlersTyped, TablesOK, KeysOK,
     tables, redis
<1>9. QED
  BY <1>1, <1>2, <1>3, <1>4, <1>5, <1>6, <1>7, <1>8 DEF Next, Start

\* The types hold initially.
LEMMA TypeInit == Init => TypeInv
  BY IdleKind DEF Init, TypeInv, TypeOK, HandlersTyped, TablesOK, KeysOK, LookupKeys,
     NoLookupKeys, MasterStates, FollowerStates

\* Every variable keeps its type: no handler sends a command for an id of the
\* wrong kind, whatever the paths the routes mount.
THEOREM TypeCorrect == Spec => []TypeOK
<1>1. TypeInv => TypeOK
  BY DEF TypeInv
<1>2. QED
  BY <1>1, TypeInit, TypeStep, PTL DEF Spec

-----------------------------------------------------------------------------
(* Deleted followers, and followers that are never started. *)

\* The only ways a handler changes a row: it inserts one that is absent, gives a
\* live one the status its request asks for, deactivates or deletes a live one.
LEMMA RowChange ==
  ASSUME TypeInv, NEW p \in Handlers, Handle(p), NEW f \in Rows
  PROVE  \/ followers'[f] = followers[f]
         \/ followers[f] = "absent" /\ followers'[f] = "inactive"
         \/ /\ followers[f] \in Statuses
            /\ \/ followers'[f] \in {"inactive", "deleted"}
               \/ h[p].op = "StartFollowing" /\ At(p, "updateStatus") /\ h[p].id = f
<1>1. followers \in [Rows -> FollowerStates]
  BY DEF TypeInv, TypeOK, TablesOK
<1> USE DEF tables, At
<1>2. CASE CreateFollowerInsert(p)
  BY <1>1, <1>2 DEF CreateFollowerInsert, InsertFollower, FollowerDuplicate
<1>3. CASE UpdateStatus(p)
  BY <1>1, <1>3 DEF UpdateStatus, SetStatus, LiveRow, Wanted
<1>4. CASE DeleteMasterRow(p)
  BY <1>1, <1>4 DEF DeleteMasterRow, SoftDeleteMasterRow
<1>5. CASE DeleteFollowerRow(p)
  BY <1>1, <1>5 DEF DeleteFollowerRow, SoftDeleteFollowerRow, LiveRow
<1>6. CASE UNCHANGED followers
  BY <1>6
<1>7. QED
  BY <1>2, <1>3, <1>4, <1>5, <1>6
     DEF Handle, RequestCreateMaster, RequestRegisterFollower, RequestFollowerOp,
         RequestDeleteMaster, Arrive, CreateMasterInsert, InsertMaster, CreateMasterCache,
         RegisterMaster, VerifyMaster, RegisterFollower, GetFollower, UpdateSubscription,
         UpdateFollowerStatus, GetMaster, EvictMaster, ClearMasterFollowers,
         RemoveSubscription, UnregisterFollower, StatementFails, SubscriptionFails,
         LookupFails

\* The process's end and start write no row.
LEMMA ProcessWritesNoRow ==
  ASSUME Crash \/ Start
  PROVE  UNCHANGED followers
  BY DEF Crash, Start, MainStart, SyncDel, SyncAdd, SyncFails, StartServer, tables

\* A soft-deleted follower stays deleted, whatever had read the row before.
THEOREM DeletedStaysDeleted == Spec => DeletedIsFinal
<1>1. ASSUME TypeInv, [Next]_vars
      PROVE  [\A f \in Rows : followers[f] = "deleted" => followers'[f] = "deleted"]_vars
  <2>1. CASE \E p \in Handlers : Handle(p)
    BY <1>1, <2>1, RowChange DEF Statuses
  <2>2. CASE Crash \/ Start
    BY <2>2, ProcessWritesNoRow
  <2>3. QED
    BY <1>1, <2>1, <2>2 DEF Next
<1>2. QED
  BY <1>1, TypeInit, TypeStep, PTL DEF Spec, DeletedIsFinal

\* The id of every request for a follower is a fixed path segment.
FixedIds == \A p \in Handlers : h[p].op \in FollowerOps => h[p].id \in Segments

\* With three segments in front of the id, no handler ever holds a row's id.
LEMMA FixedIdsStep ==
  ASSUME Len(Mount) = 3, TypeInv, FixedIds, [Next]_vars
  PROVE  FixedIds'
<1>0. HandlersTyped
  BY DEF TypeInv
<1>1. ASSUME NEW p \in Handlers, NEW step \in Steps, Goto(p, step)
      PROVE  FixedIds'
  BY <1>0, <1>1 DEF HandlersTyped, HandlerRecords, Goto, FixedIds
<1>2. ASSUME NEW p \in Handlers, Answer(p)
      PROVE  FixedIds'
  BY <1>0, <1>2 DEF HandlersTyped, Answer, FixedIds, Idle, FollowerOps, StatusOps
<1>3. ASSUME NEW p \in Handlers, NEW op, NEW id, Arrive(p, op, id),
             op \in FollowerOps => id \in Segments
      PROVE  FixedIds'
  BY <1>0, <1>3 DEF HandlersTyped, Arrive, Request, FixedIds
<1>4. ASSUME NEW p \in Handlers, GetFollower(p)
      PROVE  FixedIds'
  BY <1>0, <1>2, <1>4 DEF GetFollower, HandlersTyped, HandlerRecords, FixedIds
<1>5. ASSUME NEW p \in Handlers, RequestFollowerOp(p)
      PROVE  FixedIds'
  BY <1>3, <1>5, PathIdKind DEF RequestFollowerOp
<1>6. ASSUME NEW p \in Handlers, RequestCreateMaster(p) \/ RequestRegisterFollower(p)
                                  \/ RequestDeleteMaster(p)
      PROVE  FixedIds'
  BY <1>3, <1>6 DEF RequestCreateMaster, RequestRegisterFollower, RequestDeleteMaster,
     FollowerOps, StatusOps
<1>7. CASE Crash
  BY <1>7 DEF Crash, Idle, FixedIds, FollowerOps, StatusOps
<1>8. CASE UNCHANGED h
  BY <1>8 DEF FixedIds
<1> USE DEF Steps, DbSteps, SubSteps, LookupSteps, CacheSteps
<1>9. ASSUME NEW p \in Handlers, Handle(p)
      PROVE  FixedIds'
  BY <1>1, <1>2, <1>4, <1>5, <1>6, <1>9
     DEF Handle, CreateMasterInsert, CreateMasterCache, RegisterMaster, VerifyMaster,
         CreateFollowerInsert, RegisterFollower, UpdateStatus, UpdateSubscription,
         UpdateFollowerStatus, GetMaster, DeleteMasterRow, EvictMaster,
         ClearMasterFollowers, DeleteFollowerRow, RemoveSubscription, UnregisterFollower,
         StatementFails, SubscriptionFails, LookupFails, CommitTo
<1>10. QED
  BY <1>7, <1>8, <1>9 DEF Next, Start, MainStart, SyncDel, SyncAdd, SyncFails, StartServer,
     vars

\* Under the paths SetupRoutes mounts (three segments in front of the id) no
\* follower is ever active: StartFollowing looks up the segment "followers".
THEOREM NoFollowerIsActivated == Len(Mount) = 3 => (Spec => []NeverActivated)
<1> SUFFICES ASSUME Len(Mount) = 3 PROVE Spec => []NeverActivated
  OBVIOUS
<1> DEFINE Inv == TypeInv /\ FixedIds /\ NeverActivated
<1>1. Init => Inv
  BY TypeInit DEF Init, FixedIds, NeverActivated, Idle, FollowerOps, StatusOps
<1>2. Inv /\ [Next]_vars => Inv'
  <2> SUFFICES ASSUME Inv, [Next]_vars PROVE NeverActivated'
    BY TypeStep, FixedIdsStep
  <2>1. ASSUME NEW p \in Handlers, Handle(p), NEW f \in Rows
        PROVE  followers'[f] # "active"
    <3>1. ~(h[p].op = "StartFollowing" /\ h[p].id = f)
      BY <2>1, IdsAssumption DEF FixedIds, FollowerOps, StatusOps
    <3>2. QED
      BY <2>1, <3>1, RowChange DEF NeverActivated
  <2>2. CASE Crash \/ Start
    BY <2>2, ProcessWritesNoRow DEF NeverActivated
  <2>3. CASE UNCHANGED vars
    BY <2>3 DEF NeverActivated, vars, tables
  <2>4. QED
    BY <2>1, <2>2, <2>3 DEF Next, NeverActivated, Rows
<1>3. Inv => NeverActivated
  OBVIOUS
<1>4. QED
  BY <1>1, <1>2, <1>3, PTL DEF Spec

-----------------------------------------------------------------------------
(* The master cache *)

\* What a handler knows of its master: DeleteMaster has an id somebody was told,
\* hence no id of a CreateMaster that has still to fill the cache.
MasterKnown == \A p \in Handlers :
    /\ h[p].op = "DeleteMaster" => masters[h[p].id] # "absent"
    /\ h[p].pc = "cacheMaster" =>
          /\ masters[h[p].id] = "live"
          /\ \A q \in Handlers : h[q].op = "DeleteMaster" => h[q].id # h[p].id
    /\ h[p].pc = "evictMaster" => masters[h[p].id] = "deleted"

CacheInv == TypeInv /\ MasterKnown /\ CacheAgreement

\* The handler's step and those that write masters or the cache.
Inserts(p) == /\ h[p].pc = "insertMaster" /\ h[p].op = "CreateMaster"
              /\ masters[h[p].id] = "absent"
              /\ masters' = [masters EXCEPT ![h[p].id] = "live"]
              /\ UNCHANGED apiCache
              /\ \/ h'[p].pc = "cacheMaster" /\ h'[p].id = h[p].id /\ h'[p].op = h[p].op
                 \/ h'[p] = Idle /\ h[p].id \in suspect'
Fills(p) == /\ h[p].pc = "cacheMaster" /\ h[p].op = "CreateMaster"
            /\ apiCache' = apiCache \cup {h[p].id}
            /\ UNCHANGED masters
            /\ h'[p].pc = "putMaster" /\ h'[p].op = h[p].op
Deletes(p) == /\ h[p].pc = "deleteMaster" /\ h[p].op = "DeleteMaster"
              /\ masters' = [masters EXCEPT ![h[p].id] = "deleted"]
              /\ UNCHANGED apiCache
              /\ \/ h'[p].pc = "evictMaster" /\ h'[p].id = h[p].id /\ h'[p].op = h[p].op
                 \/ h'[p] = Idle /\ h[p].id \in suspect'
Evicts(p) == /\ h[p].pc = "evictMaster" /\ h[p].op = "DeleteMaster"
             /\ apiCache' = apiCache \ {h[p].id}
             /\ UNCHANGED masters
             /\ h'[p].pc = "clearFollowers" /\ h'[p].id = h[p].id /\ h'[p].op = h[p].op
Others(p) == /\ h[p].pc \notin CacheSteps /\ h'[p].pc \notin CacheSteps
             /\ UNCHANGED <<masters, apiCache>>
             /\ h'[p].op = "DeleteMaster" =>
                   \/ h[p].op = "DeleteMaster" /\ h'[p].id = h[p].id
                   \/ KnownMaster(h'[p].id)

\* Going to a step changes one handler's step.
LEMMA GotoRecord ==
  ASSUME HandlersTyped, NEW p \in Handlers, NEW step, Goto(p, step)
  PROVE  /\ \A q \in Handlers \ {p} : h'[q] = h[q]
         /\ h'[p].pc = step /\ h'[p].op = h[p].op /\ h'[p].id = h[p].id
  BY DEF HandlersTyped, HandlerRecords, Goto

\* Answering makes the handler idle.
LEMMA AnswerRecord ==
  ASSUME HandlersTyped, NEW p \in Handlers, Answer(p)
  PROVE  /\ \A q \in Handlers \ {p} : h'[q] = h[q]
         /\ h'[p] = Idle /\ h'[p].pc = "idle" /\ h'[p].op = "none"
  BY DEF HandlersTyped, Answer, Idle

\* A handler's step is one of them, and leaves the other handlers alone.
LEMMA MasterEffect ==
  ASSUME TypeInv, NEW p \in Handlers, Handle(p)
  PROVE  /\ \A q \in Handlers \ {p} : h'[q] = h[q]
         /\ suspect \subseteq suspect' /\ UNCHANGED phase
         /\ Inserts(p) \/ Fills(p) \/ Deletes(p) \/ Evicts(p) \/ Others(p)
<1>0. HandlersTyped /\ HandlerOK(h[p]) /\ h[p] \in HandlerRecords
  BY DEF TypeInv, HandlersTyped
<1>1. ASSUME NEW step, Goto(p, step)
      PROVE  /\ \A q \in Handlers \ {p} : h'[q] = h[q]
             /\ h'[p].pc = step /\ h'[p].op = h[p].op /\ h'[p].id = h[p].id
  BY <1>0, <1>1, GotoRecord
<1>2. ASSUME Answer(p)
      PROVE  /\ \A q \in Handlers \ {p} : h'[q] = h[q]
             /\ h'[p] = Idle /\ h'[p].pc = "idle" /\ h'[p].op = "none"
  BY <1>0, <1>2, AnswerRecord
<1> USE DEF CacheSteps, At, api, history, tables
<1>3. CASE CreateMasterInsert(p)
  BY <1>0, <1>1, <1>2, <1>3 DEF CreateMasterInsert, CommitTo, InsertMaster, MasterDuplicate,
     HandlerOK, StepOK, Inserts, Others
<1>4. CASE CreateMasterCache(p)
  BY <1>0, <1>1, <1>4 DEF CreateMasterCache, HandlerOK, StepOK, Fills
<1>5. CASE DeleteMasterRow(p)
  BY <1>0, <1>1, <1>2, <1>5 DEF DeleteMasterRow, CommitTo, SoftDeleteMasterRow, HandlerOK,
     StepOK, Deletes
<1>6. CASE EvictMaster(p)
  BY <1>0, <1>1, <1>6 DEF EvictMaster, HandlerOK, StepOK, Evicts
<1>7. CASE RegisterMaster(p) \/ VerifyMaster(p) \/ RegisterFollower(p)
  BY <1>1, <1>2, <1>7 DEF RegisterMaster, VerifyMaster, RegisterFollower, Others
<1>8. CASE CreateFollowerInsert(p)
  BY <1>1, <1>2, <1>8 DEF CreateFollowerInsert, CommitTo, InsertFollower, Others
<1>9. CASE GetFollower(p)
  <2>1. CASE Answer(p)
    BY <1>2, <1>9, <2>1 DEF GetFollower, Others
  <2>2. CASE ~Answer(p)
    <3>1. h' = [h EXCEPT ![p].seen = followers[h[p].id],
                         ![p].pc = IF h[p].op = "DeleteFollower"
                                   THEN "deleteFollower" ELSE "updateStatus"]
      BY <1>9, <2>2 DEF GetFollower
    <3>2. /\ \A q \in Handlers \ {p} : h'[q] = h[q]
          /\ h'[p].pc \in {"deleteFollower", "updateStatus"}
          /\ h'[p].op = h[p].op /\ h'[p].id = h[p].id
      BY <1>0, <3>1 DEF HandlersTyped, HandlerRecords
    <3>3. QED BY <1>9, <3>2 DEF GetFollower, Others
  <2>3. QED BY <2>1, <2>2
<1>10. CASE UpdateStatus(p)
  BY <1>1, <1>2, <1>10 DEF UpdateStatus, CommitTo, SetStatus, Others
<1>11. CASE UpdateSubscription(p) \/ UpdateFollowerStatus(p)
  BY <1>1, <1>2, <1>11 DEF UpdateSubscription, UpdateFollowerStatus, Others
<1>12. CASE GetMaster(p) \/ ClearMasterFollowers(p)
  BY <1>1, <1>2, <1>12 DEF GetMaster, ClearMasterFollowers, Others
<1>13. CASE DeleteFollowerRow(p)
  BY <1>1, <1>2, <1>13 DEF DeleteFollowerRow, CommitTo, SoftDeleteFollowerRow, Others
<1>14. CASE RemoveSubscription(p) \/ UnregisterFollower(p)
  BY <1>1, <1>2, <1>14 DEF RemoveSubscription, UnregisterFollower, Others
<1>15. CASE StatementFails(p) \/ LookupFails(p)
  BY <1>2, <1>15 DEF StatementFails, LookupFails, DbSteps, LookupSteps, Others
<1>16. CASE SubscriptionFails(p)
  BY <1>1, <1>2, <1>16 DEF SubscriptionFails, Others
<1>17. ASSUME NEW op \in Ops, NEW id, Arrive(p, op, id),
              op = "DeleteMaster" => KnownMaster(id)
       PROVE  /\ \A q \in Handlers \ {p} : h'[q] = h[q]
              /\ suspect \subseteq suspect' /\ UNCHANGED phase
              /\ Others(p)
  <2>1. /\ \A q \in Handlers \ {p} : h'[q] = h[q]
        /\ h'[p] = Request(op, id) /\ h[p].pc = "idle"
        /\ suspect \subseteq suspect' /\ UNCHANGED <<masters, apiCache, phase>>
    BY <1>0, <1>17 DEF Arrive, HandlersTyped
  <2>2. /\ Request(op, id).op = op /\ Request(op, id).id = id
        /\ Request(op, id).pc \notin CacheSteps
    BY DEF Request, FirstStep, Ops, FollowerOps, StatusOps
  <2>3. QED BY <1>17, <2>1, <2>2 DEF Others
<1>18. CASE RequestCreateMaster(p) \/ RequestRegisterFollower(p) \/ RequestFollowerOp(p)
            \/ RequestDeleteMaster(p)
  BY <1>17, <1>18 DEF RequestCreateMaster, RequestRegisterFollower, RequestFollowerOp,
     RequestDeleteMaster, Ops, FollowerOps, StatusOps
<1>19. QED
  BY <1>3, <1>4, <1>5, <1>6, <1>7, <1>8, <1>9, <1>10, <1>11, <1>12, <1>13, <1>14, <1>15,
     <1>16, <1>18 DEF Handle

\* What handlers know of their masters stays true while one of them takes a step.
LEMMA MasterKnownHandle ==
  ASSUME TypeInv, MasterKnown, NEW p \in Handlers, Handle(p)
  PROVE  MasterKnown'
<1>1. /\ \A q \in Handlers \ {p} : h'[q] = h[q]
      /\ Inserts(p) \/ Fills(p) \/ Deletes(p) \/ Evicts(p) \/ Others(p)
  BY MasterEffect
<1>2. \A q \in Handlers :
         /\ h[q].op \in {"CreateMaster", "DeleteMaster"} => h[q].id \in Masters
         /\ h[q].pc \in {"cacheMaster", "insertMaster"} => h[q].op = "CreateMaster"
         /\ h[q].pc = "evictMaster" => h[q].op = "DeleteMaster"
  BY DEF TypeInv, HandlersTyped, HandlerOK, StepOK, IdOK
<1>3. masters \in [Masters -> MasterStates]
  BY DEF TypeInv, TypeOK, TablesOK
<1>4. Idle.pc = "idle" /\ Idle.op = "none"
  BY DEF Idle
\* A request to delete that is in flight has a known id, and the caches to fill
\* are of other masters.
<1>5. ASSUME NEW q \in Handlers, h'[q].op = "DeleteMaster"
      PROVE  /\ h'[q].id \in Masters
             /\ masters[h'[q].id] # "absent" \/ masters'[h'[q].id] # "absent"
             /\ \A r \in Handlers \ {p} : h[r].pc = "cacheMaster" => h[r].id # h'[q].id
  <2>1. CASE q # p
    BY <1>1, <1>2, <1>5, <2>1 DEF MasterKnown
  <2>2. CASE q = p /\ h[p].op = "DeleteMaster" /\ h'[p].id = h[p].id
    BY <1>2, <2>2 DEF MasterKnown
  <2>3. CASE q = p /\ KnownMaster(h'[p].id)
    <3>1. h'[p].id \in Masters
      BY <1>5, <2>3, TypeStep DEF TypeInv, HandlersTyped, HandlerOK, IdOK, Next
    <3>2. QED BY <1>2, <2>3, <3>1 DEF KnownMaster, At
  <2>4. QED
    BY <1>1, <1>4, <1>5, <2>1, <2>2, <2>3 DEF Inserts, Fills, Deletes, Evicts, Others
<1>6. ASSUME NEW q \in Handlers, h'[q].op = "DeleteMaster"
      PROVE  masters'[h'[q].id] # "absent"
  BY <1>1, <1>3, <1>5, <1>6 DEF Inserts, Fills, Deletes, Evicts, Others
<1>7. ASSUME NEW q \in Handlers, h'[q].pc = "cacheMaster"
      PROVE  /\ masters'[h'[q].id] = "live"
             /\ \A r \in Handlers : h'[r].op = "DeleteMaster" => h'[r].id # h'[q].id
  <2>1. CASE q # p
    <3>1. h'[q] = h[q] /\ h[q].pc = "cacheMaster" /\ h[q].id \in Masters
      BY <1>1, <1>2, <1>7, <2>1
    <3>2. masters[h[q].id] = "live"
      BY <3>1 DEF MasterKnown
    <3>3. masters'[h[q].id] = "live"
      BY <1>1, <1>2, <1>3, <3>1, <3>2 DEF MasterKnown, Inserts, Fills, Deletes, Evicts, Others
    <3>4. QED BY <1>5, <2>1, <3>1, <3>3
  <2>2. CASE q = p
    <3>1. Inserts(p) /\ h'[p].id = h[p].id /\ h'[p].op = "CreateMaster" /\ h[p].id \in Masters
      BY <1>1, <1>2, <1>4, <1>7, <2>2 DEF Inserts, Fills, Deletes, Evicts, Others, CacheSteps
    <3>2. \A r \in Handlers \ {p} : h[r].op = "DeleteMaster" => h[r].id # h[p].id
      BY <3>1 DEF MasterKnown, Inserts
    <3>3. masters'[h[p].id] = "live"
      BY <1>3, <3>1 DEF Inserts
    <3>4. QED BY <1>1, <2>2, <3>1, <3>2, <3>3
  <2>3. QED BY <2>1, <2>2
<1>8. ASSUME NEW q \in Handlers, h'[q].pc = "evictMaster"
      PROVE  masters'[h'[q].id] = "deleted"
  <2>1. CASE q # p
    <3>1. h'[q] = h[q] /\ masters[h[q].id] = "deleted" /\ h[q].id \in Masters
      BY <1>1, <1>2, <1>8, <2>1 DEF MasterKnown
    <3>2. QED
      BY <1>1, <1>3, <3>1 DEF Inserts, Fills, Deletes, Evicts, Others
  <2>2. CASE q = p
    <3>1. Deletes(p) /\ h'[p].id = h[p].id /\ h[p].id \in Masters
      BY <1>1, <1>2, <1>4, <1>8, <2>2 DEF Inserts, Fills, Deletes, Evicts, Others, CacheSteps
    <3>2. QED BY <1>3, <2>2, <3>1 DEF Deletes
  <2>3. QED BY <2>1, <2>2
<1>9. QED BY <1>6, <1>7, <1>8 DEF MasterKnown

\* So does the agreement of cache and table.
LEMMA CacheHandle ==
  ASSUME TypeInv, MasterKnown, CacheAgreement, NEW p \in Handlers, Handle(p)
  PROVE  CacheAgreement'
<1>1. /\ \A q \in Handlers \ {p} : h'[q] = h[q]
      /\ suspect \subseteq suspect' /\ UNCHANGED phase
      /\ Inserts(p) \/ Fills(p) \/ Deletes(p) \/ Evicts(p) \/ Others(p)
  BY MasterEffect
<1>2. masters \in [Masters -> MasterStates]
  BY DEF TypeInv, TypeOK, TablesOK
<1>3. h[p].op \in {"CreateMaster", "DeleteMaster"} => h[p].id \in Masters
  BY DEF TypeInv, HandlersTyped, HandlerOK, IdOK
<1> SUFFICES ASSUME phase = "serving", NEW m \in Masters, m \notin suspect'
             PROVE  \/ \E q \in Handlers : h'[q].id = m /\ h'[q].pc \in CacheSteps
                    \/ m \in apiCache' <=> masters'[m] = "live"
  BY <1>1 DEF CacheAgreement, MasterExists
<1>4. m \notin suspect
  BY <1>1
<1>5. \/ \E q \in Handlers : h[q].id = m /\ h[q].pc \in CacheSteps
      \/ m \in apiCache <=> masters[m] = "live"
  BY <1>4 DEF CacheAgreement, MasterExists
<1>6. CASE (Inserts(p) \/ Deletes(p)) /\ h[p].id = m
  BY <1>6 DEF Inserts, Deletes, CacheSteps
<1>7. CASE Fills(p) /\ h[p].id = m
  BY <1>7 DEF Fills, MasterKnown
<1>8. CASE Evicts(p) /\ h[p].id = m
  BY <1>8 DEF Evicts, MasterKnown
<1>9. CASE Others(p) \/ h[p].id # m
  <2>1. (m \in apiCache' <=> m \in apiCache) /\ masters'[m] = masters[m]
    BY <1>1, <1>2, <1>3, <1>9 DEF Inserts, Fills, Deletes, Evicts, Others
  <2>2. ASSUME NEW q \in Handlers, h[q].id = m, h[q].pc \in CacheSteps
        PROVE  q # p
    BY <1>9, <2>2 DEF Others
  <2>3. QED BY <1>1, <1>5, <2>1, <2>2
<1>10. QED BY <1>1, <1>6, <1>7, <1>8, <1>9

\* CacheInv is preserved by every step.
LEMMA CacheStep == CacheInv /\ [Next]_vars => CacheInv'
<1> SUFFICES ASSUME CacheInv, [Next]_vars PROVE MasterKnown' /\ CacheAgreement'
  BY TypeStep DEF CacheInv
<1>1. CASE \E p \in Handlers : Handle(p)
  BY <1>1, MasterKnownHandle, CacheHandle DEF CacheInv
<1>2. CASE Crash
  BY <1>2 DEF Crash, MasterKnown, CacheAgreement, Idle
<1>3. CASE Start \/ UNCHANGED vars
  <2>1. UNCHANGED <<h, masters>>
    BY <1>3 DEF Start, MainStart, SyncDel, SyncAdd, SyncFails, StartServer, tables, vars
  <2>2. MasterKnown'
    BY <2>1 DEF CacheInv, MasterKnown
  <2> SUFFICES CacheAgreement'
    BY <2>2
  <2>3. CASE StartServer
    <3>1. \A m \in Masters \ suspect' : m \in apiCache' <=> m \in LiveMasters
      <4>1. Masters \cap Rows = {}
        BY IdsAssumption
      <4>2. PICK loaded \in SUBSET LiveMasters :
               apiCache' = loaded /\ suspect' = (suspect \ Masters) \cup (LiveMasters \ loaded)
        BY <2>3 DEF StartServer, LoadFromDB
      <4>3. QED BY <4>2
    <3>2. \A m \in Masters \ suspect' : m \in apiCache' <=> masters'[m] = "live"
      BY <2>1, <3>1 DEF LiveMasters, MasterExists
    <3>3. QED BY <3>2 DEF CacheAgreement, MasterExists
  <2>4. CASE MainStart \/ SyncFails \/ \E m \in Masters : SyncDel(m) \/ SyncAdd(m)
    <3>1. phase' = "syncing"
      BY <2>4 DEF MainStart, SyncDel, SyncAdd, SyncFails
    <3>2. QED BY <3>1 DEF CacheAgreement
  <2>5. CASE UNCHANGED vars
    <3>1. UNCHANGED <<h, masters, apiCache, phase, suspect>>
      BY <2>5 DEF vars, api, history, tables
    <3>2. QED BY <3>1 DEF CacheInv, CacheAgreement, MasterExists
  <2>6. QED BY <1>3, <2>3, <2>4, <2>5 DEF Start
<1>4. QED BY <1>1, <1>2, <1>3 DEF Next

\* CreateMaster and DeleteMaster: whatever their order, the process's cache holds the
\* live masters, outside the window between a statement and its cache update and
\* unless the database failed.
THEOREM CacheAgrees == Spec => []CacheAgreement
<1>1. Init => CacheInv
  BY TypeInit DEF Init, CacheInv, MasterKnown, CacheAgreement, Idle
<1>2. CacheInv => CacheAgreement
  BY DEF CacheInv
<1>3. QED BY <1>1, <1>2, CacheStep, PTL DEF Spec
=============================================================================
