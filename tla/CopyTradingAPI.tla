--------------------------- MODULE CopyTradingAPI ---------------------------
(***************************************************************************)
(* The copy-trading API (cmd/api, internal/api): concurrent HTTP handlers  *)
(* that keep four things in step without any transaction across them -- the *)
(* PostgreSQL tables, the Redis subscription sets, the FastLookup keys and *)
(* the process's own master cache -- and the process's start, which        *)
(* rebuilds the sets from the tables.                                      *)
(*                                                                         *)
(* A handler is a record of h: one action per database statement, Redis    *)
(* command or cache update, in the order the code makes them.  Only the    *)
(* API writes the tables, and a single API process runs, as in             *)
(* docker-compose.yml.  Two history variables name the rows for which a    *)
(* failure, a restart or an overlap of handlers can have left the stores   *)
(* in disagreement; the properties say that nothing else can.              *)
(***************************************************************************)
EXTENDS RedisKeys, Sequences

CONSTANTS Handlers,  \* requests the server handles at the same time
          Segments,  \* path segments that are not an id
          Mount,     \* the segments in front of the follower's id
          NoId,      \* the id of an idle handler
          Faults     \* kinds of failure the environment may produce

ASSUME MountAssumption  == Mount \in Seq(Segments) /\ Len(Mount) \in {2, 3}
\* generateID gives the ids of masters and followers different prefixes, and
\* no id equals a fixed path segment.
ASSUME IdsAssumption    == /\ Masters \cap Rows = {}
                           /\ Segments \cap (Rows \cup Masters) = {}
                           /\ NoId \notin Rows \cup Masters
ASSUME FaultsAssumption == Faults \subseteq {"db", "redis", "crash", "restart"}

VARIABLES h,        \* [Handlers -> handler record]
          phase,    \* the API process: "down", "syncing" or "serving"
          apiCache, \* masters in the process's MasterCache
          todo,     \* masters whose DEL and SADD the start has still to send
          adding,   \* the master whose DEL is done and SADD is not, if any
          suspect,  \* history: rows (masters) whose set (cache) may disagree
          astray    \* history: rows whose FastLookup keys may disagree

api     == <<phase, apiCache, todo, adding>>
history == <<suspect, astray>>
vars    == <<tables, redis, h, api, history>>

-----------------------------------------------------------------------------
(* Handlers *)

StatusOps   == {"StartFollowing", "StopFollowing"}
FollowerOps == StatusOps \cup {"DeleteFollower"}
Ops         == FollowerOps \cup {"CreateMaster", "RegisterFollower",
                                 "DeleteMaster"}

FirstStep == [CreateMaster     |-> "insertMaster",
              RegisterFollower |-> "verifyMaster",
              StartFollowing   |-> "getFollower",
              StopFollowing    |-> "getFollower",
              DeleteFollower   |-> "getFollower",
              DeleteMaster     |-> "getMaster"]

DbSteps     == {"insertMaster", "verifyMaster", "insertFollower",
                "getFollower", "updateStatus", "deleteFollower",
                "getMaster", "deleteMaster"}
SubSteps    == {"subscribe", "unsubscribe", "clearFollowers"}
LookupSteps == {"putMaster", "putActive", "putInfo", "putMember", "putOwner",
                "getInfo", "setInfo",
                "getOwner", "dropMember", "dropOwner", "dropInfo"}
CacheSteps  == {"cacheMaster", "evictMaster"}
Steps       == DbSteps \cup SubSteps \cup LookupSteps \cup CacheSteps

HandlerRecords == [op    : Ops \cup {"none"},
                   pc    : Steps \cup {"idle"},
                   id    : Rows \cup Masters \cup Segments \cup {NoId},
                   seen  : FollowerStates]

Idle == [op |-> "none", pc |-> "idle", id |-> NoId, seen |-> "absent"]

Request(op, id) == [op   |-> op, pc |-> FirstStep[op], id |-> id,
                    seen |-> "absent"]

At(p, step)   == h[p].pc = step
Goto(p, step) == h' = [h EXCEPT ![p].pc = step]
Answer(p)     == h' = [h EXCEPT ![p] = Idle]

Wanted(r) == IF r.op = "StartFollowing" THEN "active" ELSE "inactive"

\* The rows whose status or subscription the request of r writes.
Touches(r) == {f \in Rows : \/ r.op \in FollowerOps /\ r.id = f
                            \/ r.op = "DeleteMaster" /\ r.id = MasterOf(f)}

\* The rows whose FastLookup keys it writes.
Routes(r) == Touches(r) \cup {f \in Rows : r.op = "RegisterFollower" /\ r.id = f}

\* The segment after the mount, wherever that is.
PathIdAfterMount(f) == f

\* parts[2], the segment StartFollowing, StopFollowing and DeleteFollower
\* take the follower's id from (TLA+ sequences count from 1).
PathId(f) == (Mount \o <<f>>)[3]

\* A statement that was executed but whose acknowledgement was lost: the
\* handler answers 500 and stops, and the stores may disagree on lost.
CommitTo(p, step, lost) ==
    \/ /\ Goto(p, step)
       /\ UNCHANGED history
    \/ /\ "db" \in Faults
       /\ Answer(p)
       /\ suspect' = suspect \cup lost
       /\ astray' = astray \cup (lost \cap Rows)

-----------------------------------------------------------------------------
(* Requests *)

\* Ids are random: a client knows one once the creating handler has answered
\* with it (or has died; the row can then be read from the table).
KnownMaster(m) ==
    /\ masters[m] # "absent"
    /\ \A p \in Handlers :
          h[p].op = "CreateMaster" /\ h[p].id = m => At(p, "insertMaster")

KnownFollower(f) ==
    /\ followers[f] # "absent"
    /\ \A p \in Handlers :
          h[p].op = "RegisterFollower" /\ h[p].id = f
             => h[p].pc \in {"verifyMaster", "insertFollower"}

\* The rows that another handler in flight touches as well.
Overlap(p, r) == {f \in Touches(r) :
                     \E q \in Handlers \ {p} : f \in Touches(h[q])}

Arrive(p, op, id) ==
    /\ phase = "serving"
    /\ At(p, "idle")
    /\ h' = [h EXCEPT ![p] = Request(op, id)]
    /\ suspect' = suspect \cup Overlap(p, Request(op, id))
    /\ astray' = astray \cup Overlap(p, Request(op, id))
    /\ UNCHANGED <<tables, redis, api>>

RequestCreateMaster(p) ==
    \E m \in Masters : Arrive(p, "CreateMaster", m)

RequestRegisterFollower(p) ==
    \E f \in Rows : KnownMaster(MasterOf(f)) /\ Arrive(p, "RegisterFollower", f)

RequestFollowerOp(p) ==
    \E f \in Rows, op \in FollowerOps :
        KnownFollower(f) /\ Arrive(p, op, PathId(f))

RequestDeleteMaster(p) ==
    \E m \in Masters : KnownMaster(m) /\ Arrive(p, "DeleteMaster", m)

-----------------------------------------------------------------------------
(* CreateMaster *)

CreateMasterInsert(p) ==
    /\ At(p, "insertMaster")
    /\ \/ /\ InsertMaster(h[p].id)
          /\ CommitTo(p, "cacheMaster", {h[p].id})
       \/ /\ MasterDuplicate(h[p].id)
          /\ Answer(p)
          /\ UNCHANGED <<tables, history>>
    /\ UNCHANGED <<redis, api>>

CreateMasterCache(p) ==
    /\ At(p, "cacheMaster")
    /\ apiCache' = apiCache \cup {h[p].id}
    /\ Goto(p, "putMaster")
    /\ UNCHANGED <<tables, redis, phase, todo, adding, history>>

\* FastLookupStore.RegisterMaster: two commands.
RegisterMaster(p) ==
    /\ \/ At(p, "putMaster") /\ PutMaster(h[p].id) /\ Goto(p, "putActive")
       \/ At(p, "putActive") /\ PutActiveMaster(h[p].id) /\ Answer(p)
    /\ UNCHANGED <<tables, subs, api, history>>

(* RegisterFollower *)

VerifyMaster(p) ==
    /\ At(p, "verifyMaster")
    /\ IF MasterExists(MasterOf(h[p].id)) THEN Goto(p, "insertFollower")
                                          ELSE Answer(p)
    /\ UNCHANGED <<tables, redis, api, history>>

CreateFollowerInsert(p) ==
    /\ At(p, "insertFollower")
    /\ \/ /\ InsertFollower(h[p].id)
          /\ CommitTo(p, "putInfo", {h[p].id})
       \/ /\ FollowerDuplicate(h[p].id)
          /\ Answer(p)
          /\ UNCHANGED <<tables, history>>
    /\ UNCHANGED <<redis, api>>

\* FastLookupStore.RegisterFollower: three commands.
RegisterFollower(p) ==
    /\ \/ At(p, "putInfo") /\ PutInfo(h[p].id, "inactive") /\ Goto(p, "putMember")
       \/ At(p, "putMember") /\ PutMember(h[p].id) /\ Goto(p, "putOwner")
       \/ At(p, "putOwner") /\ PutOwner(h[p].id) /\ Answer(p)
    /\ UNCHANGED <<tables, subs, api, history>>

-----------------------------------------------------------------------------
(* StartFollowing and StopFollowing, the same code for the two statuses;   *)
(* DeleteFollower begins with the same GetByID.                            *)

GetFollower(p) ==
    /\ At(p, "getFollower")
    /\ IF LiveRow(h[p].id)
       THEN h' = [h EXCEPT ![p].seen = followers[h[p].id],
                           ![p].pc = IF h[p].op = "DeleteFollower"
                                     THEN "deleteFollower" ELSE "updateStatus"]
       ELSE Answer(p)
    /\ UNCHANGED <<tables, redis, api, history>>

UpdateStatus(p) ==
    /\ At(p, "updateStatus")
    /\ \/ /\ SetStatus(h[p].id, Wanted(h[p]))
          /\ CommitTo(p, "subscribe", {h[p].id})
       \/ /\ ~LiveRow(h[p].id)
          /\ Answer(p)
          /\ UNCHANGED <<tables, history>>
    /\ UNCHANGED <<redis, api>>

\* SREM and SADD exchanged.
UpdateSubscriptionSwapped(p) ==
    /\ At(p, "subscribe")
    /\ IF h[p].op = "StopFollowing" THEN AddFollower(h[p].id)
                                    ELSE RemoveFollower(h[p].id)
    /\ Goto(p, "getInfo")
    /\ UNCHANGED <<tables, lookup, api, history>>

UpdateSubscription(p) ==
    /\ At(p, "subscribe")
    /\ IF h[p].op = "StartFollowing" THEN AddFollower(h[p].id)
                                     ELSE RemoveFollower(h[p].id)
    /\ Goto(p, "getInfo")
    /\ UNCHANGED <<tables, lookup, api, history>>

\* FastLookupStore.UpdateFollowerStatus: a GET and a SET.
UpdateFollowerStatus(p) ==
    /\ \/ /\ At(p, "getInfo")
          /\ IF HasInfo(h[p].id) THEN Goto(p, "setInfo") ELSE Answer(p)
          /\ UNCHANGED lookup
       \/ /\ At(p, "setInfo")
          /\ PutInfo(h[p].id, Wanted(h[p]))
          /\ Answer(p)
    /\ UNCHANGED <<tables, subs, api, history>>
-----------------------------------------------------------------------------
(* DeleteMaster *)

GetMaster(p) ==
    /\ At(p, "getMaster")
    /\ IF MasterExists(h[p].id) THEN Goto(p, "deleteMaster")
                                ELSE Answer(p)
    /\ UNCHANGED <<tables, redis, api, history>>

DeleteMasterRow(p) ==
    /\ At(p, "deleteMaster")
    /\ SoftDeleteMasterRow(h[p].id)
    /\ CommitTo(p, "evictMaster", {h[p].id} \cup RowsOf(h[p].id))
    /\ UNCHANGED <<redis, api>>

\* A cache that keeps the master.
EvictNothing(p) ==
    /\ At(p, "evictMaster")
    /\ Goto(p, "clearFollowers")
    /\ UNCHANGED <<tables, redis, api, history>>

EvictMaster(p) ==
    /\ At(p, "evictMaster")
    /\ apiCache' = apiCache \ {h[p].id}
    /\ Goto(p, "clearFollowers")
    /\ UNCHANGED <<tables, redis, phase, todo, adding, history>>

ClearMasterFollowers(p) ==
    /\ At(p, "clearFollowers")
    /\ ClearFollowers(h[p].id)
    /\ Answer(p)
    /\ UNCHANGED <<tables, lookup, api, history>>

(* DeleteFollower *)

\* The subscription is removed only if the status read by GetByID, which may
\* be out of date by now, was active.
DeleteFollowerRow(p) ==
    /\ At(p, "deleteFollower")
    /\ \/ /\ SoftDeleteFollowerRow(h[p].id)
          /\ CommitTo(p, IF h[p].seen = "active" THEN "unsubscribe" ELSE "getOwner",
                      {h[p].id})
       \/ /\ ~LiveRow(h[p].id)
          /\ Answer(p)
          /\ UNCHANGED <<tables, history>>
    /\ UNCHANGED <<redis, api>>

RemoveSubscription(p) ==
    /\ At(p, "unsubscribe")
    /\ RemoveFollower(h[p].id)
    /\ Goto(p, "getOwner")
    /\ UNCHANGED <<tables, lookup, api, history>>

\* The key follower:<id>:master forgotten.
UnregisterExceptOwner(p) ==
    /\ \/ /\ At(p, "getOwner")
          /\ IF HasOwner(h[p].id) THEN Goto(p, "dropMember") ELSE Answer(p)
          /\ UNCHANGED lookup
       \/ At(p, "dropMember") /\ DropMember(h[p].id) /\ Goto(p, "dropInfo")
       \/ At(p, "dropInfo") /\ DropInfo(h[p].id) /\ Answer(p)
    /\ UNCHANGED <<tables, subs, api, history>>

\* FastLookupStore.UnregisterFollower: a GET, whose miss ends it, and three
\* commands.
UnregisterFollower(p) ==
    /\ \/ /\ At(p, "getOwner")
          /\ IF HasOwner(h[p].id) THEN Goto(p, "dropMember") ELSE Answer(p)
          /\ UNCHANGED lookup
       \/ At(p, "dropMember") /\ DropMember(h[p].id) /\ Goto(p, "dropOwner")
       \/ At(p, "dropOwner") /\ DropOwner(h[p].id) /\ Goto(p, "dropInfo")
       \/ At(p, "dropInfo") /\ DropInfo(h[p].id) /\ Answer(p)
    /\ UNCHANGED <<tables, subs, api, history>>

-----------------------------------------------------------------------------
(* Failures: a database or Redis error, which the client's disconnection   *)
(* also causes because the calls use the request's context.                *)

StatementFails(p) ==
    /\ "db" \in Faults
    /\ h[p].pc \in DbSteps
    /\ Answer(p)
    /\ UNCHANGED <<tables, redis, api, history>>

\* A failed subscription command is logged and the handler goes on.
SubscriptionFails(p) ==
    /\ "redis" \in Faults
    /\ \/ At(p, "subscribe") /\ Goto(p, "getInfo")
       \/ At(p, "unsubscribe") /\ Goto(p, "getOwner")
       \/ At(p, "clearFollowers") /\ Answer(p)
    /\ suspect' = suspect \cup Touches(h[p])
    /\ UNCHANGED <<tables, redis, api, astray>>

\* A failed FastLookup command ends the store's method; the handler answers
\* success all the same.
LookupFails(p) ==
    /\ "redis" \in Faults
    /\ h[p].pc \in LookupSteps
    /\ Answer(p)
    /\ astray' = astray \cup Routes(h[p])
    /\ UNCHANGED <<tables, redis, api, suspect>>

\* The process ends: at any point, with every handler in it, or between
\* requests.
Crash ==
    /\ \/ "crash" \in Faults
       \/ "restart" \in Faults /\ \A p \in Handlers : At(p, "idle")
    /\ phase # "down"
    /\ phase' = "down"
    /\ apiCache' = {}
    /\ todo' = {}
    /\ adding' = {}
    /\ h' = [p \in Handlers |-> Idle]
    /\ suspect' = suspect \cup UNION {Touches(h[p]) : p \in Handlers}
    /\ astray' = astray \cup UNION {Routes(h[p]) : p \in Handlers}
    /\ UNCHANGED <<tables, redis>>

-----------------------------------------------------------------------------
(* Start of the process (cmd/api main, then StartServer) *)

\* LoadFromDB fills a cache that is still empty; an error while the rows are
\* read leaves in it those read so far.
LoadFromDB == \E loaded \in SUBSET LiveMasters :
                 /\ loaded = LiveMasters \/ "db" \in Faults
                 /\ apiCache' = loaded
                 /\ suspect' = (suspect \ Masters) \cup (LiveMasters \ loaded)

\* GetAll lists the followers that are not deleted, whatever their status;
\* their masters are the ones whose sets are rebuilt.
MainStart ==
    /\ phase = "down"
    /\ phase' = "syncing"
    /\ LoadFromDB
    /\ \/ todo' = {m \in Masters : LiveRowsOf(m) # {}}
       \/ "db" \in Faults /\ todo' = {}
    /\ UNCHANGED <<tables, redis, h, adding, astray>>

\* The pipeline of SyncFromFollowerList is not a transaction: each DEL and
\* each SADD takes effect by itself, in the order of a Go map.
SyncDel(m) ==
    /\ phase = "syncing"
    /\ adding = {}
    /\ m \in todo
    /\ ClearFollowers(m)
    /\ todo' = todo \ {m}
    /\ adding' = {m}
    /\ suspect' = suspect \cup LiveRowsOf(m)
    /\ UNCHANGED <<tables, lookup, h, phase, apiCache, astray>>

SyncAdd(m) ==
    /\ phase = "syncing"
    /\ m \in adding
    /\ AddFollowers(m, LiveRowsOf(m))
    /\ adding' = {}
    /\ suspect' = (suspect \ RowsOf(m))
                  \cup {f \in RowsOf(m) : followers[f] = "inactive"}
    /\ UNCHANGED <<tables, lookup, h, phase, apiCache, todo, astray>>

\* The rest of the pipeline is lost; the error is logged.
SyncFails ==
    /\ "redis" \in Faults
    /\ phase = "syncing"
    /\ todo # {} \/ adding # {}
    /\ todo' = {}
    /\ adding' = {}
    /\ UNCHANGED <<tables, redis, h, phase, apiCache, history>>

\* StartServer loads the cache a second time; a query that fails leaves it as it is.
StartServer ==
    /\ phase = "syncing"
    /\ todo = {} /\ adding = {}
    /\ phase' = "serving"
    /\ LoadFromDB
    /\ UNCHANGED <<tables, redis, h, todo, adding, astray>>

Start == \/ MainStart
         \/ \E m \in Masters : SyncDel(m) \/ SyncAdd(m)
         \/ SyncFails
         \/ StartServer

-----------------------------------------------------------------------------
Init ==
    /\ masters = [m \in Masters |-> "absent"]
    /\ followers = [f \in Rows |-> "absent"]
    /\ subs = [m \in Masters |-> {}]
    /\ lookup = NoLookupKeys
    /\ h = [p \in Handlers |-> Idle]
    /\ phase = "down"
    /\ apiCache = {}
    /\ todo = {} /\ adding = {}
    /\ suspect = {} /\ astray = {}

Handle(p) ==
    \/ RequestCreateMaster(p) \/ RequestRegisterFollower(p)
    \/ RequestFollowerOp(p) \/ RequestDeleteMaster(p)
    \/ CreateMasterInsert(p) \/ CreateMasterCache(p) \/ RegisterMaster(p)
    \/ VerifyMaster(p) \/ CreateFollowerInsert(p) \/ RegisterFollower(p)
    \/ GetFollower(p) \/ UpdateStatus(p)
    \/ UpdateSubscription(p) \/ UpdateFollowerStatus(p)
    \/ GetMaster(p) \/ DeleteMasterRow(p)
    \/ EvictMaster(p) \/ ClearMasterFollowers(p)
    \/ DeleteFollowerRow(p) \/ RemoveSubscription(p) \/ UnregisterFollower(p)
    \/ StatementFails(p) \/ SubscriptionFails(p) \/ LookupFails(p)

Next == (\E p \in Handlers : Handle(p)) \/ Crash \/ Start

Spec == Init /\ [][Next]_vars
-----------------------------------------------------------------------------
(* Properties *)

TypeOK ==
    /\ TablesOK
    /\ KeysOK
    /\ h \in [Handlers -> HandlerRecords]
    /\ phase \in {"down", "syncing", "serving"}
    /\ apiCache \subseteq Masters
    /\ todo \subseteq Masters
    /\ adding \subseteq Masters
    /\ suspect \subseteq Rows \cup Masters
    /\ astray \subseteq Rows

\* The table has changed and the subscription set not yet.
SetPending(f) == \E p \in Handlers : /\ f \in Touches(h[p])
                                     /\ h[p].pc \in SubSteps \cup {"evictMaster"}

\* Unless one of the named causes intervened (handlers overlapping on the
\* row, a failed call, a crash in a handler, a restart that listed the row as
\* inactive), an account is in its master's Redis set exactly when its row is
\* active, outside the window between a handler's two writes: the bridge can
\* neither miss an active follower nor keep a stopped or deleted one.
SubscriptionAgreement ==
    \A f \in Rows \ suspect :
        SetPending(f) \/ (Subscribed(f) <=> followers[f] = "active")

\* The API's master cache holds exactly the live masters, outside the window
\* between a handler's statement and its cache update, unless the database's
\* acknowledgement was lost or could not be read at start: no order of
\* CreateMaster and DeleteMaster leaves a deleted master in the cache.
CacheAgreement ==
    phase = "serving" =>
        \A m \in Masters \ suspect :
            \/ \E p \in Handlers : h[p].id = m /\ h[p].pc \in CacheSteps
            \/ m \in apiCache <=> MasterExists(m)

LookupPending(f) == \E p \in Handlers :
                       /\ f \in Routes(h[p])
                       /\ h[p].pc \in LookupSteps \cup {"subscribe", "unsubscribe"}

\* Outside handlers in progress, overlaps and failures, a live row has all its
\* FastLookup keys, with its status if its master is live (DeleteMaster leaves
\* the keys), and a deleted row has none: UpdateFollowerStatus's GET and SET
\* cannot bring back the key of an unregistered follower.
LookupAgreement ==
    \A f \in Rows \ astray :
        \/ LookupPending(f)
        \/ /\ LiveRow(f)
           /\ f \in lookup.members \cap lookup.owners
           /\ MasterExists(MasterOf(f)) => lookup.info[f] = followers[f]
        \/ /\ ~LiveRow(f)
           /\ f \notin lookup.members \cup lookup.owners
           /\ lookup.info[f] = "none"

\* A soft-deleted follower stays deleted: a StartFollowing that read the row
\* before DeleteFollower's statement cannot activate it afterwards.
DeletedIsFinal ==
    [][\A f \in Rows : followers[f] = "deleted" => followers'[f] = "deleted"]_vars

\* Under the paths SetupRoutes mounts no row is ever active: parts[2] is the
\* segment "followers", an id no row has.
NeverActivated == \A f \in Rows : followers[f] # "active"

\* "POST /api/followers/{followerId}/start" (routes.go:50): the id the
\* handler looks up is the {followerId} of the path.
IdFromPath == \A p \in Handlers : h[p].op \in FollowerOps => h[p].id \in Rows

\* "Add all active followers" (subscription_store.go:122): the start adds only
\* accounts of active rows to the sets.
SyncAddsActive ==
    [][\A f \in Rows : phase = "syncing" /\ ~Subscribed(f) /\ Subscribed(f)'
                          => followers[f] = "active"]_vars
=============================================================================
