------------------------------ MODULE RedisKeys ------------------------------
(***************************************************************************)
(* The Redis keys of the copy-trading system and the commands              *)
(* internal/redis sends for them: the subscription sets of                 *)
(* SubscriptionStore, which the TCP bridge reads when it distributes a     *)
(* signal, and the routing keys of FastLookupStore.  Every operator is one *)
(* Redis command, hence atomic; a method that sends several commands is    *)
(* several steps of its caller.                                            *)
(***************************************************************************)
EXTENDS Repository

VARIABLES subs,    \* [Masters -> SUBSET Accounts]: the sets subscribe:<master>
          lookup   \* the keys of FastLookupStore

redis == <<subs, lookup>>

(* lookup.info[f] is the status field of follower:<id>, "none" without the *)
(* key; lookup.members are the rows in master:<id>:followers; lookup.owners *)
(* those with a key follower:<id>:master; lookup.masters the keys           *)
(* master:<id>; lookup.active the set masters:active.                       *)
LookupKeys == [info    : [Rows -> Statuses \cup {"none"}],
               members : SUBSET Rows,
               owners  : SUBSET Rows,
               masters : SUBSET Masters,
               active  : SUBSET Masters]

NoLookupKeys == [info    |-> [f \in Rows |-> "none"],
                 members |-> {},
                 owners  |-> {},
                 masters |-> {},
                 active  |-> {}]

KeysOK == /\ subs \in [Masters -> SUBSET Accounts]
          /\ lookup \in LookupKeys

-----------------------------------------------------------------------------
(* SubscriptionStore *)

Subscribed(f) == AccountOf(f) \in subs[MasterOf(f)]

\* The row's id added instead of the account.
AddFollowerId(f) == subs' = [subs EXCEPT ![MasterOf(f)] = @ \cup {f}]

AddFollower(f) ==
    subs' = [subs EXCEPT ![MasterOf(f)] = @ \cup {AccountOf(f)}]

\* The SREM sent to another master's set.
RemoveFromEverySetButOne(f) ==
    subs' = [m \in Masters |-> IF m = MasterOf(f) THEN subs[m]
                               ELSE subs[m] \ {AccountOf(f)}]

RemoveFollower(f) ==
    subs' = [subs EXCEPT ![MasterOf(f)] = @ \ {AccountOf(f)}]

ClearFollowers(m) == subs' = [subs EXCEPT ![m] = {}]

\* The SADD of a sync: the accounts of the given rows of m.
AddFollowers(m, rows) ==
    subs' = [subs EXCEPT ![m] = @ \cup {AccountOf(f) : f \in rows}]

-----------------------------------------------------------------------------
(* FastLookupStore *)

PutMaster(m)       == lookup' = [lookup EXCEPT !.masters = @ \cup {m}]
PutActiveMaster(m) == lookup' = [lookup EXCEPT !.active = @ \cup {m}]

PutInfo(f, status) == lookup' = [lookup EXCEPT !.info[f] = status]
PutMember(f)       == lookup' = [lookup EXCEPT !.members = @ \cup {f}]
PutOwner(f)        == lookup' = [lookup EXCEPT !.owners = @ \cup {f}]

DropInfo(f)        == lookup' = [lookup EXCEPT !.info[f] = "none"]

\* The set's member looked up by account.
DropMemberByAccount(f) ==
    lookup' = [lookup EXCEPT !.members = {x \in @ : AccountOf(x) # AccountOf(f)}]

DropMember(f)      == lookup' = [lookup EXCEPT !.members = @ \ {f}]
DropOwner(f)       == lookup' = [lookup EXCEPT !.owners = @ \ {f}]

HasInfo(f)  == lookup.info[f] # "none"
HasOwner(f) == f \in lookup.owners
=============================================================================
