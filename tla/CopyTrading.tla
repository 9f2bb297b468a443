----------------------------- MODULE CopyTrading -----------------------------
(***************************************************************************)
(* The API composed with the TCP bridge's side of copy trading (cmd/tcp,   *)
(* initMasterFollower and distributeToFollowers).  The two processes share *)
(* nothing but PostgreSQL and Redis: the bridge has a master cache of its  *)
(* own, loaded once when it starts, and for every signal of a cached       *)
(* master it reads the Redis set and then the rows of the accounts in it,  *)
(* while API handlers write both.                                          *)
(*                                                                         *)
(* The orders of a delivery are handed to SignalDistributor, which has a   *)
(* module of its own; here a delivery ends with the rows it hands over.    *)
(***************************************************************************)
EXTENDS CopyTradingAPI

CONSTANTS Deliveries,   \* signals the bridge distributes at the same time
          BridgeFaults  \* kinds of failure the bridge's calls may meet

ASSUME BridgeFaultsAssumption == BridgeFaults \subseteq {"db", "redis"}

VARIABLES bridgeCache, \* masters in the bridge process's MasterCache
          d,           \* [Deliveries -> delivery record]
          buried       \* history: masters that had been deleted when the bridge started

bridge == <<bridgeCache, d, buried>>

\* accounts and rows are the results of the two reads.  steady and activeSince
\* are history: the rows of the master that were subscribed when the signal
\* arrived and have been active and not suspect ever since, and the rows that
\* were active at some time since.
DeliveryRecords ==
    [pc : {"idle", "getFollowers", "getDetails", "distribute", "finished", "failed"},
     master      : Masters \cup {NoId},
     accounts    : SUBSET Accounts,
     rows        : SUBSET Rows,
     steady      : SUBSET Rows,
     activeSince : SUBSET Rows]

NoDelivery == [pc |-> "idle", master |-> NoId, accounts |-> {}, rows |-> {},
               steady |-> {}, activeSince |-> {}]

InFlight(x) == d[x].pc \in {"getFollowers", "getDetails"}

ActiveRows == {f \in Rows : followers[f] = "active"}

-----------------------------------------------------------------------------
(* initMasterFollower *)

\* A bridge (re)start: the cache is read here and never again.  A database
\* that cannot be reached leaves it empty, and the feature disabled; one that
\* fails while the rows are read leaves it incomplete.
BridgeStart ==
    /\ \E loaded \in SUBSET LiveMasters :
          /\ loaded = LiveMasters \/ "db" \in BridgeFaults
          /\ bridgeCache' = loaded
    /\ d' = [x \in Deliveries |-> NoDelivery]
    /\ buried' = {m \in Masters : masters[m] = "deleted"}
    /\ UNCHANGED vars

(* processSignal's goroutine, then distributeToFollowers *)

\* isMasterSignal: a signal of an account that is not cached goes no further.
IsMasterSignal(x, m) ==
    /\ d[x].pc = "idle"
    /\ m \in bridgeCache
    /\ d' = [d EXCEPT ![x] = [NoDelivery EXCEPT
                  !.pc = "getFollowers", !.master = m,
                  !.steady = {f \in RowsOf(m) \cap (ActiveRows \ suspect) : Subscribed(f)},
                  !.activeSince = ActiveRows]]
    /\ UNCHANGED <<vars, bridgeCache, buried>>

GetFollowers(x) ==
    /\ d[x].pc = "getFollowers"
    /\ LET ids == subs[d[x].master]
       IN  d' = [d EXCEPT ![x].accounts = ids,
                          ![x].pc = IF ids = {} THEN "finished" ELSE "getDetails"]
    /\ UNCHANGED <<vars, bridgeCache, buried>>

\* GetByAccountIDs of the set read before, whatever has changed since.
GetFollowerDetails(x) ==
    /\ d[x].pc = "getDetails"
    /\ LET found == RowsByAccounts(d[x].accounts)
       IN  d' = [d EXCEPT ![x].rows = found,
                          ![x].pc = IF found = {} THEN "finished" ELSE "distribute"]
    /\ UNCHANGED <<vars, bridgeCache, buried>>

Distribute(x) ==
    /\ d[x].pc = "distribute"
    /\ d' = [d EXCEPT ![x].pc = "finished"]
    /\ UNCHANGED <<vars, bridgeCache, buried>>

\* A failed read taken for an empty result.
ReadErrorIgnored(x) ==
    /\ \/ d[x].pc = "getFollowers" /\ "redis" \in BridgeFaults
       \/ d[x].pc = "getDetails" /\ "db" \in BridgeFaults
    /\ d' = [d EXCEPT ![x].pc = "finished"]
    /\ UNCHANGED <<vars, bridgeCache, buried>>

\* A failed read is logged and the signal is not distributed.
ReadFails(x) ==
    /\ \/ d[x].pc = "getFollowers" /\ "redis" \in BridgeFaults
       \/ d[x].pc = "getDetails" /\ "db" \in BridgeFaults
    /\ d' = [d EXCEPT ![x].pc = "failed"]
    /\ UNCHANGED <<vars, bridgeCache, buried>>

GoroutineEnds(x) ==
    /\ d[x].pc \in {"finished", "failed"}
    /\ d' = [d EXCEPT ![x] = NoDelivery]
    /\ UNCHANGED <<vars, bridgeCache, buried>>

Deliver(x) == \/ \E m \in Masters : IsMasterSignal(x, m)
              \/ GetFollowers(x) \/ GetFollowerDetails(x) \/ Distribute(x)
              \/ ReadFails(x) \/ GoroutineEnds(x)

\* A step of the API, with the history of the deliveries brought up to date.
APIStep ==
    /\ Next
    /\ d' = [x \in Deliveries |->
                IF InFlight(x)
                THEN [d[x] EXCEPT !.steady = @ \cap (ActiveRows' \ suspect'),
                                  !.activeSince = @ \cup ActiveRows']
                ELSE d[x]]
    /\ UNCHANGED <<bridgeCache, buried>>

-----------------------------------------------------------------------------
CTInit == /\ Init
          /\ bridgeCache = {} /\ buried = {}
          /\ d = [x \in Deliveries |-> NoDelivery]

CTNext == APIStep \/ BridgeStart \/ \E x \in Deliveries : Deliver(x)

CTSpec == CTInit /\ [][CTNext]_<<vars, bridge>>

-----------------------------------------------------------------------------
(* Properties *)

CTTypeOK == /\ TypeOK
            /\ bridgeCache \subseteq Masters
            /\ d \in [Deliveries -> DeliveryRecords]
            /\ buried \subseteq Masters

\* No active follower is missed: a delivery that ends without an error has
\* handed over every row of its master that was subscribed when the signal
\* arrived and stayed active, with no failure, restart or overlap on it, until
\* the rows were read, however handlers interleave with the two reads.
NoFollowerMissed ==
    \A x \in Deliveries :
        d[x].pc \in {"distribute", "finished"} => d[x].steady \subseteq d[x].rows

\* No stopped or deleted follower is traded for: whatever the Redis set holds
\* (stale members included), a row handed over was active at some moment
\* between the signal's arrival and the second read; a stop that was complete
\* before the signal arrived is obeyed.
StopIsObeyed ==
    \A x \in Deliveries : d[x].rows \subseteq d[x].activeSince

\* The bridge may go on copying a master deleted since it started, but a restart
\* ends that for good: no signal of a master that was deleted by then is ever
\* distributed, though its followers can still be started, which puts them into a
\* set again, and though the account may ask to be registered again.
DeletedIsNotCopied ==
    \A x \in Deliveries : d[x].master \notin buried

\* "distributes a master signal to all active followers" (signal_distributor.go:37),
\* the rows being those of the master whose set was read.
OwnFollowersOnly ==
    \A x \in Deliveries : d[x].rows \subseteq RowsOf(d[x].master)
=============================================================================
