----------------------------- MODULE Repository -----------------------------
(***************************************************************************)
(* The two PostgreSQL tables of the copy-trading system and the statements *)
(* internal/repository runs on them.  Every operator below is one          *)
(* statement (or one transaction), so it is atomic; the interleavings are  *)
(* those of the programs that run the statements.                          *)
(*                                                                         *)
(* A master row is named by its account: account_id is UNIQUE over live    *)
(* and soft-deleted rows together, so an account has at most one row, and  *)
(* one id, for ever.  A follower row is named by <<master, account>>, the  *)
(* pair the table's UNIQUE constraint covers, for the same reason.         *)
(***************************************************************************)
EXTENDS Naturals, FiniteSets

CONSTANTS Masters,   \* rows the masters table can hold
          Accounts   \* trading accounts that can follow a master

Rows == Masters \X Accounts

MasterOf(f)  == f[1]
AccountOf(f) == f[2]
RowsOf(m)    == {m} \X Accounts

MasterStates   == {"absent", "live", "deleted"}
Statuses       == {"inactive", "active"}
FollowerStates == Statuses \cup {"absent", "deleted"}

VARIABLES masters,    \* [Masters -> MasterStates]: the masters table
          followers   \* [Rows -> FollowerStates]: the followers table

tables == <<masters, followers>>

TablesOK == /\ masters \in [Masters -> MasterStates]
            /\ followers \in [Rows -> FollowerStates]

-----------------------------------------------------------------------------
(* MasterRepository *)

MasterExists(m) == masters[m] = "live"

\* LoadFromDB's statement without its deleted_at IS NULL.
KnownMasters == {m \in Masters : masters[m] # "absent"}

LiveMasters == {m \in Masters : MasterExists(m)}

\* Create: the UNIQUE constraint also counts soft-deleted rows.
MasterDuplicate(m) == masters[m] # "absent"

InsertMaster(m) == /\ ~MasterDuplicate(m)
                   /\ masters' = [masters EXCEPT ![m] = "live"]
                   /\ UNCHANGED followers

\* A cascade that forgets the followers.
SoftDeleteMasterOnly(m) == /\ masters' = [masters EXCEPT ![m] = "deleted"]
                           /\ UNCHANGED followers

\* SoftDelete: one transaction; the followers it deactivates are not deleted.
SoftDeleteMasterRow(m) ==
    /\ masters' = [masters EXCEPT ![m] = "deleted"]
    /\ followers' = [f \in Rows |->
                        IF MasterOf(f) = m /\ followers[f] \in Statuses
                        THEN "inactive" ELSE followers[f]]

-----------------------------------------------------------------------------
(* FollowerRepository *)

LiveRow(f) == f \in Rows /\ followers[f] \in Statuses

LiveRowsOf(m) == {f \in RowsOf(m) : LiveRow(f)}

FollowerDuplicate(f) == followers[f] # "absent"

InsertFollower(f) == /\ ~FollowerDuplicate(f)
                     /\ followers' = [followers EXCEPT ![f] = "inactive"]
                     /\ UNCHANGED masters

\* UpdateStatus without its WHERE ... deleted_at IS NULL.
SetStatusOfAnyRow(f, status) ==
    /\ f \in Rows
    /\ followers' = [followers EXCEPT ![f] = status]
    /\ UNCHANGED masters

\* UpdateStatus: zero affected rows (the ELSE of its callers) is ErrNotFound.
SetStatus(f, status) ==
    /\ LiveRow(f)
    /\ followers' = [followers EXCEPT ![f] = status]
    /\ UNCHANGED masters

SoftDeleteFollowerRow(f) == /\ LiveRow(f)
                            /\ followers' = [followers EXCEPT ![f] = "deleted"]
                            /\ UNCHANGED masters

\* The same without its status = 'active'.
LiveRowsByAccounts(accounts) ==
    {f \in Rows : AccountOf(f) \in accounts /\ LiveRow(f)}

\* GetByAccountIDs: the statement does not look at master_id.
RowsByAccounts(accounts) ==
    {f \in Rows : AccountOf(f) \in accounts /\ followers[f] = "active"}
=============================================================================
