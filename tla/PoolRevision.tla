---------------------------- MODULE PoolRevision ----------------------------
(***************************************************************************)
(* What the writers of ip_pool promise its readers.                        *)
(*                                                                         *)
(* ip_pool holds one row per known-good address.  pool_revision is a       *)
(* singleton: version is bumped first in every db.batch() that may change  *)
(* a row a reader can see, every row the batch touches is stamped with the *)
(* new version, and a batch that deletes rows also raises reset_version,   *)
(* because a deleted row has no revision to carry (migrations 0010, 0015). *)
(*                                                                         *)
(* This is the abstract specification: Store.tla, the detailed model of    *)
(* the writers, is checked to implement it, and PoolSync.tla puts the      *)
(* readers on top of it.  EvictTombstone is a faulty variant of Evict,     *)
(* used to show that the properties notice.                                *)
(***************************************************************************)
EXTENDS Integers

CONSTANTS
    IPs,        \* addresses
    Vals,       \* what a reader can see of a row besides its revision
    NoRow       \* "ip_pool has no row for this address"

Rows == [rev : Nat, val : Vals]

Pools == [IPs -> Rows \cup {NoRow}]

ASSUME NoRowAssumption == NoRow \notin Rows

VARIABLES
    pool,          \* ip_pool: the visible part of each row
    version,       \* pool_revision.version
    resetVersion   \* pool_revision.reset_version

poolVars == <<pool, version, resetVersion>>

PoolTypeOK ==
    /\ pool \in Pools
    /\ version \in Nat
    /\ resetVersion \in Nat

PoolInit ==
    /\ pool = [ip \in IPs |-> NoRow]
    /\ version = 0
    /\ resetVersion = 0

(***************************************************************************)
(* A batch that inserts or updates the rows of `touched'.  The set may be  *)
(* empty: the bump is unconditional, while a failure UPDATE can be gated   *)
(* and a PTR UPDATE can name an address that is not in the pool.           *)
(***************************************************************************)
Publish(touched, val) ==
    /\ version' = version + 1
    /\ pool' = [ip \in IPs |->
                  IF ip \in touched
                  THEN [rev |-> version + 1, val |-> val[ip]]
                  ELSE pool[ip]]
    /\ UNCHANGED resetVersion

(***************************************************************************)
(* The eviction batch of pruneCheckHistory.  `dead' may be empty too: the  *)
(* DELETE re-checks NOT EXISTS, the bump and the reset do not.             *)
(***************************************************************************)
EvictTombstone(dead) ==
    /\ version' = version + 1
    /\ resetVersion' = version + 1
    /\ pool' = [ip \in IPs |-> IF ip \in dead THEN [rev |-> version + 1, val |-> NoRow]
                                              ELSE pool[ip]]

Evict(dead) ==
    /\ version' = version + 1
    /\ resetVersion' = version + 1
    /\ pool' = [ip \in IPs |-> IF ip \in dead THEN NoRow ELSE pool[ip]]

PoolNext ==
    \/ \E touched \in SUBSET IPs : \E val \in [touched -> Vals] : Publish(touched, val)
    \/ \E dead \in SUBSET IPs : Evict(dead)

PoolSpec == PoolInit /\ [][PoolNext]_poolVars

=============================================================================
