------------------------------- MODULE Store --------------------------------
(***************************************************************************)
(* The writers of the D1 database: POST /ingest (the scanner's batches),   *)
(* /check and /recheck/result (on-demand probes, the same sequence of      *)
(* calls), the history pruning that follows each of them, and the PTR      *)
(* refresh, over the tables ip_checks, ip_pool, pool_revision, ptr_cache.  *)
(*                                                                         *)
(* D1 executes one db.batch() or one statement atomically; every await of  *)
(* a handler is a step of its own, so requests interleave between any two  *)
(* statements.  A request can die at any of them, and the scanner sends    *)
(* the batch of a failed or timed-out request again.                       *)
(*                                                                         *)
(* Times are small numbers: every probe takes a time of its own.  Chunking *)
(* (MAX_BATCH, POOL_UPSERT_CHUNK, PRUNE_IP_CHUNK) is left out: a request   *)
(* fits one chunk.                                                         *)
(*                                                                         *)
(* A definition placed before another whose name it extends is a faulty    *)
(* variant of it, used to show that the properties notice: no              *)
(* specification uses it.                                                  *)
(***************************************************************************)
EXTENDS Integers, FiniteSets

CONSTANTS
    IPs,          \* addresses
    NoRow,        \* "ip_pool has no row for this address"
    Requests,     \* slots for requests under way at the same time
    Retention,    \* CHECK_HISTORY_RETENTION
    Window,       \* FAILURE_DEDUP_WINDOW_MS
    OnDemand,     \* addresses that visitors probe on demand
    Slow,         \* whether time passes between the two gates of one ingest
    MaxTime,      \* bound on the clock
    MaxRetries,   \* bound on ingest requests that fail and are sent again
    MaxZombies,   \* bound on ingest requests that outlive their client
    MaxDrops,     \* bound on on-demand requests that die half-way
    MaxPTR        \* bound on PTR updates of one address

ASSUME StoreAssumption ==
    /\ Retention \in Nat \ {0}
    /\ Window \in Nat
    /\ OnDemand \subseteq IPs
    /\ Slow \in BOOLEAN
    /\ {MaxTime, MaxRetries, MaxZombies, MaxDrops, MaxPTR} \subseteq Nat

VARIABLES
    checks,        \* ip_checks: per address, its rows
    pool,          \* ip_pool
    version,       \* pool_revision.version
    resetVersion,  \* pool_revision.reset_version
    ptr,           \* ptr_cache: per address, which hostname is cached
    now,           \* wall clock
    buf,           \* the scanner's buffer of results not yet sent
    req,           \* the request in each slot
    faults         \* failures so far, by kind

dbVars == <<checks, pool, version, resetVersion, ptr>>
vars == <<dbVars, now, buf, req, faults>>

Times == 0..MaxTime
CheckRows == [ip : IPs, ts : Times, ok : BOOLEAN]
HistoryRows == [ts : Times, ok : BOOLEAN]

\* ok: last_check_ok, at: last_checked_at, last: last_seen, seen: times_seen,
\* cnt: history_count, rev: revision
PoolRows == [ok : BOOLEAN, at : Times, last : Times, seen : Nat, cnt : Nat, rev : Nat]

ASSUME StoreNoRowAssumption == NoRow \notin PoolRows

IngestPCs == {"insert", "update"}
ProbePCs == {"known", "save", "touch", "add"}
PrunePCs == {"over", "delete", "dead", "evict"}
PCs == {"idle", "done"} \cup IngestPCs \cup ProbePCs \cup PrunePCs

\* kind: which handler; rows: the checks in the body; prune: the addresses to
\* prune; sel: the addresses the last SELECT of pruneCheckHistory returned;
\* zombie: the client has given up on it.
ReqRecords == [pc : PCs, kind : {"none", "ingest", "probe"}, rows : SUBSET CheckRows,
               prune : SUBSET IPs, sel : SUBSET IPs, zombie : BOOLEAN]

NoReq == [pc |-> "idle", kind |-> "none", rows |-> {}, prune |-> {}, sel |-> {},
          zombie |-> FALSE]

TypeOK ==
    /\ checks \in [IPs -> SUBSET HistoryRows]
    /\ pool \in [IPs -> PoolRows \cup {NoRow}]
    /\ version \in Nat
    /\ resetVersion \in Nat
    /\ ptr \in [IPs -> 0..MaxPTR]
    /\ now \in Times
    /\ buf \in SUBSET CheckRows
    /\ req \in [Requests -> ReqRecords]
    /\ faults \in [{"retry", "zombie", "drop"} -> Nat]

Init ==
    /\ checks = [ip \in IPs |-> {}]
    /\ pool = [ip \in IPs |-> NoRow]
    /\ version = 0
    /\ resetVersion = 0
    /\ ptr = [ip \in IPs |-> 0]
    /\ now = 0
    /\ buf = {}
    /\ req = [r \in Requests |-> NoReq]
    /\ faults = [k \in {"retry", "zombie", "drop"} |-> 0]

-----------------------------------------------------------------------------
(* Operators on tables and batches                                         *)

InPool(ip) == pool[ip] # NoRow

Of(rows, ip) == {c \in rows : c.ip = ip}

LatestFirst(rows) == CHOOSE c \in rows : \A d \in rows : d.ts >= c.ts

Latest(rows) == CHOOSE c \in rows : \A d \in rows : d.ts <= c.ts

Successes(rows) == {c \in rows : c.ok}

\* coalesceCheckRows: per address its latest row, and its latest success
Coalesced(rows) ==
    {c \in rows : \/ c = Latest(Of(rows, c.ip))
                  \/ c.ok /\ c = Latest(Successes(Of(rows, c.ip)))}

\* the gate of insertCheckSQL and failureGateSQL: a failure counts when the
\* pool row was up, or was last checked before the dedup window
GateOpen(ip) == InPool(ip) /\ (pool[ip].ok \/ pool[ip].at < now - Window)

\* one INSERT ... ON CONFLICT(ip, checked_at) DO NOTHING per row
Inserted(ip, rows) ==
    checks[ip] \cup {[ts |-> c.ts, ok |-> c.ok] : c \in
        {c \in Of(rows, ip) : \A h \in checks[ip] : h.ts # c.ts}}

\* historyCountIncrSQL: rows newer than the row's previous last_checked_at
RecountOne(ip) == pool[ip].cnt + 1

RecountDown(ip) == pool[ip].cnt - Cardinality({h \in checks[ip] : h.ts > pool[ip].at})

Recount(ip) == pool[ip].cnt + Cardinality({h \in checks[ip] : h.ts > pool[ip].at})

\* ROW_NUMBER() OVER (PARTITION BY ip ORDER BY checked_at DESC) <= retention
RetainedOneMore(history) ==
    {h \in history : Cardinality({g \in history : g.ts > h.ts}) <= Retention}

Retained(history) ==
    {h \in history : Cardinality({g \in history : g.ts > h.ts}) < Retention}

\* the revision a row gets from the batch that touches it
StampedOld(row) == row

Stamped(row) == [row EXCEPT !.rev = version + 1]

HasSuccess(ip) == \E h \in checks[ip] : h.ok

Goto(r, pc) == req' = [req EXCEPT ![r].pc = pc]

-----------------------------------------------------------------------------
(* Probes, the clock, and the scanner as the client of /ingest             *)

TimePasses ==
    /\ now < MaxTime
    /\ Slow \/ \A r \in Requests : req[r].pc # "update"
    /\ now' = now + 1

\* A scan or recheck worker records the result of a probe.
Scan(ip, ok) ==
    /\ TimePasses
    /\ buf' = buf \cup {[ip |-> ip, ts |-> now + 1, ok |-> ok]}
    /\ UNCHANGED <<dbVars, req, faults>>

Tick ==
    /\ TimePasses
    /\ UNCHANGED <<dbVars, buf, req, faults>>

\* The flusher, one goroutine: no batch is sent while it waits for the
\* response to another.  A maintenance request also names addresses to prune,
\* and is sent without any checks when there are none.
Submit(r, prune) ==
    /\ req[r].pc = "idle"
    /\ buf # {} \/ prune # {}
    /\ \A q \in Requests : req[q].kind = "ingest" => req[q].zombie
    /\ req' = [req EXCEPT ![r] = [pc |-> "insert", kind |-> "ingest", rows |-> buf,
                                  prune |-> prune, sel |-> {}, zombie |-> FALSE]]
    /\ buf' = {}
    /\ UNCHANGED <<dbVars, now, faults>>

\* A probe on demand: the result is stamped when the probe server answers
\* (/check) or by the client (/recheck/result), and saved later.
Probe(r, ip, ok) ==
    /\ req[r].pc = "idle"
    /\ TimePasses
    /\ req' = [req EXCEPT ![r] = [pc |-> IF ok THEN "save" ELSE "known", kind |-> "probe",
                                  rows |-> {[ip |-> ip, ts |-> now + 1, ok |-> ok]},
                                  prune |-> {ip}, sel |-> {}, zombie |-> FALSE]]
    /\ UNCHANGED <<dbVars, buf, faults>>

-----------------------------------------------------------------------------
(* POST /ingest                                                            *)

\* Successes always go in, and with them the failures of the same address; a
\* failure alone only through the gate.
InsertCheckRows(r) ==
    /\ req[r].pc = "insert"
    /\ LET rows == Coalesced(req[r].rows)
       IN checks' = [ip \in IPs |->
            IF Successes(Of(rows, ip)) # {} \/ GateOpen(ip)
            THEN Inserted(ip, rows) ELSE checks[ip]]
    /\ Goto(r, "update")
    /\ UNCHANGED <<pool, version, resetVersion, ptr, now, buf, faults>>

\* One batch: bump, then an upsert per address with a success and a gated
\* UPDATE per address without one; nothing at all for a request without checks.
UpdatePoolBatch(r) ==
    /\ req[r].pc = "update"
    /\ version' = IF req[r].rows = {} THEN version ELSE version + 1
    /\ pool' = [ip \in IPs |->
         LET rows == Of(req[r].rows, ip)
             latest == Latest(rows)
             success == Latest(Successes(rows))
         IN IF Successes(rows) # {}
            THEN [ok |-> latest.ok, at |-> latest.ts, last |-> success.ts,
                  seen |-> IF InPool(ip) THEN pool[ip].seen + 1 ELSE 1,
                  cnt |-> IF InPool(ip) THEN Recount(ip) ELSE Cardinality(checks[ip]),
                  rev |-> version + 1]
            ELSE IF rows # {} /\ GateOpen(ip)
            THEN Stamped([pool[ip] EXCEPT !.ok = FALSE, !.at = latest.ts, !.cnt = Recount(ip)])
            ELSE pool[ip]]
    /\ Goto(r, IF req[r].prune = {} THEN "done" ELSE "over")
    /\ UNCHANGED <<checks, resetVersion, ptr, now, buf, faults>>

-----------------------------------------------------------------------------
(* /check and /recheck/result                                              *)

Row(r) == CHOOSE c \in req[r].rows : TRUE

\* saveRecheckResult records a failure only for a known-good address, and asks
\* first.
IsKnownGood(r) ==
    /\ req[r].pc = "known"
    /\ Goto(r, IF InPool(Row(r).ip) THEN "save" ELSE "touch")
    /\ UNCHANGED <<dbVars, now, buf, faults>>

SaveRecheckResult(r) ==
    /\ req[r].pc = "save"
    /\ LET c == Row(r)
       IN checks' = [checks EXCEPT ![c.ip] = Inserted(c.ip, {c})]
    /\ Goto(r, "touch")
    /\ UNCHANGED <<pool, version, resetVersion, ptr, now, buf, faults>>

\* a success that found no row to update inserts one
AfterTouchOver(c) == "over"

AfterTouch(c) == IF c.ok /\ ~InPool(c.ip) THEN "add" ELSE "over"

\* updatePoolForCheck, its UPDATE: no gate.
UpdatePoolForCheck(r) ==
    /\ req[r].pc = "touch"
    /\ version' = version + 1
    /\ LET c == Row(r)
       IN /\ pool' = [ip \in IPs |->
               IF ip = c.ip /\ InPool(ip)
               THEN [ok |-> c.ok, at |-> c.ts,
                     last |-> IF c.ok THEN c.ts ELSE pool[ip].last,
                     seen |-> IF c.ok THEN pool[ip].seen + 1 ELSE pool[ip].seen,
                     cnt |-> Recount(ip),
                     rev |-> version + 1]
               ELSE pool[ip]]
          /\ Goto(r, AfterTouch(c))
    /\ UNCHANGED <<checks, resetVersion, ptr, now, buf, faults>>

\* updatePoolForCheck, its INSERT ... ON CONFLICT DO UPDATE.
InsertPoolForCheck(r) ==
    /\ req[r].pc = "add"
    /\ version' = version + 1
    /\ LET c == Row(r)
       IN pool' = [ip \in IPs |->
            IF ip = c.ip
            THEN [ok |-> TRUE, at |-> c.ts, last |-> c.ts,
                  seen |-> IF InPool(ip) THEN pool[ip].seen + 1 ELSE 1,
                  cnt |-> Cardinality(checks[ip]),
                  rev |-> version + 1]
            ELSE pool[ip]]
    /\ Goto(r, "over")
    /\ UNCHANGED <<checks, resetVersion, ptr, now, buf, faults>>

-----------------------------------------------------------------------------
(* pruneCheckHistory, four statements                                      *)

Select(r, sel, found, none) ==
    req' = [req EXCEPT ![r].sel = sel, ![r].pc = IF sel = {} THEN none ELSE found]

PruneSelectOver(r) ==
    /\ req[r].pc = "over"
    /\ Select(r, {ip \in req[r].prune : InPool(ip) /\ pool[ip].cnt > Retention},
              "delete", "dead")
    /\ UNCHANGED <<dbVars, now, buf, faults>>

\* history_count is no reader's business: no revision.
PruneDelete(r) ==
    /\ req[r].pc = "delete"
    /\ checks' = [ip \in IPs |-> IF ip \in req[r].sel THEN Retained(checks[ip])
                                                      ELSE checks[ip]]
    /\ pool' = [ip \in IPs |-> IF ip \in req[r].sel /\ InPool(ip)
                               THEN [pool[ip] EXCEPT !.cnt = Cardinality(checks'[ip])]
                               ELSE pool[ip]]
    /\ Goto(r, "dead")
    /\ UNCHANGED <<version, resetVersion, ptr, now, buf, faults>>

PruneSelectDead(r) ==
    /\ req[r].pc = "dead"
    /\ Select(r, {ip \in req[r].prune : /\ InPool(ip)
                                        /\ pool[ip].cnt >= Retention
                                        /\ ~HasSuccess(ip)},
              "evict", "done")
    /\ UNCHANGED <<dbVars, now, buf, faults>>

\* The DELETE looks for a success once more.
EvictableAll(sel) == sel

Evictable(sel) == {ip \in sel : ~HasSuccess(ip)}

PruneEvict(r) ==
    /\ req[r].pc = "evict"
    /\ version' = version + 1
    /\ resetVersion' = version + 1
    /\ pool' = [ip \in IPs |-> IF ip \in Evictable(req[r].sel) THEN NoRow ELSE pool[ip]]
    /\ Goto(r, "done")
    /\ UNCHANGED <<checks, ptr, now, buf, faults>>

Reply(r) ==
    /\ req[r].pc = "done"
    /\ req' = [req EXCEPT ![r] = NoReq]
    /\ UNCHANGED <<dbVars, now, buf, faults>>

-----------------------------------------------------------------------------
(* PTR refresh, and failures                                               *)

\* savePTR, savePTRBatch: the cache entry and the stamp of the pool row in one
\* batch; without a pool row only the cache entry.
SavePTR(ip) ==
    /\ ptr[ip] < MaxPTR
    /\ version' = version + 1
    /\ ptr' = [ptr EXCEPT ![ip] = @ + 1]
    /\ pool' = [i \in IPs |-> IF i = ip /\ InPool(i)
                              THEN Stamped(pool[i])
                              ELSE pool[i]]
    /\ UNCHANGED <<checks, resetVersion, now, buf, req, faults>>

Fault(kind, max) ==
    /\ faults[kind] < max
    /\ faults' = [faults EXCEPT ![kind] = @ + 1]

\* An ingest request dies, or its response is lost: the scanner puts the batch
\* back.
FailIngestDropped(r) ==
    /\ req[r].kind = "ingest"
    /\ ~req[r].zombie
    /\ Fault("retry", MaxRetries)
    /\ req' = [req EXCEPT ![r] = NoReq]
    /\ UNCHANGED <<dbVars, now, buf>>

FailIngest(r) ==
    /\ req[r].kind = "ingest"
    /\ ~req[r].zombie
    /\ Fault("retry", MaxRetries)
    /\ buf' = buf \cup req[r].rows
    /\ req' = [req EXCEPT ![r] = NoReq]
    /\ UNCHANGED <<dbVars, now>>

\* The client times out while the request is still running.
TimeOut(r) ==
    /\ req[r].kind = "ingest"
    /\ ~req[r].zombie
    /\ Fault("zombie", MaxZombies)
    /\ buf' = buf \cup req[r].rows
    /\ req' = [req EXCEPT ![r].zombie = TRUE]
    /\ UNCHANGED <<dbVars, now>>

\* A statement of pruneCheckHistory fails in an ingest request: pruneOk is
\* false, the checks stay accepted.
FailPrune(r) ==
    /\ req[r].kind = "ingest"
    /\ req[r].pc \in PrunePCs
    /\ Fault("drop", MaxDrops)
    /\ Goto(r, "done")
    /\ UNCHANGED <<dbVars, now, buf>>

\* An on-demand request dies: nobody sends it again.
Drop(r) ==
    /\ req[r].kind = "probe"
    /\ Fault("drop", MaxDrops)
    /\ req' = [req EXCEPT ![r] = NoReq]
    /\ UNCHANGED <<dbVars, now, buf>>

-----------------------------------------------------------------------------
Handle(r) ==
    \/ InsertCheckRows(r)
    \/ UpdatePoolBatch(r)
    \/ IsKnownGood(r)
    \/ SaveRecheckResult(r)
    \/ UpdatePoolForCheck(r)
    \/ InsertPoolForCheck(r)
    \/ PruneSelectOver(r)
    \/ PruneDelete(r)
    \/ PruneSelectDead(r)
    \/ PruneEvict(r)
    \/ Reply(r)

Next ==
    \/ \E ip \in IPs, ok \in BOOLEAN : Scan(ip, ok)
    \/ Tick
    \/ \E r \in Requests, prune \in SUBSET IPs : Submit(r, prune)
    \/ \E r \in Requests, ip \in OnDemand, ok \in BOOLEAN : Probe(r, ip, ok)
    \/ \E r \in Requests : Handle(r)
    \/ \E ip \in IPs : SavePTR(ip)
    \/ \E r \in Requests : FailIngest(r) \/ TimeOut(r) \/ FailPrune(r) \/ Drop(r)

Spec == Init /\ [][Next]_vars

\* A request that does not die makes its steps, and the flusher sends what is
\* buffered.
Fairness ==
    /\ \A r \in Requests : WF_vars(Handle(r))
    /\ WF_vars(\E r \in Requests : Submit(r, IPs))

FairSpec == Spec /\ Fairness

-----------------------------------------------------------------------------
(* Properties                                                              *)

Quiet == buf = {} /\ \A r \in Requests : req[r].pc = "idle"

Newest(ip) == Latest(checks[ip])

\* A row leaves the pool only while no retained check of its address is a
\* success, whatever was inserted between the SELECT that called it dead and
\* the DELETE (pruneCheckHistory's second NOT EXISTS).
EvictsOnlyDead ==
    [][\A ip \in IPs : InPool(ip) /\ pool'[ip] = NoRow => ~HasSuccess(ip)]_vars

\* No success is lost: once all requests are through and none on demand has
\* died, an address with a retained success is in the pool, although pruning,
\* retries and probes on demand ran between the INSERT of the check and the
\* update of the pool (insertCheckRows / updatePoolBatch, saveRecheckResult /
\* updatePoolForCheck).
SuccessInPool ==
    Quiet /\ faults["drop"] = 0 => \A ip \in IPs : HasSuccess(ip) => InPool(ip)

\* With the scanner as the only writer, a pool row's status is that of the
\* newest recorded check, across failed and repeated batches (coalesceCheckRows,
\* updatePoolBatch).
StatusIsNewest ==
    Quiet => \A ip \in IPs :
      InPool(ip) /\ checks[ip] # {} => pool[ip].ok = Newest(ip).ok

\* With the scanner as the only writer, history_count never falls below the
\* number of rows it counts, so pruning is never late (the comment of
\* updatePoolBatch: only over-counts), unless as many requests fail as rows are
\* retained, or time passes between the two gates of one ingest.
CountCovers == \A ip \in IPs :
    InPool(ip) /\ Quiet => pool[ip].cnt >= Cardinality(checks[ip])

\* After a maintenance request, the history is within its bound and no address
\* with a full window of failures is left in the pool (pruneCheckHistory).
PruneComplete ==
    \A r \in Requests :
      req[r].pc = "done" /\ req[r].prune # {} /\ faults["drop"] = 0 =>
        \A ip \in req[r].prune :
          InPool(ip) =>
            /\ Cardinality(checks[ip]) <= Retention
            /\ Cardinality(checks[ip]) = Retention => HasSuccess(ip)

\* A success the scanner buffered eventually puts its address in the pool,
\* however its requests fail on the way (FailIngest: the flusher's requeue,
\* and the idempotent INSERT and upsert it relies on).
SuccessLands ==
    \A ip \in IPs : (\E c \in buf : c.ip = ip /\ c.ok) ~> InPool(ip)

-----------------------------------------------------------------------------
(* What readers see of the pool, for the refinement of PoolRevision        *)

Visible(ip) == [rev |-> pool[ip].rev,
                val |-> [ok |-> pool[ip].ok, last |-> pool[ip].last, ptr |-> ptr[ip]]]

Readers == INSTANCE PoolRevision WITH
    Vals <- [ok : BOOLEAN, last : Times, ptr : 0..MaxPTR],
    pool <- [ip \in IPs |-> IF InPool(ip) THEN Visible(ip) ELSE NoRow]

\* Every writer keeps the promise the delta protocol rests on: what a reader can
\* see of a row changes only with a fresh revision, and a row goes only with a
\* raised reset_version.
Revisions == Readers!PoolSpec

=============================================================================
