------------------------------ MODULE PoolSync ------------------------------
(***************************************************************************)
(* The readers of the pool: GET /api/pool and GET /api/pool/changes, the   *)
(* edge cache in front of each, and the browser tabs that keep one shared  *)
(* IndexedDB snapshot up to date with them (public/static/home.js).        *)
(*                                                                         *)
(* Every await of a handler and every IndexedDB transaction is a step of   *)
(* its own, so writers, other requests and other tabs interleave between   *)
(* any two of them.  A tab has at most one request under way, so a request *)
(* is named by its tab.  A lookup may miss although an entry exists: the   *)
(* entry may live in another colo or have expired.                         *)
(*                                                                         *)
(* A definition placed before another whose name it extends is a faulty    *)
(* variant of it, used to show that the properties notice: no              *)
(* specification uses it.                                                  *)
(***************************************************************************)
EXTENDS PoolRevision, FiniteSets

CONSTANTS
    Tabs,         \* browser tabs of one profile, sharing one IndexedDB
    MaxVersion,   \* bound on the number of pool commits
    MaxFailures   \* bound on lost requests and closed tabs

ASSUME BoundsAssumption == MaxVersion \in Nat /\ MaxFailures \in Nat

VARIABLES
    hist,      \* history variable: hist[v] is the pool and reset at version v
    edgeFull,  \* edge cache of /api/pool, keyed by version
    edgeChg,   \* edge cache of /api/pool/changes, keyed by since and version
    meta,      \* IndexedDB: the version of the snapshot, NoMeta without one
    rows,      \* IndexedDB: the row store
    tab,       \* per tab, the load under way
    failures   \* lost requests so far

readerVars == <<edgeFull, edgeChg, meta, rows, tab, failures>>
vars == <<pool, version, resetVersion, hist, readerVars>>

NoMeta == -1
NoRows == [ip \in IPs |-> NoRow]

(***************************************************************************)
(* pc names the next step of the load:                                     *)
(*   idle                       no load under way                          *)
(*   changes, reset, chgCache,  handler of /api/pool/changes: read version,*)
(*     chgLoad, chgCheck          read reset_version, match, load, re-read *)
(*   full, fullCache, fullLoad, handler of /api/pool: the same steps       *)
(*     fullCheck                  without the reset                        *)
(*   apply, replace             the browser has a response to store        *)
(*   render                     stored; read the snapshot back and show it *)
(***************************************************************************)
FullPCs == {"full", "fullCache", "fullLoad", "fullCheck", "replace"}
ChgPCs == {"changes", "reset", "chgCache", "chgLoad", "chgCheck", "apply"}
PCs == {"idle", "render"} \cup FullPCs \cup ChgPCs

\* since: the version the delta is relative to; ver: the version the handler
\* read first; got: the rows it loaded.
Loads == [pc : PCs, since : Int, ver : Nat, got : Pools]

At(pc, since, ver, got) == [pc |-> pc, since |-> since, ver |-> ver, got |-> got]

Fresh(pc) == At(pc, NoMeta, 0, NoRows)

TypeOK ==
    /\ PoolTypeOK
    /\ hist \in [0..version -> [pool : Pools, reset : Nat]]
    /\ edgeFull \in SUBSET [ver : Nat, got : Pools]
    /\ edgeChg \in SUBSET [since : Int, ver : Nat, got : Pools]
    /\ meta \in Nat \cup {NoMeta}
    /\ rows \in Pools
    /\ tab \in [Tabs -> Loads]
    /\ failures \in Nat

Init ==
    /\ PoolInit
    /\ hist = [v \in {0} |-> [pool |-> NoRows, reset |-> 0]]
    /\ edgeFull = {}
    /\ edgeChg = {}
    /\ meta = NoMeta
    /\ rows = NoRows
    /\ tab = [t \in Tabs |-> Fresh("idle")]
    /\ failures = 0

-----------------------------------------------------------------------------
(* The writers, and the history of what they committed.                    *)

Record == hist' = [v \in 0..version' |->
                     IF v = version' THEN [pool |-> pool', reset |-> resetVersion']
                                     ELSE hist[v]]

Write(touched, val) ==
    /\ version < MaxVersion
    /\ Publish(touched, val)
    /\ Record
    /\ UNCHANGED readerVars

Remove(dead) ==
    /\ version < MaxVersion
    /\ Evict(dead)
    /\ Record
    /\ UNCHANGED readerVars

-----------------------------------------------------------------------------
(* One step of the load of tab t: it goes on as `load'.                    *)

Continue(t, load) ==
    /\ tab' = [tab EXCEPT ![t] = load]
    /\ UNCHANGED <<poolVars, hist>>

-----------------------------------------------------------------------------
(* GET /api/pool/changes?since=...                                         *)

\* rows a delta carries: revision in (since, through]
Changed(p, since, through) ==
    [ip \in IPs |-> IF p[ip] # NoRow /\ p[ip].rev > since /\ p[ip].rev <= through
                    THEN p[ip] ELSE NoRow]

ChangesVersion(t) ==
    /\ tab[t].pc = "changes"
    /\ Continue(t, At("reset", tab[t].since, version, NoRows))
    /\ UNCHANGED <<edgeFull, edgeChg, meta, rows, failures>>

\* A client ahead of the server or behind the last deletion must start over.
MustResetAhead(since, ver) == since > ver

MustReset(since, ver) == since > ver \/ since < resetVersion

\* One that must start over goes on to fetchFull; one that is up to date gets
\* an empty delta and keeps its snapshot; any other delta goes on to the edge
\* cache.
ChangesReset(t) ==
    /\ tab[t].pc = "reset"
    /\ LET since == tab[t].since
           ver == tab[t].ver
       IN Continue(t, IF MustReset(since, ver) THEN Fresh("full")
                      ELSE IF since = ver THEN Fresh("idle")
                      ELSE At("chgCache", since, ver, NoRows))
    /\ UNCHANGED <<edgeFull, edgeChg, meta, rows, failures>>

ChangesHit(t) ==
    /\ tab[t].pc = "chgCache"
    /\ \E e \in edgeChg :
         /\ e.since = tab[t].since
         /\ e.ver = tab[t].ver
         /\ Continue(t, At("apply", tab[t].since, tab[t].ver, e.got))
    /\ UNCHANGED <<edgeFull, edgeChg, meta, rows, failures>>

ChangesMiss(t) ==
    /\ tab[t].pc = "chgCache"
    /\ Continue(t, At("chgLoad", tab[t].since, tab[t].ver, NoRows))
    /\ UNCHANGED <<edgeFull, edgeChg, meta, rows, failures>>

ChangesLoad(t) ==
    /\ tab[t].pc = "chgLoad"
    /\ Continue(t, At("chgCheck", tab[t].since, tab[t].ver,
                      Changed(pool, tab[t].since, tab[t].ver)))
    /\ UNCHANGED <<edgeFull, edgeChg, meta, rows, failures>>

\* 503 when a writer committed meanwhile; otherwise cache the body and send it.
ChangesRetry(t) ==
    /\ tab[t].pc = "chgCheck"
    /\ version # tab[t].ver
    /\ Continue(t, Fresh("idle"))
    /\ UNCHANGED <<edgeFull, edgeChg, meta, rows, failures>>

ChangesSend(t) ==
    /\ tab[t].pc = "chgCheck"
    /\ version = tab[t].ver
    /\ edgeChg' = edgeChg \cup
         {[since |-> tab[t].since, ver |-> tab[t].ver, got |-> tab[t].got]}
    /\ Continue(t, At("apply", tab[t].since, tab[t].ver, tab[t].got))
    /\ UNCHANGED <<edgeFull, meta, rows, failures>>

-----------------------------------------------------------------------------
(* GET /api/pool                                                           *)

FullVersion(t) ==
    /\ tab[t].pc = "full"
    /\ Continue(t, At("fullCache", NoMeta, version, NoRows))
    /\ UNCHANGED <<edgeFull, edgeChg, meta, rows, failures>>

FullHit(t) ==
    /\ tab[t].pc = "fullCache"
    /\ \E e \in edgeFull :
         /\ e.ver = tab[t].ver
         /\ Continue(t, At("replace", NoMeta, tab[t].ver, e.got))
    /\ UNCHANGED <<edgeFull, edgeChg, meta, rows, failures>>

FullMiss(t) ==
    /\ tab[t].pc = "fullCache"
    /\ Continue(t, At("fullLoad", NoMeta, tab[t].ver, NoRows))
    /\ UNCHANGED <<edgeFull, edgeChg, meta, rows, failures>>

FullLoad(t) ==
    /\ tab[t].pc = "fullLoad"
    /\ Continue(t, At("fullCheck", NoMeta, tab[t].ver, pool))
    /\ UNCHANGED <<edgeFull, edgeChg, meta, rows, failures>>

FullRetry(t) ==
    /\ tab[t].pc = "fullCheck"
    /\ version # tab[t].ver
    /\ Continue(t, Fresh("idle"))
    /\ UNCHANGED <<edgeFull, edgeChg, meta, rows, failures>>

FullSendUnchecked(t) ==
    /\ tab[t].pc = "fullCheck"
    /\ edgeFull' = edgeFull \cup {[ver |-> tab[t].ver, got |-> tab[t].got]}
    /\ Continue(t, At("replace", NoMeta, tab[t].ver, tab[t].got))
    /\ UNCHANGED <<edgeChg, meta, rows, failures>>

FullSend(t) ==
    /\ tab[t].pc = "fullCheck"
    /\ version = tab[t].ver
    /\ edgeFull' = edgeFull \cup {[ver |-> tab[t].ver, got |-> tab[t].got]}
    /\ Continue(t, At("replace", NoMeta, tab[t].ver, tab[t].got))
    /\ UNCHANGED <<edgeChg, meta, rows, failures>>

-----------------------------------------------------------------------------
(* The browser: home.js                                                    *)

\* readCache, then syncCache asks for a delta or, without a snapshot, for
\* everything.
Load(t) ==
    /\ tab[t].pc = "idle"
    /\ Continue(t, IF meta = NoMeta THEN Fresh("full") ELSE At("changes", meta, 0, NoRows))
    /\ UNCHANGED <<edgeFull, edgeChg, meta, rows, failures>>

\* A row goes in unless the stored one is newer.
MergeAll(stored, got) ==
    [ip \in IPs |-> IF got[ip] # NoRow THEN got[ip] ELSE stored[ip]]

Merge(stored, got) ==
    [ip \in IPs |->
       IF got[ip] # NoRow /\ (stored[ip] = NoRow \/ stored[ip].rev <= got[ip].rev)
       THEN got[ip] ELSE stored[ip]]

\* The version goes in unless the stored one is newer.
AdvanceNever(ver) == meta

Advance(ver) == IF meta <= ver THEN ver ELSE meta

\* One read-write transaction.
ApplyChanges(t) ==
    /\ tab[t].pc = "apply"
    /\ rows' = Merge(rows, tab[t].got)
    /\ meta' = Advance(tab[t].ver)
    /\ Continue(t, Fresh("render"))
    /\ UNCHANGED <<edgeFull, edgeChg, failures>>

\* One read-write transaction: replace everything unless what is stored is of
\* a newer version.
WriteFullCacheAlways(t) ==
    /\ tab[t].pc = "replace"
    /\ meta' = tab[t].ver
    /\ rows' = tab[t].got
    /\ Continue(t, Fresh("render"))
    /\ UNCHANGED <<edgeFull, edgeChg, failures>>

WriteFullCache(t) ==
    /\ tab[t].pc = "replace"
    /\ IF meta > tab[t].ver
       THEN UNCHANGED <<meta, rows>>
       ELSE /\ meta' = tab[t].ver
            /\ rows' = tab[t].got
    /\ Continue(t, Fresh("render"))
    /\ UNCHANGED <<edgeFull, edgeChg, failures>>

\* The read-back transaction and renderData: what is shown is what is stored.
Render(t) ==
    /\ tab[t].pc = "render"
    /\ Continue(t, Fresh("idle"))
    /\ UNCHANGED <<edgeFull, edgeChg, meta, rows, failures>>

\* The request or its response is lost, or the tab is closed: showLoadError
\* keeps whatever is stored.
Fail(t) ==
    /\ tab[t].pc # "idle"
    /\ failures < MaxFailures
    /\ failures' = failures + 1
    /\ Continue(t, Fresh("idle"))
    /\ UNCHANGED <<edgeFull, edgeChg, meta, rows>>

-----------------------------------------------------------------------------
Step(t) ==
    \/ ChangesVersion(t)
    \/ ChangesReset(t)
    \/ ChangesHit(t)
    \/ ChangesMiss(t)
    \/ ChangesLoad(t)
    \/ ChangesRetry(t)
    \/ ChangesSend(t)
    \/ FullVersion(t)
    \/ FullHit(t)
    \/ FullMiss(t)
    \/ FullLoad(t)
    \/ FullRetry(t)
    \/ FullSend(t)
    \/ ApplyChanges(t)
    \/ WriteFullCache(t)
    \/ Render(t)

Next ==
    \/ \E touched \in SUBSET IPs : \E val \in [touched -> Vals] : Write(touched, val)
    \/ \E dead \in SUBSET IPs : Remove(dead)
    \/ \E t \in Tabs : Load(t) \/ Step(t) \/ Fail(t)

Spec == Init /\ [][Next]_vars

\* A request that is not lost is answered and its answer stored; a visitor
\* keeps coming back.  Nothing is assumed of the writers.
Fairness == \A t \in Tabs : WF_vars(Load(t)) /\ WF_vars(Step(t))

FairSpec == Spec /\ Fairness

-----------------------------------------------------------------------------
(* Properties                                                              *)

\* What a response promises, whatever was committed while it was produced and
\* whichever cache it came from: a full response is the pool of the version it
\* carries, and a delta turns the pool of `since' into the pool of its version
\* (functions/api/pool.ts and pool/changes.ts, the version re-read before the
\* body is cached).
ResponsesExact ==
    \A t \in Tabs :
      /\ tab[t].pc = "replace" => tab[t].got = hist[tab[t].ver].pool
      /\ tab[t].pc = "apply" =>
           Merge(hist[tab[t].since].pool, tab[t].got) = hist[tab[t].ver].pool

\* With several tabs writing one IndexedDB, in any order and with responses of
\* any age, the stored rows are those of the stored version, except for rows
\* that the server had deleted by then (home.js applyChanges, writeFullCache:
\* no update is lost and no row goes back to an older state).
AtWorstDeleted ==
    meta # NoMeta =>
      \A ip \in IPs :
        \/ rows[ip] = hist[meta].pool[ip]
        \/ /\ hist[meta].pool[ip] = NoRow
           /\ rows[ip].rev < hist[meta].reset

\* One tab alone always holds exactly the pool of the version it stored
\* (home.js applyChanges together with the reset of pool/changes.ts).
SnapshotExact == meta # NoMeta => rows = hist[meta].pool

\* The stored version never goes back, so a slow response cannot undo what a
\* faster one brought (the version comparisons of writeFullCache and
\* applyChanges).
NeverBack == [][meta' >= meta]_meta

\* Once writers and failures stop, every tab's next loads bring the stored
\* version up to the server's and keep it there (load, syncCache; the 503 of a
\* racing handler is only a delay).
CatchesUp == <>[](meta = version)

\* Migration 0015: delta clients discard their snapshot "instead of retaining
\* a deleted row forever".
DeletedRowsGo ==
    \A ip \in IPs :
      (rows[ip] # NoRow /\ pool[ip] = NoRow) ~> ~(rows[ip] # NoRow /\ pool[ip] = NoRow)

-----------------------------------------------------------------------------
(* The inductive invariant behind AtWorstDeleted and ResponsesExact.       *)

\* What the revision scheme makes true of any two committed versions m <= n.
HistNow == hist[version] = [pool |-> pool, reset |-> resetVersion]

RevsBounded ==
    \A n \in 0..version : \A ip \in IPs :
      hist[n].pool[ip] # NoRow => hist[n].pool[ip].rev <= n

ResetsGrow ==
    \A m, n \in 0..version : m <= n => hist[m].reset <= hist[n].reset /\ hist[n].reset <= n

\* a row of version n that no commit touched after m was the same at m
Untouched ==
    \A m, n \in 0..version : \A ip \in IPs :
      m <= n /\ hist[n].pool[ip] # NoRow /\ hist[n].pool[ip].rev <= m
        => hist[m].pool[ip] = hist[n].pool[ip]

\* a row that is gone by version n was deleted by a reset after m
Deleted ==
    \A m, n \in 0..version : \A ip \in IPs :
      m <= n /\ hist[m].pool[ip] # NoRow /\ hist[n].pool[ip] = NoRow
        => m < hist[n].reset

History == HistNow /\ RevsBounded /\ ResetsGrow /\ Untouched /\ Deleted

\* got is the delta from since to ver, and no row was deleted in between
IsDelta(since, ver, got) ==
    /\ 0 <= since /\ since <= ver /\ ver <= version
    /\ hist[ver].reset <= since
    /\ got = Changed(hist[ver].pool, since, ver)

EdgeExact ==
    /\ \A e \in edgeFull : e.ver <= version /\ e.got = hist[e.ver].pool
    /\ \A e \in edgeChg : IsDelta(e.since, e.ver, e.got)

\* what the load of one tab may rely on at each of its steps
LoadOK(l) ==
    /\ l.ver <= version
    /\ l.pc \in ChgPCs => 0 <= l.since /\ l.since <= meta
    /\ l.pc \in {"chgCache", "chgLoad", "chgCheck"} =>
         l.since <= l.ver /\ hist[l.ver].reset <= l.since
    /\ l.pc = "chgCheck" /\ l.ver = version => l.got = Changed(pool, l.since, l.ver)
    /\ l.pc = "fullCheck" /\ l.ver = version => l.got = pool
    /\ l.pc = "apply" => IsDelta(l.since, l.ver, l.got)
    /\ l.pc = "replace" => l.got = hist[l.ver].pool

LoadsOK == \A t \in Tabs : LoadOK(tab[t])

Inv ==
    /\ History
    /\ EdgeExact
    /\ LoadsOK
    /\ meta <= version
    /\ AtWorstDeleted

=============================================================================
