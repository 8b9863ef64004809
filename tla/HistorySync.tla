---------------------------- MODULE HistorySync -----------------------------
(***************************************************************************)
(* The check history of one address as a visitor sees it: GET /api/history *)
(* with its edge cache, and the query page, which keeps the whole retained *)
(* history in IndexedDB and asks for it again only when MAX(id) of         *)
(* ip_checks has moved.                                                    *)
(*                                                                         *)
(* A check is its time: (ip, checked_at) is unique, and the answer carries *)
(* no ids.  Ids are rowids without AUTOINCREMENT: the next one is the      *)
(* largest in the table, of any address, plus one.  hist is a history      *)
(* variable, what a reader saw at each version; only properties read it.   *)
(*                                                                         *)
(* A definition placed before another whose name it extends is a faulty    *)
(* variant of it, used to show that the properties notice: no              *)
(* specification uses it.                                                  *)
(***************************************************************************)
EXTENDS Integers, FiniteSets, FiniteSetsExt

CONSTANTS
    Tabs,         \* open query pages for the address, sharing one IndexedDB
    Slots,        \* syncs one page may have under way at the same time
    None,         \* null
    Retention,    \* CHECK_HISTORY_RETENTION
    Late,         \* whether checks come later than Retention newer ones
    Early,        \* whether a probe can end before its page has read IndexedDB
    MaxTime,      \* bound on check times
    MaxId         \* bound on ids

ASSUME HistoryAssumption ==
    /\ Retention \in Nat \ {0}
    /\ {Late, Early} \subseteq BOOLEAN
    /\ {MaxTime, MaxId} \subseteq Nat

VARIABLES
    rows,    \* ip_checks: the rows of the address
    pool,    \* ip_pool: its history_count and last_checked_at
    other,   \* the largest id among the rows of other addresses
    hist,    \* the history at every version there has been
    edge,    \* the edge cache, by version
    idb,     \* the snapshot in IndexedDB
    page,    \* the state of each page
    sync     \* its calls of sync()

vars == <<rows, pool, other, hist, edge, idb, page, sync>>

Times == 1..MaxTime
Versions == 0..MaxId
Rows == [id : 1..MaxId, ts : Times]
Histories == SUBSET Times
Snapshots == [version : Versions, checks : Histories]

\* phase: how far opening the cache is, "none" without IndexedDB; read: what
\* readCache found; cache: the snapshot on display.
Pages == [phase : {"opening", "reading", "open", "none"},
          read : Snapshots \cup {None}, cache : Snapshots \cup {None}]

\* since: the version the request names; version, reset, checks: of the
\* answer; asked: the history when sync() was called, for the properties.
Syncs == [pc : {"idle", "shown", "version", "match", "load", "verify", "receive", "write"},
          since : Versions \cup {None}, version : Versions, reset : BOOLEAN,
          checks : Histories, asked : Histories]

ASSUME HistoryNoneAssumption == None \notin Snapshots \cup Versions

Ended(pc) == [pc |-> pc, since |-> None, version |-> 0, reset |-> FALSE,
              checks |-> {}, asked |-> {}]

NewPage == [phase |-> "opening", read |-> None, cache |-> None]

TypeOK ==
    /\ rows \in SUBSET Rows
    /\ pool \in [count : Nat, at : 0..MaxTime]
    /\ other \in Versions
    /\ DOMAIN hist \subseteq Versions
    /\ DOMAIN edge \subseteq Versions
    /\ idb \in Snapshots \cup {None}
    /\ page \in [Tabs -> Pages]
    /\ sync \in [Tabs -> [Slots -> Syncs]]

-----------------------------------------------------------------------------
(* Operators on the table                                                  *)

\* SELECT COALESCE(MAX(id), 0)
IpHistoryVersionNull(table) == IF table = {} THEN -1 ELSE Max({r.id : r \in table})

IpHistoryVersion(table) == IF table = {} THEN 0 ELSE Max({r.id : r \in table})

\* ORDER BY checked_at DESC LIMIT retention
Newest(times) == {t \in times : Cardinality({u \in times : u > t}) < Retention}

IpHistory(table) == Newest({r.ts : r \in table})

\* ROW_NUMBER() OVER (ORDER BY checked_at DESC) <= retention
RetainedOneLess(table) ==
    {r \in table : Cardinality({q \in table : q.ts > r.ts}) < Retention - 1}

Retained(table) ==
    {r \in table : Cardinality({q \in table : q.ts > r.ts}) < Retention}

NextId(table) == Max({r.id : r \in table} \cup {other}) + 1

Init ==
    /\ rows = {}
    /\ pool = [count |-> 0, at |-> 0]
    /\ other = 0
    /\ hist = [v \in {0} |-> {}]
    /\ edge = <<>>
    /\ idb = None
    /\ page = [t \in Tabs |-> NewPage]
    /\ sync = [t \in Tabs |-> [s \in Slots |-> Ended("idle")]]

-----------------------------------------------------------------------------
(* The table                                                               *)

\* A check is saved, in the order the requests come and not that of the check
\* times.  Only gwsdb ingest, given an old log, and gwsdb recheck bring times of
\* their own choice: with Late, older than everything retained.  The update of
\* the pool that follows counts rows newer than its previous last_checked_at;
\* readers of the history do not see it, so it is part of the step.
InsertCheck(ts) ==
    /\ NextId(rows) <= MaxId
    /\ Late \/ Cardinality({r \in rows : r.ts > ts}) < Retention
    /\ ts \notin {r.ts : r \in rows}
    /\ rows' = rows \cup {[id |-> NextId(rows), ts |-> ts]}
    /\ pool' = [count |-> pool.count + Cardinality({r \in rows' : r.ts > pool.at}), at |-> ts]
    /\ hist' = [v \in DOMAIN hist \cup {IpHistoryVersion(rows')} |->
                  IF v \in DOMAIN hist THEN hist[v] ELSE IpHistory(rows')]
    /\ UNCHANGED <<other, edge, idb, page, sync>>

\* A check of another address is saved, and takes an id.
InsertOther ==
    /\ NextId(rows) <= MaxId
    /\ other' = NextId(rows)
    /\ UNCHANGED <<rows, pool, hist, edge, idb, page, sync>>

\* The DELETE and recount of pruneCheckHistory, when history_count is over the
\* limit.  That an address may leave the pool is left out: its checks stay.
PruneCheckHistory ==
    /\ pool.count > Retention
    /\ rows' = Retained(rows)
    /\ pool' = [pool EXCEPT !.count = Cardinality(rows')]
    /\ UNCHANGED <<other, hist, edge, idb, page, sync>>

-----------------------------------------------------------------------------
(* The page: sync() and how it starts                                      *)

Busy(t, s) == sync[t][s].pc \notin {"idle", "shown"}

\* sync() up to the fetch, with cache as its snapshot
Called(t, s, cache) ==
    sync' = [sync EXCEPT ![t][s] = [Ended("version") EXCEPT
                !.since = IF cache = None THEN None ELSE cache.version,
                !.asked = IpHistory(rows)]]

\* gwsdb:history-refresh, after an on-demand probe
Refresh(t, s) ==
    /\ ~Busy(t, s)
    /\ Early \/ page[t].phase \in {"open", "none"}
    /\ Called(t, s, page[t].cache)
    /\ UNCHANGED <<rows, pool, other, hist, edge, idb, page>>

\* openCache succeeds, and readCache reads before any later write of the page.
OpenCache(t) ==
    /\ page[t].phase = "opening"
    /\ page' = [page EXCEPT ![t].phase = "reading", ![t].read = idb]
    /\ UNCHANGED <<rows, pool, other, hist, edge, idb, sync>>

\* The callback of readCache replaces whatever an early refresh has shown, and
\* syncs.
ReadCache(t, s) ==
    /\ page[t].phase = "reading"
    /\ ~Busy(t, s)
    /\ page' = [page EXCEPT ![t].phase = "open", ![t].cache = page[t].read, ![t].read = None]
    /\ Called(t, s, page[t].read)
    /\ UNCHANGED <<rows, pool, other, hist, edge, idb>>

\* Either of them fails: no IndexedDB for this page.
OpenFails(t, s) ==
    /\ page[t].phase \in {"opening", "reading"}
    /\ ~Busy(t, s)
    /\ page' = [page EXCEPT ![t].phase = "none", ![t].cache = None, ![t].read = None]
    /\ Called(t, s, None)
    /\ UNCHANGED <<rows, pool, other, hist, edge, idb>>

\* The page is closed and opened again; requests under way are gone.
Reopen(t) ==
    /\ page[t].phase \in {"open", "none"}
    /\ page' = [page EXCEPT ![t] = NewPage]
    /\ sync' = [sync EXCEPT ![t] = [s \in Slots |-> Ended("idle")]]
    /\ UNCHANGED <<rows, pool, other, hist, edge, idb>>

\* The request, its answer or the IndexedDB transaction fails: showLoadError.
SyncFails(t, s) ==
    /\ Busy(t, s)
    /\ sync' = [sync EXCEPT ![t][s] = Ended("idle")]
    /\ UNCHANGED <<rows, pool, other, hist, edge, idb, page>>

-----------------------------------------------------------------------------
(* GET /api/history                                                        *)

\* The version decides: unchanged, or a full answer, from the edge cache unless
\* the client is ahead of the table.
ReadVersion(t, s) ==
    /\ sync[t][s].pc = "version"
    /\ LET v == IpHistoryVersion(rows)
           since == sync[t][s].since
           ahead == since # None /\ since > v
       IN sync' = [sync EXCEPT ![t][s].version = v, ![t][s].reset = ahead,
                               ![t][s].pc = IF since = v THEN "receive"
                                            ELSE IF ahead THEN "load" ELSE "match"]
    /\ UNCHANGED <<rows, pool, other, hist, edge, idb, page>>

\* caches.default.match: entries expire and are per data centre, so a lookup
\* may miss.
MatchEdge(t, s) ==
    /\ sync[t][s].pc = "match"
    /\ \/ /\ sync[t][s].version \in DOMAIN edge
          /\ sync' = [sync EXCEPT ![t][s].pc = "receive",
                                  ![t][s].checks = edge[sync[t][s].version]]
       \/ sync' = [sync EXCEPT ![t][s].pc = "load"]
    /\ UNCHANGED <<rows, pool, other, hist, edge, idb, page>>

LoadHistory(t, s) ==
    /\ sync[t][s].pc = "load"
    /\ sync' = [sync EXCEPT ![t][s].pc = "verify", ![t][s].checks = IpHistory(rows)]
    /\ UNCHANGED <<rows, pool, other, hist, edge, idb, page>>

\* whether the answer may still go out under the version read first
StillAny(version) == TRUE

Still(version) == IpHistoryVersion(rows) = version

\* The version is read again: 503 when it moved, else the answer goes out and,
\* unless it is a reset, into the edge cache.
SendHistory(t, s) ==
    /\ sync[t][s].pc = "verify"
    /\ IF Still(sync[t][s].version)
       THEN /\ sync' = [sync EXCEPT ![t][s].pc = "receive"]
            /\ edge' = IF sync[t][s].reset THEN edge
                       ELSE [v \in DOMAIN edge \cup {sync[t][s].version} |->
                               IF v = sync[t][s].version THEN sync[t][s].checks ELSE edge[v]]
       ELSE /\ sync' = [sync EXCEPT ![t][s] = Ended("idle")]
            /\ edge' = edge
    /\ UNCHANGED <<rows, pool, other, hist, idb, page>>

-----------------------------------------------------------------------------
(* The page: what becomes of the answer                                    *)

\* the two early returns of sync()
KeepsIfAny(cache, answer) == cache # None

Keeps(cache, answer) ==
    /\ cache # None
    /\ \/ answer.version = cache.version
       \/ ~answer.reset /\ answer.version < cache.version

Snapshot(answer) == [version |-> answer.version, checks |-> answer.checks]

Shown(t, s, fresh) ==
    /\ page' = [page EXCEPT ![t].cache = IF @ = None \/ fresh.version # @.version
                                         THEN fresh ELSE @]
    /\ sync' = [sync EXCEPT ![t][s] = Ended("shown")]

Receive(t, s) ==
    /\ sync[t][s].pc = "receive"
    /\ \/ /\ Keeps(page[t].cache, sync[t][s])
          /\ Shown(t, s, page[t].cache)
       \/ /\ ~Keeps(page[t].cache, sync[t][s])
          /\ page[t].phase \in {"opening", "none"}
          /\ Shown(t, s, Snapshot(sync[t][s]))
       \/ /\ ~Keeps(page[t].cache, sync[t][s])
          /\ page[t].phase \in {"reading", "open"}
          /\ sync' = [sync EXCEPT ![t][s].pc = "write"]
          /\ page' = page
    /\ UNCHANGED <<rows, pool, other, hist, edge, idb>>

\* what the transaction of writeCache leaves in the store
SavedAlways(answer) == Snapshot(answer)

Saved(answer) ==
    IF ~answer.reset /\ idb # None /\ idb.version > answer.version
    THEN idb ELSE Snapshot(answer)

\* One readwrite transaction, and its oncomplete: transactions of a page
\* complete in order.
WriteCache(t, s) ==
    /\ sync[t][s].pc = "write"
    /\ idb' = Saved(sync[t][s])
    /\ Shown(t, s, Saved(sync[t][s]))
    /\ UNCHANGED <<rows, pool, other, hist, edge>>

-----------------------------------------------------------------------------
Next ==
    \/ \E ts \in Times : InsertCheck(ts)
    \/ InsertOther
    \/ PruneCheckHistory
    \/ \E t \in Tabs : OpenCache(t) \/ Reopen(t)
    \/ \E t \in Tabs, s \in Slots :
         \/ Refresh(t, s) \/ ReadCache(t, s) \/ OpenFails(t, s) \/ SyncFails(t, s)
         \/ ReadVersion(t, s) \/ MatchEdge(t, s) \/ LoadHistory(t, s)
         \/ SendHistory(t, s) \/ Receive(t, s) \/ WriteCache(t, s)

Spec == Init /\ [][Next]_vars

-----------------------------------------------------------------------------
(* Properties                                                              *)

\* "A stable version also means the newest retained rows are unchanged"
\* (store.ts, ipHistoryVersion): a version never stands for two histories,
\* whatever is inserted, late or not, and pruned.  Everything below rests on it.
VersionDetermines == IpHistory(rows) = hist[IpHistoryVersion(rows)]

ExactSnapshot(snap) == snap # None => snap.checks = hist[snap.version]

\* What a page shows, what IndexedDB keeps and what the edge cache serves is
\* the whole history of the version it claims: never empty because an answer
\* said "unchanged", never read while a check was being saved.
HistoryExact ==
    /\ ExactSnapshot(idb)
    /\ \A t \in Tabs : ExactSnapshot(page[t].cache)
    /\ \A v \in DOMAIN edge : edge[v] = hist[v]

\* A sync() that ends well shows nothing older than the history when it was
\* called: after an on-demand probe the refresh shows its result, whichever
\* answers, pages and caches are in between.
SyncShowsProbe ==
    [][\A t \in Tabs, s \in Slots :
         sync[t][s].pc \in {"receive", "write"} /\ sync'[t][s].pc = "shown"
           => LET shown == page'[t].cache.checks
              IN shown = Newest(shown \cup sync[t][s].asked)]_vars

\* Whatever the order of answers and transactions, neither IndexedDB nor a page
\* that has read it goes back: the version grows, and a check leaves only when
\* newer ones push it out.
NotOlder(new, old) ==
    old # None => /\ new.version >= old.version
                  /\ new.checks = Newest(new.checks \cup old.checks)

NeverBack ==
    [][/\ NotOlder(idb', idb)
       /\ \A t \in Tabs : page[t].phase = "open" /\ page'[t].phase = "open"
            => NotOlder(page'[t].cache, page[t].cache)]_vars

=============================================================================
